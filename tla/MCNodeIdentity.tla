--------------------------- MODULE MCNodeIdentity ---------------------------
(***************************************************************************)
(* NodeIdentity for TLC: no definition looks into a token, so permuting    *)
(* the tokens changes nothing.                                             *)
(***************************************************************************)
EXTENDS NodeIdentity, TLC

TokenSymmetry == Permutations(Tokens)

=============================================================================
