--------------------------- MODULE MCReplayGuard ---------------------------
(***************************************************************************)
(* ReplayGuard for TLC: nonces are interchangeable.                        *)
(***************************************************************************)
EXTENDS ReplayGuard, TLC

NonceSymmetry == Permutations(Nonces)

===========================================================================
