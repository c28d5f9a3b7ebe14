---------------------------- MODULE TlsMaterial ----------------------------
(***************************************************************************)
(* The TLS pair of a node: ensure() and generate() of node_agent/tls.py,   *)
(* called by the agent when it is imported and by the command line (info   *)
(* and fingerprint), which may run at the same time.  A pair has a number; *)
(* the panel pins the certificate of the number it was shown.              *)
(***************************************************************************)
EXTENDS Naturals

CONSTANTS
    Processes,   \* processes that call ensure(): the agent, command lines
    MaxPairs     \* bound: key pairs generated

ASSUME TlsAssumption == MaxPairs \in Nat \ {0}

None == 0

VARIABLES
    cert, key,           \* the two files, by the number of their pair
    certPart, keyPart,   \* their .part files, shared by all processes
    proc,                \* process -> where in generate() it is, for which pair
    pairs,               \* pairs generated
    shown,               \* numbers printed, served or handed to the panel
    raced                \* history: two processes were in generate() at once

files == <<cert, key, certPart, keyPart>>
vars  == <<files, proc, pairs, shown, raced>>

Out == [at |-> "out", pair |-> None]

(* No pair yet, or one that the operator has mounted.                      *)
Init ==
    /\ pairs \in {0, 1}
    /\ cert = pairs /\ key = pairs
    /\ certPart = None /\ keyPart = None
    /\ proc = [p \in Processes |-> Out]
    /\ shown = {} /\ raced = FALSE

---------------------------------------------------------------------------
Advance(p, at) == proc' = [proc EXCEPT ![p].at = at]

(* Mutant of Load: one file is taken for the pair.                         *)
LoadEither(p) ==
    /\ proc[p] = Out /\ (cert # None \/ key # None)
    /\ shown' = shown \cup {cert}
    /\ UNCHANGED <<files, proc, pairs, raced>>

(* ensure() finds both files and reads the certificate ...                 *)
Load(p) ==
    /\ proc[p] = Out /\ cert # None /\ key # None
    /\ shown' = shown \cup {cert}
    /\ UNCHANGED <<files, proc, pairs, raced>>

(* ... or one is missing, and generate() makes a new pair.                 *)
Generate(p) ==
    /\ proc[p] = Out /\ (cert = None \/ key = None)
    /\ pairs < MaxPairs
    /\ pairs' = pairs + 1
    /\ proc' = [proc EXCEPT ![p] = [at |-> "keypart", pair |-> pairs + 1]]
    /\ raced' = (raced \/ \E q \in Processes : proc[q] # Out)
    /\ UNCHANGED <<files, shown>>

WriteKey(p) ==
    /\ proc[p].at = "keypart"
    /\ keyPart' = proc[p].pair
    /\ Advance(p, "key")
    /\ UNCHANGED <<cert, key, certPart, pairs, shown, raced>>

(* Mutant of RenameKey: a key that is there already is kept.               *)
RenameKeyOnce(p) ==
    /\ proc[p].at = "key" /\ keyPart # None
    /\ key' = (IF key = None THEN keyPart ELSE key) /\ keyPart' = None
    /\ Advance(p, "certpart")
    /\ UNCHANGED <<cert, certPart, pairs, shown, raced>>

RenameKey(p) ==
    /\ proc[p].at = "key" /\ keyPart # None
    /\ key' = keyPart /\ keyPart' = None
    /\ Advance(p, "certpart")
    /\ UNCHANGED <<cert, certPart, pairs, shown, raced>>

(* Mutant of WriteCert: the fingerprint is told before the rename.         *)
WriteCertTold(p) ==
    /\ proc[p].at = "certpart"
    /\ certPart' = proc[p].pair
    /\ Advance(p, "cert")
    /\ shown' = shown \cup {proc[p].pair}
    /\ UNCHANGED <<cert, key, keyPart, pairs, raced>>

WriteCert(p) ==
    /\ proc[p].at = "certpart"
    /\ certPart' = proc[p].pair
    /\ Advance(p, "cert")
    /\ UNCHANGED <<cert, key, keyPart, pairs, shown, raced>>

(* The certificate is in place, and the caller gets what it generated.     *)
RenameCert(p) ==
    /\ proc[p].at = "cert" /\ certPart # None
    /\ cert' = certPart /\ certPart' = None
    /\ proc' = [proc EXCEPT ![p] = Out]
    /\ shown' = shown \cup {proc[p].pair}
    /\ UNCHANGED <<key, keyPart, pairs, raced>>

(* generate(): the key first, each file through its .part file.            *)
GenerateSteps(p) == WriteKey(p) \/ RenameKey(p) \/ WriteCert(p) \/ RenameCert(p)

(* The process dies, or finds its .part file renamed away by another one   *)
(* (FileNotFoundError, which ends it).                                     *)
Die(p) ==
    /\ proc[p] # Out
    /\ proc' = [proc EXCEPT ![p] = Out]
    /\ UNCHANGED <<files, pairs, shown, raced>>

Next == \E p \in Processes : Load(p) \/ Generate(p) \/ GenerateSteps(p) \/ Die(p)

Spec == Init /\ [][Next]_vars

---------------------------------------------------------------------------
(* Every variable has its type.                                            *)
TypeOK ==
    /\ cert \in 0..pairs /\ certPart \in 0..pairs
    /\ key \in 0..pairs /\ keyPart \in 0..pairs
    /\ pairs \in 0..MaxPairs
    /\ proc \in [Processes -> [at : {"out", "keypart", "key", "certpart", "cert"},
                               pair : 0..pairs]]
    /\ shown \subseteq 1..pairs
    /\ raced \in BOOLEAN

(* Wherever a process dies, two files that are both there are one pair:    *)
(* ensure() never checks them against each other, and a certificate with   *)
(* the key of another would stop the agent for good.                       *)
PairMatches == ~raced /\ cert # None /\ key # None => cert = key

(* The certificate that was shown to anybody is the one on disk for ever:  *)
(* a pinned node keeps its identity over crashes in a first boot.          *)
PinHolds == ~raced => shown \subseteq {cert}

===========================================================================
