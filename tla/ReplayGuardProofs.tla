------------------------- MODULE ReplayGuardProofs -------------------------
(***************************************************************************)
(* At-most-once acceptance for any number of commands, any window and any  *)
(* length of time, as long as the clock of the node does not step back.    *)
(***************************************************************************)
EXTENDS ReplayGuard, TLAPS

(* A command that was let through and has not expired yet is known to the  *)
(* dictionary and to the file.                                             *)
Remembered ==
    \A n \in Nonces :
        runs[n] > 0 =>
            /\ sent[n] # None
            /\ clock - sent[n] <= Window =>
                 seen[n] = sent[n] /\ disk[n] = sent[n]

Inv == TypeOK /\ Remembered /\ OnlyCopiesRefused /\ AtMostOnce


LEMMA PrunedType == TypeOK => Pruned \in Cache
  BY DEF TypeOK, Cache, Pruned

LEMMA InitEstablishes == Init => Inv
  BY ReplayAssumption
  DEF Init, Inv, TypeOK, Cache, Times, Remembered, OnlyCopiesRefused,
      AtMostOnce

LEMMA SendStep ==
  ASSUME Inv, NEW n \in Nonces, NEW ts \in Times, Send(n, ts)
  PROVE  Inv'
  <1>1. /\ sent' \in Cache
        /\ \A m \in Nonces : m # n => sent'[m] = sent[m]
        /\ UNCHANGED <<clock, seen, disk, up, runs, failed>>
    BY DEF Inv, TypeOK, Cache, Send
  <1>2. runs[n] = 0 /\ seen[n] = None /\ disk[n] = None
    BY ReplayAssumption
    DEF Inv, TypeOK, Cache, Send, Remembered, OnlyCopiesRefused, AtMostOnce, Times
  <1>3. TypeOK'
    BY <1>1 DEF Inv, TypeOK
  <1>4. Remembered'
    BY <1>1, <1>2 DEF Inv, Remembered
  <1>5. OnlyCopiesRefused'
    BY <1>1, <1>2 DEF Inv, OnlyCopiesRefused
  <1> QED BY <1>1, <1>3, <1>4, <1>5 DEF Inv, AtMostOnce

(* What pruning leaves of the dictionary still knows every command that    *)
(* was let through and has not expired.                                    *)
LEMMA PruningForgetsExpired ==
  ASSUME Inv, NEW n \in Nonces
  PROVE  /\ Pruned[n] # None => Pruned[n] = seen[n]
         /\ (runs[n] > 0 /\ clock - sent[n] <= Window) => Pruned[n] = sent[n]
  BY ReplayAssumption DEF Inv, TypeOK, Cache, Remembered, Pruned, Times

LEMMA AcceptStep ==
  ASSUME Inv, NEW n \in Nonces, Accept(n)
  PROVE  Inv'
  <1>1. sent[n] # None /\ clock - sent[n] <= Window /\ Pruned[n] = None
    BY ReplayAssumption DEF Accept, Outside, Inv, TypeOK, Cache, Times
  <1>2. runs[n] = 0
    BY <1>1, PruningForgetsExpired DEF Inv, TypeOK, AtMostOnce
  <1>3. Pruned \in Cache /\ sent[n] \in Times
    BY <1>1, PrunedType DEF Inv, TypeOK, Cache
  <1>4. /\ seen' \in Cache /\ disk' = seen' /\ seen'[n] = sent[n]
        /\ \A m \in Nonces : m # n => seen'[m] = Pruned[m]
    BY <1>3 DEF Accept, Cache
  <1>5. /\ runs' \in [Nonces -> Nat] /\ runs'[n] = 1
        /\ \A m \in Nonces : m # n => runs'[m] = runs[m]
        /\ UNCHANGED <<clock, sent, up, failed>>
    BY <1>2 DEF Accept, Inv, TypeOK
  <1>6. TypeOK'
    BY <1>4, <1>5 DEF Inv, TypeOK
  <1>7. Remembered'
    BY <1>1, <1>4, <1>5, PruningForgetsExpired DEF Inv, Remembered
  <1>8. OnlyCopiesRefused'
    BY <1>4, <1>5, PruningForgetsExpired DEF Inv, OnlyCopiesRefused
  <1>9. AtMostOnce'
    BY <1>5 DEF Inv, AtMostOnce
  <1> QED BY <1>6, <1>7, <1>8, <1>9 DEF Inv

LEMMA AcceptWriteFailsStep ==
  ASSUME Inv, NEW n \in Nonces, AcceptWriteFails(n)
  PROVE  Inv'
  <1>1. sent[n] \in Times
    BY DEF AcceptWriteFails, Inv, TypeOK, Cache
  <1>2. /\ seen' \in Cache /\ seen'[n] = sent[n]
        /\ \A m \in Nonces : m # n => seen'[m] = Pruned[m]
    BY <1>1, PrunedType DEF AcceptWriteFails, Inv, Cache
  <1>3. UNCHANGED <<clock, sent, disk, up, runs>> /\ failed' = failed \cup {n}
    BY DEF AcceptWriteFails
  <1>4. TypeOK'
    BY <1>2, <1>3 DEF Inv, TypeOK
  <1>5. Remembered'
    BY <1>2, <1>3, PruningForgetsExpired DEF Inv, Remembered
  <1>6. OnlyCopiesRefused'
    BY <1>2, <1>3, PruningForgetsExpired DEF Inv, OnlyCopiesRefused
  <1> QED BY <1>3, <1>4, <1>5, <1>6 DEF Inv, AtMostOnce

LEMMA RefuseReplayStep ==
  ASSUME Inv, NEW n \in Nonces, RefuseReplay(n)
  PROVE  Inv'
  <1>1. /\ seen' = Pruned /\ seen' \in Cache
        /\ UNCHANGED <<clock, sent, disk, up, runs, failed>>
    BY PrunedType DEF RefuseReplay, Inv
  <1>2. TypeOK'
    BY <1>1 DEF Inv, TypeOK
  <1>3. Remembered'
    BY <1>1, PruningForgetsExpired DEF Inv, Remembered
  <1>4. OnlyCopiesRefused'
    BY <1>1, PruningForgetsExpired DEF Inv, OnlyCopiesRefused
  <1> QED BY <1>1, <1>2, <1>3, <1>4 DEF Inv, AtMostOnce

LEMMA NextPreserves == Inv /\ [Next]_vars => Inv'
  <1> SUFFICES ASSUME Inv, [Next]_vars PROVE Inv'
    OBVIOUS
  <1>1. ASSUME NEW n \in Nonces, NEW ts \in Times, Send(n, ts) PROVE Inv'
    BY <1>1, SendStep
  <1>2. ASSUME NEW n \in Nonces, Accept(n) PROVE Inv'
    BY <1>2, AcceptStep
  <1>3. ASSUME NEW n \in Nonces, AcceptWriteFails(n) PROVE Inv'
    BY <1>3, AcceptWriteFailsStep
  <1>4. ASSUME NEW n \in Nonces, RefuseReplay(n) PROVE Inv'
    BY <1>4, RefuseReplayStep
  <1>5. CASE Crash
    BY <1>5 DEF Crash, Inv, TypeOK, Remembered, OnlyCopiesRefused, AtMostOnce
  <1>6. CASE Restart
    BY <1>6 DEF Restart, Inv, TypeOK, Remembered, OnlyCopiesRefused, AtMostOnce
  <1>7. CASE Tick
    <2>1. clock' \in Times /\ clock \in Int /\ clock' = clock + 1
      BY <1>7, ReplayAssumption DEF Tick, Inv, TypeOK, Times
    <2>2. \A n \in Nonces : sent[n] # None => sent[n] \in Int
      BY DEF Inv, TypeOK, Cache, Times
    <2>3. UNCHANGED <<sent, seen, disk, up, runs, failed>>
      BY <1>7 DEF Tick
    <2>4. Remembered'
      BY <2>1, <2>2, <2>3, ReplayAssumption DEF Inv, Remembered
    <2> QED BY <2>1, <2>3, <2>4 DEF Inv, TypeOK, OnlyCopiesRefused, AtMostOnce
  <1>8. CASE UNCHANGED vars
    BY <1>8 DEF vars, Inv, TypeOK, Remembered, OnlyCopiesRefused, AtMostOnce
  <1> QED
    BY <1>1, <1>2, <1>3, <1>4, <1>5, <1>6, <1>7, <1>8 DEF Next

(* Every reachable state of the nonce cache satisfies the inductive        *)
(* invariant.                                                              *)
THEOREM Invariance == Spec => []Inv
  BY InitEstablishes, NextPreserves, PTL DEF Spec

(* Dictionary, file and clocks keep their types.                           *)
THEOREM TypeCorrect == Spec => []TypeOK
  <1>1. Inv => TypeOK
    BY DEF Inv
  <1> QED BY <1>1, Invariance, PTL

(* However often the network delivers a signed command, accept() lets it   *)
(* through at most once, across restarts and failed writes.                *)
THEOREM NoCommandTwice == Spec => []AtMostOnce
  <1>1. Inv => AtMostOnce
    BY DEF Inv
  <1> QED BY <1>1, Invariance, PTL

(* accept() never takes the first copy of a command for a replay.          *)
THEOREM NoFirstCopyRefused == Spec => []OnlyCopiesRefused
  <1>1. Inv => OnlyCopiesRefused
    BY DEF Inv
  <1> QED BY <1>1, Invariance, PTL

=============================================================================
