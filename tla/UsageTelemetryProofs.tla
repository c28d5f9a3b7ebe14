----------------------- MODULE UsageTelemetryProofs -----------------------
(***************************************************************************)
(* No byte is counted twice and none is missed, for any number of cores,   *)
(* requests and bytes, while polls take turns and the file can be written; *)
(* not counting twice is claimed of the cores whose cursors a restart has  *)
(* not lost beside a counter that went on (not in exposed).                *)
(***************************************************************************)
EXTENDS UsageTelemetry, TLAPS

(* Requests: a poll has the sole use of the trackers, a reading belongs to *)
(* a core that is still to be visited, and a core without a cursor in the  *)
(* reply has no delta in it either.                                        *)
TakingTurns ==
    /\ \A p, q \in Polls : pc[p] # "idle" /\ pc[q] # "idle" => p = q
    /\ \A p \in Polls :
         /\ pc[p] = "idle" => got[p] = Zero /\ \A c \in Cores : base[p][c] = None
         /\ sample[p] # None => pc[p] = "reading" /\ todo[p] # {}
         /\ pc[p] = "replying" => todo[p] = {}
         /\ \A c \in Cores :
              /\ pc[p] = "reading" /\ c \in todo[p] => base[p][c] = None
              /\ pc[p] # "idle" =>
                   IF base[p][c] = None THEN got[p][c] = 0
                   ELSE /\ base[p][c] = tracker[c]
                        /\ pc[p] = "replying" => disk[c] = base[p][c]

(* The reading of c that poll p has in its hands.                          *)
InHand(p, c) == Current(p, c) /\ sample[p] # None

(* What the panel has been told and would be told by the next reply, and   *)
(* by a poll after a crash, never exceeds what has moved.  A core is only  *)
(* exposed by a restart that finds more on disk than its driver restores.  *)
NothingOwed ==
    \A c \in Cores \ exposed :
        /\ delivered[c] + Delta(counter[c], disk[c]) <= moved[c]
        /\ Idle => delivered[c] + Delta(counter[c], tracker[c]) <= moved[c]
        /\ \A p \in Polls :
             pc[p] # "idle" =>
                 delivered[c] + got[p][c]
                   + (IF InHand(p, c)
                      THEN Delta(sample[p], tracker[c]) + Delta(counter[c], sample[p])
                      ELSE Delta(counter[c], tracker[c])) <= moved[c]

(* While a counter has not been reset, cursor and reading are behind it.   *)
Behind ==
    \A c \in Cores \ lossy :
        /\ tracker[c] <= counter[c]
        /\ \A p \in Polls :
             InHand(p, c) => tracker[c] <= sample[p] /\ sample[p] <= counter[c]

Ledger == TakingTurns /\ NothingOwed /\ Behind /\ NothingMissed

IInv == TypeOK /\ (sound => Ledger)

---------------------------------------------------------------------------
(* Delta: the growth of a counter.                                         *)
LEMMA DeltaNat == ASSUME NEW a \in Nat, NEW b \in Nat PROVE Delta(a, b) \in Nat
  BY DEF Delta

LEMMA DeltaSelf == ASSUME NEW a \in Nat PROVE Delta(a, a) = 0 /\ Delta(0, a) = 0
  BY DEF Delta

LEMMA DeltaGrows ==
  ASSUME NEW a \in Nat, NEW b \in Nat
  PROVE  Delta(a + 1, b) <= Delta(a, b) + 1
  BY DEF Delta

(* A reading dropped is no loss: the growth from b to a is at most the     *)
(* growth by way of s.                                                     *)
LEMMA DeltaTriangle ==
  ASSUME NEW a \in Nat, NEW b \in Nat, NEW s \in Nat
  PROVE  Delta(a, b) <= Delta(s, b) + Delta(a, s)
  BY DEF Delta

LEMMA DeltaPlain ==
  ASSUME NEW a \in Nat, NEW b \in Nat, b <= a
  PROVE  Delta(a, b) = a - b
  BY DEF Delta

(* Only one core is current.                                               *)
LEMMA CurrentUnique ==
  ASSUME NEW p \in Polls, NEW c \in Cores, NEW d \in Cores,
         Current(p, c), Current(p, d)
  PROVE  c = d
  BY UsageAssumption DEF Current, Cores

---------------------------------------------------------------------------
LEMMA InitTyped == Init => TypeOK
  BY UsageAssumption DEF Init, TypeOK, Zero, Cores, None

LEMMA RebootTyped ==
  ASSUME TypeOK, NEW file \in [Cores -> Nat], NEW replaced \in SUBSET Keyed,
         Rebooted(file, replaced), sound' \in BOOLEAN
  PROVE  TypeOK'
  <1>1. /\ moved' \in [Cores -> Nat] /\ counter' \in [Cores -> Nat]
        /\ tracker' \in [Cores -> Nat] /\ disk' \in [Cores -> Nat]
        /\ delivered' \in [Cores -> Nat]
        /\ lossy' \subseteq Cores /\ exposed' \subseteq Keyed
    BY UsageAssumption DEF TypeOK, Rebooted, Restored, Replaced, Cores
  <1>2. Zero \in [Cores -> Nat] /\ [c \in Cores |-> None] \in [Cores -> Nat \cup {None}]
    BY DEF Zero
  <1>3. /\ todo' \in [Polls -> SUBSET Cores]
        /\ sample' \in [Polls -> Nat \cup {None}]
        /\ pc' \in [Polls -> {"idle", "reading", "replying"}]
    BY DEF Rebooted
  <1>4. /\ got' \in [Polls -> [Cores -> Nat]]
        /\ base' \in [Polls -> [Cores -> Nat \cup {None}]]
    BY <1>2 DEF Rebooted
  <1> QED BY <1>1, <1>3, <1>4 DEF TypeOK

LEMMA NextTyped == TypeOK /\ [Next]_vars => TypeOK'
  <1> SUFFICES ASSUME TypeOK, [Next]_vars PROVE TypeOK'
    OBVIOUS
  <1> USE DEF TypeOK
  <1>1. ASSUME NEW c \in Cores, Traffic(c) PROVE TypeOK'
    <2>1. moved[c] + 1 \in Nat /\ counter[c] + 1 \in Nat
      OBVIOUS
    <2> QED BY <1>1, <2>1 DEF Traffic, reply
  <1>2. ASSUME NEW c \in Cores, CounterReset(c) PROVE TypeOK'
    BY <1>2 DEF CounterReset, reply
  <1>3. ASSUME NEW p \in Polls, NEW cores \in SUBSET Cores, PollBegin(p, cores)
        PROVE  TypeOK'
    BY <1>3 DEF PollBegin, Idle
  <1>4. ASSUME NEW p \in Polls, NEW c \in Cores, Sample(p, c) PROVE TypeOK'
    BY <1>4 DEF Sample
  <1>5. ASSUME NEW p \in Polls, NEW c \in Cores, Observe(p, c) PROVE TypeOK'
    <2>1. Delta(sample[p], tracker[c]) \in Nat /\ sample[p] \in Nat
      BY <1>5, DeltaNat DEF Observe
    <2> QED BY <1>5, <2>1 DEF Observe
  <1>6. ASSUME NEW p \in Polls, NEW c \in Cores, ReadFails(p, c) PROVE TypeOK'
    BY <1>6 DEF ReadFails
  <1>7. ASSUME NEW p \in Polls, Save(p) PROVE TypeOK'
    <2>1. Merged(p) \in [Cores -> Nat]
      BY DEF Merged
    <2> QED BY <1>7, <2>1 DEF Save
  <1>8. ASSUME NEW p \in Polls, SaveFails(p) PROVE TypeOK'
    BY <1>8 DEF SaveFails
  <1>9. ASSUME NEW p \in Polls, NEW replaced \in SUBSET Keyed,
               DieInSave(p, replaced)
        PROVE  TypeOK'
    <2>1. Zero \in [Cores -> Nat] /\ Rebooted(Zero, replaced) /\ sound' \in BOOLEAN
      BY <1>9 DEF DieInSave, Zero
    <2> QED BY <2>1, RebootTyped
  <1>10. ASSUME NEW p \in Polls, Deliver(p) PROVE TypeOK'
    <2>1. delivered' \in [Cores -> Nat]
      <3>1. \A c \in Cores : delivered[c] + got[p][c] \in Nat
        OBVIOUS
      <3> QED BY <1>10, <3>1 DEF Deliver
    <2>2. /\ got' \in [Polls -> [Cores -> Nat]]
          /\ base' \in [Polls -> [Cores -> Nat \cup {None}]]
          /\ pc' \in [Polls -> {"idle", "reading", "replying"}]
      BY <1>10 DEF Deliver, Close, Zero
    <2> QED BY <1>10, <2>1, <2>2 DEF Deliver, Close
  <1>11. ASSUME NEW p \in Polls, LoseReply(p) PROVE TypeOK'
    BY <1>11 DEF LoseReply, Close, Zero
  <1>12. ASSUME NEW replaced \in SUBSET Keyed, Restart(replaced) PROVE TypeOK'
    <2>1. /\ disk \in [Cores -> Nat] /\ Rebooted(disk, replaced)
          /\ sound' \in BOOLEAN
      BY <1>12 DEF Restart
    <2> QED BY <2>1, RebootTyped
  <1>13. CASE UNCHANGED vars
    BY <1>13 DEF vars, reply
  <1> QED
    BY <1>1, <1>2, <1>3, <1>4, <1>5, <1>6, <1>7, <1>8, <1>9, <1>10, <1>11,
       <1>12, <1>13 DEF Next

(* The environment: traffic and resets.                                    *)
LEMMA TrafficStep ==
  ASSUME TypeOK, Ledger, NEW c \in Cores, Traffic(c)
  PROVE  Ledger'
  <1> USE DEF TypeOK
  <1>1. /\ moved[c] \in Nat /\ counter[c] \in Nat
        /\ moved' = [moved EXCEPT ![c] = @ + 1]
        /\ counter' = [counter EXCEPT ![c] = @ + 1]
        /\ UNCHANGED <<tracker, disk, todo, sample, got, base, pc, delivered,
                      lossy, exposed, sound>>
    BY DEF Traffic, reply
  <1>2. /\ moved'[c] = moved[c] + 1 /\ counter'[c] = counter[c] + 1
        /\ \A d \in Cores : d # c => moved'[d] = moved[d] /\ counter'[d] = counter[d]
    BY <1>1
  <1>3. Idle' = Idle /\ \A p \in Polls, d \in Cores : InHand(p, d)' = InHand(p, d)
    BY <1>1 DEF Idle, InHand, Current
  <1>4. TakingTurns'
    BY <1>1 DEF Ledger, TakingTurns
  <1>5. NothingOwed'
    <2> SUFFICES ASSUME NEW d \in Cores \ exposed
                 PROVE  /\ delivered[d] + Delta(counter'[d], disk[d]) <= moved'[d]
                        /\ Idle => delivered[d] + Delta(counter'[d], tracker[d]) <= moved'[d]
                        /\ \A p \in Polls :
                             pc[p] # "idle" =>
                               delivered[d] + got[p][d]
                                 + (IF InHand(p, d)
                                    THEN Delta(sample[p], tracker[d])
                                           + Delta(counter'[d], sample[p])
                                    ELSE Delta(counter'[d], tracker[d])) <= moved'[d]
      BY <1>1, <1>3 DEF NothingOwed
    <2>1. CASE d # c
      BY <1>2, <2>1 DEF Ledger, NothingOwed
    <2>2. CASE d = c
      <3>1. \A x \in Nat : /\ Delta(counter[c], x) \in Nat
                           /\ Delta(counter[c] + 1, x) \in Nat
                           /\ Delta(counter[c] + 1, x) <= Delta(counter[c], x) + 1
        <4>1. counter[c] \in Nat /\ counter[c] + 1 \in Nat
          BY <1>1
        <4> HIDE DEF TypeOK
        <4> QED BY <4>1, DeltaNat, DeltaGrows
      <3>2. \A p \in Polls : InHand(p, c) => sample[p] \in Nat /\ Delta(sample[p], tracker[c]) \in Nat
        BY DeltaNat DEF InHand
      <3>3. /\ delivered[c] + Delta(counter[c] + 1, disk[c]) <= moved[c] + 1
            /\ Idle => delivered[c] + Delta(counter[c] + 1, tracker[c]) <= moved[c] + 1
        BY <1>1, <2>2, <3>1 DEF Ledger, NothingOwed
      <3>4. ASSUME NEW p \in Polls, pc[p] # "idle"
            PROVE  delivered[c] + got[p][c]
                     + (IF InHand(p, c)
                        THEN Delta(sample[p], tracker[c])
                               + Delta(counter[c] + 1, sample[p])
                        ELSE Delta(counter[c] + 1, tracker[c])) <= moved[c] + 1
        BY <1>1, <2>2, <3>1, <3>2, <3>4 DEF Ledger, NothingOwed
      <3> QED BY <1>2, <2>2, <3>3, <3>4
    <2> QED BY <2>1, <2>2
  <1>6. Behind'
    BY <1>1, <1>2, <1>3 DEF Ledger, Behind, InHand
  <1>7. NothingMissed'
    <2>1. ASSUME NEW d \in Cores \ lossy, sound
          PROVE  /\ Idle => moved'[d] = delivered[d] + counter'[d] - tracker[d]
                 /\ \A p \in Polls : pc[p] # "idle" =>
                      moved'[d] = delivered[d] + counter'[d] - tracker[d] + got[p][d]
      <3>1. /\ Idle => moved[d] = delivered[d] + counter[d] - tracker[d]
            /\ \A p \in Polls : pc[p] # "idle" =>
                 moved[d] = delivered[d] + counter[d] - tracker[d] + got[p][d]
        BY <2>1 DEF Ledger, NothingMissed
      <3>2. CASE d # c
        BY <1>2, <3>1, <3>2
      <3>3. CASE d = c
        BY <1>1, <1>2, <3>1, <3>3
      <3> QED BY <3>2, <3>3
    <2> QED BY <1>1, <1>3, <2>1 DEF NothingMissed
  <1> QED BY <1>4, <1>5, <1>6, <1>7 DEF Ledger

LEMMA ResetStep ==
  ASSUME TypeOK, Ledger, NEW c \in Cores, CounterReset(c)
  PROVE  Ledger'
  <1> USE DEF TypeOK
  <1>1. /\ counter' = [counter EXCEPT ![c] = 0]
        /\ lossy' = lossy \cup {c}
        /\ UNCHANGED <<moved, tracker, disk, todo, sample, got, base, pc, delivered,
                       exposed, sound>>
    BY DEF CounterReset, reply
  <1>2. counter'[c] = 0 /\ \A d \in Cores : d # c => counter'[d] = counter[d]
    BY <1>1
  <1>3. Idle' = Idle /\ \A p \in Polls, d \in Cores : InHand(p, d)' = InHand(p, d)
    BY <1>1 DEF Idle, InHand, Current
  <1>4. TakingTurns'
    BY <1>1 DEF Ledger, TakingTurns
  <1>5. NothingOwed'
    <2> SUFFICES ASSUME NEW d \in Cores \ exposed
                 PROVE  /\ delivered[d] + Delta(counter'[d], disk[d]) <= moved[d]
                        /\ Idle => delivered[d] + Delta(counter'[d], tracker[d]) <= moved[d]
                        /\ \A p \in Polls :
                             pc[p] # "idle" =>
                               delivered[d] + got[p][d]
                                 + (IF InHand(p, d)
                                    THEN Delta(sample[p], tracker[d])
                                           + Delta(counter'[d], sample[p])
                                    ELSE Delta(counter'[d], tracker[d])) <= moved[d]
      BY <1>1, <1>3 DEF NothingOwed
    <2>1. CASE d # c
      BY <1>2, <2>1 DEF Ledger, NothingOwed
    <2>2. CASE d = c
      <3>1. \A x \in Nat : Delta(counter[c], x) \in Nat /\ Delta(0, x) = 0
        BY DeltaNat, DeltaSelf
      <3>2. \A p \in Polls : InHand(p, c) => sample[p] \in Nat /\ Delta(sample[p], tracker[c]) \in Nat
        BY DeltaNat DEF InHand
      <3>3. /\ delivered[c] + Delta(0, disk[c]) <= moved[c]
            /\ Idle => delivered[c] + Delta(0, tracker[c]) <= moved[c]
        BY <2>2, <3>1 DEF Ledger, NothingOwed
      <3>4. ASSUME NEW p \in Polls, pc[p] # "idle"
            PROVE  delivered[c] + got[p][c]
                     + (IF InHand(p, c)
                        THEN Delta(sample[p], tracker[c]) + Delta(0, sample[p])
                        ELSE Delta(0, tracker[c])) <= moved[c]
        BY <2>2, <3>1, <3>2, <3>4 DEF Ledger, NothingOwed
      <3> QED BY <1>2, <2>2, <3>3, <3>4
    <2> QED BY <2>1, <2>2
  <1>6. Behind'
    BY <1>1, <1>2, <1>3 DEF Ledger, Behind
  <1>7. NothingMissed'
    BY <1>1, <1>2, <1>3 DEF Ledger, NothingMissed
  <1> QED BY <1>4, <1>5, <1>6, <1>7 DEF Ledger

(* The steps of a poll.                                                    *)
LEMMA PollBeginStep ==
  ASSUME TypeOK, sound, Ledger, sound',
         NEW p \in Polls, NEW cores \in SUBSET Cores, PollBegin(p, cores)
  PROVE  Ledger'
  <1> USE DEF TypeOK
  <1>1. /\ Idle /\ pc' = [pc EXCEPT ![p] = "reading"]
        /\ todo' = [todo EXCEPT ![p] = cores]
        /\ UNCHANGED <<moved, counter, tracker, disk, sample, got, base,
                       delivered, lossy, exposed>>
    BY DEF PollBegin
  <1>2. /\ \A q \in Polls : pc[q] = "idle" /\ sample[q] = None
        /\ \A q \in Polls, c \in Cores : got[q][c] = 0 /\ base[q][c] = None
    BY <1>1 DEF Idle, Ledger, TakingTurns, Zero
  <1>3. /\ pc'[p] = "reading" /\ \A q \in Polls : q # p => pc'[q] = "idle"
        /\ ~Idle'
    BY <1>1, <1>2 DEF Idle
  <1>4. TakingTurns'
    <2>1. \A q \in Polls : got[q] = Zero
      BY <1>1 DEF Idle, Ledger, TakingTurns
    <2> QED BY <1>1, <1>2, <1>3, <2>1 DEF TakingTurns, Zero
  <1>5. \A q \in Polls, c \in Cores : ~InHand(q, c)'
    BY <1>1, <1>2 DEF InHand
  <1>6. NothingOwed'
    <2>1. ASSUME NEW c \in Cores \ exposed
          PROVE  /\ delivered[c] + Delta(counter[c], disk[c]) <= moved[c]
                 /\ delivered[c] + 0 + Delta(counter[c], tracker[c]) <= moved[c]
      <3>1. Delta(counter[c], tracker[c]) \in Nat
        BY DeltaNat
      <3> QED BY <1>1, <3>1 DEF Ledger, NothingOwed
    <2> QED BY <1>1, <1>2, <1>3, <1>5, <2>1 DEF NothingOwed
  <1>7. Behind'
    BY <1>1, <1>5 DEF Ledger, Behind
  <1>8. NothingMissed'
    <2>1. ASSUME NEW c \in Cores \ lossy
          PROVE  moved[c] = delivered[c] + counter[c] - tracker[c] + 0
      BY <1>1 DEF Ledger, NothingMissed
    <2> QED BY <1>1, <1>2, <1>3, <2>1 DEF NothingMissed
  <1> QED BY <1>4, <1>6, <1>7, <1>8 DEF Ledger

(* While p is open the other polls are idle and have nothing in hand.      *)
LEMMA OthersIdle ==
  ASSUME TypeOK, Ledger, NEW p \in Polls, pc[p] # "idle"
  PROVE  \A q \in Polls : q # p =>
            /\ pc[q] = "idle" /\ sample[q] = None
            /\ got[q] = Zero /\ \A c \in Cores : base[q][c] = None
  BY DEF Ledger, TakingTurns

LEMMA SampleStep ==
  ASSUME TypeOK, sound, Ledger, NEW p \in Polls, NEW c \in Cores, Sample(p, c)
  PROVE  Ledger'
  <1> USE DEF TypeOK
  <1>1. /\ pc[p] = "reading" /\ c \in todo[p] /\ sample[p] = None /\ Current(p, c)
        /\ sample' = [sample EXCEPT ![p] = counter[c]]
        /\ UNCHANGED <<moved, counter, tracker, disk, todo, got, base, pc,
                       delivered, lossy, exposed, sound>>
    BY DEF Sample, Current
  <1>2. \A q \in Polls : q # p => pc[q] = "idle" /\ sample[q] = None
    BY <1>1, OthersIdle
  <1>3. /\ sample'[p] = counter[c] /\ sample'[p] # None
        /\ \A q \in Polls : q # p => sample'[q] = sample[q]
    BY <1>1 DEF None
  <1>4. Idle' = Idle /\ ~Idle
    BY <1>1 DEF Idle
  <1>5. \A q \in Polls, d \in Cores :
            /\ Current(q, d)' = Current(q, d)
            /\ InHand(q, d)' <=> q = p /\ d = c
            /\ ~InHand(q, d)
    BY <1>1, <1>2, <1>3, CurrentUnique DEF InHand, Current
  <1>6. TakingTurns'
    BY <1>1, <1>2, <1>3 DEF Ledger, TakingTurns
  <1>7. NothingOwed'
    <2>1. \A d \in Cores \ exposed : delivered[d] + got[p][d] + Delta(counter[d], tracker[d]) <= moved[d]
      BY <1>1, <1>5 DEF Ledger, NothingOwed
    <2>2. Delta(counter[c], counter[c]) = 0 /\ Delta(counter[c], tracker[c]) \in Nat
      BY DeltaNat, DeltaSelf
    <2>3. c \notin exposed =>
            delivered[c] + got[p][c]
              + (Delta(counter[c], tracker[c]) + Delta(counter[c], counter[c])) <= moved[c]
      BY <2>1, <2>2
    <2>4. \A d \in Cores \ exposed : delivered[d] + Delta(counter[d], disk[d]) <= moved[d]
      BY DEF Ledger, NothingOwed
    <2> QED BY <1>1, <1>2, <1>3, <1>4, <1>5, <2>1, <2>3, <2>4 DEF NothingOwed
  <1>8. Behind'
    BY <1>1, <1>3, <1>5 DEF Ledger, Behind
  <1>9. NothingMissed'
    BY <1>1, <1>4 DEF Ledger, NothingMissed
  <1> QED BY <1>6, <1>7, <1>8, <1>9 DEF Ledger

LEMMA ObserveStep ==
  ASSUME TypeOK, sound, Ledger, NEW p \in Polls, NEW c \in Cores, Observe(p, c)
  PROVE  Ledger'
  <1> USE DEF TypeOK
  <1> DEFINE s == sample[p]
  <1>1. /\ pc[p] = "reading" /\ c \in todo[p] /\ InHand(p, c)
        /\ got' = [got EXCEPT ![p][c] = Delta(s, tracker[c])]
        /\ tracker' = [tracker EXCEPT ![c] = s]
        /\ base' = [base EXCEPT ![p][c] = s]
        /\ sample' = [sample EXCEPT ![p] = None]
        /\ todo' = [todo EXCEPT ![p] = @ \ {c}]
        /\ UNCHANGED <<moved, counter, disk, pc, delivered, lossy, exposed, sound>>
    BY DEF Observe, Current, InHand
  <1>2. \A q \in Polls : q # p => /\ pc[q] = "idle" /\ sample[q] = None
                                  /\ got[q] = Zero
                                  /\ \A d \in Cores : base[q][d] = None
    BY <1>1, OthersIdle
  <1>3. s \in Nat /\ s # None /\ Delta(s, tracker[c]) \in Nat
        /\ Delta(counter[c], s) \in Nat
    <2>1. s \in Nat /\ s # None /\ counter[c] \in Nat /\ tracker[c] \in Nat
      BY <1>1 DEF InHand, None
    <2> QED BY <2>1, DeltaNat
  <1>4. /\ got'[p][c] = Delta(s, tracker[c]) /\ tracker'[c] = s /\ base'[p][c] = s
        /\ sample'[p] = None /\ todo'[p] = todo[p] \ {c}
        /\ \A d \in Cores : d # c => /\ got'[p][d] = got[p][d]
                                     /\ tracker'[d] = tracker[d]
                                     /\ base'[p][d] = base[p][d]
        /\ \A q \in Polls : q # p => /\ got'[q] = got[q] /\ base'[q] = base[q]
                                     /\ sample'[q] = sample[q] /\ todo'[q] = todo[q]
    BY <1>1, <1>3
  <1>5. Idle' = Idle /\ ~Idle
    BY <1>1 DEF Idle
  <1>6. base[p][c] = None /\ got[p][c] = 0
    BY <1>1 DEF Ledger, TakingTurns
  <1>7. /\ \A q \in Polls, d \in Cores : ~InHand(q, d)'
        /\ \A d \in Cores : d # c => ~InHand(p, d)
    <2>1. \A q \in Polls : sample'[q] = None
      BY <1>2, <1>4
    <2> QED BY <1>1, <2>1, CurrentUnique DEF InHand
  <1> HIDE DEF s
  <1>8. TakingTurns'
    <2>1. \A q \in Polls : sample'[q] = None
      BY <1>2, <1>4
    <2> QED BY <1>1, <1>2, <1>3, <1>4, <2>1 DEF Ledger, TakingTurns
  <1>9. NothingOwed'
    <2>1. ASSUME NEW d \in Cores \ exposed
          PROVE  delivered[d] + got'[p][d] + Delta(counter[d], tracker'[d]) <= moved[d]
      <3>1. CASE d = c
        <4>1. delivered[c] + got[p][c]
                + (Delta(s, tracker[c]) + Delta(counter[c], s)) <= moved[c]
          BY <1>1, <3>1 DEF Ledger, NothingOwed, s
        <4> QED BY <1>3, <1>4, <1>6, <3>1, <4>1
      <3>2. CASE d # c
        <4>1. delivered[d] + got[p][d] + Delta(counter[d], tracker[d]) <= moved[d]
          BY <1>1, <1>7, <3>2 DEF Ledger, NothingOwed
        <4> QED BY <1>4, <3>2, <4>1
      <3> QED BY <3>1, <3>2
    <2>2. \A d \in Cores \ exposed : delivered[d] + Delta(counter[d], disk[d]) <= moved[d]
      BY DEF Ledger, NothingOwed
    <2> QED BY <1>1, <1>2, <1>5, <1>7, <2>1, <2>2 DEF NothingOwed
  <1>10. Behind'
    <2>1. c \notin lossy => s <= counter[c]
      BY <1>1 DEF Ledger, Behind, s
    <2> QED BY <1>1, <1>4, <1>7, <2>1 DEF Ledger, Behind
  <1>11. NothingMissed'
    <2>1. ASSUME NEW d \in Cores \ lossy
          PROVE  moved[d] = delivered[d] + counter[d] - tracker'[d] + got'[p][d]
      <3>1. moved[d] = delivered[d] + counter[d] - tracker[d] + got[p][d]
        BY <1>1 DEF Ledger, NothingMissed
      <3>2. CASE d = c
        <4>1. tracker[c] <= s
          BY <1>1, <3>2 DEF Ledger, Behind, s
        <4>2. Delta(s, tracker[c]) = s - tracker[c]
          BY <1>3, <4>1, DeltaPlain
        <4> QED BY <1>3, <1>4, <1>6, <3>1, <3>2, <4>2
      <3>3. CASE d # c
        BY <1>4, <3>1, <3>3
      <3> QED BY <3>2, <3>3
    <2> QED BY <1>1, <1>2, <1>5, <2>1 DEF NothingMissed
  <1> QED BY <1>8, <1>9, <1>10, <1>11 DEF Ledger

LEMMA ReadFailsStep ==
  ASSUME TypeOK, sound, Ledger, NEW p \in Polls, NEW c \in Cores, ReadFails(p, c)
  PROVE  Ledger'
  <1> USE DEF TypeOK
  <1>1. /\ pc[p] = "reading" /\ c \in todo[p] /\ Current(p, c)
        /\ sample' = [sample EXCEPT ![p] = None]
        /\ todo' = [todo EXCEPT ![p] = @ \ {c}]
        /\ UNCHANGED <<moved, counter, tracker, disk, got, base, pc, delivered,
                       lossy, exposed, sound>>
    BY DEF ReadFails, Current
  <1>2. \A q \in Polls : q # p => pc[q] = "idle" /\ sample[q] = None
    BY <1>1, OthersIdle
  <1>3. /\ \A q \in Polls : sample'[q] = None
        /\ todo'[p] = todo[p] \ {c}
        /\ \A q \in Polls : q # p => todo'[q] = todo[q]
    BY <1>1, <1>2
  <1>4. Idle' = Idle /\ ~Idle
    BY <1>1 DEF Idle
  <1>5. \A q \in Polls, d \in Cores : ~InHand(q, d)'
    BY <1>3 DEF InHand
  <1>6. TakingTurns'
    BY <1>1, <1>2, <1>3 DEF Ledger, TakingTurns
  <1>7. NothingOwed'
    <2>1. ASSUME NEW d \in Cores \ exposed
          PROVE  delivered[d] + got[p][d] + Delta(counter[d], tracker[d]) <= moved[d]
      <3>1. CASE InHand(p, d)
        <4>1. delivered[d] + got[p][d]
                + (Delta(sample[p], tracker[d]) + Delta(counter[d], sample[p])) <= moved[d]
          BY <1>1, <3>1 DEF Ledger, NothingOwed
        <4>2. sample[p] \in Nat /\ counter[d] \in Nat /\ tracker[d] \in Nat
          BY <3>1 DEF InHand
        <4>3. /\ Delta(counter[d], tracker[d])
                   <= Delta(sample[p], tracker[d]) + Delta(counter[d], sample[p])
              /\ Delta(counter[d], tracker[d]) \in Nat
              /\ Delta(sample[p], tracker[d]) \in Nat
              /\ Delta(counter[d], sample[p]) \in Nat
          BY <4>2, DeltaTriangle, DeltaNat
        <4>4. delivered[d] \in Nat /\ got[p][d] \in Nat /\ moved[d] \in Nat
          OBVIOUS
        <4> HIDE DEF TypeOK
        <4> QED BY <4>1, <4>3, <4>4
      <3>2. CASE ~InHand(p, d)
        BY <1>1, <3>2 DEF Ledger, NothingOwed
      <3> QED BY <3>1, <3>2
    <2>2. \A d \in Cores \ exposed : delivered[d] + Delta(counter[d], disk[d]) <= moved[d]
      BY DEF Ledger, NothingOwed
    <2> QED BY <1>1, <1>2, <1>4, <1>5, <2>1, <2>2 DEF NothingOwed
  <1>8. Behind'
    BY <1>1, <1>5 DEF Ledger, Behind
  <1>9. NothingMissed'
    BY <1>1, <1>4 DEF Ledger, NothingMissed
  <1> QED BY <1>6, <1>7, <1>8, <1>9 DEF Ledger

LEMMA SaveStep ==
  ASSUME TypeOK, sound, Ledger, NEW p \in Polls, Save(p)
  PROVE  Ledger'
  <1> USE DEF TypeOK
  <1>1. /\ pc[p] = "reading" /\ todo[p] = {}
        /\ disk' = Merged(p)
        /\ pc' = [pc EXCEPT ![p] = "replying"]
        /\ UNCHANGED <<moved, counter, tracker, todo, sample, got, base,
                       delivered, lossy, exposed, sound>>
    BY DEF Save
  <1>2. \A q \in Polls : q # p => pc[q] = "idle" /\ sample[q] = None
    BY <1>1, OthersIdle
  <1>3. /\ pc'[p] = "replying" /\ \A q \in Polls : q # p => pc'[q] = pc[q]
        /\ ~Idle /\ ~Idle'
    BY <1>1 DEF Idle
  <1>4. \A c \in Cores : disk'[c] = IF base[p][c] = None THEN disk[c] ELSE tracker[c]
    BY <1>1 DEF Merged, Ledger, TakingTurns
  <1>5. /\ \A q \in Polls : sample[q] = None
        /\ \A q \in Polls, c \in Cores : ~InHand(q, c) /\ ~InHand(q, c)'
    BY <1>1, <1>2 DEF InHand, Ledger, TakingTurns
  <1>6. TakingTurns'
    BY <1>1, <1>2, <1>3, <1>4, <1>5 DEF Ledger, TakingTurns
  <1>7. NothingOwed'
    <2>1. ASSUME NEW c \in Cores \ exposed
          PROVE  /\ delivered[c] + got[p][c] + Delta(counter[c], tracker[c]) <= moved[c]
                 /\ delivered[c] + Delta(counter[c], disk'[c]) <= moved[c]
      <3>1. /\ delivered[c] + got[p][c] + Delta(counter[c], tracker[c]) <= moved[c]
            /\ delivered[c] + Delta(counter[c], disk[c]) <= moved[c]
        BY <1>1, <1>5 DEF Ledger, NothingOwed
      <3>2. Delta(counter[c], tracker[c]) \in Nat
        BY DeltaNat
      <3>3. delivered[c] + Delta(counter[c], tracker[c]) <= moved[c]
        BY <3>1, <3>2
      <3> QED BY <1>4, <3>1, <3>3
    <2> QED BY <1>1, <1>2, <1>3, <1>5, <2>1 DEF NothingOwed
  <1>8. Behind'
    BY <1>1, <1>5 DEF Ledger, Behind
  <1>9. NothingMissed'
    BY <1>1, <1>2, <1>3 DEF Ledger, NothingMissed
  <1> QED BY <1>6, <1>7, <1>8, <1>9 DEF Ledger

(* The handler of p has ended: nobody is open any more.                    *)
LEMMA ClosedAll ==
  ASSUME TypeOK, sound, Ledger, NEW p \in Polls, pc[p] = "replying", Close(p)
  PROVE  /\ Idle' /\ TakingTurns'
         /\ \A q \in Polls : pc'[q] = "idle"
         /\ \A q \in Polls, c \in Cores : ~InHand(q, c)'
  <1> USE DEF TypeOK
  <1>1. /\ pc' = [pc EXCEPT ![p] = "idle"]
        /\ got' = [got EXCEPT ![p] = Zero]
        /\ base' = [base EXCEPT ![p] = [c \in Cores |-> None]]
        /\ UNCHANGED <<todo, sample>>
    BY DEF Close
  <1>2. \A q \in Polls : q # p => /\ pc[q] = "idle" /\ got[q] = Zero
                                  /\ \A c \in Cores : base[q][c] = None
    BY OthersIdle
  <1>3. \A q \in Polls : sample[q] = None
    BY OthersIdle DEF Ledger, TakingTurns
  <1>4. \A q \in Polls : /\ pc'[q] = "idle" /\ got'[q] = Zero
                         /\ \A c \in Cores : base'[q][c] = None
    BY <1>1, <1>2
  <1> QED BY <1>1, <1>3, <1>4 DEF Idle, TakingTurns, InHand

LEMMA DeliverStep ==
  ASSUME TypeOK, sound, Ledger, NEW p \in Polls, Deliver(p)
  PROVE  Ledger'
  <1> USE DEF TypeOK
  <1>1. /\ pc[p] = "replying" /\ Close(p)
        /\ delivered' = [c \in Cores |-> delivered[c] + got[p][c]]
        /\ UNCHANGED <<moved, counter, tracker, disk, lossy, exposed, sound>>
    BY DEF Deliver, Close
  <1>2. /\ Idle' /\ TakingTurns'
        /\ \A q \in Polls : pc'[q] = "idle"
        /\ \A q \in Polls, c \in Cores : ~InHand(q, c)'
    BY <1>1, ClosedAll
  <1>3. \A c \in Cores : ~InHand(p, c)
    BY <1>1 DEF InHand, Current
  <1>4. NothingOwed'
    <2>1. ASSUME NEW c \in Cores \ exposed
          PROVE  /\ delivered'[c] + Delta(counter[c], tracker[c]) <= moved[c]
                 /\ delivered'[c] + Delta(counter[c], disk[c]) <= moved[c]
      <3>1. /\ delivered[c] + got[p][c] + Delta(counter[c], tracker[c]) <= moved[c]
            /\ delivered[c] + Delta(counter[c], disk[c]) <= moved[c]
        BY <1>1, <1>3 DEF Ledger, NothingOwed
      <3>2. got[p][c] = 0 \/ disk[c] = tracker[c]
        BY <1>1 DEF Ledger, TakingTurns
      <3>3. delivered'[c] = delivered[c] + got[p][c]
        BY <1>1
      <3>4. Delta(counter[c], disk[c]) \in Nat
        BY DeltaNat
      <3> QED BY <3>1, <3>2, <3>3, <3>4
    <2> QED BY <1>1, <1>2, <2>1 DEF NothingOwed
  <1>5. Behind'
    BY <1>1, <1>2 DEF Ledger, Behind
  <1>6. NothingMissed'
    <2>1. ASSUME NEW c \in Cores \ lossy
          PROVE  moved[c] = delivered'[c] + counter[c] - tracker[c]
      BY <1>1 DEF Ledger, NothingMissed
    <2> QED BY <1>1, <1>2, <2>1 DEF NothingMissed
  <1> QED BY <1>2, <1>4, <1>5, <1>6 DEF Ledger

LEMMA LoseReplyStep ==
  ASSUME TypeOK, sound, Ledger, NEW p \in Polls, LoseReply(p)
  PROVE  Ledger'
  <1> USE DEF TypeOK
  <1>1. /\ pc[p] = "replying" /\ Close(p)
        /\ lossy' = lossy \cup {c \in Cores : got[p][c] > 0}
        /\ UNCHANGED <<moved, counter, tracker, disk, delivered, exposed, sound>>
    BY DEF LoseReply, Close
  <1>2. /\ Idle' /\ TakingTurns'
        /\ \A q \in Polls : pc'[q] = "idle"
        /\ \A q \in Polls, c \in Cores : ~InHand(q, c)'
    BY <1>1, ClosedAll
  <1>3. \A c \in Cores : ~InHand(p, c)
    BY <1>1 DEF InHand, Current
  <1>4. NothingOwed'
    <2>1. ASSUME NEW c \in Cores \ exposed
          PROVE  /\ delivered[c] + Delta(counter[c], tracker[c]) <= moved[c]
                 /\ delivered[c] + Delta(counter[c], disk[c]) <= moved[c]
      <3>1. /\ delivered[c] + got[p][c] + Delta(counter[c], tracker[c]) <= moved[c]
            /\ delivered[c] + Delta(counter[c], disk[c]) <= moved[c]
        BY <1>1, <1>3 DEF Ledger, NothingOwed
      <3>2. Delta(counter[c], tracker[c]) \in Nat
        BY DeltaNat
      <3> QED BY <3>1, <3>2
    <2> QED BY <1>1, <1>2, <2>1 DEF NothingOwed
  <1>5. Behind'
    BY <1>1, <1>2 DEF Ledger, Behind
  <1>6. NothingMissed'
    <2>1. ASSUME NEW c \in Cores \ lossy'
          PROVE  moved[c] = delivered[c] + counter[c] - tracker[c]
      <3>1. got[p][c] = 0 /\ c \notin lossy
        BY <1>1
      <3>2. moved[c] = delivered[c] + counter[c] - tracker[c] + got[p][c]
        BY <1>1, <3>1 DEF Ledger, NothingMissed
      <3>3. /\ moved[c] \in Nat /\ delivered[c] \in Nat /\ counter[c] \in Nat
            /\ tracker[c] \in Nat
        OBVIOUS
      <3> HIDE DEF TypeOK
      <3> QED BY <3>1, <3>2, <3>3
    <2> QED BY <1>1, <1>2, <2>1 DEF NothingMissed
  <1> QED BY <1>2, <1>4, <1>5, <1>6 DEF Ledger

(* A cursor that a restart loses does no harm when nothing had been kept   *)
(* of it, or when its counter starts again too.                            *)
LEMMA RestartStep ==
  ASSUME TypeOK, sound, Ledger, NEW replaced \in SUBSET Keyed, Restart(replaced)
  PROVE  Ledger'
  <1> USE DEF TypeOK
  <1>1. /\ tracker' = [c \in Cores |-> IF c \in Keyed THEN 0 ELSE disk[c]]
        /\ counter' = [c \in Cores |-> IF c \in replaced THEN 0 ELSE counter[c]]
        /\ exposed' = exposed \cup
               {c \in Keyed \ replaced : disk[c] > 0 /\ counter[c] > 0}
        /\ disk' = disk /\ lossy' = Cores
        /\ sample' = [p \in Polls |-> None] /\ todo' = [p \in Polls |-> {}]
        /\ got' = [p \in Polls |-> Zero] /\ pc' = [p \in Polls |-> "idle"]
        /\ base' = [p \in Polls |-> [c \in Cores |-> None]]
        /\ UNCHANGED <<moved, delivered>>
    BY DEF Restart, Rebooted, Restored, Replaced
  <1>2. TakingTurns'
    BY <1>1 DEF TakingTurns
  <1>3. NothingOwed'
    <2>1. ASSUME NEW c \in Cores \ exposed'
          PROVE  /\ delivered[c] + Delta(counter'[c], disk[c]) <= moved[c]
                 /\ delivered[c] + Delta(counter'[c], tracker'[c]) <= moved[c]
      <3>1. /\ c \notin exposed /\ disk[c] \in Nat /\ counter[c] \in Nat
            /\ delivered[c] \in Nat /\ moved[c] \in Nat
        BY <1>1
      <3>2. delivered[c] + Delta(counter[c], disk[c]) <= moved[c]
        BY <3>1 DEF Ledger, NothingOwed
      <3>3. CASE counter'[c] = 0
        <4>1. tracker'[c] \in Nat
          BY <1>1, <3>1
        <4>2. Delta(0, disk[c]) = 0 /\ Delta(0, tracker'[c]) = 0
          BY <3>1, <4>1, DeltaSelf
        <4>3. Delta(counter[c], disk[c]) \in Nat
          BY <3>1, DeltaNat
        <4> QED BY <3>1, <3>2, <3>3, <4>2, <4>3
      <3>4. CASE counter'[c] # 0
        <4>1. counter'[c] = counter[c] /\ c \notin replaced /\ counter[c] > 0
          BY <1>1, <3>1, <3>4
        <4>2. tracker'[c] = disk[c]
          BY <1>1, <3>1, <4>1
        <4> QED BY <3>2, <4>1, <4>2
      <3> QED BY <3>3, <3>4
    <2>2. \A p \in Polls : pc'[p] = "idle"
      BY <1>1
    <2> QED BY <1>1, <2>1, <2>2 DEF NothingOwed
  <1>4. Behind' /\ NothingMissed'
    BY <1>1 DEF Behind, NothingMissed
  <1> QED BY <1>2, <1>3, <1>4 DEF Ledger

---------------------------------------------------------------------------
LEMMA InitEstablishes == Init => IInv
  <1> SUFFICES ASSUME Init PROVE IInv
    OBVIOUS
  <1>1. TypeOK
    BY InitTyped
  <1>2. Delta(0, 0) = 0
    BY DeltaSelf
  <1>3. /\ \A p \in Polls : /\ pc[p] = "idle" /\ sample[p] = None /\ got[p] = Zero
                            /\ \A c \in Cores : base[p][c] = None
        /\ \A c \in Cores : /\ moved[c] = 0 /\ counter[c] = 0 /\ tracker[c] = 0
                            /\ disk[c] = 0 /\ delivered[c] = 0
    BY DEF Init, Zero
  <1>4. TakingTurns
    BY <1>3 DEF TakingTurns
  <1>5. NothingOwed
    BY <1>2, <1>3 DEF NothingOwed
  <1>6. Behind
    BY <1>3 DEF Behind, InHand
  <1>7. NothingMissed
    BY <1>3 DEF NothingMissed
  <1> QED BY <1>1, <1>4, <1>5, <1>6, <1>7 DEF IInv, Ledger

LEMMA NextPreserves == IInv /\ [Next]_vars => IInv'
  <1> SUFFICES ASSUME IInv, [Next]_vars PROVE IInv'
    OBVIOUS
  <1>1. TypeOK'
    BY NextTyped DEF IInv
  <1>2. ASSUME sound' PROVE Ledger'
    <2>1. (sound /\ TypeOK /\ Ledger) \/ UNCHANGED vars
      <3>1. Next /\ sound' => sound
        BY DEF Next, Traffic, CounterReset, PollBegin, Sample, Observe, ReadFails,
               Save, SaveFails, DieInSave, Deliver, LoseReply, Close, Restart
      <3> QED BY <1>2, <3>1 DEF IInv
    <2>2. CASE UNCHANGED vars
      <3>1. sound /\ Ledger
        BY <1>2, <2>2 DEF IInv, vars
      <3> QED BY <2>2, <3>1
          DEF vars, reply, Ledger, TakingTurns, NothingOwed, Behind, NothingMissed,
              Idle, InHand, Current
    <2>3. CASE sound /\ TypeOK /\ Ledger /\ Next
      <3>1. ~(\E p \in Polls : \/ SaveFails(p)
                               \/ \E replaced \in SUBSET Keyed :
                                    DieInSave(p, replaced))
        BY <1>2 DEF SaveFails, DieInSave
      <3> QED
        BY <1>2, <2>3, <3>1, TrafficStep, ResetStep, PollBeginStep, SampleStep,
           ObserveStep, ReadFailsStep, SaveStep, DeliverStep, LoseReplyStep,
           RestartStep DEF Next
    <2> QED BY <2>1, <2>2, <2>3
  <1> QED BY <1>1, <1>2 DEF IInv

LEMMA Invariance == Spec => []IInv
  BY InitEstablishes, NextPreserves, PTL DEF Spec

(* Every variable of the telemetry keeps its type.                         *)
THEOREM TypeCorrect == Spec => []TypeOK
  <1>1. IInv => TypeOK
    BY DEF IInv
  <1> QED BY <1>1, Invariance, PTL

(* The panel is never told of more bytes than have crossed a counter, for  *)
(* any number of cores, polls, resets, restarts and lost replies, while    *)
(* polls take turns, the file can be written and the counter is not one of *)
(* WireGuard that outlived its cursor.                                     *)
THEOREM NeverTwice == Spec => []NoDoubleCount
  <1>1. IInv => NoDoubleCount
    <2> SUFFICES ASSUME TypeOK, Ledger, NEW c \in Cores \ exposed
                 PROVE  delivered[c] <= moved[c]
      BY DEF IInv, NoDoubleCount
    <2>1. /\ delivered[c] \in Nat /\ moved[c] \in Nat
          /\ counter[c] \in Nat /\ disk[c] \in Nat
      BY DEF TypeOK
    <2>2. Delta(counter[c], disk[c]) \in Nat
      BY <2>1, DeltaNat
    <2>3. delivered[c] + Delta(counter[c], disk[c]) <= moved[c]
      BY DEF Ledger, NothingOwed
    <2> QED BY <2>1, <2>2, <2>3
  <1> QED BY <1>1, Invariance, PTL

(* Of a core that has lost no reply and no counter every byte is accounted *)
(* for, whatever reads have failed.                                        *)
THEOREM NoneForgotten == Spec => []NothingMissed
  <1>1. IInv => NothingMissed
    BY DEF IInv, Ledger, NothingMissed
  <1> QED BY <1>1, Invariance, PTL

===========================================================================
