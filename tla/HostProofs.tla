----------------------------- MODULE HostProofs -----------------------------
(***************************************************************************)
(* The two components whose state is kept by the host itself: the ban      *)
(* table of the kernel, for any number of addresses and requests, any time *)
(* and any delay of a command, and the files of the certificate, for any   *)
(* number of processes and pairs and wherever a process dies.  Neither     *)
(* refers to the other.                                                    *)
(***************************************************************************)
EXTENDS IpBans, TlsMaterial, TLAPS

(***************************************************************************)
(* The ban table.                                                          *)
(***************************************************************************)
Request == [pc : {"idle", "apply", "terminate"}, bans : [Ips -> Times \cup {NoBan}],
            ips : SUBSET Ips, read : Times, found : BOOLEAN, alone : BOOLEAN]

(* What apply() has on its way is not older than MaxDelay, was active when *)
(* it read the clock, and will be followed by closing the sessions.        *)
OnItsWay ==
    \A r \in Puts : put[r].pc = "apply" =>
        /\ put[r].read <= now /\ now <= put[r].read + MaxDelay
        /\ \A i \in Ips : put[r].bans[i] # NoBan =>
               i \in put[r].ips /\ put[r].read < put[r].bans[i]

(* A request that has met no other one still knows whether the table is    *)
(* there.                                                                  *)
AloneKnows ==
    \A r \in Puts : put[r].alone =>
        /\ put[r].pc = "apply" /\ put[r].found = exists
        /\ \A q \in Puts : put[q].pc # "idle" => q = r

(* The elements are those of the last request that succeeded, each cut to  *)
(* whole seconds and late by the delay of its command.                     *)
AsLoaded ==
    settled => \A i \in Ips :
        /\ asked[i] # NoBan => asked[i] - 1 <= table[i]
        /\ table[i] # NoBan => asked[i] # NoBan /\ table[i] <= asked[i] + delay + 1

(* Whoever is blocked has no session, or is about to lose it.              *)
OutOrLeaving ==
    settled => \A i \in sessions : Blocked(i) =>
        \E r \in Puts : put[r].pc = "terminate" /\ i \in put[r].ips

BanInv == BanTypeOK /\ OnItsWay /\ AloneKnows /\ AsLoaded /\ OutOrLeaving

-----------------------------------------------------------------------------
(* Max of a pair, by its definition in FiniteSetsExt.                      *)
LEMMA MaxOfTwo ==
  ASSUME NEW a \in Int, NEW b \in Int
  PROVE  Max({a, b}) \in {a, b} /\ Max({a, b}) >= a /\ Max({a, b}) >= b
  <1>1. \E x \in {a, b} : \A y \in {a, b} : x >= y
    OBVIOUS
  <1>2. Max({a, b}) \in {a, b} /\ \A y \in {a, b} : Max({a, b}) >= y
    BY <1>1 DEF Max
  <1> QED BY <1>2

LEMMA SlackBounds ==
  /\ Max({MaxDelay, 2}) \in Nat
  /\ Max({MaxDelay, 2}) >= MaxDelay /\ Max({MaxDelay, 2}) >= 2
  <1>1. MaxDelay \in Int /\ 2 \in Int /\ MaxDelay >= 0
    BY BanAssumption
  <1>2. /\ Max({MaxDelay, 2}) \in {MaxDelay, 2}
        /\ Max({MaxDelay, 2}) >= MaxDelay /\ Max({MaxDelay, 2}) >= 2
    BY <1>1, MaxOfTwo
  <1> QED BY <1>1, <1>2

(* The cut to whole seconds takes half a second at most, except that it    *)
(* never goes below one second.                                            *)
LEMMA SecondsBounds ==
  ASSUME NEW e \in Nat, NEW r \in Nat, r < e
  PROVE  /\ Seconds(e, r) \in Nat \ {0}
         /\ e - r - 1 <= 2 * Seconds(e, r)
         /\ 2 * Seconds(e, r) <= e - r \/ Seconds(e, r) = 1
  <1> DEFINE d == e - r
             h == d \div 2
  <1>1. d \in Nat \ {0}
    OBVIOUS
  <1> HIDE DEF d
  <1>2. h \in Nat /\ 2 * h <= d /\ d <= 2 * h + 1
    BY <1>1
  <1>3. Seconds(e, r) = Max({1, h})
    BY DEF Seconds, d
  <1> HIDE DEF h
  <1>4. Max({1, h}) \in {1, h} /\ Max({1, h}) >= 1 /\ Max({1, h}) >= h
    <2>1. 1 \in Int /\ h \in Int
      BY <1>2
    <2> QED BY <2>1, MaxOfTwo
  <1>5. d - 1 <= 2 * Max({1, h}) /\ (2 * Max({1, h}) <= d \/ Max({1, h}) = 1)
    BY <1>1, <1>2, <1>4
  <1> QED BY <1>2, <1>3, <1>4, <1>5 DEF d

(* An element of the command: none for no ban, and otherwise within a half *)
(* second of the expiry, plus the delay, and never over at once.           *)
LEMMA ElementBounds ==
  ASSUME BanTypeOK, OnItsWay, NEW r \in Puts, put[r].pc = "apply", NEW i \in Ips
  PROVE  /\ put[r].bans[i] = NoBan => Elements(r)[i] = NoBan
         /\ put[r].bans[i] # NoBan =>
              /\ Elements(r)[i] \in Nat
              /\ put[r].bans[i] - 1 <= Elements(r)[i]
              /\ Elements(r)[i] <= put[r].bans[i] + (now - put[r].read) + 1
              /\ Elements(r)[i] <= MaxTime + Max({MaxDelay, 2})
  <1> DEFINE e == put[r].bans[i]
             read == put[r].read
             s == Seconds(e, read)
  <1>1. /\ now \in Nat /\ now <= MaxTime /\ read \in Nat
        /\ read <= now /\ now <= read + MaxDelay
    BY BanAssumption DEF BanTypeOK, OnItsWay, Request, Times
  <1>2. Elements(r)[i] = IF e = NoBan THEN NoBan ELSE now + 2 * s
    BY DEF Elements
  <1>3. CASE e # NoBan
    <2>1. e \in Nat /\ e <= MaxTime /\ read < e
      BY <1>3, BanAssumption DEF BanTypeOK, OnItsWay, Request, Times
    <2>2. s \in Nat /\ s >= 1 /\ e - read - 1 <= 2 * s /\ (2 * s <= e - read \/ s = 1)
      BY <1>1, <2>1, SecondsBounds
    <2>3. /\ Max({MaxDelay, 2}) \in Nat
          /\ Max({MaxDelay, 2}) >= MaxDelay /\ Max({MaxDelay, 2}) >= 2
      BY SlackBounds
    <2> DEFINE m == Max({MaxDelay, 2})
    <2> HIDE DEF e, read, s, m
    <2>4. /\ now + 2 * s \in Nat
          /\ e - 1 <= now + 2 * s
          /\ now + 2 * s <= e + (now - read) + 1
      BY <1>1, <2>1, <2>2
    <2>5. now + 2 * s <= MaxTime + m
      BY <1>1, <2>1, <2>2, <2>3, BanAssumption DEF m
    <2> QED BY <1>2, <1>3, <2>4, <2>5 DEF e, read, s, m
  <1> QED BY <1>2, <1>3

-----------------------------------------------------------------------------
LEMMA ClosedTyped ==
  /\ Closed \in Request /\ Closed.pc = "idle" /\ ~Closed.alone
  /\ NoBans \in [Ips -> Times \cup {NoBan}] /\ \A i \in Ips : NoBans[i] = NoBan
  BY BanAssumption DEF Closed, Request, NoBans, Times

LEMMA BanInitInv == BanInit => BanInv
  <1> SUFFICES ASSUME BanInit PROVE BanInv
    OBVIOUS
  <1>1. Closed \in Request /\ Closed.pc = "idle" /\ ~Closed.alone
    BY ClosedTyped
  <1>2. NoBans \in [Ips -> Times \cup {NoBan}] /\ \A i \in Ips : NoBans[i] = NoBan
    BY ClosedTyped
  <1>3. \A i \in Ips : ~Blocked(i)
    BY <1>2 DEF BanInit, Blocked, NoBan
  <1>4. \A r \in Puts : put[r] = Closed
    BY DEF BanInit
  <1>5. BanTypeOK
    <2>1. table \in [Ips -> {NoBan} \cup 0..(MaxTime + Max({MaxDelay, 2}))]
      BY DEF BanInit, NoBans
    <2>2. put \in [Puts -> Request]
      BY <1>1 DEF BanInit
    <2>3. now \in Times /\ delay \in 0..MaxDelay
      BY BanAssumption DEF BanInit, Times
    <2> QED BY <1>2, <2>1, <2>2, <2>3 DEF BanInit, BanTypeOK, Request
  <1>6. OnItsWay /\ AloneKnows /\ OutOrLeaving
    <2>1. \A r \in Puts : put[r].pc = "idle" /\ ~put[r].alone
      BY <1>1, <1>4
    <2> QED BY <1>3, <2>1 DEF OnItsWay, AloneKnows, OutOrLeaving, BanInit
  <1>7. AsLoaded
    BY <1>2 DEF AsLoaded, BanInit
  <1> QED BY <1>5, <1>6, <1>7 DEF BanInv

LEMMA TickKeeps == BanInv /\ Tick => BanInv'
  <1> SUFFICES ASSUME BanInv, Tick PROVE BanInv'
    OBVIOUS
  <1>1. /\ now \in Nat /\ now < MaxTime /\ now' = now + 1
        /\ UNCHANGED <<table, exists, put, sessions, asked, delay, settled>>
    BY BanAssumption DEF BanInv, BanTypeOK, Tick, Times
  <1>2. BanTypeOK'
    <2>1. now' \in Times
      BY <1>1, BanAssumption DEF Times
    <2> QED BY <1>1, <2>1 DEF BanInv, BanTypeOK
  <1>3. OnItsWay'
    <2> SUFFICES ASSUME NEW r \in Puts, put[r].pc = "apply"
                 PROVE  put[r].read <= now + 1 /\ now + 1 <= put[r].read + MaxDelay
      BY <1>1 DEF BanInv, OnItsWay
    <2>1. put[r].read \in Nat /\ put[r].read <= now
      BY BanAssumption DEF BanInv, BanTypeOK, OnItsWay, Times
    <2>2. now - put[r].read < MaxDelay
      BY DEF Tick
    <2> QED BY <1>1, <2>1, <2>2, BanAssumption
  <1>4. AloneKnows' /\ AsLoaded'
    BY <1>1 DEF BanInv, AloneKnows, AsLoaded
  <1>5. OutOrLeaving'
    <2>1. \A i \in Ips : Blocked(i)' => Blocked(i)
      <3> TAKE i \in Ips
      <3>1. table[i] \in Int
        BY SlackBounds, BanAssumption DEF BanInv, BanTypeOK, NoBan
      <3> QED BY <1>1, <3>1 DEF Blocked
    <2> QED BY <1>1, <2>1 DEF BanInv, BanTypeOK, OutOrLeaving
  <1> QED BY <1>2, <1>3, <1>4, <1>5 DEF BanInv

LEMMA ConnectKeeps ==
  ASSUME BanInv, NEW i \in Ips, Connect(i)
  PROVE  BanInv'
  <1>1. /\ ~Blocked(i) /\ sessions' = sessions \cup {i}
        /\ UNCHANGED <<now, table, exists, put, asked, delay, settled>>
    BY DEF Connect
  <1>2. BanTypeOK'
    BY <1>1 DEF BanInv, BanTypeOK
  <1>3. OnItsWay' /\ AloneKnows' /\ AsLoaded'
    BY <1>1 DEF BanInv, OnItsWay, AloneKnows, AsLoaded
  <1>4. OutOrLeaving'
    BY <1>1 DEF BanInv, OutOrLeaving, Blocked
  <1> QED BY <1>2, <1>3, <1>4 DEF BanInv

LEMMA BeginKeeps ==
  ASSUME BanInv, NEW r \in Puts, NEW bans \in [Ips -> Times \cup {NoBan}],
         PutBegin(r, bans)
  PROVE  BanInv'
  <1> DEFINE mine == [pc |-> "apply", read |-> now, found |-> exists, alone |-> Open = {},
                      bans |-> [i \in Ips |-> IF bans[i] > now THEN bans[i] ELSE NoBan],
                      ips |-> {i \in Ips : bans[i] # NoBan}]
  <1>1. /\ put[r].pc = "idle"
        /\ put' = [q \in Puts |-> IF q # r THEN [put[q] EXCEPT !.alone = FALSE] ELSE mine]
        /\ settled' = (settled /\ Open = {})
        /\ UNCHANGED <<now, table, exists, sessions, asked, delay>>
    BY DEF PutBegin, Open
  <1>2. mine \in Request
    <2>1. now \in Times /\ exists \in BOOLEAN /\ (Open = {}) \in BOOLEAN
      BY DEF BanInv, BanTypeOK
    <2>2. [i \in Ips |-> IF bans[i] > now THEN bans[i] ELSE NoBan]
            \in [Ips -> Times \cup {NoBan}]
      OBVIOUS
    <2> QED BY <2>1, <2>2 DEF Request
  <1>3. /\ mine.pc = "apply" /\ mine.read = now /\ mine.found = exists
        /\ mine.alone = (Open = {}) /\ mine.ips = {i \in Ips : bans[i] # NoBan}
        /\ \A i \in Ips : mine.bans[i] = IF bans[i] > now THEN bans[i] ELSE NoBan
    OBVIOUS
  <1> HIDE DEF mine
  <1>4. \A q \in Puts : q # r =>
            /\ put'[q] \in Request /\ put'[q].pc = put[q].pc
            /\ put'[q].read = put[q].read /\ put'[q].bans = put[q].bans
            /\ put'[q].ips = put[q].ips /\ ~put'[q].alone
    BY <1>1 DEF BanInv, BanTypeOK, Request
  <1>5. put'[r] = mine
    BY <1>1
  <1>6. BanTypeOK'
    <2>1. put' \in [Puts -> Request]
      BY <1>1, <1>2, <1>4, <1>5
    <2>2. settled' \in BOOLEAN
      BY <1>1
    <2> QED BY <1>1, <2>1, <2>2 DEF BanInv, BanTypeOK, Request
  <1>7. OnItsWay'
    <2>1. now \in Nat /\ MaxDelay \in Nat
      BY BanAssumption DEF BanInv, BanTypeOK, Times
    <2>2. \A i \in Ips : mine.bans[i] # NoBan => i \in mine.ips /\ now < mine.bans[i]
      <3> TAKE i \in Ips
      <3> HAVE mine.bans[i] # NoBan
      <3>1. bans[i] > now /\ mine.bans[i] = bans[i]
        BY <1>3
      <3>2. bans[i] \in Nat
        BY <2>1, <3>1, BanAssumption DEF Times, NoBan
      <3> QED BY <1>3, <2>1, <3>1, <3>2 DEF NoBan
    <2>3. \A q \in Puts : q # r /\ put'[q].pc = "apply" =>
            /\ put'[q].read <= now' /\ now' <= put'[q].read + MaxDelay
            /\ \A i \in Ips : put'[q].bans[i] # NoBan =>
                   i \in put'[q].ips /\ put'[q].read < put'[q].bans[i]
      BY <1>1, <1>4 DEF BanInv, OnItsWay
    <2>4. /\ put'[r].read <= now' /\ now' <= put'[r].read + MaxDelay
          /\ \A i \in Ips : put'[r].bans[i] # NoBan =>
                 i \in put'[r].ips /\ put'[r].read < put'[r].bans[i]
      BY <1>1, <1>3, <1>5, <2>1, <2>2
    <2> QED BY <2>3, <2>4 DEF OnItsWay
  <1>8. AloneKnows'
    <2> SUFFICES ASSUME NEW q \in Puts, put'[q].alone
                 PROVE  /\ put'[q].pc = "apply" /\ put'[q].found = exists'
                        /\ \A p \in Puts : put'[p].pc # "idle" => p = q
      BY DEF AloneKnows
    <2>1. q = r /\ Open = {}
      BY <1>3, <1>4, <1>5
    <2>2. \A p \in Puts : p # r => put'[p].pc = "idle"
      BY <1>4, <2>1 DEF Open
    <2> QED BY <1>1, <1>3, <1>5, <2>1, <2>2
  <1>9. AsLoaded'
    BY <1>1 DEF BanInv, AsLoaded
  <1>10. OutOrLeaving'
    <2>1. settled' => settled
      BY <1>1
    <2>2. \A q \in Puts : put[q].pc = "terminate" =>
             put'[q].pc = "terminate" /\ put'[q].ips = put[q].ips
      BY <1>1, <1>4
    <2> QED BY <1>1, <2>1, <2>2 DEF BanInv, OutOrLeaving, Blocked
  <1> QED BY <1>6, <1>7, <1>8, <1>9, <1>10 DEF BanInv

(* A request that goes on to close the sessions, or leaves: the others are *)
(* what they were, and none of them has been alone.                        *)
LEMMA MovesOn ==
  ASSUME BanInv, NEW r \in Puts, put[r].pc # "idle",
         NEW new \in Request, new.pc # "apply", ~new.alone,
         put' = [put EXCEPT ![r] = new], now' = now
  PROVE  /\ put' \in [Puts -> Request] /\ put'[r] = new
         /\ \A q \in Puts : q # r => put'[q] = put[q]
         /\ OnItsWay' /\ AloneKnows'
  <1>1. /\ put' \in [Puts -> Request] /\ put'[r] = new
        /\ \A q \in Puts : q # r => put'[q] = put[q]
    BY DEF BanInv, BanTypeOK, Request
  <1>2. OnItsWay'
    BY <1>1 DEF BanInv, OnItsWay
  <1>3. \A q \in Puts : ~put'[q].alone
    BY <1>1 DEF BanInv, AloneKnows
  <1>4. AloneKnows'
    BY <1>3 DEF AloneKnows
  <1> QED BY <1>1, <1>2, <1>4

(* What the command leaves in the table.                                   *)
LEMMA AppliedTable ==
  ASSUME BanInv, NEW r \in Puts, Apply(r)
  PROVE  /\ table' \in [Ips -> {NoBan} \cup 0..(MaxTime + Max({MaxDelay, 2}))]
         /\ exists' \in BOOLEAN
         /\ (\E i \in Ips : table'[i] # NoBan) => exists'
         /\ put[r].found = exists =>
              \A i \in Ips :
                 /\ put[r].bans[i] # NoBan => table'[i] = Elements(r)[i]
                 /\ put[r].bans[i] = NoBan => table'[i] = NoBan
  <1> DEFINE Deadline == {NoBan} \cup 0..(MaxTime + Max({MaxDelay, 2}))
  <1>1. /\ put[r].pc = "apply" /\ put[r].bans \in [Ips -> Times \cup {NoBan}]
        /\ table \in [Ips -> Deadline] /\ exists \in BOOLEAN
        /\ (\E i \in Ips : table[i] # NoBan) => exists
        /\ NoBan \in Deadline
    BY DEF Apply, BanInv, BanTypeOK
  <1>2. \A i \in Ips : Elements(r)[i] \in Deadline
    <2> TAKE i \in Ips
    <2>1. CASE put[r].bans[i] = NoBan
      BY <1>1, <2>1, ElementBounds DEF BanInv
    <2>2. CASE put[r].bans[i] # NoBan
      <3>1. /\ Elements(r)[i] \in Nat
            /\ Elements(r)[i] <= MaxTime + Max({MaxDelay, 2})
        BY <1>1, <2>2, ElementBounds DEF BanInv
      <3>2. Max({MaxDelay, 2}) \in Nat
        BY SlackBounds
      <3> QED BY <3>1, <3>2, BanAssumption
    <2> QED BY <2>1, <2>2
  <1>3. Elements(r) \in [Ips -> Deadline]
    BY <1>2 DEF Elements
  <1>4. \A i \in Ips : put[r].bans[i] = NoBan => Elements(r)[i] = NoBan
    BY DEF Elements
  <1>5. CASE put[r].bans = NoBans /\ ~put[r].found /\ UNCHANGED <<table, exists>>
    BY <1>1, <1>5, ClosedTyped
  <1>6. CASE put[r].bans = NoBans /\ put[r].found /\ table' = NoBans /\ exists' = FALSE
    BY <1>1, <1>6, ClosedTyped DEF NoBans
  <1>7. CASE Loaded(r) /\ exists' = TRUE
    <2>1. CASE table' = Elements(r)
      BY <1>3, <1>4, <1>7, <2>1
    <2>2. CASE /\ ~put[r].found /\ exists
               /\ \E mine \in SUBSET {i \in Ips : Elements(r)[i] # NoBan} :
                    table' = [i \in Ips |-> IF i \in mine \/ ~Blocked(i)
                                            THEN Elements(r)[i] ELSE table[i]]
      <3>1. table' \in [Ips -> Deadline]
        BY <1>1, <1>2, <2>2
      <3> QED BY <1>7, <2>2, <3>1
    <2> QED BY <1>7, <2>1, <2>2 DEF Loaded
  <1> QED BY <1>5, <1>6, <1>7 DEF Apply

LEMMA ApplyKeeps ==
  ASSUME BanInv, NEW r \in Puts, Apply(r)
  PROVE  BanInv'
  <1> DEFINE new == [Closed EXCEPT !.pc = "terminate", !.ips = put[r].ips]
  <1>1. /\ put[r].pc = "apply" /\ put' = [put EXCEPT ![r] = new]
        /\ asked' = put[r].bans /\ delay' = now - put[r].read
        /\ settled' = put[r].alone
        /\ UNCHANGED <<now, sessions>>
    BY DEF Apply
  <1>2. /\ put[r] \in Request /\ put[r].ips \in SUBSET Ips
        /\ put[r].bans \in [Ips -> Times \cup {NoBan}] /\ put[r].alone \in BOOLEAN
    BY DEF BanInv, BanTypeOK, Request
  <1>3. new \in Request /\ new.pc = "terminate" /\ new.ips = put[r].ips /\ ~new.alone
    BY <1>2, ClosedTyped DEF Closed, Request
  <1> HIDE DEF new
  <1>4. /\ put' \in [Puts -> Request] /\ put'[r] = new
        /\ OnItsWay' /\ AloneKnows'
    BY <1>1, <1>3, MovesOn
  <1>5. delay' \in 0..MaxDelay
    <2>1. /\ now \in Nat /\ put[r].read \in Nat
          /\ put[r].read <= now /\ now <= put[r].read + MaxDelay
      BY <1>1, BanAssumption DEF BanInv, BanTypeOK, OnItsWay, Times
    <2> QED BY <1>1, <2>1, BanAssumption
  <1>6. BanTypeOK'
    <2>1. /\ table' \in [Ips -> {NoBan} \cup 0..(MaxTime + Max({MaxDelay, 2}))]
          /\ exists' \in BOOLEAN
          /\ (\E i \in Ips : table'[i] # NoBan) => exists'
      BY AppliedTable
    <2>2. /\ now' \in Times /\ sessions' \subseteq Ips /\ settled' \in BOOLEAN
          /\ asked' \in [Ips -> Times \cup {NoBan}]
      BY <1>1, <1>2 DEF BanInv, BanTypeOK
    <2> QED BY <1>4, <1>5, <2>1, <2>2 DEF BanTypeOK, Request
  <1>7. put[r].alone => put[r].found = exists
    BY DEF BanInv, AloneKnows
  <1>8. AsLoaded'
    <2> SUFFICES ASSUME put[r].alone, NEW i \in Ips
                 PROVE  /\ put[r].bans[i] # NoBan => put[r].bans[i] - 1 <= table'[i]
                        /\ table'[i] # NoBan =>
                             /\ put[r].bans[i] # NoBan
                             /\ table'[i] <= put[r].bans[i] + (now - put[r].read) + 1
      BY <1>1 DEF AsLoaded
    <2>1. /\ put[r].bans[i] # NoBan => table'[i] = Elements(r)[i]
          /\ put[r].bans[i] = NoBan => table'[i] = NoBan
      BY <1>7, AppliedTable
    <2> QED BY <1>1, <2>1, ElementBounds DEF BanInv
  <1>9. OutOrLeaving'
    <2> SUFFICES ASSUME put[r].alone, NEW i \in sessions, Blocked(i)'
                 PROVE  put'[r].pc = "terminate" /\ i \in put'[r].ips
      BY <1>1 DEF OutOrLeaving
    <2>1. i \in Ips
      BY DEF BanInv, BanTypeOK
    <2>2. table'[i] # NoBan
      <3>1. now \in Nat
        BY BanAssumption DEF BanInv, BanTypeOK, Times
      <3> QED BY <1>1, <3>1 DEF Blocked, NoBan
    <2>3. put[r].bans[i] # NoBan
      BY <1>7, <2>1, <2>2, AppliedTable
    <2>4. i \in put[r].ips
      BY <1>1, <2>1, <2>3 DEF BanInv, OnItsWay
    <2> QED BY <1>3, <1>4, <2>4
  <1> QED BY <1>4, <1>6, <1>8, <1>9 DEF BanInv

LEMMA CloseKeeps ==
  ASSUME BanInv, NEW r \in Puts, ApplyFails(r) \/ Terminate(r) \/ TerminateFails(r)
  PROVE  BanInv'
  <1>1. /\ put[r].pc # "idle" /\ put' = [put EXCEPT ![r] = Closed]
        /\ UNCHANGED <<now, table, exists, asked, delay>>
        /\ settled' \in BOOLEAN
        /\ settled' => settled
        /\ sessions' \subseteq sessions
    <2>1. CASE ApplyFails(r)
      BY <2>1 DEF ApplyFails
    <2>2. CASE Terminate(r)
      BY <2>2 DEF Terminate, BanInv, BanTypeOK
    <2>3. CASE TerminateFails(r)
      BY <2>3 DEF TerminateFails
    <2> QED BY <2>1, <2>2, <2>3
  <1>2. /\ put' \in [Puts -> Request] /\ put'[r] = Closed
        /\ \A q \in Puts : q # r => put'[q] = put[q]
        /\ OnItsWay' /\ AloneKnows'
    BY <1>1, ClosedTyped, MovesOn
  <1>3. BanTypeOK'
    <2>1. put' \in [Puts -> Request] /\ sessions' \subseteq Ips
      BY <1>1, <1>2 DEF BanInv, BanTypeOK
    <2> QED BY <1>1, <2>1 DEF BanInv, BanTypeOK, Request
  <1>4. AsLoaded'
    BY <1>1 DEF BanInv, AsLoaded
  <1>5. OutOrLeaving'
    <2> SUFFICES ASSUME settled', NEW i \in sessions', Blocked(i)
                 PROVE  \E q \in Puts : put'[q].pc = "terminate" /\ i \in put'[q].ips
      BY <1>1 DEF OutOrLeaving, Blocked
    <2>1. Terminate(r) /\ i \notin put[r].ips
      BY DEF ApplyFails, Terminate, TerminateFails
    <2>2. PICK q \in Puts : put[q].pc = "terminate" /\ i \in put[q].ips
      BY <1>1 DEF BanInv, OutOrLeaving
    <2> QED BY <1>2, <2>1, <2>2
  <1> QED BY <1>2, <1>3, <1>4, <1>5 DEF BanInv

(* The strengthening is an invariant of the specification.                 *)
THEOREM BanInvariance == BanSpec => []BanInv
  <1>1. BanInv /\ [BanNext]_banVars => BanInv'
    <2> SUFFICES ASSUME BanInv, [BanNext]_banVars PROVE BanInv'
      OBVIOUS
    <2>1. CASE Tick
      BY <2>1, TickKeeps
    <2>2. ASSUME NEW i \in Ips, Connect(i) PROVE BanInv'
      BY <2>2, ConnectKeeps
    <2>3. ASSUME NEW r \in Puts, NEW bans \in [Ips -> Times \cup {NoBan}],
                 PutBegin(r, bans)
          PROVE  BanInv'
      BY <2>3, BeginKeeps
    <2>4. ASSUME NEW r \in Puts, Steps(r) PROVE BanInv'
      BY <2>4, ApplyKeeps, CloseKeeps DEF Steps
    <2>5. CASE UNCHANGED banVars
      BY <2>5 DEF banVars, BanInv, BanTypeOK, OnItsWay, AloneKnows, AsLoaded,
                  OutOrLeaving, Blocked
    <2> QED BY <2>1, <2>2, <2>3, <2>4, <2>5 DEF BanNext
  <1> QED BY <1>1, BanInitInv, PTL DEF BanSpec

(* Every variable has its type, and no element is in a table that is gone. *)
THEOREM BanTypeCorrect == BanSpec => []BanTypeOK
  <1>1. BanInv => BanTypeOK
    BY DEF BanInv
  <1> QED BY <1>1, BanInvariance, PTL

(* The kernel blocks what the panel asked for last, to within the cut to   *)
(* seconds and the delay of the command.                                   *)
THEOREM KernelBlocksWhatWasAsked == BanSpec => []BansAsAsked
  <1>1. BanInv => BansAsAsked
    <2> SUFFICES ASSUME BanInv, settled, NEW i \in Ips
                 PROVE  /\ asked[i] # NoBan /\ now < asked[i] - 1 => Blocked(i)
                        /\ Blocked(i) => asked[i] # NoBan /\ now < asked[i] + delay + 1
      BY DEF BansAsAsked
    <2>1. /\ now \in Nat /\ delay \in Nat
          /\ table[i] \in Nat \cup {NoBan} /\ asked[i] \in Nat \cup {NoBan}
      <3>1. Max({MaxDelay, 2}) \in Nat
        BY SlackBounds
      <3> QED BY <3>1, BanAssumption DEF BanInv, BanTypeOK, Times
    <2>2. /\ asked[i] # NoBan => asked[i] - 1 <= table[i]
          /\ table[i] # NoBan => asked[i] # NoBan /\ table[i] <= asked[i] + delay + 1
      BY DEF BanInv, AsLoaded
    <2> QED BY <2>1, <2>2 DEF Blocked, NoBan
  <1> QED BY <1>1, BanInvariance, PTL

(* When a request has been answered, nobody who is blocked has a session.  *)
THEOREM NoSessionSurvivesItsBan == BanSpec => []BannedAreOut
  <1>1. BanInv => BannedAreOut
    BY DEF BanInv, OutOrLeaving, BannedAreOut, Open
  <1> QED BY <1>1, BanInvariance, PTL

(***************************************************************************)
(* The files of the certificate.                                           *)
(***************************************************************************)
(* A process in generate() has been given a number.                        *)
Numbered == \A p \in Processes : proc[p] # Out => proc[p].pair \in 1..pairs

(* While processes take turns: generate() runs for want of a certificate,  *)
(* leaves its number in each file it has written, and the certificate,     *)
(* which is the last of them, brings its key with it.                      *)
TakingTurns ==
    /\ \A p, q \in Processes : proc[p] # Out /\ proc[q] # Out => p = q
    /\ \A p \in Processes :
         /\ proc[p] # Out => cert = None
         /\ proc[p].at = "key" => keyPart = proc[p].pair
         /\ proc[p].at \in {"certpart", "cert"} => key = proc[p].pair
         /\ proc[p].at = "cert" => certPart = proc[p].pair
    /\ cert # None => key = cert
    /\ shown \subseteq {cert}

IInv == TypeOK /\ Numbered /\ (~raced => TakingTurns)

-----------------------------------------------------------------------------
LEMMA InitTyped == Init => TypeOK /\ Numbered
  <1> SUFFICES ASSUME Init PROVE TypeOK /\ Numbered
    OBVIOUS
  <1>1. pairs \in 0..MaxPairs /\ shown \subseteq 1..pairs
    BY TlsAssumption DEF Init
  <1>2. /\ cert \in 0..pairs /\ certPart \in 0..pairs
        /\ key \in 0..pairs /\ keyPart \in 0..pairs
    BY TlsAssumption DEF Init, None
  <1>3. proc \in [Processes -> [at : {"out", "keypart", "key", "certpart", "cert"},
                               pair : 0..pairs]]
    BY TlsAssumption DEF Init, Out, None
  <1> QED BY <1>1, <1>2, <1>3 DEF Init, TypeOK, Numbered

LEMMA InitTurns == Init => TakingTurns
  BY DEF Init, TakingTurns, Out, None

(* Types and numbers, action by action.                                    *)
LEMMA NextTyped == TypeOK /\ Numbered /\ [Next]_vars => TypeOK' /\ Numbered'
  <1> SUFFICES ASSUME TypeOK, Numbered, [Next]_vars PROVE TypeOK' /\ Numbered'
    OBVIOUS
  <1> USE TlsAssumption DEF TypeOK, Numbered, Out, None
  <1>1. ASSUME NEW p \in Processes, Load(p) PROVE TypeOK' /\ Numbered'
    BY <1>1 DEF Load, files
  <1>2. ASSUME NEW p \in Processes, Generate(p) PROVE TypeOK' /\ Numbered'
    BY <1>2 DEF Generate, files
  <1>3. ASSUME NEW p \in Processes, WriteKey(p) PROVE TypeOK' /\ Numbered'
    BY <1>3 DEF WriteKey, Advance
  <1>4. ASSUME NEW p \in Processes, RenameKey(p) PROVE TypeOK' /\ Numbered'
    BY <1>4 DEF RenameKey, Advance
  <1>5. ASSUME NEW p \in Processes, WriteCert(p) PROVE TypeOK' /\ Numbered'
    BY <1>5 DEF WriteCert, Advance
  <1>6. ASSUME NEW p \in Processes, RenameCert(p) PROVE TypeOK' /\ Numbered'
    <2>1. proc[p].pair \in 1..pairs
      BY <1>6 DEF RenameCert
    <2>2. proc' \in [Processes -> [at : {"out", "keypart", "key", "certpart", "cert"},
                                  pair : 0..pairs]]
      BY <1>6 DEF RenameCert
    <2> QED BY <1>6, <2>1, <2>2 DEF RenameCert
  <1>7. ASSUME NEW p \in Processes, Die(p) PROVE TypeOK' /\ Numbered'
    BY <1>7 DEF Die, files
  <1>8. CASE UNCHANGED vars
    BY <1>8 DEF vars, files
  <1> QED
    BY <1>1, <1>2, <1>3, <1>4, <1>5, <1>6, <1>7, <1>8 DEF Next, GenerateSteps

(* Turns: only generate() can end them, and it says so in raced.           *)
LEMMA NextTurns == IInv /\ [Next]_vars /\ ~raced' => TakingTurns'
  <1> SUFFICES ASSUME IInv, [Next]_vars, ~raced' PROVE TakingTurns'
    OBVIOUS
  <1> USE DEF TypeOK, Numbered, TakingTurns, Out, None
  <1>0. ~raced
    BY DEF IInv, Next, Load, Generate, GenerateSteps, WriteKey, RenameKey,
           WriteCert, RenameCert, Die, vars
  <1>i. TypeOK /\ Numbered /\ TakingTurns
    BY <1>0 DEF IInv
  <1>1. ASSUME NEW p \in Processes, Load(p) PROVE TakingTurns'
    BY <1>i, <1>1 DEF Load, files
  <1>2. ASSUME NEW p \in Processes, Generate(p) PROVE TakingTurns'
    <2>1. \A q \in Processes : proc[q] = Out
      BY <1>2 DEF Generate
    <2>2. cert = None
      BY <1>i, <1>2 DEF Generate
    <2> QED BY <1>i, <1>2, <2>1, <2>2 DEF Generate, files
  <1>3. ASSUME NEW p \in Processes, WriteKey(p) PROVE TakingTurns'
    BY <1>i, <1>3 DEF WriteKey, Advance
  <1>4. ASSUME NEW p \in Processes, RenameKey(p) PROVE TakingTurns'
    BY <1>i, <1>4 DEF RenameKey, Advance
  <1>5. ASSUME NEW p \in Processes, WriteCert(p) PROVE TakingTurns'
    BY <1>i, <1>5 DEF WriteCert, Advance
  <1>6. ASSUME NEW p \in Processes, RenameCert(p) PROVE TakingTurns'
    <2>1. cert = None /\ shown = {}
      BY <1>i, <1>6 DEF RenameCert
    <2>2. certPart = proc[p].pair /\ key = proc[p].pair
      BY <1>i, <1>6 DEF RenameCert
    <2>3. \A q \in Processes : proc'[q] = Out
      BY <1>i, <1>6 DEF RenameCert
    <2> QED BY <1>i, <1>6, <2>1, <2>2, <2>3 DEF RenameCert
  <1>7. ASSUME NEW p \in Processes, Die(p) PROVE TakingTurns'
    BY <1>i, <1>7 DEF Die, files
  <1>8. CASE UNCHANGED vars
    BY <1>i, <1>8 DEF vars, files
  <1> QED
    BY <1>1, <1>2, <1>3, <1>4, <1>5, <1>6, <1>7, <1>8 DEF Next, GenerateSteps

(* The strengthening is an invariant of the specification.                 *)
THEOREM Invariance == Spec => []IInv
  <1>1. Init => IInv
    BY InitTyped, InitTurns DEF IInv
  <1>2. IInv /\ [Next]_vars => IInv'
    BY NextTyped, NextTurns DEF IInv
  <1> QED BY <1>1, <1>2, PTL DEF Spec

(* Every variable has its type: no number is shown that no pair has.       *)
THEOREM TypeCorrect == Spec => []TypeOK
  <1>1. IInv => TypeOK
    BY DEF IInv
  <1> QED BY <1>1, Invariance, PTL

(* A key and a certificate that are both on disk are one pair, after any   *)
(* number of crashes between the files.                                    *)
THEOREM OnePair == Spec => []PairMatches
  <1>1. IInv => PairMatches
    BY DEF IInv, PairMatches, TakingTurns
  <1> QED BY <1>1, Invariance, PTL

(* What was shown to anybody is the certificate on disk.                   *)
THEOREM PinNeverBroken == Spec => []PinHolds
  <1>1. IInv => PinHolds
    BY DEF IInv, PinHolds, TakingTurns
  <1> QED BY <1>1, Invariance, PTL

=============================================================================
