------------------------- MODULE NodeIdentityProofs -------------------------
(***************************************************************************)
(* The pairing of a node, for any number of tokens, keys and ids: what a   *)
(* crash, a failed write or a re-arming may not do to it as long as agent  *)
(* and command line take turns.                                            *)
(***************************************************************************)
EXTENDS NodeIdentity, TLAPS

Makes  == {"init", "resetinit"}             \* the kinds of a constructor
Writes == {"open", "fill", "rename"}        \* the stages of a write

(* What kind, stage and content of an operation have to do with each       *)
(* other, whatever the other process does.                                 *)
Shaped(o) ==
    /\ o.kind = "idle" <=> o.at = "idle"
    /\ o.at \in Writes <=> o.new # Absent
    /\ o.at \in {"load", "examine"} => o.kind \in Makes
    /\ o.at = "ready" <=> o.kind = "resetready"
    /\ o.new \in LocalKey => o.kind \in Makes

Typed == TypeOK /\ \A p \in Process : Shaped(op[p])

(* The local key on disk is the n-th.                                      *)
OnDisk(n) == local \in LocalKey /\ local = Local(n)

(* While the processes take turns, the .part file is p's own, and the      *)
(* files are what they were when the operation of p examined them.         *)
Current(p) ==
    /\ op[p].at = "fill" => op[p].fd = "part" /\ part = Torn
    /\ op[p].at = "rename" => part = op[p].new
    /\ op[p].new \in LocalKey => local = Absent
    /\ op[p].new \in Identity =>
         /\ op[p].new.key <= keys
         /\ file \in Identity => op[p].new.id = file.id
         /\ op[p].kind \in Makes =>
              IF file \in Identity
              THEN op[p].new.key = file.key /\ op[p].new.seal = file.seal
              ELSE op[p].new.key = 0
         /\ op[p].kind \notin Makes => file \in Identity
         /\ op[p].kind \in {"reset", "revoke"} => op[p].new.key = 0
         /\ op[p].kind = "register" => /\ op[p].new.key \notin dropped
                                       /\ OnDisk(op[p].new.seal)

(* The agent has the local key of the disk from the moment it has read it. *)
Loaded ==
    agent = "up" \/ op["agent"].at = "examine" \/ op["agent"].new \in Identity
      => OnDisk(cipher)

(* The files between two operations: what is in them, and with which keys. *)
Whole ==
    /\ file # Torn /\ local # Torn
    /\ file \in Identity =>
         /\ file.key <= keys /\ file.key \notin dropped
         /\ file.key # 0 => OnDisk(file.seal)
    /\ dropped \subseteq 1..keys
    /\ told # 0 => file \in Identity /\ file.key = told

TakingTurns ==
    /\ Free("agent") \/ Free("cli")
    /\ \A p \in Process : Current(p)
    /\ Loaded
    /\ Whole

IInv == Typed /\ (~raced => TakingTurns)

---------------------------------------------------------------------------
(* The contents of the files can be told apart, and from no content.       *)
LEMMA Distinct ==
  /\ Identity \cap LocalKey = {}
  /\ Absent \notin Identity \cup LocalKey
  /\ Torn \notin Identity \cup LocalKey
  /\ Absent # Torn
  <1>1. ASSUME NEW x \in Identity, x \in LocalKey PROVE FALSE
    <2>1. "id" \in DOMAIN x
      BY DEF Identity
    <2>2. DOMAIN x = {"local"}
      BY <1>1 DEF LocalKey
    <2> QED BY <2>1, <2>2
  <1> QED BY <1>1, IdentityAssumption

LEMMA LocalKeys ==
  /\ \A n \in 1..MaxLocals : Local(n) \in LocalKey
  /\ \A k \in LocalKey : k = Local(k.local) /\ k.local \in 1..MaxLocals
  BY DEF Local, LocalKey

(* A change of token, key and seal, which is how an identity is disarmed,  *)
(* paired or dropped, leaves the id alone.                                 *)
Rewrite(f, h, k, s) == [f EXCEPT !.token = h, !.key = k, !.seal = s]

LEMMA Rewritten ==
  ASSUME NEW f \in Identity, NEW h \in Hashes, NEW k \in 0..MaxKeys,
         NEW s \in 0..MaxLocals
  PROVE  /\ Rewrite(f, h, k, s) \in Identity
         /\ Rewrite(f, h, k, s).id = f.id
         /\ Rewrite(f, h, k, s).key = k
         /\ Rewrite(f, h, k, s).seal = s
  <1> DEFINE g1 == [f EXCEPT !.token = h]
             g2 == [g1 EXCEPT !.key = k]
  <1>1. g1 \in Identity /\ g1.id = f.id
    BY DEF Identity, Hashes
  <1> HIDE DEF g1
  <1>2. g2 \in Identity /\ g2.id = g1.id /\ g2.key = k
    BY <1>1 DEF Identity
  <1>3. Rewrite(f, h, k, s) = [g2 EXCEPT !.seal = s]
    BY DEF Rewrite, g1
  <1> HIDE DEF g2
  <1>4. /\ [g2 EXCEPT !.seal = s] \in Identity
        /\ [g2 EXCEPT !.seal = s].id = g2.id
        /\ [g2 EXCEPT !.seal = s].key = g2.key
        /\ [g2 EXCEPT !.seal = s].seal = s
    BY <1>2 DEF Identity
  <1> QED BY <1>1, <1>2, <1>3, <1>4

(* What the constructor writes has an id, and the key of the file.         *)
LEMMA ConstructedKeeps ==
  ASSUME TypeOK, NEW h \in Hashes, file = Absent => ids < MaxIds, file # Torn
  PROVE  /\ Constructed(h) \in Identity
         /\ file \in Identity => /\ Constructed(h).id = file.id
                                 /\ Constructed(h).key = file.key
                                 /\ Constructed(h).seal = file.seal
         /\ file = Absent => Constructed(h).key = 0
  <1>1. CASE file = Absent
    <2>1. ids + 1 \in 1..MaxIds /\ 0 \in 0..MaxKeys /\ 0 \in 0..MaxLocals
      BY <1>1, IdentityAssumption DEF TypeOK
    <2> QED BY <1>1, <2>1, Distinct DEF Constructed, Identity, Hashes
  <1>2. CASE file # Absent
    <2>1. file \in Identity
      BY <1>2 DEF TypeOK
    <2> QED BY <1>2, <2>1, Distinct DEF Constructed, Identity, Hashes
  <1> QED BY <1>1, <1>2

(* The operations the actions start with are in shape.                     *)
LEMMA Blank ==
  /\ Idle \in Operation /\ Shaped(Idle)
  /\ Idle.kind = "idle" /\ Idle.at = "idle" /\ Idle.new = Absent
  /\ \A h \in Hashes : /\ Ready(h) \in Operation /\ Shaped(Ready(h))
                       /\ Ready(h).kind = "resetready" /\ Ready(h).at = "ready"
                       /\ Ready(h).new = Absent
  BY Distinct DEF Idle, Ready, Doing, Operation, Shaped, Makes, Writes, Hashes

LEMMA Started ==
  ASSUME NEW kind \in {"init", "resetinit", "reset", "register", "revoke"},
         NEW h \in Hashes, NEW at \in {"load", "open"},
         NEW new \in Identity \cup LocalKey \cup {Absent},
         at = "load" <=> new = Absent,
         new \notin Identity => kind \in Makes
  PROVE  Doing(kind, at, new, h) \in Operation /\ Shaped(Doing(kind, at, new, h))
  <1>1. Doing(kind, at, new, h) \in Operation
    BY DEF Doing, Operation
  <1>2. Shaped(Doing(kind, at, new, h))
    BY Distinct DEF Doing, Shaped, Makes, Writes
  <1> QED BY <1>1, <1>2

LEMMA AfterBlank ==
  ASSUME NEW h \in Hashes, NEW kind
  PROVE  /\ After(kind, h) \in Operation /\ Shaped(After(kind, h))
         /\ After(kind, h).new = Absent
         /\ After(kind, h).at \in {"idle", "ready"}
  BY Blank DEF After

(* A file that is filled or renamed onto holds what may be in it.          *)
LEMMA Contents ==
  /\ \A c : /\ As("part", c) \in Identity \cup LocalKey \cup {Torn}
            /\ As("file", c) \in Identity \cup {Torn}
            /\ As("local", c) \in LocalKey \cup {Torn}
            /\ c \in Identity => As("part", c) = c /\ As("file", c) = c
            /\ c \in LocalKey => As("part", c) = c /\ As("local", c) = c
  BY DEF As, Legal

---------------------------------------------------------------------------
LEMMA InitTyped == Init => Typed
  <1> SUFFICES ASSUME Init PROVE Typed
    OBVIOUS
  <1>1. op \in [Process -> Operation] /\ \A p \in Process : Shaped(op[p])
    BY Blank DEF Init
  <1>2. 0 \in 0..MaxKeys /\ 0 \in 0..MaxIds /\ 0 \in 0..MaxLocals
    BY IdentityAssumption
  <1> QED BY <1>1, <1>2 DEF Init, TypeOK, Typed

LEMMA InitTurns == Init => TakingTurns
  <1> SUFFICES ASSUME Init PROVE TakingTurns
    OBVIOUS
  <1>1. \A p \in Process : op[p] = Idle
    BY DEF Init
  <1>2. \A p \in Process : Current(p)
    BY <1>1, Blank, Distinct DEF Current
  <1>3. Free("agent") /\ Loaded
    BY <1>1, Blank, Distinct DEF Init, Free, Process, Loaded
  <1>4. Whole
    BY Distinct DEF Init, Whole
  <1> QED BY <1>2, <1>3, <1>4 DEF TakingTurns

(* One process moves on with its operation, and the files stay.            *)
LEMMA TypedStep ==
  ASSUME Typed, NEW p \in Process, NEW o, op' = [op EXCEPT ![p] = o],
         o \in Operation, Shaped(o), UNCHANGED files,
         env' \in Hashes, agent' \in {"down", "booting", "up"},
         cipher' \in 0..MaxLocals, keys' \in 0..MaxKeys, ids' \in 0..MaxIds,
         locals' \in 0..MaxLocals, dropped' \subseteq 1..MaxKeys,
         told' \in 0..MaxKeys, raced' \in BOOLEAN
  PROVE  Typed'
  <1>1. op' \in [Process -> Operation] /\ \A q \in Process : Shaped(op'[q])
    BY DEF Typed, TypeOK
  <1> QED BY <1>1 DEF Typed, TypeOK, files

(* The effect of a constructor's first step.                               *)
LEMMA PrepareEffect ==
  ASSUME Typed, NEW p \in Process, NEW kind \in Makes, NEW h \in Hashes,
         Prepare(p, kind, h)
  PROVE  \E o \in Operation :
           /\ op' = [op EXCEPT ![p] = o] /\ Shaped(o) /\ locals' \in 0..MaxLocals
           /\ o.kind = kind
           /\ \/ o.new \in LocalKey /\ o.at = "open" /\ local = Absent
              \/ o.new = Absent /\ o.at = "load"
  <1>1. CASE local = Absent /\ locals < MaxLocals /\ locals' = locals + 1
             /\ Begin(p, kind, Local(locals + 1), h)
    <2>1. locals' \in 1..MaxLocals /\ Local(locals + 1) \in LocalKey
      BY <1>1, LocalKeys, IdentityAssumption DEF Typed, TypeOK
    <2> DEFINE o == Doing(kind, "open", Local(locals + 1), h)
    <2>2. o \in Operation /\ Shaped(o)
      BY <2>1, Started, Distinct DEF Makes
    <2>3. o.kind = kind /\ o.new = Local(locals + 1) /\ o.at = "open"
      BY DEF Doing
    <2>4. op' = [op EXCEPT ![p] = o]
      BY <1>1 DEF Begin
    <2> HIDE DEF o
    <2>5. locals' \in 0..MaxLocals
      BY <2>1, IdentityAssumption
    <2> QED BY <1>1, <2>1, <2>2, <2>3, <2>4, <2>5
  <1>2. CASE op' = [op EXCEPT ![p] = Doing(kind, "load", Absent, h)]
             /\ UNCHANGED locals
    <2> DEFINE o == Doing(kind, "load", Absent, h)
    <2>2. o \in Operation /\ Shaped(o)
      BY Started, Distinct DEF Makes
    <2>3. o.kind = kind /\ o.new = Absent /\ o.at = "load"
      BY DEF Doing
    <2> HIDE DEF o
    <2>4. op' = [op EXCEPT ![p] = o] /\ locals' \in 0..MaxLocals
      BY <1>2 DEF Typed, TypeOK, o
    <2> QED BY <2>2, <2>3, <2>4
  <1> QED BY <1>1, <1>2 DEF Prepare

(* The effect of an operation that begins to write.                        *)
LEMMA BeginEffect ==
  ASSUME NEW p \in Process, NEW kind \in {"init", "resetinit", "reset", "register", "revoke"},
         NEW new \in Identity, NEW h \in Hashes, Begin(p, kind, new, h)
  PROVE  \E o \in Operation :
           /\ op' = [op EXCEPT ![p] = o] /\ Shaped(o)
           /\ o.kind = kind /\ o.new = new /\ o.at = "open"
  <1> DEFINE o == Doing(kind, "open", new, h)
  <1>1. o \in Operation /\ Shaped(o)
    BY Started, Distinct
  <1>2. o.kind = kind /\ o.new = new /\ o.at = "open"
    BY DEF Doing
  <1>3. op' = [op EXCEPT ![p] = o]
    BY DEF Begin
  <1> HIDE DEF o
  <1> QED BY <1>1, <1>2, <1>3

(* The effect of a constructor's look at identity.json.                    *)
LEMMA ConstructEffect ==
  ASSUME Typed, NEW p \in Process, Construct(p)
  PROVE  /\ ids' \in 0..MaxIds /\ op[p].kind \in Makes /\ op[p].at = "examine"
         /\ \E o \in Operation :
              /\ op' = [op EXCEPT ![p] = o] /\ Shaped(o)
              /\ \/ /\ file # Torn /\ agent' = agent
                    /\ file = Absent => ids < MaxIds
                    /\ o.kind = op[p].kind /\ o.at = "open"
                    /\ \E h \in Hashes : o.new = Constructed(h)
                 \/ Booted(p) /\ o.new = Absent /\ o.at \in {"idle", "ready"}
  <1> DEFINE h == op[p].arg
  <1>1. /\ op[p] \in Operation /\ h \in Hashes /\ op[p].at = "examine"
        /\ op[p].kind \in Makes
    BY DEF Typed, TypeOK, Operation, Construct, Shaped
  <1>2. ids' \in 0..MaxIds
    BY IdentityAssumption DEF Construct, Typed, TypeOK
  <1>3. CASE file # Torn /\ Begin(p, op[p].kind, Constructed(h), h) /\ UNCHANGED agent
    <2>1. (file = Absent => ids < MaxIds) /\ Constructed(h) \in Identity
      BY <1>1, <1>3, ConstructedKeeps DEF Construct, Typed
    <2>2. PICK o \in Operation :
            /\ op' = [op EXCEPT ![p] = o] /\ Shaped(o)
            /\ o.kind = op[p].kind /\ o.new = Constructed(h) /\ o.at = "open"
      BY <1>1, <1>3, <2>1, BeginEffect DEF Makes
    <2> QED BY <1>1, <1>2, <1>3, <2>1, <2>2
  <1>4. CASE op' = [op EXCEPT ![p] = After(op[p].kind, h)] /\ Booted(p)
    <2>1. /\ After(op[p].kind, h) \in Operation /\ Shaped(After(op[p].kind, h))
          /\ After(op[p].kind, h).new = Absent
          /\ After(op[p].kind, h).at \in {"idle", "ready"}
      BY <1>1, AfterBlank
    <2> QED BY <1>1, <1>2, <1>4, <2>1
  <1> QED BY <1>3, <1>4 DEF Construct

(* The next stage of a write.                                              *)
Moves(p, at, fd) == op' = [op EXCEPT ![p].at = at, ![p].fd = fd]

LEMMA StageEffect ==
  ASSUME Typed, NEW p \in Process, op[p].at \in Writes,
         NEW at \in Writes, NEW fd \in {"none", "part"},
         Moves(p, at, fd)
  PROVE  \E o \in Operation :
           /\ op' = [op EXCEPT ![p] = o] /\ Shaped(o)
           /\ o.kind = op[p].kind /\ o.new = op[p].new
           /\ o.at = at /\ o.fd = fd
  <1> DEFINE o == [op[p] EXCEPT !.at = at, !.fd = fd]
  <1>1. op[p] \in Operation /\ Shaped(op[p])
    BY DEF Typed, TypeOK
  <1> DEFINE g == [op[p] EXCEPT !.at = at]
  <1>2. /\ g \in Operation
        /\ g.kind = op[p].kind /\ g.new = op[p].new /\ g.at = at
    BY <1>1 DEF Operation, Writes
  <1>a. o = [g EXCEPT !.fd = fd]
    OBVIOUS
  <1> HIDE DEF g
  <1>3. /\ o \in Operation
        /\ o.kind = op[p].kind /\ o.new = op[p].new /\ o.at = at /\ o.fd = fd
    BY <1>2, <1>a DEF Operation
  <1>4. op' = [op EXCEPT ![p] = o]
    BY DEF Moves, Typed, TypeOK
  <1> HIDE DEF o
  <1>5. Shaped(o)
    BY <1>1, <1>3 DEF Shaped, Writes
  <1> QED BY <1>3, <1>4, <1>5

LEMMA OpenEffect ==
  ASSUME Typed, NEW p \in Process, Open(p)
  PROVE  \E o \in Operation :
           /\ op' = [op EXCEPT ![p] = o] /\ Shaped(o)
           /\ o.kind = op[p].kind /\ o.new = op[p].new
           /\ o.at = "fill" /\ o.fd = "part"
  <1>1. op[p].at \in Writes /\ "fill" \in Writes /\ "part" \in {"none", "part"}
    BY DEF Open, Writes
  <1>2. Moves(p, "fill", "part")
    BY DEF Open, Moves
  <1>3. PICK o \in Operation :
          /\ op' = [op EXCEPT ![p] = o] /\ Shaped(o)
          /\ o.kind = op[p].kind /\ o.new = op[p].new
          /\ o.at = "fill" /\ o.fd = "part"
    BY <1>1, <1>2, StageEffect
  <1> QED BY <1>3

LEMMA FillEffect ==
  ASSUME Typed, NEW p \in Process, Fill(p)
  PROVE  \E o \in Operation :
           /\ op' = [op EXCEPT ![p] = o] /\ Shaped(o)
           /\ o.kind = op[p].kind /\ o.new = op[p].new /\ o.at = "rename"
  <1>1. op[p].at \in Writes /\ "rename" \in Writes /\ "none" \in {"none", "part"}
    BY DEF Fill, Writes
  <1>2. Moves(p, "rename", "none")
    BY DEF Fill, Moves
  <1>3. PICK o \in Operation :
          /\ op' = [op EXCEPT ![p] = o] /\ Shaped(o)
          /\ o.kind = op[p].kind /\ o.new = op[p].new
          /\ o.at = "rename" /\ o.fd = "none"
    BY <1>1, <1>2, StageEffect
  <1> QED BY <1>3

(* A rename changes the operation of the other process only in where its   *)
(* open file is.                                                           *)
LEMMA RenameEffect ==
  ASSUME Typed, NEW p \in Process, NEW next \in Operation, Shaped(next),
         Rename(p, next)
  PROVE  /\ op' \in [Process -> Operation] /\ \A q \in Process : Shaped(op'[q])
         /\ op'[p] = next
         /\ \A q \in Process : q # p => /\ op'[q].kind = op[q].kind
                                        /\ op'[q].at = op[q].at
                                        /\ op'[q].new = op[q].new
  <1> DEFINE t == Target(p)
             other(q) == [op[q] EXCEPT !.fd = Follow(op[q].fd, t)]
  <1>1. t \in {"file", "local"}
    BY DEF Target
  <1>2. op' = [q \in Process |-> IF q = p THEN next ELSE other(q)]
    BY DEF Rename
  <1>3. ASSUME NEW q \in Process
        PROVE  /\ other(q) \in Operation /\ Shaped(other(q))
               /\ other(q).kind = op[q].kind /\ other(q).at = op[q].at
               /\ other(q).new = op[q].new
    <2>1. op[q] \in Operation /\ Shaped(op[q])
      BY DEF Typed, TypeOK
    <2>2. Follow(op[q].fd, t) \in {"none", "part", "file", "local", "gone"}
      BY <1>1, <2>1 DEF Follow, Operation
    <2>3. /\ other(q) \in Operation
          /\ other(q).kind = op[q].kind /\ other(q).at = op[q].at
          /\ other(q).new = op[q].new
      BY <2>1, <2>2 DEF Operation
    <2> QED BY <2>1, <2>3 DEF Shaped
  <1> HIDE DEF other
  <1> QED BY <1>2, <1>3

LEMMA ReplaceKeyTyped ==
  ASSUME Typed, NEW p \in Process, ReplaceKey(p), raced' \in BOOLEAN
  PROVE  Typed'
  <1> DEFINE next == Doing(op[p].kind, "load", Absent, op[p].arg)
  <1>1. op[p] \in Operation /\ Shaped(op[p]) /\ TypeOK
    BY DEF Typed, TypeOK
  <1>2. op[p].kind \in {"init", "resetinit"} /\ op[p].arg \in Hashes
    <2>1. op[p].new \in LocalKey
      BY DEF ReplaceKey, Target
    <2> QED BY <1>1, <2>1 DEF Shaped, Makes, Operation
  <1>3. next \in Operation /\ Shaped(next)
    BY <1>2, Started, Distinct DEF Makes
  <1>4. Rename(p, next)
    BY DEF ReplaceKey
  <1> HIDE DEF next
  <1>5. op' \in [Process -> Operation] /\ \A q \in Process : Shaped(op'[q])
    BY <1>3, <1>4, RenameEffect
  <1>6. local' \in LocalKey \cup {Torn} /\ part' = Absent
    BY Contents DEF ReplaceKey, Rename
  <1> QED BY <1>1, <1>5, <1>6 DEF ReplaceKey, Typed, TypeOK

LEMMA ReplaceTyped ==
  ASSUME IInv, NEW p \in Process, Replace(p), raced' \in BOOLEAN
  PROVE  Typed'
  <1> DEFINE next == After(op[p].kind, op[p].arg)
  <1>1. /\ op[p] \in Operation /\ Shaped(op[p]) /\ Typed /\ TypeOK
        /\ op[p].at = "rename" /\ op[p].arg \in Hashes
    BY DEF IInv, Typed, TypeOK, Operation, Replace, Rename
  <1>2. op[p].new \in Identity
    BY <1>1 DEF Replace, Target, Shaped, Writes, Operation
  <1>3. next \in Operation /\ Shaped(next)
    BY <1>1, AfterBlank
  <1>4. Rename(p, next)
    BY DEF Replace
  <1> HIDE DEF next
  <1>5. op' \in [Process -> Operation] /\ \A q \in Process : Shaped(op'[q])
    BY <1>1, <1>3, <1>4, RenameEffect
  <1>6. file' \in Identity \cup {Torn} /\ part' = Absent
    BY Contents DEF Replace, Rename
  <1>7. dropped' \subseteq 1..MaxKeys
    <2>1. CASE raced \/ op[p].kind \notin {"revoke", "reset"}
      BY <1>1, <2>1 DEF Replace, Recorded, TypeOK
    <2>2. CASE ~raced /\ op[p].kind \in {"revoke", "reset"}
      <3>1. file \in Identity
        BY <1>2, <2>2 DEF IInv, TakingTurns, Current, Makes
      <3>2. file.key \in 0..MaxKeys
        BY <3>1 DEF Identity
      <3>3. {file.key} \ {0} \subseteq 1..MaxKeys
        BY <3>2, IdentityAssumption
      <3> QED BY <1>1, <2>2, <3>3 DEF Replace, Recorded, TypeOK
    <2> QED BY <2>1, <2>2
  <1>8. told' \in 0..MaxKeys
    BY <1>1, <1>2, IdentityAssumption DEF Replace, Recorded, TypeOK, Identity
  <1>9. agent' \in {"down", "booting", "up"}
    BY <1>1 DEF Replace, Booted, TypeOK
  <1> QED BY <1>1, <1>5, <1>6, <1>7, <1>8, <1>9 DEF Replace, Typed, TypeOK

LEMMA FillTyped ==
  ASSUME Typed, NEW p \in Process, Fill(p), raced' \in BOOLEAN
  PROVE  Typed'
  <1>1. PICK o \in Operation : op' = [op EXCEPT ![p] = o] /\ Shaped(o)
    BY FillEffect
  <1>2. op' \in [Process -> Operation] /\ \A q \in Process : Shaped(op'[q])
    BY <1>1 DEF Typed, TypeOK
  <1>3. /\ part' \in Identity \cup LocalKey \cup {Absent, Torn}
        /\ file' \in Identity \cup {Absent, Torn}
        /\ local' \in LocalKey \cup {Absent, Torn}
    BY Contents DEF Typed, TypeOK, Fill, Filled
  <1> QED BY <1>2, <1>3 DEF Fill, Typed, TypeOK

LEMMA NextTyped == IInv /\ [Next]_vars => Typed'
  <1> SUFFICES ASSUME IInv, [Next]_vars PROVE Typed'
    OBVIOUS
  <1>0. /\ Typed /\ TypeOK
        /\ raced' \in BOOLEAN
        /\ env \in Hashes /\ NoToken \in Hashes /\ Tokens \subseteq Hashes
        /\ "agent" \in Process /\ "cli" \in Process
        /\ "init" \in Makes /\ "resetinit" \in Makes
        /\ 0 \in 0..MaxKeys /\ 0 \in 0..MaxLocals /\ cipher \in 0..MaxLocals
    <2>1. Typed /\ TypeOK
      BY DEF IInv, Typed
    <2>2. raced' \in BOOLEAN
      BY <2>1 DEF TypeOK, Next, vars
    <2> QED BY <2>1, <2>2, IdentityAssumption DEF TypeOK, Hashes, Process, Makes
  <1>1. ASSUME NEW p \in Process, NEW kind \in Makes, NEW h \in Hashes,
               Prepare(p, kind, h), agent' \in {"down", "booting", "up"},
               UNCHANGED <<files, env, cipher, keys, ids, dropped, told>>
        PROVE  Typed'
    <2>1. PICK o \in Operation : /\ op' = [op EXCEPT ![p] = o] /\ Shaped(o)
                                 /\ locals' \in 0..MaxLocals
      BY <1>0, <1>1, PrepareEffect
    <2> QED BY <1>0, <1>1, <2>1, TypedStep DEF TypeOK
  <1>2. ASSUME NEW p \in Process, op' = [op EXCEPT ![p] = Idle],
               agent' \in {"down", "booting", "up"}, cipher' \in 0..MaxLocals,
               UNCHANGED <<files, env, keys, ids, locals, dropped, told>>
        PROVE  Typed'
    BY <1>0, <1>2, Blank, TypedStep DEF TypeOK
  <1>3. ASSUME NEW p \in Process, NEW kind \in {"reset", "register", "revoke"},
               NEW new \in Identity, Begin(p, kind, new, NoToken),
               keys' \in 0..MaxKeys,
               UNCHANGED <<files, env, agent, cipher, ids, locals, dropped, told>>
        PROVE  Typed'
    <2>1. PICK o \in Operation : op' = [op EXCEPT ![p] = o] /\ Shaped(o)
      BY <1>0, <1>3, BeginEffect
    <2> QED BY <1>0, <1>3, <2>1, TypedStep DEF TypeOK
  <1>4. CASE AgentBoot
    BY <1>0, <1>1, <1>4 DEF AgentBoot
  <1>5. CASE AgentStop
    BY <1>0, <1>2, <1>5 DEF AgentStop
  <1>6. CASE Revoke
    <2> DEFINE new == [file EXCEPT !.key = 0, !.seal = 0]
    <2>1. new \in Identity
      BY <1>0, <1>6 DEF Revoke, Identity
    <2>2. Begin("agent", "revoke", new, NoToken)
      BY <1>6 DEF Revoke
    <2> HIDE DEF new
    <2> QED BY <1>0, <1>3, <1>6, <2>1, <2>2 DEF Revoke, TypeOK
  <1>7. CASE CliInfo
    BY <1>0, <1>1, <1>7 DEF CliInfo, TypeOK
  <1>8. CASE ResetRegistration
    <2> DEFINE new == Rewrite(file, op["cli"].arg, 0, 0)
    <2>1. file \in Identity /\ op["cli"].arg \in Hashes
      BY <1>0, <1>8 DEF ResetRegistration, TypeOK, Operation
    <2>2. new \in Identity
      BY <1>0, <2>1, Rewritten
    <2>3. Begin("cli", "reset", new, NoToken)
      BY <1>8 DEF ResetRegistration, Rewrite
    <2> HIDE DEF new
    <2> QED BY <1>0, <1>3, <1>8, <2>2, <2>3 DEF ResetRegistration, TypeOK
  <1>9. ASSUME NEW t \in Tokens, InstallerRerun(t) PROVE Typed'
    BY <1>0, <1>9 DEF InstallerRerun, Typed, TypeOK, files
  <1>10. ASSUME NEW t \in Tokens, Register(t) PROVE Typed'
    <2> DEFINE new == Rewrite(file, NoToken, keys + 1, cipher)
    <2>1. file \in Identity /\ keys + 1 \in 0..MaxKeys
      BY <1>0, <1>10, IdentityAssumption DEF Register, TypeOK
    <2>2. new \in Identity
      BY <1>0, <2>1, Rewritten
    <2>3. Begin("agent", "register", new, NoToken) /\ keys' = keys + 1
      BY <1>10 DEF Register, Rewrite
    <2> HIDE DEF new
    <2> QED BY <1>0, <1>3, <1>10, <2>1, <2>2, <2>3 DEF Register
  <1>11. ASSUME NEW h \in Hashes, CliReset(h) PROVE Typed'
    BY <1>0, <1>1, <1>11 DEF CliReset, TypeOK
  <1>12. ASSUME NEW p \in Process, Load(p) PROVE Typed'
    <2> DEFINE o == [op[p] EXCEPT !.at = "examine"]
    <2>1. op[p] \in Operation /\ Shaped(op[p]) /\ op[p].at = "load"
      BY <1>0, <1>12 DEF Load, Typed, TypeOK
    <2>2. /\ o \in Operation /\ o.kind = op[p].kind /\ o.new = op[p].new
          /\ o.at = "examine"
      BY <2>1 DEF Operation
    <2>3. op' = [op EXCEPT ![p] = o]
      BY <1>0, <1>12 DEF Load, TypeOK
    <2> HIDE DEF o
    <2>4. Shaped(o)
      BY <2>1, <2>2 DEF Shaped, Writes
    <2>5. cipher' \in 0..MaxLocals
      <3>1. local.local \in 1..MaxLocals
        BY <1>12, LocalKeys DEF Load
      <3> QED BY <1>0, <1>12, <3>1, IdentityAssumption DEF Load
    <2> QED BY <1>0, <1>12, <2>2, <2>3, <2>4, <2>5, TypedStep DEF Load, TypeOK
  <1>13. ASSUME NEW p \in Process, Construct(p) PROVE Typed'
    <2>1. PICK o \in Operation :
            /\ op' = [op EXCEPT ![p] = o] /\ Shaped(o)
            /\ agent' = agent \/ Booted(p)
      BY <1>0, <1>13, ConstructEffect
    <2>2. agent' \in {"down", "booting", "up"} /\ ids' \in 0..MaxIds
      BY <1>0, <1>13, <2>1, ConstructEffect DEF Booted, TypeOK
    <2> QED BY <1>0, <1>13, <2>1, <2>2, TypedStep DEF Construct, TypeOK
  <1>14. ASSUME NEW p \in Process, Open(p) PROVE Typed'
    <2>1. PICK o \in Operation : op' = [op EXCEPT ![p] = o] /\ Shaped(o)
      BY <1>0, <1>14, OpenEffect
    <2>2. op' \in [Process -> Operation] /\ \A q \in Process : Shaped(op'[q])
      BY <1>0, <2>1 DEF Typed, TypeOK
    <2> QED BY <1>0, <1>14, <2>2 DEF Open, Typed, TypeOK
  <1>15. ASSUME NEW p \in Process, Fill(p) PROVE Typed'
    BY <1>0, <1>15, FillTyped
  <1>16. ASSUME NEW p \in Process, ReplaceKey(p) PROVE Typed'
    BY <1>0, <1>16, ReplaceKeyTyped
  <1>17. ASSUME NEW p \in Process, Replace(p) PROVE Typed'
    BY <1>0, <1>17, ReplaceTyped
  <1>18. ASSUME NEW p \in Process, Fails(p) PROVE Typed'
    <2>1. agent' \in {"down", "booting", "up"} /\ cipher' \in 0..MaxLocals
      BY <1>0, <1>18 DEF Fails, TypeOK
    <2> QED BY <1>0, <1>2, <1>18, <2>1 DEF Fails
  <1>19. CASE UNCHANGED vars
    BY <1>0, <1>19 DEF vars, Typed, TypeOK
  <1> QED
    BY <1>4, <1>5, <1>6, <1>7, <1>8, <1>9, <1>10, <1>11, <1>12, <1>13, <1>14,
       <1>15, <1>16, <1>17, <1>18, <1>19 DEF Next

---------------------------------------------------------------------------
(* While the processes take turns: what one of them does to its operation  *)
(* alone is no concern of the other.                                       *)
LEMMA TurnsStep ==
  ASSUME Typed, TakingTurns, NEW p \in Process, NEW o, op' = [op EXCEPT ![p] = o],
         UNCHANGED <<files, dropped, told>>,
         keys' \in Nat, keys <= keys',
         Free("agent")' \/ Free("cli")', Current(p)', Loaded'
  PROVE  TakingTurns'
  <1>1. /\ keys \in 0..MaxKeys /\ dropped \subseteq 1..keys
        /\ op \in [Process -> Operation]
    BY DEF Typed, TypeOK, TakingTurns, Whole
  <1>2. ASSUME NEW q \in Process, q # p PROVE Current(q)'
    <2>1. op'[q] = op[q] /\ Current(q) /\ op[q] \in Operation
      BY <1>1, <1>2 DEF TakingTurns
    <2>2. op[q].new \in Identity /\ op[q].new.key <= keys => op[q].new.key <= keys'
      BY <1>1, IdentityAssumption DEF Identity
    <2> QED BY <2>1, <2>2 DEF Current, OnDisk, files
  <1>3. Whole'
    <2>1. dropped' \subseteq 1..keys'
      BY <1>1, IdentityAssumption
    <2>2. file \in Identity /\ file.key <= keys => file.key <= keys'
      BY <1>1, IdentityAssumption DEF Identity
    <2> QED BY <2>1, <2>2 DEF TakingTurns, Whole, files, OnDisk
  <1> QED BY <1>2, <1>3 DEF TakingTurns

(* An operation that has nothing to write yet.                             *)
LEMMA BlankCurrent ==
  ASSUME NEW p \in Process, op'[p].new = Absent, op'[p].at \notin Writes
  PROVE  Current(p)'
  BY Distinct DEF Current, Writes

(* Whoever is in an operation is alone.                                    *)
LEMMA Alone ==
  ASSUME Typed, TakingTurns, NEW p \in Process, ~Free(p), NEW q \in Process, q # p
  PROVE  op[q].kind = "idle" /\ op[q].at = "idle" /\ op[q].new = Absent
  BY DEF Typed, Shaped, TakingTurns, Free, Process, Writes

(* What the agent has loaded stays good if neither the two keys nor, but   *)
(* for giving something up, its own state change.                          *)
LEMMA LoadedStep ==
  ASSUME Loaded, UNCHANGED <<local, cipher>>,
         agent' = "up" => agent = "up",
         op'["agent"].at = "examine" => op["agent"].at = "examine",
         op'["agent"].new \in Identity =>
           \/ agent = "up" \/ op["agent"].at = "examine"
           \/ op["agent"].new \in Identity
  PROVE  Loaded'
  BY DEF Loaded, OnDisk

LEMMA PrepareTurns ==
  ASSUME Typed, TakingTurns, NEW p \in Process, NEW kind \in Makes, NEW h \in Hashes,
         Prepare(p, kind, h), agent' = "up" => agent = "up",
         UNCHANGED <<files, cipher, keys, dropped, told>>,
         Free("agent")' \/ Free("cli")'
  PROVE  TakingTurns'
  <1>1. PICK o \in Operation :
          /\ op' = [op EXCEPT ![p] = o]
          /\ \/ o.new \in LocalKey /\ o.at = "open" /\ local = Absent
             \/ o.new = Absent /\ o.at = "load"
    BY PrepareEffect
  <1>2. /\ op'[p] = o /\ (p # "agent" => op'["agent"] = op["agent"])
        /\ keys \in Nat
    BY <1>1, IdentityAssumption DEF Typed, TypeOK, Process
  <1>3. Current(p)'
    BY <1>1, <1>2, Distinct DEF Current, OnDisk, files
  <1>4. Loaded'
    BY <1>1, <1>2, Distinct, LoadedStep DEF TakingTurns, files
  <1>k. UNCHANGED <<files, dropped, told>> /\ keys' \in Nat /\ keys <= keys'
    BY <1>2, IdentityAssumption
  <1> QED BY <1>1, <1>k, <1>3, <1>4, TurnsStep

LEMMA BeginTurns ==
  ASSUME Typed, TakingTurns, NEW p \in Process,
         NEW kind \in {"reset", "register", "revoke"},
         NEW new \in Identity, Begin(p, kind, new, NoToken),
         file \in Identity, new.id = file.id,
         keys' \in Nat, keys <= keys', new.key <= keys',
         kind \in {"reset", "revoke"} => new.key = 0,
         kind = "register" => new.key \notin dropped /\ new.seal = cipher,
         kind # "reset" => agent = "up",
         kind = "reset" => p = "cli",
         UNCHANGED <<files, agent, cipher, dropped, told>>,
         Free("agent")' \/ Free("cli")'
  PROVE  TakingTurns'
  <1>1. PICK o \in Operation :
          /\ op' = [op EXCEPT ![p] = o]
          /\ o.kind = kind /\ o.new = new /\ o.at = "open"
    BY BeginEffect DEF Hashes
  <1>2. op'[p] = o /\ (p # "agent" => op'["agent"] = op["agent"])
    BY <1>1 DEF Typed, TypeOK, Process
  <1>3. kind = "register" => OnDisk(new.seal)
    BY DEF TakingTurns, Loaded
  <1>4. Current(p)'
    BY <1>1, <1>2, <1>3, Distinct DEF Current, OnDisk, files, Makes
  <1>5. Loaded'
    BY <1>1, <1>2, LoadedStep DEF TakingTurns, files
  <1> QED BY <1>1, <1>4, <1>5, TurnsStep

LEMMA GivenUpTurns ==
  ASSUME Typed, TakingTurns, NEW p \in Process, op' = [op EXCEPT ![p] = Idle],
         UNCHANGED <<files, keys, dropped, told>>,
         \/ UNCHANGED <<agent, cipher>>
         \/ p = "agent" /\ agent' = "down",
         Free("agent")' \/ Free("cli")'
  PROVE  TakingTurns'
  <1>1. /\ op'[p] = Idle /\ (p # "agent" => op'["agent"] = op["agent"])
        /\ keys \in Nat
    BY IdentityAssumption DEF Typed, TypeOK, Process
  <1>2. Current(p)'
    BY <1>1, Blank, BlankCurrent DEF Writes
  <1>3. Loaded'
    <2>1. CASE UNCHANGED <<agent, cipher>>
      BY <1>1, <2>1, Blank, Distinct, LoadedStep DEF TakingTurns, files
    <2>2. CASE p = "agent" /\ agent' = "down"
      BY <1>1, <2>2, Blank, Distinct DEF Loaded
    <2> QED BY <2>1, <2>2
  <1>k. UNCHANGED <<files, dropped, told>> /\ keys' \in Nat /\ keys <= keys'
    BY <1>1, IdentityAssumption
  <1> QED BY <1>k, <1>2, <1>3, TurnsStep

LEMMA LoadTurns ==
  ASSUME Typed, TakingTurns, NEW p \in Process, Load(p),
         Free("agent")' \/ Free("cli")'
  PROVE  TakingTurns'
  <1> DEFINE o == [op[p] EXCEPT !.at = "examine"]
  <1>1. /\ op[p] \in Operation /\ Shaped(op[p]) /\ op[p].at = "load"
        /\ local \in LocalKey /\ keys \in Nat
    BY IdentityAssumption DEF Load, Typed, TypeOK
  <1>2. o.kind = op[p].kind /\ o.new = Absent /\ o.at = "examine"
    BY <1>1 DEF Operation, Shaped, Writes
  <1>3. /\ op' = [op EXCEPT ![p] = o] /\ op'[p] = o
        /\ p # "agent" => op'["agent"] = op["agent"]
    BY DEF Load, Typed, TypeOK, Process
  <1> HIDE DEF o
  <1>4. Current(p)'
    BY <1>2, <1>3, BlankCurrent DEF Writes
  <1>5. Loaded'
    <2>1. CASE p = "agent"
      BY <1>1, <2>1, LocalKeys DEF Loaded, Load, files, OnDisk
    <2>2. CASE p # "agent"
      BY <1>3, <2>2, LoadedStep DEF TakingTurns, Load, files
    <2> QED BY <2>1, <2>2
  <1>k. UNCHANGED <<files, dropped, told>> /\ keys' \in Nat /\ keys <= keys'
    BY <1>1, IdentityAssumption DEF Load
  <1> QED BY <1>3, <1>k, <1>4, <1>5, TurnsStep

LEMMA ConstructTurns ==
  ASSUME Typed, TakingTurns, NEW p \in Process, Construct(p),
         Free("agent")' \/ Free("cli")'
  PROVE  TakingTurns'
  <1>1. op[p].kind \in Makes /\ op[p].at = "examine"
    BY ConstructEffect
  <1>2. PICK o \in Operation :
          /\ op' = [op EXCEPT ![p] = o]
          /\ \/ /\ file # Torn /\ agent' = agent
                /\ file = Absent => ids < MaxIds
                /\ o.kind = op[p].kind /\ o.at = "open"
                /\ \E h \in Hashes : o.new = Constructed(h)
             \/ Booted(p) /\ o.new = Absent /\ o.at \in {"idle", "ready"}
    BY ConstructEffect
  <1>3. /\ op'[p] = o /\ (p # "agent" => op'["agent"] = op["agent"])
        /\ keys \in Nat
    BY <1>2, IdentityAssumption DEF Typed, TypeOK, Process
  <1>k. /\ UNCHANGED <<files, dropped, told>> /\ keys' \in Nat /\ keys <= keys'
        /\ UNCHANGED <<local, cipher>>
    BY <1>3, IdentityAssumption DEF Construct, files
  <1>4. CASE /\ file # Torn /\ agent' = agent
             /\ file = Absent => ids < MaxIds
             /\ o.kind = op[p].kind /\ o.at = "open"
             /\ \E h \in Hashes : o.new = Constructed(h)
    <2>1. /\ o.new \in Identity
          /\ file \in Identity => /\ o.new.id = file.id /\ o.new.key = file.key
                                  /\ o.new.seal = file.seal
          /\ file = Absent => o.new.key = 0
      BY <1>4, ConstructedKeeps DEF Typed
    <2>2. o.new.key <= keys
      BY <1>3, <1>4, <2>1 DEF TakingTurns, Whole, Typed, TypeOK
    <2>3. Current(p)'
      BY <1>1, <1>3, <1>4, <2>1, <2>2, Distinct
      DEF Current, Construct, files, Makes, OnDisk, Typed, TypeOK
    <2>4. Loaded'
      BY <1>1, <1>3, <1>4, <1>k, <2>1, LoadedStep DEF TakingTurns
    <2> QED BY <1>2, <1>k, <2>3, <2>4, TurnsStep
  <1>5. CASE Booted(p) /\ o.new = Absent /\ o.at \in {"idle", "ready"}
    <2>1. Current(p)'
      BY <1>3, <1>5, BlankCurrent DEF Writes
    <2>2. Loaded'
      BY <1>1, <1>3, <1>5, <1>k, Distinct DEF Booted, Loaded, TakingTurns, OnDisk
    <2> QED BY <1>2, <1>k, <2>1, <2>2, TurnsStep
  <1> QED BY <1>2, <1>4, <1>5

(* The .part file moves on with the operation it belongs to.               *)
LEMMA PartTurns ==
  ASSUME Typed, TakingTurns, NEW p \in Process, op[p].at \in Writes,
         NEW o, op' = [op EXCEPT ![p] = o],
         o.kind = op[p].kind, o.new = op[p].new,
         \/ o.at = "fill" /\ o.fd = "part" /\ part' = Torn
         \/ o.at = "rename" /\ part' = op[p].new,
         UNCHANGED <<file, local, agent, cipher, keys, dropped, told>>,
         Free("agent")' \/ Free("cli")'
  PROVE  TakingTurns'
  <1>1. /\ op'[p] = o /\ \A q \in Process : q # p => op'[q] = op[q]
        /\ ~Free(p)
    BY DEF Typed, TypeOK, Shaped, Free, Writes
  <1>2. Current(p)'
    BY <1>1 DEF TakingTurns, Current, OnDisk
  <1>3. \A q \in Process : q # p => Current(q)'
    BY <1>1, Alone, BlankCurrent DEF Writes
  <1>4. Loaded'
    BY <1>1, LoadedStep DEF TakingTurns, Process
  <1>5. Whole'
    BY DEF TakingTurns, Whole, OnDisk
  <1> QED BY <1>2, <1>3, <1>4, <1>5 DEF TakingTurns

LEMMA OpenTurns ==
  ASSUME Typed, TakingTurns, NEW p \in Process, Open(p), Free("agent")' \/ Free("cli")'
  PROVE  TakingTurns'
  <1>1. PICK o \in Operation :
          /\ op' = [op EXCEPT ![p] = o] /\ o.kind = op[p].kind /\ o.new = op[p].new
          /\ o.at = "fill" /\ o.fd = "part"
    BY OpenEffect
  <1> QED BY <1>1, PartTurns DEF Open, Writes

LEMMA FillTurns ==
  ASSUME Typed, TakingTurns, NEW p \in Process, Fill(p), Free("agent")' \/ Free("cli")'
  PROVE  TakingTurns'
  <1>1. PICK o \in Operation :
          /\ op' = [op EXCEPT ![p] = o] /\ o.kind = op[p].kind /\ o.new = op[p].new
          /\ o.at = "rename"
    BY FillEffect
  <1>2. op[p].new \in Identity \cup LocalKey
    BY DEF Fill, Typed, TypeOK, Operation, Shaped, Writes
  <1>3. op[p].fd = "part" /\ part = Torn
    BY DEF Fill, TakingTurns, Current
  <1>4. part' = op[p].new /\ file' = file /\ local' = local
    BY <1>2, <1>3, Contents DEF Fill, Filled
  <1> QED BY <1>1, <1>4, PartTurns DEF Fill, Writes

(* The first local key is put in its place, when nothing is sealed yet.    *)
LEMMA ReplaceKeyTurns ==
  ASSUME Typed, TakingTurns, NEW p \in Process, ReplaceKey(p),
         Free("agent")' \/ Free("cli")'
  PROVE  TakingTurns'
  <1> DEFINE next == Doing(op[p].kind, "load", Absent, op[p].arg)
  <1>1. /\ op[p] \in Operation /\ Shaped(op[p]) /\ op[p].at = "rename"
        /\ op[p].new \in LocalKey /\ Current(p)
    BY DEF Typed, TypeOK, ReplaceKey, Rename, Target, TakingTurns
  <1>2. op[p].kind \in {"init", "resetinit"} /\ op[p].arg \in Hashes
    BY <1>1 DEF Shaped, Makes, Operation
  <1>3. /\ next \in Operation /\ Shaped(next)
        /\ next.new = Absent /\ next.at = "load"
    BY <1>2, Started, Distinct DEF Makes, Doing
  <1>4. Rename(p, next)
    BY DEF ReplaceKey
  <1> HIDE DEF next
  <1>5. /\ op'[p] = next
        /\ \A q \in Process : q # p => /\ op'[q].kind = op[q].kind
                                       /\ op'[q].at = op[q].at
                                       /\ op'[q].new = op[q].new
    BY <1>3, <1>4, RenameEffect
  <1>6. \A q \in Process : q # p => /\ op[q].kind = "idle" /\ op[q].at = "idle"
                                    /\ op[q].new = Absent
    BY <1>1, Alone DEF Free, Shaped
  <1>7. \A q \in Process : Current(q)'
    BY <1>3, <1>5, <1>6, BlankCurrent DEF Writes
  <1>8. local = Absent /\ local' \in LocalKey
    BY <1>1, Contents DEF Current, ReplaceKey
  <1>9. Loaded'
    <2>1. agent # "up"
      BY <1>8, Distinct DEF TakingTurns, Loaded, OnDisk
    <2>2. op'["agent"].at # "examine" /\ op'["agent"].new \notin Identity
      BY <1>3, <1>5, <1>6, Distinct DEF Process
    <2> QED BY <2>1, <2>2 DEF Loaded, ReplaceKey
  <1>10. Whole'
    BY <1>8, Distinct DEF TakingTurns, Whole, OnDisk, ReplaceKey
  <1> QED BY <1>7, <1>9, <1>10 DEF TakingTurns

(* What the rename puts in the place of identity.json.                     *)
LEMMA ReplaceContent ==
  ASSUME Typed, TakingTurns, NEW p \in Process, Replace(p)
  PROVE  /\ op[p].new \in Identity /\ file' = op[p].new
         /\ op[p].kind \in {"init", "resetinit", "reset", "register", "revoke"}
         /\ ~Free(p) /\ Current(p)
  <1>1. /\ op[p] \in Operation /\ Shaped(op[p]) /\ op[p].at = "rename"
        /\ op[p].new \notin LocalKey /\ Current(p)
    BY DEF Typed, TypeOK, Replace, Rename, Target, TakingTurns
  <1>2. op[p].new \in Identity
    BY <1>1 DEF Operation, Shaped, Writes
  <1>3. op[p].kind \in {"init", "resetinit", "reset", "register", "revoke"}
    BY <1>1 DEF Operation, Shaped
  <1>4. file' = op[p].new
    BY <1>1, <1>2, Contents DEF Current, Replace
  <1> QED BY <1>1, <1>2, <1>3, <1>4 DEF Free

LEMMA ReplaceTurns ==
  ASSUME Typed, TakingTurns, NEW p \in Process, Replace(p), ~raced,
         Free("agent")' \/ Free("cli")'
  PROVE  TakingTurns'
  <1> DEFINE next == After(op[p].kind, op[p].arg)
             new == op[p].new
  <1>1. /\ new \in Identity /\ file' = new
        /\ op[p].kind \in {"init", "resetinit", "reset", "register", "revoke"}
        /\ ~Free(p) /\ Current(p) /\ op[p].arg \in Hashes
    BY ReplaceContent DEF Typed, TypeOK, Operation
  <1>3. /\ next \in Operation /\ Shaped(next)
        /\ next.new = Absent /\ next.at \in {"idle", "ready"}
    BY <1>1, AfterBlank
  <1>4. Rename(p, next)
    BY DEF Replace
  <1> HIDE DEF next
  <1>5. /\ op'[p] = next
        /\ \A q \in Process : q # p => /\ op'[q].kind = op[q].kind
                                       /\ op'[q].at = op[q].at
                                       /\ op'[q].new = op[q].new
    BY <1>3, <1>4, RenameEffect
  <1>6. \A q \in Process : q # p => /\ op[q].kind = "idle" /\ op[q].at = "idle"
                                    /\ op[q].new = Absent
    BY <1>1, Alone
  <1>7. \A q \in Process : Current(q)'
    BY <1>3, <1>5, <1>6, BlankCurrent DEF Writes
  <1>8. UNCHANGED <<local, cipher, keys>>
    BY DEF Replace
  <1>9. Loaded'
    <2>1. op'["agent"].at # "examine" /\ op'["agent"].new \notin Identity
      BY <1>3, <1>5, <1>6, Distinct DEF Process
    <2>2. CASE p = "agent"
      <3>1. OnDisk(cipher)
        BY <1>1, <2>2 DEF TakingTurns, Loaded
      <3> QED BY <1>8, <3>1 DEF Loaded, OnDisk
    <2>3. CASE p # "agent"
      <3>1. agent' = agent
        BY <2>3 DEF Replace, Booted
      <3> QED BY <1>8, <2>1, <3>1 DEF TakingTurns, Loaded, OnDisk
    <2> QED BY <2>2, <2>3
  <1>10. Whole'
    <2>1. /\ keys \in 0..MaxKeys /\ dropped \subseteq 1..keys
          /\ Whole /\ new.key <= keys /\ new.key \in 0..MaxKeys
      BY <1>1 DEF Typed, TypeOK, TakingTurns, Whole, Current, Identity
    <2>2. local' # Torn /\ file' # Torn /\ new.key <= keys'
      BY <1>1, <1>8, <2>1, Distinct DEF Whole
    <2>3. CASE op[p].kind \in Makes
      <3>1. dropped' = dropped /\ told' = told
        BY <2>3 DEF Replace, Recorded, Makes
      <3>2. CASE file \in Identity
        <4>1. new.key = file.key /\ new.seal = file.seal
          BY <1>1, <2>3, <3>2 DEF Current
        <4> QED BY <1>1, <1>8, <2>1, <2>2, <3>1, <3>2, <4>1 DEF Whole, OnDisk
      <3>3. CASE file \notin Identity
        <4>1. new.key = 0 /\ told = 0
          BY <1>1, <2>1, <2>3, <3>3 DEF Current, Whole
        <4>2. 0 \notin dropped
          BY <2>1, IdentityAssumption
        <4> QED BY <1>1, <1>8, <2>1, <2>2, <3>1, <4>1, <4>2 DEF Whole, OnDisk
      <3> QED BY <3>2, <3>3
    <2>4. CASE op[p].kind \in {"reset", "revoke"}
      <3>1. new.key = 0 /\ told' = 0 /\ file \in Identity
        BY <1>1, <2>4 DEF Current, Replace, Recorded, Makes
      <3>2. file.key \in 0..MaxKeys /\ file.key <= keys
        BY <2>1, <3>1 DEF Whole, Identity
      <3>3. dropped' \subseteq 1..keys'
        <4>1. dropped' = dropped \cup ({file.key} \ {0})
          BY <2>4 DEF Replace, Recorded
        <4>2. {file.key} \ {0} \subseteq 1..keys
          BY <2>1, <3>2, IdentityAssumption
        <4> QED BY <1>8, <2>1, <4>1, <4>2
      <3>4. 0 \notin dropped'
        BY <1>8, <2>1, <3>3, IdentityAssumption
      <3> QED BY <1>1, <1>8, <2>2, <3>1, <3>3, <3>4 DEF Whole
    <2>5. CASE op[p].kind = "register"
      <3>1. dropped' = dropped /\ told' \in {new.key, 0}
        BY <2>5 DEF Replace, Recorded
      <3>2. new.key \notin dropped /\ OnDisk(new.seal)
        BY <1>1, <2>5 DEF Current
      <3> QED BY <1>1, <1>8, <2>1, <2>2, <3>1, <3>2 DEF Whole, OnDisk
    <2> QED BY <1>1, <2>3, <2>4, <2>5 DEF Makes
  <1> QED BY <1>7, <1>9, <1>10 DEF TakingTurns

LEMMA NextTurns == IInv /\ [Next]_vars /\ ~raced' => TakingTurns'
  <1> SUFFICES ASSUME IInv, [Next]_vars, ~raced' PROVE TakingTurns'
    OBVIOUS
  <1>0. ~raced
    BY DEF Next, vars
  <1>i. /\ Typed /\ TypeOK /\ TakingTurns
        /\ env \in Hashes /\ NoToken \in Hashes /\ Tokens \subseteq Hashes
        /\ "agent" \in Process /\ "cli" \in Process
        /\ "init" \in Makes /\ "resetinit" \in Makes
        /\ 0 \in 0..MaxKeys /\ 0 \in 0..MaxLocals /\ cipher \in 0..MaxLocals
        /\ keys \in 0..MaxKeys /\ keys \in Nat
    BY <1>0, IdentityAssumption DEF IInv, Typed, TypeOK, Hashes, Process, Makes
  <1>f. CASE Next
    <2>f. Free("agent")' \/ Free("cli")'
      BY <1>f DEF Next, Free, Process
    <2>1. CASE AgentBoot
      BY <1>i, <2>f, <2>1, PrepareTurns DEF AgentBoot
    <2>2. CASE AgentStop
      BY <1>i, <2>f, <2>2, GivenUpTurns DEF AgentStop
    <2>3. CASE Revoke
      <3> DEFINE g   == [file EXCEPT !.key = 0]
                 new == [file EXCEPT !.key = 0, !.seal = 0]
      <3>1. g \in Identity /\ g.key = 0 /\ g.id = file.id
        BY <1>i, <2>3 DEF Revoke, Identity
      <3>a. new = [g EXCEPT !.seal = 0]
        OBVIOUS
      <3> HIDE DEF g
      <3>2. new \in Identity /\ new.id = file.id /\ new.key = 0
        BY <1>i, <3>1, <3>a DEF Identity
      <3>3. Begin("agent", "revoke", new, NoToken)
        BY <2>3 DEF Revoke
      <3> HIDE DEF new
      <3>4. keys' \in Nat /\ keys <= keys' /\ new.key <= keys'
        BY <1>i, <2>3, <3>2 DEF Revoke
      <3> QED BY <1>i, <2>f, <2>3, <3>2, <3>3, <3>4, BeginTurns DEF Revoke
    <2>4. CASE CliInfo
      BY <1>i, <2>f, <2>4, PrepareTurns DEF CliInfo
    <2>5. CASE ResetRegistration
      <3> DEFINE new == Rewrite(file, op["cli"].arg, 0, 0)
      <3>1. file \in Identity /\ op["cli"].arg \in Hashes
        BY <1>i, <2>5 DEF ResetRegistration, TypeOK, Operation
      <3>2. new \in Identity /\ new.id = file.id /\ new.key = 0
        BY <1>i, <3>1, Rewritten
      <3>3. Begin("cli", "reset", new, NoToken)
        BY <2>5 DEF ResetRegistration, Rewrite
      <3> HIDE DEF new
      <3>4. keys' \in Nat /\ keys <= keys' /\ new.key <= keys'
        BY <1>i, <2>5, <3>2 DEF ResetRegistration
      <3> QED BY <1>i, <2>f, <2>5, <3>1, <3>2, <3>3, <3>4, BeginTurns
              DEF ResetRegistration
    <2>6. ASSUME NEW t \in Tokens, InstallerRerun(t) PROVE TakingTurns'
      <3>1. UNCHANGED <<file, local, part, agent, cipher, op, keys, dropped, told>>
        BY <2>6 DEF InstallerRerun, files
      <3>2. \A p \in Process : Current(p)'
        BY <1>i, <3>1 DEF TakingTurns, Current, OnDisk
      <3>3. Loaded' /\ Whole'
        BY <1>i, <3>1 DEF TakingTurns, Loaded, Whole, OnDisk
      <3> QED BY <2>f, <3>2, <3>3 DEF TakingTurns
    <2>7. ASSUME NEW t \in Tokens, Register(t) PROVE TakingTurns'
      <3> DEFINE new == Rewrite(file, NoToken, keys + 1, cipher)
      <3>1. /\ file \in Identity /\ keys + 1 \in 0..MaxKeys
            /\ NoToken \in Hashes /\ cipher \in 0..MaxLocals
        BY <1>i, <2>7, IdentityAssumption DEF Register
      <3>2. /\ new \in Identity /\ new.id = file.id /\ new.key = keys + 1
            /\ new.seal = cipher
        BY <3>1, Rewritten
      <3>3. keys + 1 \notin dropped
        <4>1. dropped \subseteq 1..keys
          BY <1>i DEF TakingTurns, Whole
        <4>2. keys + 1 \notin 1..keys
          BY <1>i
        <4> QED BY <4>1, <4>2
      <3>4. Begin("agent", "register", new, NoToken) /\ keys' = keys + 1
        BY <2>7 DEF Register, Rewrite
      <3> HIDE DEF new
      <3>5. keys' \in Nat /\ keys <= keys' /\ new.key <= keys'
        BY <1>i, <3>2, <3>4
      <3> QED BY <1>i, <2>f, <2>7, <3>1, <3>2, <3>3, <3>4, <3>5, BeginTurns
              DEF Register
    <2>8. ASSUME NEW h \in Hashes, CliReset(h) PROVE TakingTurns'
      BY <1>i, <2>f, <2>8, PrepareTurns DEF CliReset
    <2>9. ASSUME NEW p \in Process, Load(p) PROVE TakingTurns'
      BY <1>i, <2>f, <2>9, LoadTurns
    <2>10. ASSUME NEW p \in Process, Construct(p) PROVE TakingTurns'
      BY <1>i, <2>f, <2>10, ConstructTurns
    <2>11. ASSUME NEW p \in Process, Open(p) PROVE TakingTurns'
      BY <1>i, <2>f, <2>11, OpenTurns
    <2>12. ASSUME NEW p \in Process, Fill(p) PROVE TakingTurns'
      BY <1>i, <2>f, <2>12, FillTurns
    <2>13. ASSUME NEW p \in Process, ReplaceKey(p) PROVE TakingTurns'
      BY <1>i, <2>f, <2>13, ReplaceKeyTurns
    <2>14. ASSUME NEW p \in Process, Replace(p) PROVE TakingTurns'
      BY <1>0, <1>i, <2>f, <2>14, ReplaceTurns
    <2>15. ASSUME NEW p \in Process, Fails(p) PROVE TakingTurns'
      <3>1. UNCHANGED <<agent, cipher>> \/ (p = "agent" /\ agent' = "down")
        BY <2>15 DEF Fails
      <3> QED BY <1>i, <2>f, <2>15, <3>1, GivenUpTurns DEF Fails
    <2> QED
      BY <1>f, <2>1, <2>2, <2>3, <2>4, <2>5, <2>6, <2>7, <2>8, <2>9, <2>10,
         <2>11, <2>12, <2>13, <2>14, <2>15 DEF Next
  <1>g. CASE UNCHANGED vars
    BY <1>i, <1>g DEF vars, TakingTurns, Current, Loaded, Whole, OnDisk, Free
  <1> QED BY <1>f, <1>g

---------------------------------------------------------------------------
(* The strengthening is an invariant of the specification.                 *)
THEOREM Invariance == Spec => []IInv
  <1>1. Init => IInv
    BY InitTyped, InitTurns DEF IInv
  <1>2. IInv /\ [Next]_vars => IInv'
    BY NextTyped, NextTurns DEF IInv
  <1> QED BY <1>1, <1>2, PTL DEF Spec

(* Every variable has its type.                                            *)
THEOREM TypeCorrect == Spec => []TypeOK
  <1>1. IInv => TypeOK
    BY DEF IInv, Typed
  <1> QED BY <1>1, Invariance, PTL

(* A key that a revoke or a reset has taken out of the file never comes    *)
(* back, while agent and command line take turns.                          *)
THEOREM ForgottenForEver == Spec => []DroppedStaysDropped
  <1>1. IInv => DroppedStaysDropped
    BY DEF IInv, TakingTurns, Whole, DroppedStaysDropped
  <1> QED BY <1>1, Invariance, PTL

(* The key the panel was given stays on disk until the panel asks for      *)
(* another, through crashes, failed writes, boots and new tokens.          *)
THEOREM PairingSurvives == Spec => []PanelKeyOnDisk
  <1>1. IInv => PanelKeyOnDisk
    BY DEF IInv, TakingTurns, Whole, PanelKeyOnDisk
  <1> QED BY <1>1, Invariance, PTL

(* The signing key on disk can be unsealed with the local key on disk and  *)
(* the one a running agent holds, while the processes take turns.          *)
THEOREM SigningKeyOpens == Spec => []KeyOpens
  <1>1. IInv => KeyOpens
    <2> SUFFICES ASSUME IInv, ~raced, file \in Identity, file.key # 0
                 PROVE  /\ local = Local(file.seal)
                        /\ agent = "up" => cipher = file.seal
      BY DEF KeyOpens
    <2>1. OnDisk(file.seal) /\ (agent = "up" => OnDisk(cipher))
      BY DEF IInv, TakingTurns, Whole, Loaded
    <2>2. Local(cipher).local = cipher /\ Local(file.seal).local = file.seal
      BY DEF Local
    <2> QED BY <2>1, <2>2 DEF OnDisk
  <1> QED BY <1>1, Invariance, PTL

(* While the processes take turns, only the rename touches identity.json.  *)
LEMMA OnlyReplace ==
  ASSUME IInv, [Next]_vars, ~raced', file' # file
  PROVE  \E p \in Process : Replace(p)
  <1>1. Typed /\ TakingTurns
    BY DEF IInv, Next, vars
  <1>2. ASSUME NEW p \in Process, Fill(p) PROVE file' = file
    BY <1>1, <1>2 DEF Fill, Filled, TakingTurns, Current
  <1> QED
    BY <1>2 DEF Next, vars, files, AgentBoot, AgentStop, Revoke, CliInfo,
       ResetRegistration, InstallerRerun, Register, CliReset, Load, Construct,
       Open, ReplaceKey, Fails

(* The identity on disk stays complete and keeps its id, while agent and   *)
(* command line take turns.                                                *)
THEOREM NodeIdForEver == Spec => NodeIdStable
  <1>1. IInv /\ [Next]_vars
          => [~raced' /\ file \in Identity
                => file' \in Identity /\ file'.id = file.id]_vars
    <2> SUFFICES ASSUME IInv, [Next]_vars, ~raced', file \in Identity, file' # file
                 PROVE  file' \in Identity /\ file'.id = file.id
      OBVIOUS
    <2>1. Typed /\ TakingTurns
      BY DEF IInv, Next, vars
    <2>2. PICK p \in Process : Replace(p)
      BY OnlyReplace
    <2> QED BY <2>1, <2>2, ReplaceContent DEF Current
  <1> QED BY <1>1, Invariance, PTL DEF Spec, NodeIdStable

=============================================================================
