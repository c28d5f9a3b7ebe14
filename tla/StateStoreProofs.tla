-------------------------- MODULE StateStoreProofs --------------------------
(***************************************************************************)
(* The store implements the atomic one until a call reads beside the write *)
(* of one that was cut off, for any number of cores, tasks, settings and   *)
(* cancellations and wherever the agent dies.                              *)
(***************************************************************************)
EXTENDS StateStore, TLAPS

(* A thread that has yet to rename carries the rows it will write.         *)
Carrying ==
    \A t \in Tasks : thread[t].at \in Working => thread[t].value \in Rows

(* Until then: a call has a thread once it has read, and a gone one until  *)
(* it has written, and what the thread carries is the file with one row    *)
(* changed.                                                                *)
Serial(t) ==
    /\ call[t].pc = "free" => call[t] = Free
    /\ call[t].pc \in {"read", "write"} <=> lock = t
    /\ call[t].pc \notin {"write", "gone"} => thread[t] = Ended
    /\ call[t].pc = "write" => thread[t].at # "none"
    /\ call[t].pc = "gone" => thread[t].at \in Working
    /\ thread[t].at = "end" => thread[t] = [Ended EXCEPT !.at = "end"]
    /\ thread[t].at \in Working =>
         thread[t].value =
             [file EXCEPT ![call[t].core] = Store!Saved(call[t].arg, @)]
    /\ thread[t].at = "fill" => thread[t].on = "part"
    /\ thread[t].at = "rename" => part = thread[t].value

(* One thread at most is at work, with a lock holder waiting for it or     *)
(* not: whoever takes the lock meanwhile has yet to read.                  *)
OneAtWork ==
    \A t, q \in Tasks : thread[t].at \in Working /\ thread[q].at \in Working => t = q

Serialized == file # Torn /\ OneAtWork /\ \A t \in Tasks : Serial(t)

IInv == TypeOK /\ Carrying /\ (~met => Serialized)

---------------------------------------------------------------------------
LEMMA Special ==
  /\ Torn \notin Rows /\ Absent \notin Rows /\ Torn # Absent
  /\ Blank \notin Settings /\ Missing \notin Settings /\ Blank # Missing
  BY StoreAssumption

LEMMA FreeTyped ==
  /\ Free \in [core : Cores, arg : Args, pc : {"free", "wait", "read", "write", "gone"}]
  /\ Free.pc = "free"
  <1>1. (CHOOSE c \in Cores : TRUE) \in Cores
    BY StoreAssumption
  <1> QED BY <1>1 DEF Free, Args

LEMMA EndedTyped ==
  /\ Ended \in [at : {"none", "open", "fill", "rename", "end"},
                value : Rows \cup {Absent},
                on : {"none", "part", "file", "lost"}]
  /\ Ended.at = "none"
  BY DEF Ended

(* A call changes one row of the file.                                     *)
LEMMA SavedTyped ==
  ASSUME NEW f \in Rows, NEW c \in Cores, NEW arg \in Args
  PROVE  [f EXCEPT ![c] = Store!Saved(arg, @)] \in Rows
  <1>1. f[c] \in Settings \cup {Blank, Missing}
    BY DEF Rows
  <1>2. Store!Saved(arg, f[c]) \in Settings \cup {Blank, Missing}
    BY <1>1 DEF Store!Saved, Args
  <1> QED BY <1>2 DEF Rows

---------------------------------------------------------------------------
LEMMA InitTyped == Init => TypeOK /\ Carrying
  <1> SUFFICES ASSUME Init PROVE TypeOK /\ Carrying
    OBVIOUS
  <1>1. file \in Rows /\ part = Absent /\ lock = NoTask /\ cancels \in 0..MaxCancels /\ met = FALSE
    BY StoreAssumption DEF Init, Rows
  <1>2. call \in [Tasks -> [core : Cores, arg : Args,
                            pc : {"free", "wait", "read", "write", "gone"}]]
    BY FreeTyped DEF Init
  <1>3. thread \in [Tasks -> [at : {"none", "open", "fill", "rename", "end"},
                              value : Rows \cup {Absent},
                              on : {"none", "part", "file", "lost"}]]
    BY EndedTyped DEF Init
  <1>4. Carrying
    BY EndedTyped DEF Init, Carrying, Working
  <1> QED BY <1>1, <1>2, <1>3, <1>4 DEF TypeOK

LEMMA InitSerial == Init => Serialized
  <1> SUFFICES ASSUME Init PROVE Serialized
    OBVIOUS
  <1>1. file \in Rows
    BY DEF Init, Rows
  <1>2. ASSUME NEW t \in Tasks PROVE Serial(t)
    <2>1. call[t] = Free /\ thread[t] = Ended /\ lock # t
      BY StoreAssumption DEF Init
    <2> QED BY <2>1, FreeTyped, EndedTyped DEF Serial, Working
  <1>3. OneAtWork
    BY EndedTyped DEF Init, OneAtWork, Working
  <1> QED BY <1>1, <1>2, <1>3, Special DEF Serialized

(* Types, action by action.                                                *)
LEMMA LeaveTyped ==
  ASSUME TypeOK, NEW t \in Tasks, Leave(t, Free)
  PROVE  /\ call' \in [Tasks -> [core : Cores, arg : Args,
                                 pc : {"free", "wait", "read", "write", "gone"}]]
         /\ lock' \in Tasks \cup {NoTask}
  BY FreeTyped DEF TypeOK, Leave

LEMMA NextTyped == TypeOK /\ Carrying /\ [Next]_vars => TypeOK' /\ Carrying'
  <1> SUFFICES ASSUME TypeOK, Carrying, [Next]_vars PROVE TypeOK' /\ Carrying'
    OBVIOUS
  <1> USE DEF Working
  <1>1. ASSUME NEW t \in Tasks, NEW c \in Cores, NEW arg \in Args, Begin(t, c, arg)
        PROVE  TypeOK' /\ Carrying'
    BY <1>1 DEF Begin, TypeOK, Carrying
  <1>2. ASSUME NEW t \in Tasks, Acquire(t) PROVE TypeOK' /\ Carrying'
    BY <1>2 DEF Acquire, TypeOK, Carrying
  <1>3. ASSUME NEW t \in Tasks, Read(t) PROVE TypeOK' /\ Carrying'
    <2> DEFINE new == [file EXCEPT ![call[t].core] = Store!Saved(call[t].arg, @)]
    <2>1. new \in Rows
      BY <1>3, SavedTyped DEF Read, TypeOK
    <2>2. thread' = [thread EXCEPT ![t] = [at |-> "open", on |-> "none", value |-> new]]
      BY <1>3 DEF Read
    <2>3. call' \in [Tasks -> [core : Cores, arg : Args,
                               pc : {"free", "wait", "read", "write", "gone"}]]
      BY <1>3 DEF Read, TypeOK
    <2> HIDE DEF new
    <2>4. [at |-> "open", on |-> "none", value |-> new]
            \in [at : {"none", "open", "fill", "rename", "end"},
                value : Rows \cup {Absent},
                on : {"none", "part", "file", "lost"}]
      BY <2>1
    <2>7. thread' \in [Tasks -> [at : {"none", "open", "fill", "rename", "end"},
                                 value : Rows \cup {Absent},
                                 on : {"none", "part", "file", "lost"}]]
      BY <2>2, <2>4 DEF TypeOK
    <2>8. UNCHANGED <<file, part, lock, cancels>> /\ met' \in BOOLEAN
      BY <1>3 DEF Read, TypeOK
    <2>5. TypeOK'
      BY <2>3, <2>7, <2>8 DEF TypeOK
    <2>6. Carrying'
      BY <2>1, <2>2 DEF TypeOK, Carrying
    <2> QED BY <2>5, <2>6
  <1>4. ASSUME NEW t \in Tasks, ReadFails(t) PROVE TypeOK' /\ Carrying'
    BY <1>4, LeaveTyped DEF ReadFails, TypeOK, Carrying
  <1>5. ASSUME NEW t \in Tasks, Truncate(t) PROVE TypeOK' /\ Carrying'
    BY <1>5 DEF Truncate, TypeOK, Carrying
  <1>6. ASSUME NEW t \in Tasks, Fill(t) PROVE TypeOK' /\ Carrying'
    <2>1. thread[t].value \in Rows
      BY <1>6 DEF Fill, Carrying
    <2>2. part' \in Rows \cup {Torn, Absent} /\ file' \in Rows \cup {Torn}
      BY <1>6, <2>1 DEF Fill, TypeOK
    <2> QED BY <1>6, <2>1, <2>2 DEF Fill, TypeOK, Carrying
  <1>7. ASSUME NEW t \in Tasks, Rename(t) PROVE TypeOK' /\ Carrying'
    <2>1. file' \in Rows \cup {Torn} /\ part' = Absent
      BY <1>7 DEF Rename, TypeOK
    <2>2. ASSUME NEW q \in Tasks
          PROVE  /\ thread'[q] \in [at : {"none", "open", "fill", "rename", "end"},
                                    value : Rows \cup {Absent},
                                    on : {"none", "part", "file", "lost"}]
                 /\ thread'[q].at \in {"open", "fill", "rename"} =>
                      thread'[q].value \in Rows
      <3>1. CASE q = t
        BY <1>7, <3>1 DEF Rename, End, Ended
      <3>2. CASE q # t
        BY <1>7, <3>2 DEF Rename, TypeOK, Carrying
      <3> QED BY <3>1, <3>2
    <2>3. thread' \in [Tasks -> [at : {"none", "open", "fill", "rename", "end"},
                                 value : Rows \cup {Absent},
                                 on : {"none", "part", "file", "lost"}]]
      <3> DEFINE f(q) == IF q = t THEN End(t)
                         ELSE [thread[q] EXCEPT !.on = CASE @ = "part" -> "file"
                                                         [] @ = "file" -> "lost"
                                                         [] OTHER -> @]
      <3>1. thread' = [q \in Tasks |-> f(q)]
        BY <1>7 DEF Rename
      <3> HIDE DEF f
      <3> QED BY <2>2, <3>1
    <2>4. call' \in [Tasks -> [core : Cores, arg : Args,
                               pc : {"free", "wait", "read", "write", "gone"}]]
      BY <1>7, FreeTyped DEF Rename, TypeOK
    <2> QED BY <1>7, <2>1, <2>2, <2>3, <2>4 DEF Rename, TypeOK, Carrying
  <1>8. ASSUME NEW t \in Tasks, RenameFails(t) PROVE TypeOK' /\ Carrying'
    <2>1. thread' \in [Tasks -> [at : {"none", "open", "fill", "rename", "end"},
                                 value : Rows \cup {Absent},
                                 on : {"none", "part", "file", "lost"}]]
      BY <1>8, EndedTyped DEF RenameFails, TypeOK
    <2>2. Carrying'
      BY <1>8, EndedTyped DEF RenameFails, TypeOK, Carrying
    <2> QED BY <1>8, <2>1, <2>2, LeaveTyped DEF RenameFails, TypeOK
  <1>9. ASSUME NEW t \in Tasks, Return(t) PROVE TypeOK' /\ Carrying'
    BY <1>9, LeaveTyped, EndedTyped DEF Return, TypeOK, Carrying
  <1>10. ASSUME NEW t \in Tasks, Cancel(t) PROVE TypeOK' /\ Carrying'
    <2>1. cancels' \in 0..MaxCancels /\ UNCHANGED <<file, part, met>>
      BY <1>10, StoreAssumption DEF Cancel, TypeOK
    <2>2. CASE Leave(t, Free) /\ thread' = [thread EXCEPT ![t] = Ended]
      BY <2>1, <2>2, LeaveTyped, EndedTyped DEF TypeOK, Carrying
    <2>3. CASE Leave(t, [call[t] EXCEPT !.pc = "gone"]) /\ UNCHANGED thread
      BY <2>1, <2>3 DEF Leave, TypeOK, Carrying
    <2> QED BY <1>10, <2>2, <2>3 DEF Cancel
  <1>11. CASE Die
    BY <1>11, FreeTyped, EndedTyped DEF Die, TypeOK, Carrying
  <1>12. CASE UNCHANGED vars
    BY <1>12 DEF vars, TypeOK, Carrying
  <1> QED
    BY <1>1, <1>2, <1>3, <1>4, <1>5, <1>6, <1>7, <1>8, <1>9, <1>10, <1>11,
       <1>12 DEF Next

---------------------------------------------------------------------------
(* A task that does not move itself notices nothing but a thread at work.  *)
LEMMA Bystander ==
  ASSUME NEW q \in Tasks, Serial(q), call'[q] = call[q], thread'[q] = thread[q],
         lock' = q <=> lock = q,
         thread[q].at \in Working => UNCHANGED <<file, part>>
  PROVE  Serial(q)'
  BY DEF Serial, Working

(* A step of t, which leaves the others where they are.  It starts a       *)
(* thread only where none is at work.                                      *)
LEMMA SerialStep ==
  ASSUME Serialized, NEW t \in Tasks,
         \A q \in Tasks : q # t =>
             call'[q] = call[q] /\ thread'[q] = thread[q] /\ (lock' = q <=> lock = q),
         UNCHANGED <<file, part>> \/ thread[t].at \in Working,
         thread'[t].at \in Working =>
             thread[t].at \in Working \/ \A q \in Tasks : thread[q].at \notin Working,
         file' # Torn, Serial(t)'
  PROVE  Serialized'
  <1>1. ASSUME NEW q \in Tasks, q # t PROVE Serial(q)'
    <2>1. thread[q].at \in Working => UNCHANGED <<file, part>>
      BY <1>1 DEF Serialized, OneAtWork
    <2> QED BY <1>1, <2>1, Bystander DEF Serialized
  <1>2. OneAtWork'
    BY DEF Serialized, OneAtWork
  <1> QED BY <1>1, <1>2 DEF Serialized

(* A thread at work belongs to the task inside the lock, or to none.       *)
LEMMA AtWork ==
  ASSUME Serialized, NEW t \in Tasks, thread[t].at \in Working
  PROVE  call[t].pc \in {"write", "gone"} /\ Serial(t)
  BY EndedTyped DEF Serialized, Serial, Working

(* The rename changes one row of the file, and no thread but its own.      *)
LEMMA RenameEffect ==
  ASSUME TypeOK, Carrying, Serialized, NEW t \in Tasks, Rename(t)
  PROVE  /\ call[t].pc \in {"write", "gone"} /\ thread[t].at = "rename"
         /\ file' = [file EXCEPT ![call[t].core] = Store!Saved(call[t].arg, @)]
         /\ file' \in Rows
         /\ call[t].pc = "write" => call'[t] = call[t] /\ thread'[t] = [Ended EXCEPT !.at = "end"]
         /\ call[t].pc = "gone" => call'[t] = Free /\ thread'[t] = Ended
         /\ lock' = lock
         /\ \A q \in Tasks : q # t => call'[q] = call[q] /\ thread'[q] = thread[q]
  <1>1. thread[t].at = "rename" /\ thread[t].at \in Working /\ lock' = lock
    BY DEF Rename, Working
  <1>2. call[t].pc \in {"write", "gone"} /\ Serial(t)
    BY <1>1, AtWork
  <1>3. file' = thread[t].value /\ file' \in Rows
    BY <1>1, <1>2 DEF Rename, Serial, Carrying
  <1>4. thread[t].value = [file EXCEPT ![call[t].core] = Store!Saved(call[t].arg, @)]
    BY <1>1, <1>2 DEF Serial
  <1>5. /\ thread'[t] = End(t)
        /\ call' = IF call[t].pc = "gone" THEN [call EXCEPT ![t] = Free] ELSE call
    BY DEF Rename
  <1>6. /\ call[t].pc = "write" => call'[t] = call[t] /\ thread'[t] = [Ended EXCEPT !.at = "end"]
        /\ call[t].pc = "gone" => call'[t] = Free /\ thread'[t] = Ended
    BY <1>5 DEF End, TypeOK
  <1>7. ASSUME NEW q \in Tasks, q # t PROVE call'[q] = call[q] /\ thread'[q] = thread[q]
    <2>1. call'[q] = call[q]
      BY <1>5, <1>7 DEF TypeOK
    <2>2. thread[q].at \notin Working /\ Serial(q)
      BY <1>1, <1>7 DEF Serialized, OneAtWork
    <2>3. thread[q].at \in {"none", "end"}
      BY <2>2 DEF TypeOK, Working
    <2>4. thread[q] = Ended \/ thread[q] = [Ended EXCEPT !.at = "end"]
      BY <2>2, <2>3 DEF Serial, Working
    <2>5. thread[q].on = "none"
      BY <2>4 DEF Ended
    <2>6. thread'[q] = [thread[q] EXCEPT !.on = CASE @ = "part" -> "file"
                                                  [] @ = "file" -> "lost"
                                                  [] OTHER -> @]
      BY <1>7 DEF Rename
    <2>7. thread'[q] = [thread[q] EXCEPT !.on = "none"]
      BY <2>5, <2>6
    <2> QED BY <2>1, <2>4, <2>7 DEF Ended
  <1> QED BY <1>1, <1>2, <1>3, <1>4, <1>6, <1>7

(* A task that leaves the store without a thread.                          *)
LEMMA LeaveEffect ==
  ASSUME TypeOK, Serialized, NEW t \in Tasks, Leave(t, Free),
         thread' = [thread EXCEPT ![t] = Ended]
  PROVE  /\ call'[t] = Free /\ thread'[t] = Ended
         /\ \A q \in Tasks : q # t =>
               call'[q] = call[q] /\ thread'[q] = thread[q] /\ (lock' = q <=> lock = q)
         /\ Serial(t)'
  <1>1. /\ call'[t] = Free /\ thread'[t] = Ended /\ lock' # t
        /\ \A q \in Tasks : q # t => call'[q] = call[q] /\ thread'[q] = thread[q]
    BY StoreAssumption DEF Leave, TypeOK
  <1>2. \A q \in Tasks : q # t => (lock' = q <=> lock = q)
    BY StoreAssumption DEF Leave
  <1>3. Serial(t)'
    BY <1>1, FreeTyped, EndedTyped DEF Serial, Working
  <1> QED BY <1>1, <1>2, <1>3

LEMMA NextSerial == IInv /\ [Next]_vars /\ ~met' => Serialized'
  <1> SUFFICES ASSUME IInv, [Next]_vars, ~met' PROVE Serialized'
    OBVIOUS
  <1>m. ~met
    BY DEF Next, vars, Begin, Acquire, Read, ReadFails, Truncate, Fill, Rename,
           RenameFails, Return, Cancel, Die
  <1>i. TypeOK /\ Carrying /\ Serialized /\ \A t \in Tasks : Serial(t)
    BY <1>m DEF IInv, Serialized
  <1>f. file # Torn
    BY <1>i DEF Serialized
  <1>1. ASSUME NEW t \in Tasks, NEW c \in Cores, NEW arg \in Args, Begin(t, c, arg)
        PROVE  Serialized'
    <2>1. /\ call'[t].pc = "wait" /\ thread[t] = Ended
          /\ \A q \in Tasks : q # t => call'[q] = call[q]
          /\ UNCHANGED <<file, part, lock, thread>>
      BY <1>i, <1>1 DEF Begin, TypeOK
    <2>2. lock # t
      BY <1>i, <1>1, FreeTyped DEF Begin, Serial
    <2>3. Serial(t)'
      BY <2>1, <2>2, EndedTyped DEF Serial, Working
    <2> QED BY <1>i, <1>f, <2>1, <2>3, SerialStep
  <1>2. ASSUME NEW t \in Tasks, Acquire(t) PROVE Serialized'
    <2>1. /\ call'[t].pc = "read" /\ lock' = t /\ lock = NoTask
          /\ \A q \in Tasks : q # t => call'[q] = call[q]
          /\ UNCHANGED <<file, part, thread>>
      BY <1>i, <1>2 DEF Acquire, TypeOK
    <2>2. thread[t] = Ended
      BY <1>i, <1>2 DEF Acquire, Serial
    <2>3. Serial(t)'
      BY <2>1, <2>2, EndedTyped DEF Serial, Working
    <2>4. \A q \in Tasks : q # t => (lock' = q <=> lock = q)
      BY <2>1, StoreAssumption
    <2> QED BY <1>i, <1>f, <2>1, <2>3, <2>4, SerialStep
  <1>3. ASSUME NEW t \in Tasks, Read(t) PROVE Serialized'
    <2> DEFINE new == [file EXCEPT ![call[t].core] = Store!Saved(call[t].arg, @)]
    <2>1. lock = t /\ UNCHANGED <<file, part, lock>>
      BY <1>i, <1>3 DEF Read, Serial
    <2>2. /\ call'[t].pc = "write" /\ call'[t].core = call[t].core
          /\ call'[t].arg = call[t].arg
          /\ \A q \in Tasks : q # t => call'[q] = call[q]
      BY <1>i, <1>3 DEF Read, TypeOK
    <2>3. /\ thread'[t] = [at |-> "open", on |-> "none", value |-> new]
          /\ \A q \in Tasks : q # t => thread'[q] = thread[q]
      BY <1>i, <1>3 DEF Read, TypeOK
    <2>4. [file' EXCEPT ![call'[t].core] = Store!Saved(call'[t].arg, @)] = new
      BY <2>1, <2>2
    <2>5. Serial(t)'
      BY <2>1, <2>2, <2>3, <2>4 DEF Serial, Working
    <2>6. \A q \in Tasks : thread[q].at \notin Working
      <3> SUFFICES ASSUME NEW q \in Tasks, thread[q].at \in Working PROVE FALSE
        OBVIOUS
      <3>1. call[q].pc = "write" \/ call[q].pc = "gone"
        BY <1>i, AtWork
      <3>2. call[q].pc # "gone"
        BY <1>3 DEF Read
      <3>3. q = t
        BY <1>i, <2>1, <3>1, <3>2 DEF Serial
      <3> QED BY <1>3, <3>1, <3>2, <3>3 DEF Read
    <2> QED BY <1>i, <1>f, <2>1, <2>2, <2>3, <2>5, <2>6, SerialStep
  <1>4. ASSUME NEW t \in Tasks, ReadFails(t) PROVE FALSE
    BY <1>f, <1>4 DEF ReadFails
  <1>5. ASSUME NEW t \in Tasks, Truncate(t) PROVE Serialized'
    <2>1. /\ thread[t].at \in Working /\ call[t].pc \in {"write", "gone"} /\ Serial(t)
          /\ UNCHANGED <<file, lock, call>>
      BY <1>i, <1>5, AtWork DEF Truncate, Working
    <2>2. /\ thread'[t] = [at |-> "fill", value |-> thread[t].value, on |-> "part"]
          /\ \A q \in Tasks : q # t => thread'[q] = thread[q]
      BY <1>i, <1>5 DEF Truncate, TypeOK
    <2>3. Serial(t)'
      BY <2>1, <2>2 DEF Serial, Working
    <2> QED BY <1>i, <1>f, <2>1, <2>2, <2>3, SerialStep
  <1>6. ASSUME NEW t \in Tasks, Fill(t) PROVE Serialized'
    <2>1. /\ thread[t].at \in Working /\ call[t].pc \in {"write", "gone"} /\ Serial(t)
          /\ thread[t].on = "part" /\ UNCHANGED <<lock, call>>
      BY <1>i, <1>6, AtWork DEF Fill, Working, Serial
    <2>2. /\ thread'[t] = [at |-> "rename", value |-> thread[t].value, on |-> "none"]
          /\ \A q \in Tasks : q # t => thread'[q] = thread[q]
          /\ file' = file /\ part' = thread[t].value
      BY <1>i, <1>6, <2>1 DEF Fill, TypeOK
    <2>3. Serial(t)'
      BY <2>1, <2>2 DEF Serial, Working
    <2> QED BY <1>i, <1>f, <2>1, <2>2, <2>3, SerialStep
  <1>7. ASSUME NEW t \in Tasks, Rename(t) PROVE Serialized'
    <2>1. /\ call[t].pc \in {"write", "gone"} /\ thread[t].at \in Working
          /\ file' # Torn /\ lock' = lock /\ Serial(t)
          /\ call[t].pc = "write" => call'[t] = call[t] /\ thread'[t] = [Ended EXCEPT !.at = "end"]
          /\ call[t].pc = "gone" => call'[t] = Free /\ thread'[t] = Ended
          /\ \A q \in Tasks : q # t => call'[q] = call[q] /\ thread'[q] = thread[q]
      BY <1>i, <1>7, RenameEffect, Special DEF Working
    <2>2. CASE call[t].pc = "write"
      <3>1. thread'[t].at = "end" /\ call'[t].pc = "write" /\ lock = t
        BY <2>1, <2>2 DEF Ended, Serial
      <3>2. Serial(t)'
        BY <2>1, <2>2, <3>1 DEF Serial, Working
      <3> QED BY <1>i, <2>1, <3>2, SerialStep
    <2>3. CASE call[t].pc = "gone"
      <3>1. lock # t
        BY <2>1, <2>3 DEF Serial
      <3>2. Serial(t)'
        BY <2>1, <2>3, <3>1, FreeTyped, EndedTyped DEF Serial, Working
      <3> QED BY <1>i, <2>1, <3>2, SerialStep
    <2> QED BY <2>1, <2>2, <2>3
  <1>8. ASSUME NEW t \in Tasks, RenameFails(t) PROVE FALSE
    <2>1. thread[t].at = "rename" /\ part = Absent /\ Serial(t)
      BY <1>i, <1>8 DEF RenameFails
    <2> QED BY <1>i, <2>1, Special DEF Serial, Carrying, Working
  <1>9. ASSUME NEW t \in Tasks, Return(t) PROVE Serialized'
    <2>1. /\ Leave(t, Free) /\ thread' = [thread EXCEPT ![t] = Ended]
          /\ UNCHANGED <<file, part>>
      BY <1>9 DEF Return
    <2>2. /\ Serial(t)' /\ thread'[t].at \notin Working
          /\ \A q \in Tasks : q # t =>
                call'[q] = call[q] /\ thread'[q] = thread[q] /\ (lock' = q <=> lock = q)
      BY <1>i, <2>1, LeaveEffect, EndedTyped DEF Working
    <2> QED BY <1>i, <1>f, <2>1, <2>2, SerialStep
  <1>10. ASSUME NEW t \in Tasks, Cancel(t) PROVE Serialized'
    <2>1. UNCHANGED <<file, part>> /\ call[t].pc \in {"wait", "read", "write"}
      BY <1>10 DEF Cancel
    <2>2. CASE Leave(t, Free) /\ thread' = [thread EXCEPT ![t] = Ended]
      <3>1. /\ Serial(t)' /\ thread'[t].at \notin Working
            /\ \A q \in Tasks : q # t =>
                  call'[q] = call[q] /\ thread'[q] = thread[q] /\ (lock' = q <=> lock = q)
        BY <1>i, <2>2, LeaveEffect, EndedTyped DEF Working
      <3> QED BY <1>i, <1>f, <2>1, <3>1, SerialStep
    <2>3. CASE /\ Leave(t, [call[t] EXCEPT !.pc = "gone"])
               /\ UNCHANGED thread /\ thread[t].at \in Working
      <3>1. /\ call'[t].pc = "gone" /\ call'[t].core = call[t].core
            /\ call'[t].arg = call[t].arg /\ lock' # t
            /\ \A q \in Tasks : q # t => call'[q] = call[q] /\ (lock' = q <=> lock = q)
        BY <1>i, <2>3, StoreAssumption DEF Leave, TypeOK
      <3>2. Serial(t)'
        BY <1>i, <2>1, <2>3, <3>1 DEF Serial, Working
      <3> QED BY <1>i, <1>f, <2>1, <2>3, <3>1, <3>2, SerialStep
    <2> QED BY <1>10, <2>2, <2>3 DEF Cancel
  <1>11. CASE Die
    <2>1. ASSUME NEW t \in Tasks PROVE Serial(t)' /\ thread'[t] = Ended
      <3>1. call'[t] = Free /\ thread'[t] = Ended /\ lock' # t
        BY <1>11, StoreAssumption DEF Die
      <3> QED BY <3>1, FreeTyped, EndedTyped DEF Serial, Working
    <2>2. OneAtWork' /\ file' = file
      BY <1>11, <2>1, EndedTyped DEF Die, OneAtWork, Working
    <2> QED BY <1>f, <2>1, <2>2 DEF Serialized
  <1>12. CASE UNCHANGED vars
    BY <1>i, <1>12 DEF vars, Serialized, Serial, OneAtWork
  <1> QED
    BY <1>1, <1>2, <1>3, <1>4, <1>5, <1>6, <1>7, <1>8, <1>9, <1>10, <1>11,
       <1>12 DEF Next

(* The strengthening is an invariant of the specification.                 *)
THEOREM Invariance == Spec => []IInv
  <1>1. Init => IInv
    BY InitTyped, InitSerial DEF IInv
  <1>2. IInv /\ [Next]_vars => IInv'
    BY NextTyped, NextSerial DEF IInv
  <1> QED BY <1>1, <1>2, PTL DEF Spec

(* Every variable has its type, cancelled calls and orphaned threads       *)
(* included: in particular the file, when it can be read, has a row or     *)
(* none for every core.                                                    *)
THEOREM TypeCorrect == Spec => []TypeOK
  <1>1. IInv => TypeOK
    BY DEF IInv
  <1> QED BY <1>1, Invariance, PTL

---------------------------------------------------------------------------
(* The refinement mapping, as the instance of AtomicStore states it.       *)
Pc(t) == CASE call[t].pc \in {"free", "gone"} -> call[t].pc
           [] thread[t].at = "end" -> "done"
           [] OTHER -> "called"

Mapped == [t \in Tasks |-> [core |-> call[t].core, arg |-> call[t].arg, pc |-> Pc(t)]]

LEMMA FreeRecord ==
  /\ Free.pc = "free"
  /\ Store!Free = [core |-> Free.core, arg |-> Free.arg, pc |-> "free"]
  BY DEF Free, Store!Free

LEMMA FreeMapped ==
  ASSUME NEW t \in Tasks, call[t] = Free, thread[t] = Ended
  PROVE  /\ Pc(t) = "free"
         /\ [core |-> call[t].core, arg |-> call[t].arg, pc |-> Pc(t)] = Store!Free
  <1>1. Pc(t) = "free"
    BY FreeRecord, EndedTyped DEF Pc
  <1> QED BY <1>1, FreeRecord

LEMMA FreeNext ==
  ASSUME NEW t \in Tasks, call'[t] = Free, thread'[t] = Ended
  PROVE  [core |-> call'[t].core, arg |-> call'[t].arg, pc |-> Pc(t)'] = Store!Free
  <1>1. Pc(t)' = "free"
    BY FreeRecord, EndedTyped DEF Pc
  <1> QED BY <1>1, FreeRecord

LEMMA MappedStep ==
  ASSUME NEW t \in Tasks,
         \A q \in Tasks : q # t => call'[q] = call[q] /\ thread'[q].at = thread[q].at
  PROVE  Mapped' = [Mapped EXCEPT ![t] =
                      [core |-> call'[t].core, arg |-> call'[t].arg, pc |-> Pc(t)']]
  BY DEF Mapped, Pc

LEMMA InitRefines == Init => Store!AInit
  <1> SUFFICES ASSUME Init PROVE Store!AInit
    OBVIOUS
  <1>1. \A t \in Tasks : call[t] = Free /\ thread[t] = Ended
    BY DEF Init
  <1>2. Mapped = [t \in Tasks |-> Store!Free]
    BY <1>1, FreeMapped DEF Mapped
  <1> QED BY <1>2 DEF Init, Store!AInit, Mapped, Pc

(* A step that the atomic store does not see.                              *)
LEMMA Stutters ==
  ASSUME TypeOK, NEW t \in Tasks, file' = file,
         \A q \in Tasks : q # t => call'[q] = call[q] /\ thread'[q].at = thread[q].at,
         call'[t].core = call[t].core, call'[t].arg = call[t].arg, Pc(t)' = Pc(t)
  PROVE  UNCHANGED <<file, Mapped>>
  BY DEF Mapped, Pc

LEMMA StepRefines ==
  ASSUME IInv, Next, ~met'
  PROVE  [Store!ANext]_(Store!avars)
  <1>m. ~met
    BY DEF Next, Begin, Acquire, Read, ReadFails, Truncate, Fill, Rename,
           RenameFails, Return, Cancel, Die
  <1>0. TypeOK /\ Carrying
    BY DEF IInv
  <1>i. Serialized
    BY <1>m DEF IInv
  <1>s. ASSUME UNCHANGED <<file, Mapped>> PROVE [Store!ANext]_(Store!avars)
    BY <1>s DEF Store!avars, Mapped, Pc
  <1>1. ASSUME NEW t \in Tasks, NEW c \in Cores, NEW arg \in Args, Begin(t, c, arg)
        PROVE  Store!ANext
    <2>1. /\ call'[t] = [core |-> c, arg |-> arg, pc |-> "wait"]
          /\ \A q \in Tasks : q # t => call'[q] = call[q]
          /\ call[t] = Free /\ thread[t] = Ended /\ thread' = thread /\ file' = file
      BY <1>0, <1>1 DEF Begin, TypeOK
    <2>2. Mapped' = [Mapped EXCEPT ![t] = [core |-> c, arg |-> arg, pc |-> "called"]]
      <3>1. Pc(t)' = "called"
        BY <2>1, EndedTyped DEF Pc
      <3> QED BY <2>1, <3>1, MappedStep
    <2>3. Mapped[t] = Store!Free
      BY <2>1, FreeMapped DEF Mapped
    <2>4. Store!ABegin(t, c, arg)
      BY <2>1, <2>2, <2>3 DEF Store!ABegin, Mapped, Pc
    <2> QED BY <2>4 DEF Store!ANext, Store!Args, Args
  <1>2. ASSUME NEW t \in Tasks, Acquire(t) PROVE UNCHANGED <<file, Mapped>>
    <2>1. /\ call'[t] = [call[t] EXCEPT !.pc = "read"]
          /\ \A q \in Tasks : q # t => call'[q] = call[q]
          /\ call[t].pc = "wait" /\ thread[t] = Ended /\ thread' = thread /\ file' = file
      BY <1>0, <1>i, <1>2 DEF Acquire, TypeOK, Serialized, Serial
    <2>2. call'[t].core = call[t].core /\ call'[t].arg = call[t].arg /\ call'[t].pc = "read"
      BY <1>0, <2>1 DEF TypeOK
    <2>3. Pc(t)' = Pc(t)
      BY <2>1, <2>2, EndedTyped DEF Pc
    <2> QED BY <1>0, <2>1, <2>2, <2>3, Stutters
  <1>3. ASSUME NEW t \in Tasks, Read(t) PROVE UNCHANGED <<file, Mapped>>
    <2>1. /\ call'[t] = [call[t] EXCEPT !.pc = "write"]
          /\ thread'[t].at = "open"
          /\ \A q \in Tasks : q # t => call'[q] = call[q] /\ thread'[q] = thread[q]
          /\ call[t].pc = "read" /\ thread[t] = Ended /\ file' = file
      BY <1>0, <1>i, <1>3 DEF Read, TypeOK, Serialized, Serial
    <2>2. call'[t].core = call[t].core /\ call'[t].arg = call[t].arg /\ call'[t].pc = "write"
      BY <1>0, <2>1 DEF TypeOK
    <2>3. Pc(t)' = Pc(t)
      BY <2>1, <2>2, EndedTyped DEF Pc
    <2> QED BY <1>0, <2>1, <2>2, <2>3, Stutters
  <1>4. ASSUME NEW t \in Tasks, ReadFails(t) PROVE FALSE
    BY <1>i, <1>4 DEF ReadFails, Serialized
  <1>5. ASSUME NEW t \in Tasks, Truncate(t) PROVE UNCHANGED <<file, Mapped>>
    <2>1. /\ thread'[t].at = "fill" /\ thread[t].at = "open"
          /\ \A q \in Tasks : q # t => thread'[q] = thread[q]
          /\ call' = call /\ file' = file
      BY <1>0, <1>5 DEF Truncate, TypeOK
    <2>2. Pc(t)' = Pc(t)
      BY <2>1 DEF Pc
    <2> QED BY <1>0, <2>1, <2>2, Stutters
  <1>6. ASSUME NEW t \in Tasks, Fill(t) PROVE UNCHANGED <<file, Mapped>>
    <2>1. /\ thread'[t].at = "rename" /\ thread[t].at = "fill"
          /\ \A q \in Tasks : q # t => thread'[q] = thread[q]
          /\ call' = call /\ file' = file
      BY <1>0, <1>i, <1>6 DEF Fill, TypeOK, Serialized, Serial
    <2>2. Pc(t)' = Pc(t)
      BY <2>1 DEF Pc
    <2> QED BY <1>0, <2>1, <2>2, Stutters
  <1>7. ASSUME NEW t \in Tasks, Rename(t) PROVE Store!ANext
    <2>1. /\ call[t].pc \in {"write", "gone"} /\ thread[t].at = "rename"
          /\ file' = [file EXCEPT ![call[t].core] = Store!Saved(call[t].arg, @)]
          /\ call[t].pc = "write" =>
               call'[t] = call[t] /\ thread'[t] = [Ended EXCEPT !.at = "end"]
          /\ call[t].pc = "gone" => call'[t] = Free /\ thread'[t] = Ended
          /\ \A q \in Tasks : q # t => call'[q] = call[q] /\ thread'[q] = thread[q]
      BY <1>0, <1>i, <1>7, RenameEffect
    <2>2. Mapped[t].core = call[t].core /\ Mapped[t].arg = call[t].arg /\ Mapped[t].pc = Pc(t)
      BY DEF Mapped
    <2>3. CASE call[t].pc = "write"
      <3>1. Pc(t) = "called" /\ Pc(t)' = "done"
        BY <2>1, <2>3 DEF Pc, Ended
      <3>2. Mapped' = [Mapped EXCEPT ![t].pc = "done"]
        BY <2>1, <2>3, <3>1 DEF Mapped, Pc
      <3>3. Store!AEffect(t)
        BY <2>1, <2>2, <3>1, <3>2 DEF Store!AEffect, Mapped, Pc
      <3> QED BY <3>3 DEF Store!ANext
    <2>4. CASE call[t].pc = "gone"
      <3>1. Pc(t) = "gone"
        BY <2>1, <2>4 DEF Pc
      <3>2. Mapped' = [Mapped EXCEPT ![t] = Store!Free]
        BY <2>1, <2>4, FreeNext, MappedStep
      <3>3. Store!ALate(t)
        BY <2>1, <2>2, <3>1, <3>2 DEF Store!ALate, Mapped, Pc
      <3> QED BY <3>3 DEF Store!ANext
    <2> QED BY <2>1, <2>3, <2>4
  <1>8. ASSUME NEW t \in Tasks, RenameFails(t) PROVE FALSE
    <2>1. thread[t].at = "rename" /\ part = Absent /\ Serial(t)
      BY <1>i, <1>8 DEF RenameFails, Serialized
    <2> QED BY <1>0, <2>1, Special DEF Serial, Carrying, Working
  <1>9. ASSUME NEW t \in Tasks, Return(t) PROVE Store!ANext
    <2>1. /\ call'[t] = Free /\ call[t].pc = "write" /\ thread[t].at = "end"
          /\ thread'[t] = Ended
          /\ \A q \in Tasks : q # t => call'[q] = call[q] /\ thread'[q] = thread[q]
          /\ file' = file
      BY <1>0, <1>9 DEF Return, Leave, TypeOK
    <2>2. Pc(t) = "done"
      BY <2>1 DEF Pc
    <2>3. Mapped[t].pc = "done" /\ Mapped' = [Mapped EXCEPT ![t] = Store!Free]
      <3>1. [core |-> call'[t].core, arg |-> call'[t].arg, pc |-> Pc(t)'] = Store!Free
        BY <2>1, FreeNext
      <3> QED BY <2>1, <2>2, <3>1, MappedStep DEF Mapped
    <2>4. Store!AReturn(t)
      BY <2>1, <2>3 DEF Store!AReturn, Mapped, Pc
    <2> QED BY <2>4 DEF Store!ANext
  <1>11. ASSUME NEW t \in Tasks, Cancel(t) PROVE Store!ANext
    <2>1. call[t].pc \in {"wait", "read", "write"} /\ file' = file
      BY <1>11 DEF Cancel
    <2>2. Pc(t) \in {"called", "done"} /\ Mapped[t].pc = Pc(t)
      BY <2>1 DEF Pc, Mapped
    <2>3. CASE Leave(t, Free) /\ thread' = [thread EXCEPT ![t] = Ended]
      <3>1. /\ call'[t] = Free /\ thread'[t] = Ended
            /\ \A q \in Tasks : q # t => call'[q] = call[q] /\ thread'[q] = thread[q]
        BY <1>0, <2>3 DEF Leave, TypeOK
      <3>2. Mapped' = [Mapped EXCEPT ![t] = Store!Free]
        BY <3>1, FreeNext, MappedStep
      <3>3. Store!ACutOff(t)
        BY <2>1, <2>2, <3>2 DEF Store!ACutOff, Mapped, Pc
      <3> QED BY <3>3 DEF Store!ANext
    <2>4. CASE /\ Leave(t, [call[t] EXCEPT !.pc = "gone"])
               /\ UNCHANGED thread /\ thread[t].at \in Working
      <3>1. /\ call'[t].pc = "gone" /\ call'[t].core = call[t].core
            /\ call'[t].arg = call[t].arg
            /\ \A q \in Tasks : q # t => call'[q] = call[q] /\ thread'[q] = thread[q]
        BY <1>0, <2>4 DEF Leave, TypeOK
      <3>2. Pc(t) = "called" /\ Pc(t)' = "gone"
        BY <2>1, <2>4, <3>1 DEF Pc, Working
      <3>3. Mapped' = [Mapped EXCEPT ![t].pc = "gone"]
        BY <3>1, <3>2 DEF Mapped, Pc
      <3>4. Store!ACutOff(t)
        BY <2>1, <2>2, <3>2, <3>3 DEF Store!ACutOff, Mapped, Pc
      <3> QED BY <3>4 DEF Store!ANext
    <2> QED BY <1>11, <2>3, <2>4 DEF Cancel
  <1>10. CASE Die
    <2>1. /\ \A t \in Tasks : call'[t] = Free /\ thread'[t] = Ended
          /\ file' = file
      BY <1>10 DEF Die
    <2>2. Mapped' = [t \in Tasks |-> Store!Free]
      <3>1. ASSUME NEW t \in Tasks
            PROVE  [core |-> call'[t].core, arg |-> call'[t].arg, pc |-> Pc(t)'] = Store!Free
        BY <2>1, FreeNext
      <3> QED BY <3>1 DEF Mapped
    <2>3. Store!ADie
      BY <2>1, <2>2 DEF Store!ADie, Mapped, Pc
    <2> QED BY <2>3 DEF Store!ANext
  <1> QED
    BY <1>s, <1>1, <1>2, <1>3, <1>4, <1>5, <1>6, <1>7, <1>8, <1>9, <1>10, <1>11
    DEF Next

(* Until a call reads the file beside the write of a call that was cut     *)
(* off, every step of the store is one of the atomic store, or none:       *)
(* however the calls of the tasks interleave, whichever are cancelled and  *)
(* wherever the agent dies, a call changes its own row in one step, and a  *)
(* cancelled one does so at most once.                                     *)
THEOREM StoreIsAtomic == Spec => ImplementsAtomicStore
  <1>1. Init => Store!AInit
    BY InitRefines
  <1>2. IInv /\ [Next]_vars => [~met' => [Store!ANext]_(Store!avars)]_vars
    BY StepRefines
  <1> QED BY <1>1, <1>2, Invariance, PTL DEF Spec, ImplementsAtomicStore

=============================================================================
