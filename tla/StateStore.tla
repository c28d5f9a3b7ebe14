---------------------------- MODULE StateStore ----------------------------
(***************************************************************************)
(* NodeCoreStateStore of node_agent/state.py, the file cores.json behind   *)
(* the core manager, shared by the tasks of all cores.                     *)
(*                                                                         *)
(* A call holds an asyncio lock while one thread reads the whole file and  *)
(* then another writes it: write_text() on the .part file, which truncates *)
(* it first, and os.replace().  Cancelling the task releases the lock at   *)
(* once, but a thread that writes cannot be stopped: the call is gone and  *)
(* its write goes on.  The handle of a thread stays on the file it has     *)
(* opened, even when somebody renames that file.                           *)
(***************************************************************************)
EXTENDS Naturals

CONSTANTS
    Cores,       \* cores with a row
    Tasks,       \* tasks of the agent that may call the store at once
    Settings,    \* settings documents
    Blank,       \* the settings of a row first saved without any
    Keep,        \* save_state(settings=None)
    Missing,     \* no row; as an argument: remove()
    NoTask,      \* nobody holds the lock
    Torn,        \* a file that is being written: not JSON
    Absent,      \* no such file
    MaxCancels   \* bound: calls cut off by the time-out of their job

Args == Settings \cup {Keep, Missing}
Rows == [Cores -> Settings \cup {Blank, Missing}]

ASSUME StoreAssumption ==
    /\ Cores # {} /\ NoTask \notin Tasks /\ MaxCancels \in Nat
    /\ Blank # Missing /\ {Blank, Keep, Missing} \cap Settings = {}
    /\ Torn # Absent /\ {Torn, Absent} \cap Rows = {}

VARIABLES
    file,      \* cores.json
    part,      \* cores.part
    lock,      \* the task inside "async with self._lock"
    call,      \* task -> its call
    thread,    \* task -> the write thread its call has started
    cancels,   \* calls cancelled so far
    met        \* history: a call has read while the write of a gone one went on

vars == <<file, part, lock, call, thread, cancels, met>>

Store == INSTANCE AtomicStore WITH
    rows <- file,
    call <- [t \in Tasks |->
               [core |-> call[t].core, arg |-> call[t].arg,
                pc |-> CASE call[t].pc \in {"free", "gone"} -> call[t].pc
                         [] thread[t].at = "end" -> "done"
                         [] OTHER -> "called"]]

(* A thread writes value: it is about to open the .part file, holds it     *)
(* open, is about to rename it, or has ended.  on: what its handle is on.  *)
Working == {"open", "fill", "rename"}
Ended  == [at |-> "none", value |-> Absent, on |-> "none"]
Free   == [core |-> CHOOSE c \in Cores : TRUE, arg |-> Keep, pc |-> "free"]

Init ==
    /\ file = [c \in Cores |-> Missing]
    /\ part = Absent
    /\ lock = NoTask
    /\ call = [t \in Tasks |-> Free]
    /\ thread = [t \in Tasks |-> Ended]
    /\ cancels = 0 /\ met = FALSE

---------------------------------------------------------------------------
(* save_state() or remove() is called.                                     *)
Begin(t, c, arg) ==
    /\ call[t] = Free /\ thread[t] = Ended
    /\ call' = [call EXCEPT ![t] = [core |-> c, arg |-> arg, pc |-> "wait"]]
    /\ UNCHANGED <<file, part, lock, thread, cancels, met>>

(* Mutant of Acquire: the lock is taken for the writing only.              *)
AcquireNothing(t) ==
    /\ call[t].pc = "wait"
    /\ call' = [call EXCEPT ![t].pc = "read"]
    /\ UNCHANGED <<file, part, lock, thread, cancels, met>>

(* The lock is free, or has been handed to t.                              *)
Acquire(t) ==
    /\ call[t].pc = "wait" /\ lock = NoTask
    /\ lock' = t
    /\ call' = [call EXCEPT ![t].pc = "read"]
    /\ UNCHANGED <<file, part, thread, cancels, met>>

(* _read() in a thread, the change of the row, and the start of _write().  *)
Read(t) ==
    /\ call[t].pc = "read" /\ file # Torn
    /\ met' = (met \/ \E q \in Tasks : call[q].pc = "gone")
    /\ LET c == call[t].core
       IN  thread' = [thread EXCEPT ![t] =
             [at |-> "open", on |-> "none",
              value |-> [file EXCEPT ![c] = Store!Saved(call[t].arg, @)]]]
    /\ call' = [call EXCEPT ![t].pc = "write"]
    /\ UNCHANGED <<file, part, lock, cancels>>

(* Mutant of Leave: a call that raises leaves the lock locked.             *)
LeaveLocked(t, left) == call' = [call EXCEPT ![t] = left] /\ UNCHANGED lock

(* The task leaves the store, with the lock if it has it.                  *)
Leave(t, left) ==
    /\ call' = [call EXCEPT ![t] = left]
    /\ lock' = IF lock = t THEN NoTask ELSE lock

(* json.loads() fails on a file that is being written: the call raises.    *)
ReadFails(t) ==
    /\ call[t].pc = "read" /\ file = Torn
    /\ Leave(t, Free)
    /\ UNCHANGED <<file, part, thread, cancels, met>>

(* write_text() opens and truncates the .part file ...                     *)
Truncate(t) ==
    /\ thread[t].at = "open"
    /\ part' = Torn
    /\ thread' = [thread EXCEPT ![t] =
                     [at |-> "fill", value |-> @.value, on |-> "part"]]
    /\ UNCHANGED <<file, lock, call, cancels, met>>

(* ... and fills the file its handle is on.                                *)
Fill(t) ==
    /\ thread[t].at = "fill"
    /\ part' = IF thread[t].on = "part" THEN thread[t].value ELSE part
    /\ file' = IF thread[t].on = "file" THEN thread[t].value ELSE file
    /\ thread' = [thread EXCEPT ![t] =
                     [at |-> "rename", value |-> @.value, on |-> "none"]]
    /\ UNCHANGED <<lock, call, cancels, met>>

(* A task that is still there learns of the end of its thread.             *)
End(t) == IF call[t].pc = "gone" THEN Ended ELSE [Ended EXCEPT !.at = "end"]

(* os.replace(): handles on the .part file are now on the file, and those  *)
(* on the file it replaces are on none that has a name.                    *)
Rename(t) ==
    /\ thread[t].at = "rename" /\ part # Absent
    /\ file' = part
    /\ part' = Absent
    /\ thread' = [q \in Tasks |->
         IF q = t THEN End(t)
         ELSE [thread[q] EXCEPT !.on = CASE @ = "part" -> "file"
                                         [] @ = "file" -> "lost"
                                         [] OTHER -> @]]
    /\ call' = IF call[t].pc = "gone" THEN [call EXCEPT ![t] = Free] ELSE call
    /\ UNCHANGED <<lock, cancels, met>>

(* Another thread has renamed the .part file away: FileNotFoundError.      *)
RenameFails(t) ==
    /\ thread[t].at = "rename" /\ part = Absent
    /\ thread' = [thread EXCEPT ![t] = Ended]
    /\ Leave(t, Free)
    /\ UNCHANGED <<file, part, cancels, met>>

(* The thread has ended and the task goes on.                              *)
Return(t) ==
    /\ call[t].pc = "write" /\ thread[t].at = "end"
    /\ thread' = [thread EXCEPT ![t] = Ended]
    /\ Leave(t, Free)
    /\ UNCHANGED <<file, part, cancels, met>>

(* The time-out of a job cancels the task at its await.  A thread that has *)
(* begun to write goes on; one the pool has yet to start is withdrawn.     *)
Cancel(t) ==
    /\ cancels < MaxCancels /\ call[t].pc \in {"wait", "read", "write"}
    /\ cancels' = cancels + 1
    /\ \/ /\ thread[t].at \in {"none", "open", "end"}
          /\ thread' = [thread EXCEPT ![t] = Ended]
          /\ Leave(t, Free)
       \/ /\ thread[t].at \in Working
          /\ Leave(t, [call[t] EXCEPT !.pc = "gone"])
          /\ UNCHANGED thread
    /\ UNCHANGED <<file, part, met>>

(* The agent dies and starts again; load() finds what is on disk.  A .part *)
(* file that is left is truncated by the next write.                       *)
Die ==
    /\ lock' = NoTask
    /\ call' = [t \in Tasks |-> Free]
    /\ thread' = [t \in Tasks |-> Ended]
    /\ UNCHANGED <<file, part, cancels, met>>

Next ==
    \/ \E t \in Tasks :
         \/ \E c \in Cores, arg \in Args : Begin(t, c, arg)
         \/ Acquire(t) \/ Read(t) \/ ReadFails(t)
         \/ Truncate(t) \/ Fill(t) \/ Rename(t) \/ RenameFails(t)
         \/ Return(t) \/ Cancel(t)
    \/ Die

(* The event loop and its threads go on with what they have begun; a lock  *)
(* that is released again and again goes to every waiter in its turn.      *)
Fairness ==
    \A t \in Tasks :
        /\ SF_vars(Acquire(t))
        /\ WF_vars(Read(t) \/ ReadFails(t) \/ Return(t))
        /\ WF_vars(Truncate(t) \/ Fill(t) \/ Rename(t) \/ RenameFails(t))

Spec == Init /\ [][Next]_vars /\ Fairness

---------------------------------------------------------------------------
(* Every variable has its type.                                            *)
TypeOK ==
    /\ file \in Rows \cup {Torn}
    /\ part \in Rows \cup {Torn, Absent}
    /\ lock \in Tasks \cup {NoTask}
    /\ call \in [Tasks -> [core : Cores, arg : Args,
                           pc : {"free", "wait", "read", "write", "gone"}]]
    /\ thread \in [Tasks -> [at : {"none", "open", "fill", "rename", "end"},
                             value : Rows \cup {Absent},
                             on : {"none", "part", "file", "lost"}]]
    /\ cancels \in 0..MaxCancels /\ met \in BOOLEAN

(* The store is the atomic one, whatever calls are cut off and wherever    *)
(* the agent dies, until a call reads the file while the write of one that *)
(* was cut off still goes on.                                              *)
ImplementsAtomicStore ==
    Store!AInit /\ [][~met' => [Store!ANext]_(Store!avars)]_vars

(* No call waits for ever, cancelled ones and their threads included.      *)
CallsEnd == \A t \in Tasks : call[t] # Free ~> call[t] = Free

===========================================================================
