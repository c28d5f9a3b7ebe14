------------------------- MODULE CoreManagerProofs -------------------------
(***************************************************************************)
(* Theorems about CoreManager for any set of settings and any number of    *)
(* time-outs.  Neither mutual exclusion nor the refinement of              *)
(* CoreLifecycle is inductive: the lifespan must be idle while requests    *)
(* are served, a driver must be attached exactly when the core has a       *)
(* state, the state must fit the place of the operation that holds the     *)
(* lock, and a save that fails must find its task inside an operation.     *)
(* The first three facts are the conjuncts of Shape, the fourth is Queued; *)
(* with BootFits they make up the inductive invariant Safe.  The calls of  *)
(* the driver, the record of the process and the row have strengthenings   *)
(* of their own: Accompanied, ProcessTold and Recorded.                    *)
(***************************************************************************)
EXTENDS CoreManager, SequenceTheorems, FiniteSetTheorems, TLAPS

Body == {"settings", "detach", "release"} \cup Calls

(* The lifespan has nothing to do while it serves, nobody has anything to  *)
(* do while the agent is down.                                             *)
PhaseFits ==
    /\ phase = "down" => /\ st = "absent"
                         /\ \A t \in Tasks : Idle(t) /\ task[t].op = "none"
    /\ phase = "serving" => Idle("main")

(* _drivers and _states have the same keys.                                *)
Attached == drv = NoDriver <=> st = "absent"

(* PUT .../settings has a single await.                                    *)
SettingsUnlocked ==
    \A t \in Tasks : task[t].op = "settings" => task[t].at = "release"

(* The states an operation may find at each of its places.                 *)
FitsAt(a, s) ==
    /\ a = "install" => s = "loaded"
    /\ a = "start" => s = "starting"
    /\ a \in {"stop", "restop"} => s = "stopping"
    /\ a = "uninstall" => s \notin {"absent", "running"}
    /\ a = "detach" => s = "uninstalled"
    /\ a \in {"update", "hook", "emptystop", "settings"} => s # "absent"

HolderFits == lock # Free => FitsAt(task[lock].at, st)

(* Only a task at a driver call is in one, and only PUT .../identity makes *)
(* one outside an operation.                                               *)
CallsPlaced ==
    \A t \in Tasks : /\ task[t].calling => task[t].at \in Calls \cup {"import"}
                     /\ task[t].at = "import" => task[t].op = "identity"

Shape ==
    PhaseFits /\ Attached /\ SettingsUnlocked /\ HolderFits /\ CallsPlaced

IInv == TypeOK /\ Exclusive /\ Shape

(* Whoever saves waits for the one call of the store that is his, at a     *)
(* place of an operation that begins with a save.                          *)
Saves == ({"settings", "detach", "release"} \cup Calls) \ {"install"}

Queued ==
    /\ \A t \in Tasks : task[t].saving = TRUE =>
                            task[t].at \in Saves /\ task[t].calling = FALSE
    /\ \A i \in DOMAIN queue : \/ queue[i].task = "gone"
                               \/ /\ queue[i].task \in Tasks
                                  /\ task[queue[i].task].saving = TRUE
    /\ \A i, j \in DOMAIN queue :
          queue[i].task = queue[j].task => i = j \/ queue[i].task = "gone"

(* start_enabled() is about to start the core that boot() has found.       *)
Rising == phase = "booting" /\ task["main"].at = "lock"

(* Nobody else is about while the agent boots, and the core it is about to *)
(* start can be started.                                                   *)
BootFits ==
    phase = "booting" =>
        /\ \A t \in {"job", "api"} : Idle(t) /\ task[t].op = "none"
        /\ Idle("main") \/ task["main"].op = "start"
        /\ Rising => st \in Startable

(* The conjunction of IInv, Queued and BootFits is inductive.              *)

---------------------------------------------------------------------------
(* What a step leaves of the tasks when t moves to another place of its    *)
(* operation.                                                              *)
Moved(t, a) ==
    /\ task' \in [Tasks -> Task]
    /\ task'[t].at = a /\ task'[t].op = task[t].op
    /\ task'[t].calling => a \in Calls
    /\ \A u \in Tasks \ {t} : task'[u] = task[u]

(* A task that queues a save moves on, and the queue stays well formed.    *)
LEMMA SaveMoves ==
    ASSUME TypeOK, NEW t \in Tasks, NEW s \in CoreState \cup {"absent"},
           NEW d \in Value \cup {Keep}, NEW a \in Body, NEW ok \in BOOLEAN,
           Save(t, s, d, a, ok)
    PROVE  Moved(t, a) /\ queue' \in Seq(SaveCall)
<1>1. [task |-> t, state |-> s, settings |-> d] \in SaveCall
  BY DEF SaveCall
<1>2. queue' \in Seq(SaveCall)
  BY <1>1 DEF Save, TypeOK
<1>3. task[t] \in Task
  BY DEF TypeOK
<1>4. /\ [task[t] EXCEPT !.at = a, !.saving = TRUE, !.calling = FALSE,
                         !.ok = ok] \in Task
      /\ [task[t] EXCEPT !.at = a, !.saving = TRUE, !.calling = FALSE,
                         !.ok = ok].at = a
      /\ [task[t] EXCEPT !.at = a, !.saving = TRUE, !.calling = FALSE,
                         !.ok = ok].op = task[t].op
      /\ [task[t] EXCEPT !.at = a, !.saving = TRUE, !.calling = FALSE,
                         !.ok = ok].calling = FALSE
  BY <1>3 DEF Task, Body
<1>5. task' = [task EXCEPT ![t] = [task[t] EXCEPT !.at = a, !.saving = TRUE,
                                   !.calling = FALSE, !.ok = ok]]
  BY DEF Save
<1> QED BY <1>2, <1>4, <1>5 DEF Moved, TypeOK

(* So does a task that does not save.                                      *)
LEMMA GotoMoves ==
    ASSUME TypeOK, NEW t \in Tasks, NEW a \in Body,
           \/ Goto(t, a)
           \/ GotoCall(t, a) /\ a \in Calls
           \/ GotoFailed(t) /\ a = "release"
    PROVE  Moved(t, a)
<1>1. task[t] \in Task
  BY DEF TypeOK
<1>2. CASE Goto(t, a)
  BY <1>1, <1>2 DEF Goto, Moved, Task, Body, TypeOK
<1>3. CASE GotoCall(t, a) /\ a \in Calls
  BY <1>1, <1>3 DEF GotoCall, Moved, Task, Body, TypeOK
<1>4. CASE GotoFailed(t) /\ a = "release"
  BY <1>1, <1>4 DEF GotoFailed, Moved, Task, Body, TypeOK
<1> QED BY <1>2, <1>3, <1>4

(* Whoever takes the lock, or has it, and moves inside its operation keeps *)
(* mutual exclusion and the shape of the other tasks.                      *)
LEMMA MoveInside ==
    ASSUME IInv, NEW t \in Tasks, NEW a \in Body, Moved(t, a),
           lock \in {t, Free}, lock' = t, task[t].op # "settings",
           ~Idle(t), phase' = phase, FitsAt(a, st'), Attached'
    PROVE  Exclusive' /\ Shape'
<1> USE DEF IInv, TypeOK, Moved
<1>1. \A u \in Tasks : Inside(u)' <=> u = t
  BY DEF Inside, Exclusive, Body, Calls, Tasks, Free
<1>2. Exclusive'
  BY <1>1 DEF Exclusive, Tasks, Free
<1>3. PhaseFits'
  BY DEF Shape, PhaseFits, Idle, Body, Calls, Tasks
<1>4. SettingsUnlocked'
  BY DEF Shape, SettingsUnlocked
<1>5. HolderFits'
  BY DEF HolderFits
<1>6. CallsPlaced'
  BY DEF Shape, CallsPlaced, Body, Calls
<1> QED BY <1>2, <1>3, <1>4, <1>5, <1>6 DEF Shape

(* A task that leaves its operation, or asks for one, gives back at most   *)
(* its own lock.                                                           *)
LEMMA MoveOutside ==
    ASSUME IInv, NEW t \in Tasks, NEW r \in Task,
           task' = [task EXCEPT ![t] = r],
           r.op # "settings",
           \/ r.at \in {"idle", "lock"} /\ r.calling = FALSE
           \/ r.at = "import" /\ r.op = "identity",
           lock' = IF lock = t THEN Free ELSE lock,
           phase # "down", phase' = phase, st' = st, Attached',
           t = "main" => phase # "serving"
    PROVE  task' \in [Tasks -> Task] /\ Exclusive' /\ Shape'
<1> USE DEF IInv, TypeOK
<1>1. task' \in [Tasks -> Task]
  OBVIOUS
<1>2. task'[t] = r /\ \A u \in Tasks \ {t} : task'[u] = task[u]
  OBVIOUS
<1>3. Exclusive'
  BY <1>2 DEF Exclusive, Inside, Tasks, Free
<1>4. PhaseFits' /\ SettingsUnlocked'
  BY <1>2 DEF Shape, PhaseFits, SettingsUnlocked, Idle, Tasks
<1>5. HolderFits' /\ CallsPlaced'
  BY <1>2 DEF Shape, HolderFits, CallsPlaced
<1> QED BY <1>1, <1>3, <1>4, <1>5 DEF Shape

(* A task at a place of an operation holds the lock, and the state fits.   *)
LEMMA Holder ==
    ASSUME IInv, NEW t \in Tasks, task[t].at \in Body \ {"release"}
    PROVE  /\ lock = t /\ task[t].op # "settings" /\ ~Idle(t)
           /\ FitsAt(task[t].at, st) /\ phase # "down"
<1>1. task[t].op # "settings"
  BY DEF IInv, Shape, SettingsUnlocked, Body, Calls
<1>2. task[t].at \notin {"idle", "lock", "import"}
  BY DEF Body, Calls
<1>3. lock = t
  BY <1>1, <1>2 DEF IInv, Exclusive, Inside
<1>4. FitsAt(task[t].at, st)
  BY <1>3 DEF IInv, Shape, HolderFits, Tasks, Free
<1> QED BY <1>1, <1>2, <1>3, <1>4 DEF Idle, IInv, Shape, PhaseFits

(* A task that waits for the lock has no place in an operation yet.        *)
LEMMA Waiting ==
    ASSUME IInv, NEW t \in Tasks, task[t].at = "lock"
    PROVE  /\ task[t].op # "settings" /\ ~Idle(t) /\ phase # "down"
           /\ t = "main" => phase # "serving"
  BY DEF IInv, Shape, SettingsUnlocked, PhaseFits, Idle

---------------------------------------------------------------------------
(* Taking the lock: refused, or into the first place of the operation.     *)
LEMMA EnterKeeps == ASSUME IInv, NEW t \in Tasks, Enter(t) PROVE IInv'
<1> USE CoreAssumption
<1>0. task[t].at = "lock" /\ lock = Free
  BY DEF Enter, Refused, EnterInstall, EnterUninstall, EnterStart, EnterStop,
         EnterRestart, EnterCall, EnterPersist, AtLock
<1>w. /\ task[t].op # "settings" /\ ~Idle(t) /\ phase # "down"
      /\ t = "main" => phase # "serving"
  BY <1>0, Waiting
<1>t. TypeOK /\ Attached /\ task[t] \in Task
  BY DEF IInv, Shape, TypeOK
<1>1. CASE Refused(t)
  <2>1. /\ IdleTask \in Task /\ IdleTask.at = "idle"
        /\ IdleTask.op # "settings" /\ IdleTask.calling = FALSE
    BY DEF IdleTask, Task, Value
  <2>2. task' \in [Tasks -> Task] /\ Exclusive' /\ Shape'
    BY <1>0, <1>w, <1>t, <1>1, <2>1, MoveOutside DEF Refused, Attached
  <2> QED BY <1>t, <1>1, <2>2 DEF Refused, IInv, TypeOK, aside
<1>2. CASE EnterInstall(t)
  <2>1. Moved(t, "install")
    BY <1>2, <1>t, GotoMoves DEF EnterInstall, Body, Calls
  <2>2. drv' \in Value /\ Attached'
    BY <1>2, <1>t DEF EnterInstall, Attached, Task, Value
  <2>3. Exclusive' /\ Shape'
    BY <1>0, <1>w, <1>2, <2>1, <2>2, MoveInside
    DEF EnterInstall, FitsAt, Body, Calls
  <2> QED BY <1>t, <1>2, <2>1, <2>2, <2>3
          DEF EnterInstall, IInv, TypeOK, Moved, CoreState
<1>3. CASE EnterUninstall(t)
  <2>1. CASE st = "running"
    <3>1. Moved(t, "stop") /\ queue' \in Seq(SaveCall)
      BY <1>3, <1>t, <2>1, SaveMoves
      DEF EnterUninstall, SetState, CoreState, Body, Calls
    <3>2. Exclusive' /\ Shape'
      BY <1>0, <1>w, <1>t, <1>3, <2>1, <3>1, MoveInside
      DEF EnterUninstall, SetState, FitsAt, Attached, Body, Calls
    <3> QED BY <1>t, <1>3, <2>1, <3>1, <3>2
            DEF EnterUninstall, SetState, IInv, TypeOK, Moved, CoreState, aside
  <2>2. CASE st # "running"
    <3>1. Moved(t, "uninstall")
      BY <1>3, <1>t, <2>2, GotoMoves DEF EnterUninstall, Body, Calls
    <3>2. Exclusive' /\ Shape'
      BY <1>0, <1>w, <1>t, <1>3, <2>2, <3>1, MoveInside
      DEF EnterUninstall, FitsAt, Attached, Body, Calls
    <3> QED BY <1>t, <1>3, <2>2, <3>1, <3>2
            DEF EnterUninstall, IInv, TypeOK, Moved, aside
  <2> QED BY <2>1, <2>2
<1>4. CASE EnterStart(t)
  <2>1. Moved(t, "start") /\ queue' \in Seq(SaveCall)
    BY <1>4, <1>t, SaveMoves DEF EnterStart, SetState, CoreState, Body, Calls
  <2>2. Exclusive' /\ Shape'
    BY <1>0, <1>w, <1>t, <1>4, <2>1, MoveInside
    DEF EnterStart, SetState, FitsAt, Attached, Startable, Stoppable, Body,
        Calls
  <2> QED BY <1>t, <1>4, <2>1, <2>2
          DEF EnterStart, SetState, IInv, TypeOK, Moved, CoreState, aside
<1>5. CASE EnterStop(t)
  <2>1. Moved(t, "stop") /\ queue' \in Seq(SaveCall)
    BY <1>5, <1>t, SaveMoves DEF EnterStop, SetState, CoreState, Body, Calls
  <2>2. Exclusive' /\ Shape'
    BY <1>0, <1>w, <1>t, <1>5, <2>1, MoveInside
    DEF EnterStop, SetState, FitsAt, Attached, Startable, Stoppable, Body,
        Calls
  <2> QED BY <1>t, <1>5, <2>1, <2>2
          DEF EnterStop, SetState, IInv, TypeOK, Moved, CoreState, aside
<1>6. CASE EnterRestart(t)
  <2>1. Moved(t, "restop") /\ queue' \in Seq(SaveCall)
    BY <1>6, <1>t, SaveMoves DEF EnterRestart, SetState, CoreState, Body, Calls
  <2>2. Exclusive' /\ Shape'
    BY <1>0, <1>w, <1>t, <1>6, <2>1, MoveInside
    DEF EnterRestart, SetState, FitsAt, Attached, Startable, Stoppable, Body,
        Calls
  <2> QED BY <1>t, <1>6, <2>1, <2>2
          DEF EnterRestart, SetState, IInv, TypeOK, Moved, CoreState, aside
<1>7. CASE EnterCall(t)
  <2>1. PICK a \in {"update", "hook"} : GotoCall(t, a)
    BY <1>7 DEF EnterCall
  <2>2. Moved(t, a)
    BY <1>t, <2>1, GotoMoves DEF Body, Calls
  <2>3. Exclusive' /\ Shape'
    BY <1>0, <1>w, <1>t, <1>7, <2>1, <2>2, MoveInside
    DEF EnterCall, FitsAt, Attached, Body, Calls
  <2> QED BY <1>t, <1>7, <2>2, <2>3
          DEF EnterCall, IInv, TypeOK, Moved, aside
<1>8. CASE EnterPersist(t)
  <2>1. Moved(t, "release") /\ queue' \in Seq(SaveCall)
    BY <1>8, <1>t, SaveMoves DEF EnterPersist, TypeOK, Body
  <2>2. Exclusive' /\ Shape'
    BY <1>0, <1>w, <1>t, <1>8, <2>1, MoveInside
    DEF EnterPersist, FitsAt, Attached, Body
  <2> QED BY <1>t, <1>8, <2>1, <2>2
          DEF EnterPersist, IInv, TypeOK, Moved
<1> QED BY <1>1, <1>2, <1>3, <1>4, <1>5, <1>6, <1>7, <1>8 DEF Enter

(* A driver call returns or raises: the holder moves on and the state fits *)
(* its new place.                                                          *)
LEMMA ReturnsKeep == ASSUME IInv, NEW t \in Tasks, Returns(t) PROVE IInv'
<1> USE CoreAssumption
<1>t. TypeOK /\ Attached /\ task[t] \in Task /\ task[t].arg \in Value
  BY DEF IInv, Shape, TypeOK, Task
<1>1. CASE InstallReturns(t)
  <2>0. task[t].at = "install"
    BY <1>1 DEF InstallReturns, InCall
  <2>h. /\ lock = t /\ task[t].op # "settings" /\ ~Idle(t)
        /\ FitsAt("install", st)
    BY <2>0, Holder DEF Body, Calls
  <2>d. drv' \in Value \cup {NoDriver} /\ Attached'
    BY <1>t, <1>1, <2>h DEF InstallReturns, SetState, Attached, FitsAt,
        TypeOK, Value, aside
  <2>1. CASE SetState(t, "installed", "settings", TRUE) /\ drv' = drv
    <3>1. Moved(t, "settings") /\ queue' \in Seq(SaveCall)
      BY <1>t, <2>1, SaveMoves DEF SetState, CoreState, Body, Calls
    <3>2. st' \in CoreState
      BY <2>1 DEF SetState, CoreState
    <3>3. FitsAt("settings", st')
      BY <1>t, <1>1, <2>h, <2>1 DEF InstallReturns, SetState, FitsAt
    <3>4. Exclusive' /\ Shape'
      BY <1>1, <2>h, <2>d, <3>1, <3>3, MoveInside
      DEF InstallReturns, Body, Calls
    <3> QED BY <1>t, <1>1, <2>d, <3>1, <3>2, <3>4
            DEF InstallReturns, IInv, TypeOK, Moved, aside
  <2>2. CASE GotoFailed(t)
               /\ drv' = NoDriver
               /\ st' = "absent" /\ queue' = queue
    <3>1. Moved(t, "release") /\ queue' \in Seq(SaveCall)
      BY <1>t, <2>2, GotoMoves DEF Body, Calls, TypeOK
    <3>2. st' \in CoreState \cup {"absent"}
      BY <1>t, <2>2 DEF TypeOK
    <3>3. FitsAt("release", st')
      BY <1>t, <1>1, <2>h, <2>2 DEF InstallReturns, SetState, FitsAt
    <3>4. Exclusive' /\ Shape'
      BY <1>1, <2>h, <2>d, <3>1, <3>3, MoveInside
      DEF InstallReturns, Body, Calls
    <3> QED BY <1>t, <1>1, <2>d, <3>1, <3>2, <3>4
            DEF InstallReturns, IInv, TypeOK, Moved, aside
  <2> QED BY <1>1, <2>1, <2>2 DEF InstallReturns
<1>2. CASE StartReturns(t)
  <2>0. task[t].at = "start"
    BY <1>2 DEF StartReturns, InCall
  <2>h. /\ lock = t /\ task[t].op # "settings" /\ ~Idle(t)
        /\ FitsAt("start", st)
    BY <2>0, Holder DEF Body, Calls
  <2>d. drv' \in Value \cup {NoDriver} /\ Attached'
    BY <1>t, <1>2, <2>h DEF StartReturns, SetState, Attached, FitsAt,
        TypeOK, Value, aside
  <2>1. CASE SetState(t, "running", "settings", TRUE)
    <3>1. Moved(t, "settings") /\ queue' \in Seq(SaveCall)
      BY <1>t, <2>1, SaveMoves DEF SetState, CoreState, Body, Calls
    <3>2. st' \in CoreState
      BY <2>1 DEF SetState, CoreState
    <3>3. FitsAt("settings", st')
      BY <1>t, <1>2, <2>h, <2>1 DEF StartReturns, SetState, FitsAt
    <3>4. Exclusive' /\ Shape'
      BY <1>2, <2>h, <2>d, <3>1, <3>3, MoveInside DEF StartReturns, Body, Calls
    <3> QED BY <1>t, <1>2, <2>d, <3>1, <3>2, <3>4
            DEF StartReturns, IInv, TypeOK, Moved, aside
  <2>2. CASE SetState(t, "error", "release", FALSE)
    <3>1. Moved(t, "release") /\ queue' \in Seq(SaveCall)
      BY <1>t, <2>2, SaveMoves DEF SetState, CoreState, Body, Calls
    <3>2. st' \in CoreState
      BY <2>2 DEF SetState, CoreState
    <3>3. FitsAt("release", st')
      BY <1>t, <1>2, <2>h, <2>2 DEF StartReturns, SetState, FitsAt
    <3>4. Exclusive' /\ Shape'
      BY <1>2, <2>h, <2>d, <3>1, <3>3, MoveInside DEF StartReturns, Body, Calls
    <3> QED BY <1>t, <1>2, <2>d, <3>1, <3>2, <3>4
            DEF StartReturns, IInv, TypeOK, Moved, aside
  <2> QED BY <1>2, <2>1, <2>2 DEF StartReturns
<1>3. CASE StopReturns(t)
  <2>0. task[t].at = "stop"
    BY <1>3 DEF StopReturns, InCall
  <2>h. /\ lock = t /\ task[t].op # "settings" /\ ~Idle(t)
        /\ FitsAt("stop", st)
    BY <2>0, Holder DEF Body, Calls
  <2>d. drv' \in Value \cup {NoDriver} /\ Attached'
    BY <1>t, <1>3, <2>h DEF StopReturns, SetState, Attached, FitsAt,
        TypeOK, Value, aside
  <2>1. CASE SetState(t, "stopped", "uninstall", TRUE)
    <3>1. Moved(t, "uninstall") /\ queue' \in Seq(SaveCall)
      BY <1>t, <2>1, SaveMoves DEF SetState, CoreState, Body, Calls
    <3>2. st' \in CoreState
      BY <2>1 DEF SetState, CoreState
    <3>3. FitsAt("uninstall", st')
      BY <1>t, <1>3, <2>h, <2>1 DEF StopReturns, SetState, FitsAt
    <3>4. Exclusive' /\ Shape'
      BY <1>3, <2>h, <2>d, <3>1, <3>3, MoveInside DEF StopReturns, Body, Calls
    <3> QED BY <1>t, <1>3, <2>d, <3>1, <3>2, <3>4
            DEF StopReturns, IInv, TypeOK, Moved, aside
  <2>2. CASE SetState(t, "stopped", "release", TRUE)
    <3>1. Moved(t, "release") /\ queue' \in Seq(SaveCall)
      BY <1>t, <2>2, SaveMoves DEF SetState, CoreState, Body, Calls
    <3>2. st' \in CoreState
      BY <2>2 DEF SetState, CoreState
    <3>3. FitsAt("release", st')
      BY <1>t, <1>3, <2>h, <2>2 DEF StopReturns, SetState, FitsAt
    <3>4. Exclusive' /\ Shape'
      BY <1>3, <2>h, <2>d, <3>1, <3>3, MoveInside DEF StopReturns, Body, Calls
    <3> QED BY <1>t, <1>3, <2>d, <3>1, <3>2, <3>4
            DEF StopReturns, IInv, TypeOK, Moved, aside
  <2>3. CASE SetState(t, "error", "release", FALSE)
    <3>1. Moved(t, "release") /\ queue' \in Seq(SaveCall)
      BY <1>t, <2>3, SaveMoves DEF SetState, CoreState, Body, Calls
    <3>2. st' \in CoreState
      BY <2>3 DEF SetState, CoreState
    <3>3. FitsAt("release", st')
      BY <1>t, <1>3, <2>h, <2>3 DEF StopReturns, SetState, FitsAt
    <3>4. Exclusive' /\ Shape'
      BY <1>3, <2>h, <2>d, <3>1, <3>3, MoveInside DEF StopReturns, Body, Calls
    <3> QED BY <1>t, <1>3, <2>d, <3>1, <3>2, <3>4
            DEF StopReturns, IInv, TypeOK, Moved, aside
  <2> QED BY <1>3, <2>1, <2>2, <2>3 DEF StopReturns
<1>4. CASE RestopReturns(t)
  <2>0. task[t].at = "restop"
    BY <1>4 DEF RestopReturns, InCall
  <2>h. /\ lock = t /\ task[t].op # "settings" /\ ~Idle(t)
        /\ FitsAt("restop", st)
    BY <2>0, Holder DEF Body, Calls
  <2>d. drv' \in Value \cup {NoDriver} /\ Attached'
    BY <1>t, <1>4, <2>h DEF RestopReturns, SetState, Attached, FitsAt,
        TypeOK, Value, aside
  <2>1. CASE SetState(t, "starting", "start", TRUE)
    <3>1. Moved(t, "start") /\ queue' \in Seq(SaveCall)
      BY <1>t, <2>1, SaveMoves DEF SetState, CoreState, Body, Calls
    <3>2. st' \in CoreState
      BY <2>1 DEF SetState, CoreState
    <3>3. FitsAt("start", st')
      BY <1>t, <1>4, <2>h, <2>1 DEF RestopReturns, SetState, FitsAt
    <3>4. Exclusive' /\ Shape'
      BY <1>4, <2>h, <2>d, <3>1, <3>3, MoveInside
      DEF RestopReturns, Body, Calls
    <3> QED BY <1>t, <1>4, <2>d, <3>1, <3>2, <3>4
            DEF RestopReturns, IInv, TypeOK, Moved, aside
  <2>2. CASE GotoFailed(t) /\ st' = st /\ queue' = queue
    <3>1. Moved(t, "release") /\ queue' \in Seq(SaveCall)
      BY <1>t, <2>2, GotoMoves DEF Body, Calls, TypeOK
    <3>2. st' \in CoreState \cup {"absent"}
      BY <1>t, <2>2 DEF TypeOK
    <3>3. FitsAt("release", st')
      BY <1>t, <1>4, <2>h, <2>2 DEF RestopReturns, SetState, FitsAt
    <3>4. Exclusive' /\ Shape'
      BY <1>4, <2>h, <2>d, <3>1, <3>3, MoveInside
      DEF RestopReturns, Body, Calls
    <3> QED BY <1>t, <1>4, <2>d, <3>1, <3>2, <3>4
            DEF RestopReturns, IInv, TypeOK, Moved, aside
  <2> QED BY <1>4, <2>1, <2>2 DEF RestopReturns
<1>5. CASE UninstallReturns(t)
  <2>0. task[t].at = "uninstall"
    BY <1>5 DEF UninstallReturns, InCall
  <2>h. /\ lock = t /\ task[t].op # "settings" /\ ~Idle(t)
        /\ FitsAt("uninstall", st)
    BY <2>0, Holder DEF Body, Calls
  <2>d. drv' \in Value \cup {NoDriver} /\ Attached'
    BY <1>t, <1>5, <2>h DEF UninstallReturns, SetState, Attached, FitsAt,
        TypeOK, Value, aside
  <2>1. CASE SetState(t, "uninstalled", "detach", TRUE)
    <3>1. Moved(t, "detach") /\ queue' \in Seq(SaveCall)
      BY <1>t, <2>1, SaveMoves DEF SetState, CoreState, Body, Calls
    <3>2. st' \in CoreState
      BY <2>1 DEF SetState, CoreState
    <3>3. FitsAt("detach", st')
      BY <1>t, <1>5, <2>h, <2>1 DEF UninstallReturns, SetState, FitsAt
    <3>4. Exclusive' /\ Shape'
      BY <1>5, <2>h, <2>d, <3>1, <3>3, MoveInside
      DEF UninstallReturns, Body, Calls
    <3> QED BY <1>t, <1>5, <2>d, <3>1, <3>2, <3>4
            DEF UninstallReturns, IInv, TypeOK, Moved, aside
  <2>2. CASE GotoFailed(t) /\ st' = st /\ queue' = queue
    <3>1. Moved(t, "release") /\ queue' \in Seq(SaveCall)
      BY <1>t, <2>2, GotoMoves DEF Body, Calls, TypeOK
    <3>2. st' \in CoreState \cup {"absent"}
      BY <1>t, <2>2 DEF TypeOK
    <3>3. FitsAt("release", st')
      BY <1>t, <1>5, <2>h, <2>2 DEF UninstallReturns, SetState, FitsAt
    <3>4. Exclusive' /\ Shape'
      BY <1>5, <2>h, <2>d, <3>1, <3>3, MoveInside
      DEF UninstallReturns, Body, Calls
    <3> QED BY <1>t, <1>5, <2>d, <3>1, <3>2, <3>4
            DEF UninstallReturns, IInv, TypeOK, Moved, aside
  <2> QED BY <1>5, <2>1, <2>2 DEF UninstallReturns
<1>6. CASE UpdateReturns(t)
  <2>0. task[t].at = "update"
    BY <1>6 DEF UpdateReturns, InCall
  <2>h. /\ lock = t /\ task[t].op # "settings" /\ ~Idle(t)
        /\ FitsAt("update", st)
    BY <2>0, Holder DEF Body, Calls
  <2>d. drv' \in Value \cup {NoDriver} /\ Attached'
    BY <1>t, <1>6, <2>h DEF UpdateReturns, Attached, FitsAt, TypeOK, Value,
        aside
  <2>1. CASE (Goto(t, "release") \/ GotoFailed(t))
               /\ st' = st /\ queue' = queue
    <3>1. Moved(t, "release") /\ queue' \in Seq(SaveCall)
      BY <1>t, <2>1, GotoMoves DEF Body, Calls, TypeOK
    <3>2. st' \in CoreState \cup {"absent"}
      BY <1>t, <2>1 DEF TypeOK
    <3>3. FitsAt("release", st')
      BY <1>t, <1>6, <2>h, <2>1 DEF UpdateReturns, SetState, FitsAt
    <3>4. Exclusive' /\ Shape'
      BY <1>6, <2>h, <2>d, <3>1, <3>3, MoveInside
      DEF UpdateReturns, Body, Calls
    <3> QED BY <1>t, <1>6, <2>d, <3>1, <3>2, <3>4
            DEF UpdateReturns, IInv, TypeOK, Moved, aside
  <2> QED BY <1>6, <2>1 DEF UpdateReturns
<1>7. CASE HookFails(t)
  <2>0. task[t].at = "hook"
    BY <1>7 DEF HookFails, InCall
  <2>h. /\ lock = t /\ task[t].op # "settings" /\ ~Idle(t)
        /\ FitsAt("hook", st)
    BY <2>0, Holder DEF Body, Calls
  <2>d. drv' \in Value \cup {NoDriver} /\ Attached'
    BY <1>t, <1>7, <2>h DEF HookFails, SetState, Attached, FitsAt, TypeOK,
        Value, aside
  <2>1. CASE SetState(t, "error", "release", FALSE)
    <3>1. Moved(t, "release") /\ queue' \in Seq(SaveCall)
      BY <1>t, <2>1, SaveMoves DEF SetState, CoreState, Body, Calls
    <3>2. st' \in CoreState
      BY <2>1 DEF SetState, CoreState
    <3>3. FitsAt("release", st')
      BY <1>t, <1>7, <2>h, <2>1 DEF HookFails, SetState, FitsAt
    <3>4. Exclusive' /\ Shape'
      BY <1>7, <2>h, <2>d, <3>1, <3>3, MoveInside DEF HookFails, Body, Calls
    <3> QED BY <1>t, <1>7, <2>d, <3>1, <3>2, <3>4
            DEF HookFails, IInv, TypeOK, Moved, aside
  <2>2. CASE GotoFailed(t) /\ st' = st /\ queue' = queue
    <3>1. Moved(t, "release") /\ queue' \in Seq(SaveCall)
      BY <1>t, <2>2, GotoMoves DEF Body, Calls, TypeOK
    <3>2. st' \in CoreState \cup {"absent"}
      BY <1>t, <2>2 DEF TypeOK
    <3>3. FitsAt("release", st')
      BY <1>t, <1>7, <2>h, <2>2 DEF HookFails, SetState, FitsAt
    <3>4. Exclusive' /\ Shape'
      BY <1>7, <2>h, <2>d, <3>1, <3>3, MoveInside DEF HookFails, Body, Calls
    <3> QED BY <1>t, <1>7, <2>d, <3>1, <3>2, <3>4
            DEF HookFails, IInv, TypeOK, Moved, aside
  <2> QED BY <1>7, <2>1, <2>2 DEF HookFails
<1>8. CASE HookApplies(t)
  <2>0. task[t].at = "hook"
    BY <1>8 DEF HookApplies, InCall
  <2>h. /\ lock = t /\ task[t].op # "settings" /\ ~Idle(t)
        /\ FitsAt("hook", st)
    BY <2>0, Holder DEF Body, Calls
  <2>d. drv' \in Value \cup {NoDriver} /\ Attached'
    BY <1>t, <1>8, <2>h DEF HookApplies, SetState, Attached, FitsAt,
        TypeOK, Value, aside
  <2>1. CASE SetState(t, "starting", "start", TRUE)
    <3>1. Moved(t, "start") /\ queue' \in Seq(SaveCall)
      BY <1>t, <2>1, SaveMoves DEF SetState, CoreState, Body, Calls
    <3>2. st' \in CoreState
      BY <2>1 DEF SetState, CoreState
    <3>3. FitsAt("start", st')
      BY <1>t, <1>8, <2>h, <2>1 DEF HookApplies, SetState, FitsAt
    <3>4. Exclusive' /\ Shape'
      BY <1>8, <2>h, <2>d, <3>1, <3>3, MoveInside DEF HookApplies, Body, Calls
    <3> QED BY <1>t, <1>8, <2>d, <3>1, <3>2, <3>4
            DEF HookApplies, IInv, TypeOK, Moved, aside
  <2>2. CASE SetState(t, "running", "settings", TRUE)
    <3>1. Moved(t, "settings") /\ queue' \in Seq(SaveCall)
      BY <1>t, <2>2, SaveMoves DEF SetState, CoreState, Body, Calls
    <3>2. st' \in CoreState
      BY <2>2 DEF SetState, CoreState
    <3>3. FitsAt("settings", st')
      BY <1>t, <1>8, <2>h, <2>2 DEF HookApplies, SetState, FitsAt
    <3>4. Exclusive' /\ Shape'
      BY <1>8, <2>h, <2>d, <3>1, <3>3, MoveInside DEF HookApplies, Body, Calls
    <3> QED BY <1>t, <1>8, <2>d, <3>1, <3>2, <3>4
            DEF HookApplies, IInv, TypeOK, Moved, aside
  <2>3. CASE Goto(t, "settings") /\ st' = st /\ queue' = queue
    <3>1. Moved(t, "settings") /\ queue' \in Seq(SaveCall)
      BY <1>t, <2>3, GotoMoves DEF Body, Calls, TypeOK
    <3>2. st' \in CoreState \cup {"absent"}
      BY <1>t, <2>3 DEF TypeOK
    <3>3. FitsAt("settings", st')
      BY <1>t, <1>8, <2>h, <2>3 DEF HookApplies, SetState, FitsAt
    <3>4. Exclusive' /\ Shape'
      BY <1>8, <2>h, <2>d, <3>1, <3>3, MoveInside DEF HookApplies, Body, Calls
    <3> QED BY <1>t, <1>8, <2>d, <3>1, <3>2, <3>4
            DEF HookApplies, IInv, TypeOK, Moved, aside
  <2> QED BY <1>8, <2>1, <2>2, <2>3 DEF HookApplies
<1>9. CASE HookEmpties(t)
  <2>0. task[t].at = "hook"
    BY <1>9 DEF HookEmpties, InCall
  <2>h. /\ lock = t /\ task[t].op # "settings" /\ ~Idle(t)
        /\ FitsAt("hook", st)
    BY <2>0, Holder DEF Body, Calls
  <2>d. drv' \in Value \cup {NoDriver} /\ Attached'
    BY <1>t, <1>9, <2>h DEF HookEmpties, SetState, Attached, FitsAt,
        TypeOK, Value, aside
  <2>1. CASE GotoCall(t, "emptystop") /\ st' = st /\ queue' = queue
    <3>1. Moved(t, "emptystop") /\ queue' \in Seq(SaveCall)
      BY <1>t, <2>1, GotoMoves DEF Body, Calls, TypeOK
    <3>2. st' \in CoreState \cup {"absent"}
      BY <1>t, <2>1 DEF TypeOK
    <3>3. FitsAt("emptystop", st')
      BY <1>t, <1>9, <2>h, <2>1 DEF HookEmpties, SetState, FitsAt
    <3>4. Exclusive' /\ Shape'
      BY <1>9, <2>h, <2>d, <3>1, <3>3, MoveInside DEF HookEmpties, Body, Calls
    <3> QED BY <1>t, <1>9, <2>d, <3>1, <3>2, <3>4
            DEF HookEmpties, IInv, TypeOK, Moved, aside
  <2>2. CASE SetState(t, "stopped", "settings", TRUE)
    <3>1. Moved(t, "settings") /\ queue' \in Seq(SaveCall)
      BY <1>t, <2>2, SaveMoves DEF SetState, CoreState, Body, Calls
    <3>2. st' \in CoreState
      BY <2>2 DEF SetState, CoreState
    <3>3. FitsAt("settings", st')
      BY <1>t, <1>9, <2>h, <2>2 DEF HookEmpties, SetState, FitsAt
    <3>4. Exclusive' /\ Shape'
      BY <1>9, <2>h, <2>d, <3>1, <3>3, MoveInside DEF HookEmpties, Body, Calls
    <3> QED BY <1>t, <1>9, <2>d, <3>1, <3>2, <3>4
            DEF HookEmpties, IInv, TypeOK, Moved, aside
  <2>3. CASE Goto(t, "settings") /\ st' = st /\ queue' = queue
    <3>1. Moved(t, "settings") /\ queue' \in Seq(SaveCall)
      BY <1>t, <2>3, GotoMoves DEF Body, Calls, TypeOK
    <3>2. st' \in CoreState \cup {"absent"}
      BY <1>t, <2>3 DEF TypeOK
    <3>3. FitsAt("settings", st')
      BY <1>t, <1>9, <2>h, <2>3 DEF HookEmpties, SetState, FitsAt
    <3>4. Exclusive' /\ Shape'
      BY <1>9, <2>h, <2>d, <3>1, <3>3, MoveInside DEF HookEmpties, Body, Calls
    <3> QED BY <1>t, <1>9, <2>d, <3>1, <3>2, <3>4
            DEF HookEmpties, IInv, TypeOK, Moved, aside
  <2> QED BY <1>9, <2>1, <2>2, <2>3 DEF HookEmpties
<1>10. CASE EmptyStopReturns(t)
  <2>0. task[t].at = "emptystop"
    BY <1>10 DEF EmptyStopReturns, InCall
  <2>h. /\ lock = t /\ task[t].op # "settings" /\ ~Idle(t)
        /\ FitsAt("emptystop", st)
    BY <2>0, Holder DEF Body, Calls
  <2>d. drv' \in Value \cup {NoDriver} /\ Attached'
    BY <1>t, <1>10, <2>h DEF EmptyStopReturns, SetState, Attached, FitsAt,
        TypeOK, Value, aside
  <2>1. CASE SetState(t, "stopped", "settings", TRUE)
    <3>1. Moved(t, "settings") /\ queue' \in Seq(SaveCall)
      BY <1>t, <2>1, SaveMoves DEF SetState, CoreState, Body, Calls
    <3>2. st' \in CoreState
      BY <2>1 DEF SetState, CoreState
    <3>3. FitsAt("settings", st')
      BY <1>t, <1>10, <2>h, <2>1 DEF EmptyStopReturns, SetState, FitsAt
    <3>4. Exclusive' /\ Shape'
      BY <1>10, <2>h, <2>d, <3>1, <3>3, MoveInside
      DEF EmptyStopReturns, Body, Calls
    <3> QED BY <1>t, <1>10, <2>d, <3>1, <3>2, <3>4
            DEF EmptyStopReturns, IInv, TypeOK, Moved, aside
  <2>2. CASE Goto(t, "settings") /\ st' = st /\ queue' = queue
    <3>1. Moved(t, "settings") /\ queue' \in Seq(SaveCall)
      BY <1>t, <2>2, GotoMoves DEF Body, Calls, TypeOK
    <3>2. st' \in CoreState \cup {"absent"}
      BY <1>t, <2>2 DEF TypeOK
    <3>3. FitsAt("settings", st')
      BY <1>t, <1>10, <2>h, <2>2 DEF EmptyStopReturns, SetState, FitsAt
    <3>4. Exclusive' /\ Shape'
      BY <1>10, <2>h, <2>d, <3>1, <3>3, MoveInside
      DEF EmptyStopReturns, Body, Calls
    <3> QED BY <1>t, <1>10, <2>d, <3>1, <3>2, <3>4
            DEF EmptyStopReturns, IInv, TypeOK, Moved, aside
  <2>3. CASE GotoFailed(t) /\ st' = st /\ queue' = queue
    <3>1. Moved(t, "release") /\ queue' \in Seq(SaveCall)
      BY <1>t, <2>3, GotoMoves DEF Body, Calls, TypeOK
    <3>2. st' \in CoreState \cup {"absent"}
      BY <1>t, <2>3 DEF TypeOK
    <3>3. FitsAt("release", st')
      BY <1>t, <1>10, <2>h, <2>3 DEF EmptyStopReturns, SetState, FitsAt
    <3>4. Exclusive' /\ Shape'
      BY <1>10, <2>h, <2>d, <3>1, <3>3, MoveInside
      DEF EmptyStopReturns, Body, Calls
    <3> QED BY <1>t, <1>10, <2>d, <3>1, <3>2, <3>4
            DEF EmptyStopReturns, IInv, TypeOK, Moved, aside
  <2> QED BY <1>10, <2>1, <2>2, <2>3 DEF EmptyStopReturns
<1> QED BY <1>1, <1>2, <1>3, <1>4, <1>5, <1>6, <1>7,
           <1>8, <1>9, <1>10 DEF Returns

(* The rest of a task: the call begins, the last saves, the way out and    *)
(* the time-out.                                                           *)
LEMMA BeginCallKeeps == ASSUME IInv, NEW t \in Tasks, BeginCall(t) PROVE IInv'
<1>t. TypeOK /\ Attached /\ task[t] \in Task
  BY DEF IInv, Shape, TypeOK
<1>1. PICK a \in Calls : task[t].at = a
  BY DEF BeginCall, Ready
<1>h. /\ lock = t /\ task[t].op # "settings" /\ ~Idle(t)
      /\ FitsAt(a, st)
  BY <1>1, Holder DEF Body, Calls
<1>2. Moved(t, a)
  BY <1>t, <1>1 DEF BeginCall, Moved, Task, TypeOK
<1>3. Exclusive' /\ Shape'
  BY <1>t, <1>1, <1>2, <1>h, MoveInside DEF BeginCall, Attached, Body
<1> QED BY <1>t, <1>2, <1>3 DEF BeginCall, IInv, TypeOK, Moved, aside

LEMMA SaveSettingsKeeps ==
    ASSUME IInv, NEW t \in Tasks, SaveSettings(t) PROVE IInv'
<1>t. TypeOK /\ Attached
  BY DEF IInv, Shape
<1>1. task[t].at = "settings"
  BY DEF SaveSettings, Ready
<1>h. /\ lock = t /\ task[t].op # "settings" /\ ~Idle(t)
      /\ FitsAt("settings", st)
  BY <1>1, Holder DEF Body
<1>2. drv \in Value
  BY <1>t, <1>h DEF FitsAt, Attached, TypeOK
<1>3. Moved(t, "release") /\ queue' \in Seq(SaveCall)
  BY <1>t, <1>2, SaveMoves DEF SaveSettings, TypeOK, Body
<1>4. Exclusive' /\ Shape'
  BY <1>t, <1>h, <1>3, MoveInside DEF SaveSettings, FitsAt, Attached, Body
<1> QED BY <1>t, <1>3, <1>4 DEF SaveSettings, IInv, TypeOK, Moved

LEMMA DetachKeeps == ASSUME IInv, NEW t \in Tasks, Detach(t) PROVE IInv'
<1>t. TypeOK
  BY DEF IInv
<1>1. task[t].at = "detach"
  BY DEF Detach, Ready
<1>h. lock = t /\ task[t].op # "settings" /\ ~Idle(t)
  BY <1>1, Holder DEF Body
<1>2. Moved(t, "release") /\ queue' \in Seq(SaveCall)
  BY <1>t, SaveMoves DEF Detach, Body
<1>3. Exclusive' /\ Shape'
  BY <1>h, <1>2, MoveInside DEF Detach, FitsAt, Attached, Body
<1> QED BY <1>t, <1>2, <1>3 DEF Detach, IInv, TypeOK, Moved, aside

LEMMA IdleTaskTyped == IdleTask \in Task
  BY DEF IdleTask, Task, Value

(* The request ends after its import, or goes on to the lock.              *)
LEMMA ImportReturnsKeep ==
    ASSUME IInv, NEW t \in Tasks, ImportReturns(t) PROVE IInv'
<1>t. TypeOK /\ Attached /\ task[t] \in Task
  BY DEF IInv, Shape, TypeOK
<1>1. task[t].at = "import" /\ task[t].op = "identity"
  BY DEF ImportReturns, InCall, IInv, Shape, CallsPlaced
<1>2. phase # "down" /\ (t = "main" => phase # "serving") /\ lock # t
  BY <1>1 DEF IInv, Shape, PhaseFits, Idle, Exclusive, Inside
<1> DEFINE w == [task[t] EXCEPT !.at = "lock", !.calling = FALSE]
<1>3. w \in Task /\ w.at = "lock" /\ w.op = "identity" /\ w.calling = FALSE
  BY <1>t, <1>1 DEF Task
<1>4. task' = [task EXCEPT ![t] = IdleTask] \/ task' = [task EXCEPT ![t] = w]
  BY DEF ImportReturns
<1>5. /\ IdleTask.at = "idle" /\ IdleTask.op # "settings"
      /\ IdleTask.calling = FALSE
  BY DEF IdleTask
<1> HIDE DEF w
<1>6. lock' = lock /\ phase' = phase /\ st' = st /\ Attached'
  BY <1>t DEF ImportReturns, Attached
<1>7. task' \in [Tasks -> Task] /\ Exclusive' /\ Shape'
  BY <1>2, <1>3, <1>4, <1>5, <1>6, IdleTaskTyped, MoveOutside
<1> QED BY <1>t, <1>7 DEF ImportReturns, IInv, TypeOK, aside

LEMMA ReleaseKeeps == ASSUME IInv, NEW t \in Tasks, Release(t) PROVE IInv'
<1>t. TypeOK /\ Attached
  BY DEF IInv, Shape
<1>1. task[t].at = "release"
  BY DEF Release, Ready
<1>2. phase # "down" /\ (t = "main" => phase # "serving")
  BY <1>1 DEF IInv, Shape, PhaseFits, Idle
<1> DEFINE r == IF task[t].op = "identity" /\ st = "running"
                THEN [IdleTask EXCEPT !.op = "idstop", !.at = "lock"]
                ELSE IF task[t].op = "idstop" /\ task[t].ok
                THEN [IdleTask EXCEPT !.op = "idstart", !.at = "lock"]
                ELSE IdleTask
<1>3. /\ r \in Task /\ r.at \in {"idle", "lock"} /\ r.op # "settings"
      /\ r.calling = FALSE
  BY DEF IdleTask, Task, Value, ApiOps
<1>4. task' = [task EXCEPT ![t] = r]
  BY DEF Release
<1> HIDE DEF r
<1>5. task' \in [Tasks -> Task] /\ Exclusive' /\ Shape'
  BY <1>t, <1>2, <1>3, <1>4, MoveOutside DEF Release, Attached
<1> QED BY <1>t, <1>5 DEF Release, IInv, TypeOK, Tasks, Free, aside

(* Neither withdrawing a call of the store nor orphaning it spoils the     *)
(* queue.                                                                  *)
LEMMA QueueAfterTimeOut ==
    ASSUME TypeOK, NEW t \in Tasks
    PROVE  Withdrawn(t) \subseteq Seq(SaveCall) /\ Orphaned(t) \in Seq(SaveCall)
<1>1. Withdrawn(t) \subseteq Seq(SaveCall)
  <2>1. SUFFICES ASSUME NEW i \in DOMAIN queue
                 PROVE  SubSeq(queue, 1, i - 1)
                          \o SubSeq(queue, i + 1, Len(queue)) \in Seq(SaveCall)
    BY DEF Withdrawn
  <2>2. queue \in Seq(SaveCall) /\ i \in 1..Len(queue) /\ Len(queue) \in Nat
    BY DEF TypeOK
  <2>3. /\ SubSeq(queue, 1, i - 1) \in Seq(SaveCall)
        /\ SubSeq(queue, i + 1, Len(queue)) \in Seq(SaveCall)
    BY <2>2, SubSeqProperties
  <2> QED BY <2>3, ConcatProperties
<1>2. \A i \in DOMAIN queue : queue[i] \in SaveCall
  BY DEF TypeOK
<1>3. \A c \in SaveCall : [c EXCEPT !.task = "gone"] \in SaveCall
  BY DEF SaveCall
<1>4. Orphaned(t) \in [DOMAIN queue -> SaveCall]
  BY <1>2, <1>3 DEF Orphaned
<1>5. DOMAIN queue = 1..Len(queue) /\ Len(queue) \in Nat
  BY DEF TypeOK
<1>6. Orphaned(t) \in Seq(SaveCall)
  BY <1>4, <1>5
<1> QED BY <1>1, <1>6

LEMMA WaitTimesOutKeeps ==
    ASSUME IInv, NEW t \in Tasks, WaitTimesOut(t) PROVE IInv'
<1>t. TypeOK /\ Attached
  BY DEF IInv, Shape
<1>1. /\ IdleTask.at = "idle" /\ IdleTask.op # "settings"
      /\ IdleTask.calling = FALSE
  BY DEF IdleTask
<1>2. phase # "down" /\ lock # t /\ t # "main"
  BY DEF WaitTimesOut, IInv, Shape, PhaseFits, Idle, Exclusive, Inside
<1>3. Attached'
  BY <1>t DEF WaitTimesOut, Attached
<1>4. task' \in [Tasks -> Task] /\ Exclusive' /\ Shape'
  BY <1>1, <1>2, <1>3, IdleTaskTyped, MoveOutside DEF WaitTimesOut
<1> QED BY <1>t, <1>4 DEF WaitTimesOut, IInv, TypeOK, aside

LEMMA TimeOutKeeps == ASSUME IInv, NEW t \in Tasks, TimeOut(t) PROVE IInv'
<1>t. TypeOK /\ Attached
  BY DEF IInv, Shape
<1>1. /\ IdleTask.at = "idle" /\ IdleTask.op # "settings"
      /\ IdleTask.calling = FALSE
  BY DEF IdleTask
<1>2. phase # "down"
  BY DEF TimeOut, TimedOps, JobOps, IInv, Shape, PhaseFits
<1>d. drv' \in Value \cup {NoDriver} /\ Attached'
  <2>1. CASE InCall(t, "hook")
    <3>1. lock = t
      BY <2>1 DEF InCall, TimeOut, TimedOps, JobOps, IInv, Exclusive, Inside
    <3>2. drv # NoDriver
      BY <1>t, <2>1, <3>1
      DEF InCall, IInv, Shape, HolderFits, FitsAt, Attached, Tasks, Free
    <3>3. task[t].arg \in Value
      BY <1>t DEF TypeOK, Task
    <3>4. task[t].arg # NoDriver
      BY <3>3, CoreAssumption DEF Value
    <3> QED BY <1>t, <2>1, <3>2, <3>3, <3>4 DEF TimeOut, TypeOK, Attached
  <2>2. CASE ~InCall(t, "hook")
    BY <1>t, <2>2 DEF TimeOut, TypeOK, Attached
  <2> QED BY <2>1, <2>2
<1>3. task' \in [Tasks -> Task] /\ Exclusive' /\ Shape'
  BY <1>d, <1>1, <1>2, IdleTaskTyped, MoveOutside DEF TimeOut
<1>4. queue' \in Seq(SaveCall)
  BY <1>t, QueueAfterTimeOut DEF TimeOut, CutOff
<1>5. threads' \subseteq Calls
  BY <1>t
  DEF TimeOut, TimedOps, JobOps, TypeOK, IInv, Shape, CallsPlaced
<1>6. cancels' \in 0..MaxCancels /\ cut' \subseteq {"operation", "call"}
  <2>1. cancels' \in 0..MaxCancels
    BY <1>t, CoreAssumption DEF TimeOut, TypeOK
  <2>2. cut \subseteq {"operation", "call"} /\ cut' = cut \cup Interrupted(t)
    BY <1>t DEF TimeOut, TypeOK
  <2>3. Interrupted(t) \subseteq {"operation", "call"}
    BY Zenon DEF Interrupted
  <2> QED BY <2>1, <2>2, <2>3, Zenon
<1> QED BY <1>t, <1>d, <1>3, <1>4, <1>5, <1>6
        DEF TimeOut, IInv, TypeOK, Tasks, Free

---------------------------------------------------------------------------
(* Requests: a job or a PUT that will take the lock, and the PUT that does *)
(* not.                                                                    *)
LEMMA RequestKeeps == ASSUME IInv, Request PROVE IInv'
<1> USE CoreAssumption
<1>t. TypeOK /\ Attached /\ Exclusive
  BY DEF IInv, Shape
<1>1. ASSUME NEW o \in JobOps, NEW s \in Value, SubmitJob(o, s)
      PROVE  IInv'
  <2> DEFINE r == [IdleTask EXCEPT !.op = o, !.at = "lock",
                                   !.arg = IF o = "install" THEN s ELSE Blank]
  <2>1. /\ r \in Task /\ r.at = "lock" /\ r.op # "settings"
        /\ r.calling = FALSE
    BY DEF IdleTask, Task, Value, JobOps
  <2>2. task' = [task EXCEPT !["job"] = r]
    BY <1>1 DEF SubmitJob
  <2>3. "job" \in Tasks /\ lock # "job"
    BY <1>1, <1>t DEF SubmitJob, Exclusive, Inside, Idle, Tasks
  <2> HIDE DEF r
  <2>4. task' \in [Tasks -> Task] /\ Exclusive' /\ Shape'
    BY <1>1, <1>t, <2>1, <2>2, <2>3, MoveOutside DEF SubmitJob, Attached
  <2> QED BY <1>1, <1>t, <2>4 DEF SubmitJob, IInv, TypeOK, aside
<1>2. ASSUME NEW s \in Settings, PutSettings(s)
      PROVE  IInv'
  <2> DEFINE r == [IdleTask EXCEPT !.op = "settings", !.at = "release",
                                   !.saving = TRUE]
  <2>1. /\ r \in Task /\ r.at = "release" /\ r.op = "settings"
        /\ r.calling = FALSE
    BY DEF IdleTask, Task, Value, ApiOps
  <2>2. task' = [task EXCEPT !["api"] = r]
    BY <1>2 DEF PutSettings
  <2>3. "api" \in Tasks /\ lock # "api"
    BY <1>2, <1>t DEF PutSettings, Exclusive, Inside, Idle, Tasks
  <2> HIDE DEF r
  <2>4. /\ task' \in [Tasks -> Task] /\ task'["api"] = r
        /\ \A u \in Tasks \ {"api"} : task'[u] = task[u]
    BY <1>t, <2>1, <2>2, <2>3 DEF TypeOK
  <2>5. Exclusive'
    BY <1>2, <1>t, <2>1, <2>3, <2>4 DEF PutSettings, Exclusive, Inside
  <2>6. PhaseFits' /\ Attached' /\ SettingsUnlocked'
    BY <1>2, <1>t, <2>1, <2>4
    DEF PutSettings, IInv, Shape, PhaseFits, Attached, SettingsUnlocked, Idle,
        Tasks, TypeOK
  <2>7. HolderFits' /\ CallsPlaced'
    BY <1>2, <1>t, <2>1, <2>3, <2>4
    DEF PutSettings, IInv, Shape, HolderFits, CallsPlaced, TypeOK
  <2>8. [task |-> "api", state |-> st, settings |-> s] \in SaveCall
    BY <1>t DEF SaveCall, TypeOK, Tasks, Value
  <2>9. queue' \in Seq(SaveCall)
    BY <1>2, <1>t, <2>8 DEF PutSettings, TypeOK
  <2> QED BY <1>2, <1>t, <2>4, <2>5, <2>6, <2>7, <2>9
          DEF PutSettings, IInv, Shape, TypeOK, Value
<1>3. ASSUME NEW s \in Settings, PutInbounds(s)
      PROVE  IInv'
  <2> DEFINE r == [IdleTask EXCEPT !.op = "studio", !.at = "lock", !.arg = s]
  <2>1. /\ r \in Task /\ r.at = "lock" /\ r.op # "settings"
        /\ r.calling = FALSE
    BY DEF IdleTask, Task, Value, ApiOps
  <2>2. task' = [task EXCEPT !["api"] = r]
    BY <1>3 DEF PutInbounds
  <2>3. "api" \in Tasks /\ lock # "api"
    BY <1>3, <1>t DEF PutInbounds, Exclusive, Inside, Idle, Tasks
  <2>4. Attached'
    BY <1>3, <1>t DEF PutInbounds, Attached
  <2> HIDE DEF r
  <2>5. task' \in [Tasks -> Task] /\ Exclusive' /\ Shape'
    BY <1>3, <1>t, <2>1, <2>2, <2>3, <2>4, MoveOutside DEF PutInbounds
  <2> QED BY <1>3, <1>t, <2>5 DEF PutInbounds, IInv, TypeOK, Value, aside
<1>4. ASSUME NEW s \in Settings, PutIdentity(s)
      PROVE  IInv'
  <2> DEFINE r == [IdleTask EXCEPT !.op = "identity", !.at = "import",
                                   !.calling = TRUE]
  <2>1. r \in Task /\ r.at = "import" /\ r.op = "identity"
    BY DEF IdleTask, Task, Value, ApiOps
  <2>2. task' = [task EXCEPT !["api"] = r]
    BY <1>4 DEF PutIdentity
  <2>3. "api" \in Tasks /\ lock # "api"
    BY <1>4, <1>t DEF PutIdentity, Exclusive, Inside, Idle, Tasks
  <2>4. Attached' /\ drv' \in Value \cup {NoDriver}
    BY <1>4, <1>t DEF PutIdentity, Attached, TypeOK, Value
  <2> HIDE DEF r
  <2>5. task' \in [Tasks -> Task] /\ Exclusive' /\ Shape'
    BY <1>4, <1>t, <2>1, <2>2, <2>3, <2>4, MoveOutside DEF PutIdentity
  <2> QED BY <1>4, <1>t, <2>4, <2>5 DEF PutIdentity, IInv, TypeOK
<1> QED BY <1>1, <1>2, <1>3, <1>4 DEF Request

(* The lifespan: nobody else is in an operation when it begins one.        *)
LEMMA LifespanKeeps ==
    ASSUME IInv, Boot \/ Serve \/ Shutdown \/ Exit PROVE IInv'
<1> USE CoreAssumption
<1>t. TypeOK /\ Attached /\ Exclusive /\ "main" \in Tasks
  BY DEF IInv, Shape, Tasks
<1>1. CASE Boot
  <2>1. st = "absent" /\ \A t \in Tasks : Idle(t) /\ task[t].op = "none"
    BY <1>1 DEF Boot, IInv, Shape, PhaseFits
  <2>2. lock = Free
    BY <1>t, <2>1 DEF Exclusive, Inside, Idle, TypeOK
  <2>3. /\ row = NoRow => row.state = "absent"
        /\ row # NoRow => row.state \in CoreState /\ row.settings \in Value
    BY <1>t DEF TypeOK, Row, NoRow
  <2>4. drv' \in Value \cup {NoDriver} /\ st' \in CoreState \cup {"absent"}
    BY <1>1, <2>3 DEF Boot, CoreState
  <2>5. Attached'
    BY <1>1, <2>3 DEF Boot, Attached, CoreState, Unfinished, Value
  <2>6. PICK a \in {"idle", "lock"}, o \in {"none", "start"} :
          /\ task' \in [Tasks -> Task]
          /\ task'["main"].at = a /\ task'["main"].op = o
          /\ task'["main"].calling = task["main"].calling
          /\ \A u \in Tasks \ {"main"} : task'[u] = task[u]
    <3>1. CASE task' = task
      BY <1>t, <2>1, <3>1 DEF TypeOK, Idle
    <3>2. CASE task' = [task EXCEPT !["main"].op = "start",
                                    !["main"].at = "lock"]
      <4>1. task["main"] \in Task
        BY <1>t DEF TypeOK
      <4>2. task' = [task EXCEPT !["main"] =
                       [task["main"] EXCEPT !.op = "start", !.at = "lock"]]
        BY <3>2
      <4>3. /\ [task["main"] EXCEPT !.op = "start", !.at = "lock"] \in Task
            /\ [task["main"] EXCEPT !.op = "start", !.at = "lock"].at = "lock"
            /\ [task["main"] EXCEPT !.op = "start", !.at = "lock"].op = "start"
            /\ [task["main"] EXCEPT !.op = "start", !.at = "lock"].calling
                 = task["main"].calling
        BY <4>1 DEF Task, JobOps
      <4> QED BY <1>t, <4>2, <4>3 DEF TypeOK
    <3> QED BY <1>1, <3>1, <3>2 DEF Boot
  <2>7. \A t \in Tasks : task[t].calling = FALSE
    BY <1>t, <2>1 DEF IInv, Shape, CallsPlaced, Idle, Calls, TypeOK, Task
  <2>8. Exclusive'
    BY <1>1, <1>t, <2>1, <2>2, <2>6
    DEF Boot, Exclusive, Inside, Idle, Tasks, Free
  <2>9. PhaseFits' /\ SettingsUnlocked' /\ HolderFits'
    BY <1>1, <2>1, <2>2, <2>6
    DEF Boot, PhaseFits, SettingsUnlocked, HolderFits
  <2>10. CallsPlaced'
    <3>1. \A t \in Tasks : task'[t].calling = FALSE /\ task'[t].at # "import"
      BY <2>1, <2>6, <2>7 DEF Idle
    <3> QED BY <3>1 DEF CallsPlaced
  <2> QED BY <1>1, <1>t, <2>4, <2>5, <2>6, <2>8, <2>9, <2>10
          DEF Boot, IInv, Shape, TypeOK, aside
<1>2. CASE Serve
  BY <1>2 DEF Serve, IInv, Shape, TypeOK, Exclusive, Inside, PhaseFits,
              Attached, SettingsUnlocked, HolderFits, CallsPlaced, Idle, aside
<1>3. CASE Shutdown
  <2>1. Idle("main") /\ lock # "main" /\ task["main"] \in Task
    BY <1>3, <1>t
    DEF Shutdown, IInv, Shape, PhaseFits, Exclusive, Inside, Idle, TypeOK
  <2>2. task["main"].calling = FALSE /\ task["main"].op # "settings"
    BY <1>t, <2>1
    DEF IInv, Shape, CallsPlaced, SettingsUnlocked, Idle, Calls, Task
  <2>3. /\ task' \in [Tasks -> Task]
        /\ task'["main"].at \in {"idle", "lock"}
        /\ task'["main"].op # "settings" /\ task'["main"].calling = FALSE
        /\ \A u \in Tasks \ {"main"} : task'[u] = task[u]
    <3>1. CASE task' = task
      BY <1>t, <2>1, <2>2, <3>1 DEF TypeOK, Idle
    <3>2. CASE task' = [task EXCEPT !["main"].op = "stop",
                                    !["main"].at = "lock"]
      <4>1. /\ [task["main"] EXCEPT !.op = "stop", !.at = "lock"] \in Task
            /\ [task["main"] EXCEPT !.op = "stop", !.at = "lock"].at = "lock"
            /\ [task["main"] EXCEPT !.op = "stop", !.at = "lock"].op = "stop"
            /\ [task["main"] EXCEPT !.op = "stop", !.at = "lock"].calling
                 = FALSE
        BY <2>1, <2>2 DEF Task, JobOps
      <4> QED BY <1>t, <3>2, <4>1 DEF TypeOK
    <3> QED BY <1>3, <3>1, <3>2 DEF Shutdown
  <2>4. Exclusive'
    BY <1>3, <1>t, <2>1, <2>3 DEF Shutdown, Exclusive, Inside
  <2>5. PhaseFits' /\ Attached' /\ SettingsUnlocked'
    BY <1>3, <2>3
    DEF Shutdown, IInv, Shape, PhaseFits, Attached, SettingsUnlocked, Idle
  <2>6. HolderFits' /\ CallsPlaced'
    BY <1>3, <1>t, <2>1, <2>3
    DEF Shutdown, IInv, Shape, HolderFits, CallsPlaced, TypeOK
  <2> QED BY <1>3, <1>t, <2>3, <2>4, <2>5, <2>6
          DEF Shutdown, IInv, Shape, TypeOK, aside
<1>4. CASE Exit
  <2>1. task' = [t \in Tasks |-> IdleTask] /\ IdleTask.at = "idle"
        /\ IdleTask.op = "none" /\ IdleTask.calling = FALSE
    BY <1>4 DEF Exit, IdleTask
  <2>2. Exclusive' /\ Shape'
    BY <1>4, <2>1
    DEF Exit, Exclusive, Inside, Shape, PhaseFits, Attached, SettingsUnlocked,
        HolderFits, CallsPlaced, Idle, Tasks, Free
  <2>3. task' \in [Tasks -> Task] /\ queue' \in Seq(SaveCall)
    BY <1>4, <2>1, IdleTaskTyped, EmptySeq DEF Exit
  <2>4. proc' \in BOOLEAN /\ cancels' \in 0..MaxCancels
    <3>1. proc' \in {proc, FALSE} /\ proc \in BOOLEAN /\ cancels' = 0
      BY <1>4, <1>t DEF Exit, TypeOK
    <3>2. 0 \in 0..MaxCancels
      BY CoreAssumption
    <3>3. proc' \in BOOLEAN
      BY <3>1, Zenon
    <3> QED BY <3>1, <3>2, <3>3
  <2>5. {died', unsaved', refused'} \subseteq BOOLEAN
    <3>1. died' = FALSE /\ unsaved' = FALSE /\ refused' = FALSE
      BY <1>4 DEF Exit
    <3> QED BY <3>1, Zenon
  <2>6. TypeOK'
    BY <1>4, <1>t, <2>3, <2>4, <2>5 DEF Exit, TypeOK, Free
  <2> QED BY <2>2, <2>6 DEF IInv
<1> QED BY <1>1, <1>2, <1>3, <1>4

(* The store, the abandoned threads and the service process take no lock.  *)
LEMMA EnvironmentKeeps ==
    ASSUME IInv, Queued,
           \/ StoreServes \/ StoreFails \/ ProcessDies
           \/ \E a \in Calls : ThreadEnds(a)
    PROVE  IInv'
<1>t. TypeOK
  BY DEF IInv
<1>1. CASE StoreServes
  <2>1. Head(queue) \in SaveCall /\ queue' \in Seq(SaveCall)
    BY <1>1, <1>t DEF StoreServes, TypeOK
  <2>2. row' \in Row
    <3>1. row.settings \in Value
      BY <1>t DEF TypeOK, Row, NoRow, Value
    <3>2. CASE Head(queue).state = "absent"
      BY <1>1, <3>2 DEF StoreServes, Row
    <3>3. CASE Head(queue).state # "absent"
      BY <1>1, <2>1, <3>1, <3>3 DEF StoreServes, Row, SaveCall
    <3> QED BY <3>2, <3>3
  <2>3. /\ task' \in [Tasks -> Task]
        /\ \A u \in Tasks : /\ task'[u].at = task[u].at
                             /\ task'[u].op = task[u].op
                             /\ task'[u].calling = task[u].calling
    <3>1. CASE Head(queue).task = "gone"
      BY <1>1, <1>t, <3>1 DEF StoreServes, TypeOK
    <3>2. CASE Head(queue).task # "gone"
      <4> DEFINE t == Head(queue).task
      <4>1. t \in Tasks /\ task[t] \in Task
        BY <1>t, <2>1, <3>2 DEF SaveCall, TypeOK
      <4>2. task' = [task EXCEPT ![t] = [task[t] EXCEPT !.saving = FALSE]]
        BY <1>1, <3>2 DEF StoreServes
      <4>3. /\ [task[t] EXCEPT !.saving = FALSE] \in Task
            /\ [task[t] EXCEPT !.saving = FALSE].at = task[t].at
            /\ [task[t] EXCEPT !.saving = FALSE].op = task[t].op
            /\ [task[t] EXCEPT !.saving = FALSE].calling = task[t].calling
        BY <4>1 DEF Task
      <4> QED BY <1>t, <4>1, <4>2, <4>3 DEF TypeOK
    <3> QED BY <3>1, <3>2
  <2>4. Exclusive' /\ PhaseFits' /\ SettingsUnlocked'
    <3>1. /\ lock' = lock /\ phase' = phase /\ st' = st
          /\ Exclusive /\ PhaseFits /\ SettingsUnlocked
      BY <1>1 DEF StoreServes, IInv, Shape
    <3>2. Exclusive'
      BY <2>3, <3>1 DEF Exclusive, Inside
    <3>3. PhaseFits'
      BY <2>3, <3>1 DEF PhaseFits, Idle, Tasks
    <3>4. SettingsUnlocked'
      BY <2>3, <3>1 DEF SettingsUnlocked, Tasks
    <3> QED BY <3>2, <3>3, <3>4
  <2>5. Attached' /\ HolderFits' /\ CallsPlaced'
    BY <1>1, <1>t, <2>3
    DEF StoreServes, IInv, Shape, Attached, HolderFits, CallsPlaced, TypeOK
  <2>6. TypeOK'
    BY <1>1, <1>t, <2>1, <2>2, <2>3 DEF StoreServes, TypeOK
  <2> QED BY <2>4, <2>5, <2>6 DEF IInv, Shape
<1>2. CASE StoreFails
  <2>1. Head(queue) \in SaveCall /\ queue' \in Seq(SaveCall)
    BY <1>2, <1>t DEF StoreFails, TypeOK
  <2>2. CASE Head(queue).task = "gone"
    <3>1. task' = task
      BY <1>2, <2>2 DEF StoreFails
    <3> QED BY <1>2, <2>1, <3>1, <1>t
            DEF StoreFails, IInv, Shape, TypeOK, Exclusive, Inside, PhaseFits,
                Attached, SettingsUnlocked, HolderFits, CallsPlaced, Idle
  <2>3. CASE Head(queue).task # "gone"
    <3> DEFINE t == Head(queue).task
               w == [task[t] EXCEPT !.at = "release", !.saving = FALSE,
                                    !.ok = FALSE]
    <3>1. t \in Tasks /\ task[t] \in Task
      BY <1>t, <2>1, <2>3 DEF SaveCall, TypeOK
    <3>2. task[t].saving = TRUE
      BY <1>2, <1>t, <2>3 DEF StoreFails, Queued, TypeOK
    <3>3. task[t].at \in Saves /\ task[t].calling = FALSE
      BY <3>1, <3>2 DEF Queued
    <3>4. /\ w \in Task /\ w.at = "release" /\ w.op = task[t].op
          /\ w.calling = FALSE
      BY <3>1, <3>3 DEF Task
    <3>5. task' = [task EXCEPT ![t] = w]
      BY <1>2, <2>3 DEF StoreFails
    <3> HIDE DEF t, w
    <3>6. /\ task' \in [Tasks -> Task] /\ task'[t] = w
          /\ \A u \in Tasks \ {t} : task'[u] = task[u]
      BY <1>t, <3>1, <3>4, <3>5 DEF TypeOK
    <3>7. /\ task[t].at \notin {"idle", "lock", "import"} /\ ~Idle(t)
          /\ UNCHANGED <<drv, st, lock, phase>>
      BY <1>2, <3>3 DEF StoreFails, Saves, Calls, Idle
    <3>8. Exclusive' /\ PhaseFits'
      <4>1. \A u \in Tasks : (Inside(u)' <=> Inside(u)) /\ (Idle(u)' <=> Idle(u))
        BY <3>4, <3>6, <3>7 DEF Inside, Idle
      <4>2. phase # "down" /\ (phase = "serving" => t # "main")
        BY <3>1, <3>7 DEF IInv, Shape, PhaseFits
      <4> QED BY <3>7, <4>1, <4>2
              DEF IInv, Exclusive, Shape, PhaseFits, Tasks
    <3>9. Attached' /\ SettingsUnlocked' /\ HolderFits' /\ CallsPlaced'
      <4>1. Attached'
        BY <3>7 DEF IInv, Shape, Attached
      <4>2. SettingsUnlocked' /\ CallsPlaced'
        BY <3>4, <3>6 DEF IInv, Shape, SettingsUnlocked, CallsPlaced
      <4>3. HolderFits'
        <5>1. CASE lock = t
          BY <3>4, <3>6, <3>7, <5>1 DEF HolderFits, FitsAt
        <5>2. CASE lock # t
          BY <1>t, <3>6, <3>7, <5>2 DEF IInv, Shape, HolderFits, TypeOK
        <5> QED BY <5>1, <5>2
      <4> QED BY <4>1, <4>2, <4>3
    <3>10. TypeOK'
      BY <1>2, <1>t, <2>1, <3>6 DEF StoreFails, TypeOK
    <3> QED BY <3>8, <3>9, <3>10 DEF IInv, Shape
  <2> QED BY <2>2, <2>3
<1>3. CASE ProcessDies
  BY <1>3 DEF ProcessDies, IInv, Shape, TypeOK, Exclusive, Inside, PhaseFits,
              Attached, SettingsUnlocked, HolderFits, CallsPlaced, Idle
<1>4. CASE \E a \in Calls : ThreadEnds(a)
  <2>1. PICK a \in Calls : ThreadEnds(a)
    BY <1>4
  <2>2. proc' \in BOOLEAN
    BY <1>t, <2>1 DEF ThreadEnds, TypeOK
  <2>3. threads' \subseteq Calls
    BY <1>t, <2>1 DEF ThreadEnds, TypeOK
  <2> QED BY <2>1, <2>2, <2>3
          DEF ThreadEnds, IInv, Shape, TypeOK, Exclusive, Inside, PhaseFits,
              Attached, SettingsUnlocked, HolderFits, CallsPlaced, Idle
<1> QED BY <1>1, <1>2, <1>3, <1>4

LEMMA InitIInv == Init => IInv
<1> SUFFICES ASSUME Init PROVE IInv
  OBVIOUS
<1> USE CoreAssumption
<1>0. task \in [Tasks -> Task] /\ queue \in Seq(SaveCall)
  BY IdleTaskTyped, EmptySeq DEF Init
<1>a. /\ drv \in Value \cup {NoDriver} /\ row \in Row
      /\ st = "absent" /\ lock = Free /\ phase = "down"
  BY DEF Init, Row
<1>b. /\ proc \in BOOLEAN /\ threads \subseteq Calls
      /\ cancels \in 0..MaxCancels /\ cut \subseteq {"operation", "call"}
  <2>1. cut = {} /\ cancels = 0 /\ threads = {} /\ proc = FALSE
    BY DEF Init
  <2>2. 0 \in 0..MaxCancels
    BY SMT
  <2> QED BY <2>1, <2>2, Zenon
<1>c. {died, unsaved, refused} \subseteq BOOLEAN
  <2>1. died = FALSE /\ unsaved = FALSE /\ refused = FALSE
    BY DEF Init
  <2> QED BY <2>1, Zenon
<1>1. TypeOK
  BY <1>0, <1>a, <1>b, <1>c DEF TypeOK
<1>2. \A t \in Tasks : task[t] = IdleTask
  BY DEF Init
<1>3. Exclusive /\ Shape
  BY <1>2
  DEF Init, IdleTask, Exclusive, Inside, Shape, PhaseFits, Attached,
      SettingsUnlocked, HolderFits, CallsPlaced, Idle, Tasks, Free
<1> QED BY <1>1, <1>3 DEF IInv

LEMMA NextIInv == IInv /\ Queued /\ [Next]_vars => IInv'
<1> SUFFICES ASSUME IInv, Queued, [Next]_vars PROVE IInv'
  OBVIOUS
<1>1. CASE UNCHANGED vars
  BY <1>1 DEF vars, IInv, Shape, TypeOK, Exclusive, Inside, PhaseFits,
              Attached, SettingsUnlocked, HolderFits, CallsPlaced, Idle
<1>2. CASE \E t \in Tasks : Step(t)
  BY <1>2, EnterKeeps, BeginCallKeeps, ReturnsKeep, SaveSettingsKeeps,
     DetachKeeps, ReleaseKeeps, ImportReturnsKeep DEF Step
<1>3. CASE \E t \in Tasks : WaitTimesOut(t) \/ TimeOut(t)
  BY <1>3, WaitTimesOutKeeps, TimeOutKeeps
<1> QED BY <1>1, <1>2, <1>3, RequestKeeps, LifespanKeeps, EnvironmentKeeps
        DEF Next

---------------------------------------------------------------------------
(* The queue of the store.                                                 *)

(* A task goes from place to place of its operation with a call of the     *)
(* store or without one.                                                   *)
Advances(t, a) ==
    \/ \E s \in CoreState \cup {"absent"}, d \in Value \cup {Keep},
          ok \in BOOLEAN : Save(t, s, d, a, ok) /\ a \in Saves
    \/ /\ queue' = queue
       /\ \/ Goto(t, a)
          \/ GotoCall(t, a) /\ a \in Calls
          \/ GotoFailed(t) /\ a = "release"

LEMMA AdvancesMoves ==
    ASSUME IInv, NEW t \in Tasks, NEW a \in Body, Advances(t, a)
    PROVE  Moved(t, a)
  BY SaveMoves, GotoMoves DEF Advances, IInv

LEMMA EnterAdvances ==
    ASSUME IInv, NEW t \in Tasks, Enter(t)
    PROVE  /\ task[t].at = "lock" /\ phase' = phase
           /\ Refused(t) \/ \E a \in Body : Advances(t, a)
<1>t. drv \in Value \cup {NoDriver} /\ st \in CoreState \cup {"absent"}
  BY DEF IInv, TypeOK
<1> USE DEF Body, Calls, Saves, Advances
<1>1. task[t].at = "lock" /\ phase' = phase
  BY DEF Enter, Refused, EnterInstall, EnterUninstall, EnterStart, EnterStop,
         EnterRestart, EnterCall, EnterPersist, AtLock
<1>2. CASE EnterPersist(t)
  <2>1. Save(t, st, drv, "release", TRUE) /\ drv \in Value
    BY <1>t, <1>2 DEF EnterPersist
  <2> QED BY <1>t, <1>1, <2>1
<1>3. CASE EnterInstall(t) \/ EnterCall(t)
  <2>1. queue' = queue /\ \E a \in Calls : GotoCall(t, a)
    BY <1>3 DEF EnterInstall, EnterCall
  <2> QED BY <1>1, <2>1
<1>4. CASE EnterUninstall(t) \/ EnterStart(t) \/ EnterStop(t) \/ EnterRestart(t)
  <2>1. \/ \E a \in {"stop", "restop"} : Save(t, "stopping", Keep, a, TRUE)
        \/ Save(t, "starting", Keep, "start", TRUE)
        \/ queue' = queue /\ \E a \in Calls : GotoCall(t, a)
    BY <1>4 DEF EnterUninstall, EnterStart, EnterStop, EnterRestart, SetState
  <2>2. "stopping" \in CoreState /\ "starting" \in CoreState
    BY DEF CoreState
  <2> QED BY <1>1, <2>1, <2>2
<1> QED BY <1>1, <1>2, <1>3, <1>4 DEF Enter

LEMMA ReturnsAdvance ==
    ASSUME IInv, NEW t \in Tasks, Returns(t)
    PROVE  /\ task[t].at \in Calls /\ task[t].calling /\ phase' = phase
           /\ \E a \in Body : Advances(t, a)
<1> DEFINE Ends ==
      \/ \E s \in CoreState, a \in Saves, ok \in BOOLEAN : SetState(t, s, a, ok)
      \/ queue' = queue /\ (Goto(t, "release") \/ Goto(t, "settings")
                              \/ GotoCall(t, "emptystop") \/ GotoFailed(t))
<1>1. task[t].at \in Calls /\ task[t].calling /\ phase' = phase
  BY DEF Returns, InstallReturns, StartReturns, StopReturns, RestopReturns,
         UninstallReturns, UpdateReturns, HookFails, HookApplies, HookEmpties,
         EmptyStopReturns, InCall, Calls
<1>2. Ends
  <2>1. CASE InstallReturns(t) \/ StartReturns(t) \/ StopReturns(t)
    BY <2>1
    DEF InstallReturns, StartReturns, StopReturns, CoreState, Saves, Calls
  <2>2. CASE RestopReturns(t) \/ UninstallReturns(t) \/ UpdateReturns(t)
    BY <2>2
    DEF RestopReturns, UninstallReturns, UpdateReturns, CoreState, Saves,
                Calls
  <2>3. CASE HookFails(t) \/ HookApplies(t)
    BY <2>3 DEF HookFails, HookApplies, CoreState, Saves, Calls
  <2>4. CASE HookEmpties(t) \/ EmptyStopReturns(t)
    BY <2>4 DEF HookEmpties, EmptyStopReturns, CoreState, Saves, Calls
  <2> QED BY <2>1, <2>2, <2>3, <2>4 DEF Returns
<1>3. ASSUME NEW s \in CoreState, NEW a \in Saves, NEW ok \in BOOLEAN,
             SetState(t, s, a, ok)
      PROVE  a \in Body /\ Advances(t, a)
  BY <1>3 DEF SetState, Advances, Saves, Body
<1>4. CASE queue' = queue /\ (Goto(t, "release") \/ Goto(t, "settings")
                                \/ GotoCall(t, "emptystop") \/ GotoFailed(t))
  <2>1. "release" \in Body /\ "settings" \in Body /\ "emptystop" \in Body
    BY DEF Body, Calls
  <2>2. "emptystop" \in Calls
    BY DEF Calls
  <2>3. \/ Advances(t, "release") \/ Advances(t, "settings")
        \/ Advances(t, "emptystop")
    BY <1>4, <2>2 DEF Advances
  <2> QED BY <1>1, <2>1, <2>3
<1> QED BY <1>1, <1>2, <1>3, <1>4

LEMMA SavesAdvance ==
    ASSUME IInv, NEW t \in Tasks, SaveSettings(t) \/ Detach(t)
    PROVE  /\ task[t].at \in {"settings", "detach"} /\ ~task[t].saving
           /\ phase' = phase /\ Advances(t, "release")
<1>t. drv \in Value \cup {NoDriver} /\ st \in CoreState \cup {"absent"}
  BY DEF IInv, TypeOK
<1>1. /\ task[t].at \in {"settings", "detach"} /\ ~task[t].saving
      /\ phase' = phase
  BY DEF SaveSettings, Detach, Ready, aside
<1>2. FitsAt(task[t].at, st)
  BY <1>1, Holder DEF Body
<1>3. drv # NoDriver \/ Detach(t)
  BY <1>2 DEF SaveSettings, Ready, FitsAt, IInv, Shape, Attached
<1>4. \/ Save(t, st, drv, "release", TRUE) /\ drv # NoDriver
      \/ Save(t, "absent", Keep, "release", TRUE)
  BY <1>3 DEF SaveSettings, Detach
<1> QED BY <1>t, <1>1, <1>4 DEF Advances, Saves

(* An operation moves its own task only, and leaves its place for another  *)
(* one, or for good.                                                       *)
LEMMA StepMoves ==
    ASSUME IInv, NEW t \in Tasks, Step(t)
    PROVE  /\ ~Idle(t) /\ phase' = phase /\ phase # "down"
           /\ \A u \in Tasks \ {t} : task'[u] = task[u]
           /\ \/ task'[t].at \in Body /\ task'[t].op = task[t].op
              \/ Refused(t) /\ task'[t] = IdleTask
              \/ Release(t) \/ ImportReturns(t)
<1>t. TypeOK /\ task[t] \in Task
  BY DEF IInv, TypeOK
<1> USE DEF Body, Calls
<1>1. CASE Refused(t)
  <2>1. task[t].at = "lock"
    BY <1>1 DEF Refused
  <2> QED BY <1>t, <1>1, <2>1, Waiting DEF Refused, TypeOK
<1>2. CASE Release(t)
  <2>1. task[t].at = "release"
    BY <1>2 DEF Release, Ready
  <2>2. phase # "down"
    BY <2>1 DEF IInv, Shape, PhaseFits, Idle
  <2> QED BY <1>t, <1>2, <2>1, <2>2 DEF Release, TypeOK, Idle
<1>3. CASE Enter(t) /\ ~Refused(t)
  <2>1. ~Idle(t) /\ phase # "down" /\ phase' = phase
    BY <1>3, EnterAdvances, Waiting
  <2>2. \E a \in Body : Moved(t, a)
    BY <1>3, EnterAdvances, AdvancesMoves
  <2> QED BY <2>1, <2>2 DEF Moved
<1>4. CASE Returns(t)
  <2>1. ~Idle(t) /\ phase # "down" /\ phase' = phase
    BY <1>4, ReturnsAdvance, Holder
  <2>2. \E a \in Body : Moved(t, a)
    BY <1>4, ReturnsAdvance, AdvancesMoves
  <2> QED BY <2>1, <2>2 DEF Moved
<1>5. CASE BeginCall(t)
  <2>1. task[t].at \in Calls
    BY <1>5 DEF BeginCall, Ready
  <2>2. ~Idle(t) /\ phase # "down"
    BY <2>1, Holder
  <2> QED BY <1>t, <1>5, <2>1, <2>2 DEF BeginCall, TypeOK, Task
<1>6. CASE SaveSettings(t) \/ Detach(t)
  <2>1. ~Idle(t) /\ phase # "down" /\ phase' = phase
    BY <1>6, SavesAdvance, Holder
  <2>2. Moved(t, "release")
    BY <1>6, SavesAdvance, AdvancesMoves
  <2> QED BY <2>1, <2>2 DEF Moved
<1>7. CASE ImportReturns(t)
  <2>1. task[t].at = "import"
    BY <1>7 DEF ImportReturns, InCall
  <2>2. phase # "down"
    BY <2>1 DEF IInv, Shape, PhaseFits, Idle
  <2> QED BY <1>t, <1>7, <2>1, <2>2 DEF ImportReturns, TypeOK, Idle
<1> QED BY <1>1, <1>2, <1>3, <1>4, <1>5, <1>6, <1>7 DEF Step

(* A task that does not save yet moves on, with a call of the store or     *)
(* without one.                                                            *)
LEMMA QueuedMove ==
    ASSUME IInv, Queued, NEW t \in Tasks, task[t].saving = FALSE,
           \A u \in Tasks \ {t} : task'[u] = task[u],
           \/ queue' = queue /\ task'[t].saving = FALSE
           \/ /\ \E c \in SaveCall : queue' = Append(queue, c) /\ c.task = t
              /\ task'[t].saving = TRUE /\ task'[t].calling = FALSE
              /\ task'[t].at \in Saves
    PROVE  Queued'
<1>q. queue \in Seq(SaveCall)
  BY DEF IInv, TypeOK
<1>1. \A i \in DOMAIN queue : queue[i].task = "gone" \/ queue[i].task \in Tasks \ {t}
  BY DEF Queued
<1>g. t # "gone"
  BY DEF Tasks
<1>2. CASE queue' = queue /\ task'[t].saving = FALSE
  BY <1>1, <1>2 DEF Queued
<1>3. ASSUME NEW c \in SaveCall, queue' = Append(queue, c), c.task = t,
             task'[t].saving = TRUE, task'[t].calling = FALSE,
             task'[t].at \in Saves
      PROVE  Queued'
  <2>1. /\ DOMAIN queue' = 1..(Len(queue) + 1) /\ DOMAIN queue = 1..Len(queue)
        /\ queue'[Len(queue) + 1] = c /\ Len(queue) \in Nat
        /\ \A i \in DOMAIN queue : queue'[i] = queue[i]
    BY <1>q, <1>3
  <2>2. \A i \in DOMAIN queue' : i \in DOMAIN queue \/ i = Len(queue) + 1
    BY <2>1
  <2>3. \A u \in Tasks : task'[u].saving = TRUE =>
                             task'[u].at \in Saves /\ task'[u].calling = FALSE
    BY <1>3 DEF Queued
  <2>4. ASSUME NEW i \in DOMAIN queue'
        PROVE  \/ queue'[i].task = "gone"
               \/ /\ queue'[i].task \in Tasks
                  /\ task'[queue'[i].task].saving = TRUE
    <3>1. CASE i \in DOMAIN queue
      <4>1. \/ queue'[i].task = "gone"
            \/ /\ queue'[i].task \in Tasks \ {t}
               /\ task[queue'[i].task].saving = TRUE
        BY <1>1, <2>1, <3>1 DEF Queued
      <4> QED BY <4>1
    <3>2. CASE i = Len(queue) + 1
      BY <1>3, <2>1, <3>2
    <3> QED BY <2>2, <3>1, <3>2
  <2>5. ASSUME NEW i \in DOMAIN queue', NEW j \in DOMAIN queue',
               queue'[i].task = queue'[j].task
        PROVE  i = j \/ queue'[i].task = "gone"
    <3>1. ASSUME NEW k \in DOMAIN queue' PROVE
            queue'[k].task = t <=> k = Len(queue) + 1
      <4>1. k \in DOMAIN queue => queue'[k].task # t /\ k # Len(queue) + 1
        BY <1>1, <1>g, <2>1
      <4> QED BY <1>3, <2>1, <2>2, <4>1
    <3>2. CASE queue'[i].task = t
      BY <2>5, <3>1, <3>2
    <3>3. CASE queue'[i].task # t
      <4>1. i \in DOMAIN queue /\ j \in DOMAIN queue
        BY <2>2, <2>5, <3>1, <3>3
      <4>2. queue[i].task = queue[j].task
        BY <2>1, <2>5, <4>1
      <4> QED BY <4>1, <4>2 DEF Queued
    <3> QED BY <3>2, <3>3
  <2> QED BY <2>3, <2>4, <2>5 DEF Queued
<1> QED BY <1>2, <1>3

(* An operation has one call of the store on its way at a time.            *)
LEMMA StepQueues ==
    ASSUME IInv, Queued, NEW t \in Tasks, Step(t)
    PROVE  Queued'
<1>t. task[t] \in Task /\ task \in [Tasks -> Task]
  BY DEF IInv, TypeOK
<1>m. \A u \in Tasks \ {t} : task'[u] = task[u]
  BY StepMoves
<1>1. task[t].saving = FALSE
  <2>1. CASE Enter(t)
    <3>1. task[t].at = "lock"
      BY <2>1, EnterAdvances
    <3> QED BY <1>t, <3>1 DEF Queued, Task, Saves, Calls
  <2>2. CASE Returns(t)
    <3>1. task[t].calling
      BY <2>2, ReturnsAdvance
    <3> QED BY <1>t, <3>1 DEF Queued, Task
  <2>3. CASE BeginCall(t) \/ SaveSettings(t) \/ Detach(t) \/ Release(t)
    <3>1. ~task[t].saving
      BY <2>3 DEF BeginCall, SaveSettings, Detach, Release, Ready
    <3> QED BY <1>t, <3>1 DEF Task
  <2>4. CASE ImportReturns(t)
    <3>1. task[t].at = "import"
      BY <2>4 DEF ImportReturns, InCall
    <3> QED BY <1>t, <3>1 DEF Queued, Task, Saves, Calls
  <2> QED BY <2>1, <2>2, <2>3, <2>4 DEF Step
<1>2. ASSUME NEW a \in Body, Advances(t, a)
      PROVE  Queued'
  <2>1. ASSUME NEW s \in CoreState \cup {"absent"}, NEW d \in Value \cup {Keep},
               NEW ok \in BOOLEAN, Save(t, s, d, a, ok), a \in Saves
        PROVE  Queued'
    <3> DEFINE c == [task |-> t, state |-> s, settings |-> d]
    <3>1. c \in SaveCall /\ c.task = t
      BY DEF SaveCall
    <3>2. queue' = Append(queue, c)
      BY <2>1 DEF Save
    <3>3. task' = [task EXCEPT ![t] =
                     [task[t] EXCEPT !.at = a, !.saving = TRUE,
                                     !.calling = FALSE, !.ok = ok]]
      BY <2>1 DEF Save
    <3>4. /\ task'[t].saving = TRUE /\ task'[t].calling = FALSE
          /\ task'[t].at = a
      BY <1>t, <3>3 DEF Task
    <3> HIDE DEF c
    <3> QED BY <1>1, <1>m, <2>1, <3>1, <3>2, <3>4, QueuedMove
  <2>2. CASE /\ queue' = queue
             /\ \/ Goto(t, a)
                \/ GotoCall(t, a) /\ a \in Calls
                \/ GotoFailed(t) /\ a = "release"
    <3>1. task'[t].saving = task[t].saving
      BY <1>t, <2>2 DEF Goto, GotoCall, GotoFailed, Task
    <3> QED BY <1>1, <1>m, <2>2, <3>1, QueuedMove
  <2> QED BY <1>2, <2>1, <2>2 DEF Advances
<1>3. CASE Refused(t) \/ Release(t)
  <2>1. queue' = queue
    BY <1>3 DEF Refused, Release
  <2>2. \/ task' = [task EXCEPT ![t] = IdleTask]
        \/ \E o \in {"idstop", "idstart"} :
              task' = [task EXCEPT ![t] = [IdleTask EXCEPT !.op = o, !.at = "lock"]]
    BY <1>3 DEF Refused, Release
  <2>3. /\ IdleTask.saving = FALSE
        /\ \A o : [IdleTask EXCEPT !.op = o, !.at = "lock"].saving = FALSE
    BY DEF IdleTask
  <2>4. task'[t].saving = FALSE
    BY <1>t, <2>2, <2>3
  <2> QED BY <1>1, <1>m, <2>1, <2>4, QueuedMove
<1>4. CASE BeginCall(t)
  <2>1. queue' = queue
    BY <1>4 DEF BeginCall
  <2>2. task'[t].saving = task[t].saving
    BY <1>4, <1>t DEF BeginCall, Task
  <2> QED BY <1>1, <1>m, <2>1, <2>2, QueuedMove
<1>5. CASE Enter(t) /\ ~Refused(t)
  BY <1>2, <1>5, EnterAdvances
<1>6. CASE Returns(t)
  BY <1>2, <1>6, ReturnsAdvance
<1>7. CASE SaveSettings(t) \/ Detach(t)
  <2>1. "release" \in Body
    BY DEF Body
  <2> QED BY <1>2, <1>7, <2>1, SavesAdvance
<1>8. CASE ImportReturns(t)
  <2>1. queue' = queue
    BY <1>8 DEF ImportReturns
  <2>2. task'[t].saving = FALSE
    <3>1. CASE task' = [task EXCEPT ![t] = IdleTask]
      BY <1>t, <3>1 DEF IdleTask
    <3>2. CASE task' = [task EXCEPT ![t].at = "lock", ![t].calling = FALSE]
      BY <1>t, <1>1, <3>2 DEF Task
    <3> QED BY <1>8, <3>1, <3>2 DEF ImportReturns
  <2> QED BY <1>1, <1>m, <2>1, <2>2, QueuedMove
<1> QED BY <1>3, <1>4, <1>5, <1>6, <1>7, <1>8 DEF Step

LEMMA RequestQueues ==
    ASSUME IInv, Queued, Request
    PROVE  Queued'
<1>t. task \in [Tasks -> Task] /\ \A t \in Tasks : task[t] \in Task
  BY DEF IInv, TypeOK
<1>i. ASSUME NEW t \in Tasks, Idle(t) PROVE task[t].saving = FALSE
  BY <1>t, <1>i DEF Queued, Idle, Task, Saves, Calls
<1>1. CASE \E o \in JobOps, s \in Value : SubmitJob(o, s)
  <2>1. /\ "job" \in Tasks /\ Idle("job") /\ queue' = queue
        /\ \A u \in Tasks \ {"job"} : task'[u] = task[u]
        /\ task'["job"].saving = FALSE
    BY <1>t, <1>1 DEF SubmitJob, Tasks, IdleTask
  <2> QED BY <1>i, <2>1, QueuedMove
<1>2. CASE \E s \in Settings : PutInbounds(s) \/ PutIdentity(s)
  <2>1. /\ "api" \in Tasks /\ Idle("api") /\ queue' = queue
        /\ \A u \in Tasks \ {"api"} : task'[u] = task[u]
        /\ task'["api"].saving = FALSE
    BY <1>t, <1>2 DEF PutInbounds, PutIdentity, Tasks, IdleTask
  <2> QED BY <1>i, <2>1, QueuedMove
<1>3. ASSUME NEW s \in Settings, PutSettings(s)
      PROVE  Queued'
  <2> DEFINE c == [task |-> "api", state |-> st, settings |-> s]
  <2>1. c \in SaveCall /\ c.task = "api" /\ queue' = Append(queue, c)
    BY <1>3 DEF PutSettings, SaveCall, IInv, TypeOK, Tasks, Value
  <2>2. /\ "api" \in Tasks /\ Idle("api")
        /\ \A u \in Tasks \ {"api"} : task'[u] = task[u]
        /\ task'["api"].saving = TRUE /\ task'["api"].calling = FALSE
        /\ task'["api"].at = "release"
    BY <1>t, <1>3 DEF PutSettings, Tasks, IdleTask
  <2> HIDE DEF c
  <2> QED BY <1>i, <2>1, <2>2, QueuedMove DEF Saves
<1> QED BY <1>1, <1>2, <1>3 DEF Request

(* The store is done with the first of the queue, and nobody waits for     *)
(* another.                                                                *)
LEMMA QueuedTail ==
    ASSUME IInv, Queued, queue # <<>>, queue' = Tail(queue),
           NEW h, h = Head(queue).task,
           h = "gone" => task' = task,
           h \in Tasks => task'[h].saving = FALSE,
           \A u \in Tasks \ {h} : task'[u] = task[u]
    PROVE  Queued'
<1>1. queue \in Seq(SaveCall)
  BY DEF IInv, TypeOK
<1>2. /\ Len(queue) \in Nat \ {0} /\ DOMAIN queue = 1..Len(queue)
      /\ DOMAIN queue' = 1..(Len(queue) - 1) /\ h = queue[1].task
      /\ \A i \in DOMAIN queue' : queue'[i] = queue[i + 1]
                                  /\ i + 1 \in DOMAIN queue
  BY <1>1
<1>3. \A t \in Tasks : task'[t].saving = TRUE =>
                           task'[t].at \in Saves /\ task'[t].calling = FALSE
  <2> TAKE t \in Tasks
  <2>1. CASE t = h
    BY <2>1
  <2>2. CASE t # h
    BY <2>2 DEF Queued
  <2> QED BY <2>1, <2>2
<1>4. ASSUME NEW i \in DOMAIN queue', queue'[i].task # "gone"
      PROVE  queue'[i].task \in Tasks /\ task'[queue'[i].task].saving = TRUE
  <2>1. i + 1 \in DOMAIN queue /\ i + 1 # 1 /\ queue'[i] = queue[i + 1]
        /\ 1 \in DOMAIN queue
    BY <1>2
  <2>2. /\ queue[i + 1].task \in Tasks
        /\ task[queue[i + 1].task].saving = TRUE
    BY <1>4, <2>1 DEF Queued
  <2>3. queue[i + 1].task # h
    BY <1>2, <1>4, <2>1 DEF Queued
  <2> QED BY <2>1, <2>2, <2>3
<1>5. ASSUME NEW i \in DOMAIN queue', NEW j \in DOMAIN queue',
             queue'[i].task = queue'[j].task
      PROVE  i = j \/ queue'[i].task = "gone"
  <2>1. /\ i + 1 \in DOMAIN queue /\ queue'[i] = queue[i + 1]
        /\ j + 1 \in DOMAIN queue /\ queue'[j] = queue[j + 1]
    BY <1>2
  <2>2. i + 1 = j + 1 \/ queue'[i].task = "gone"
    BY <1>5, <2>1 DEF Queued
  <2> QED BY <1>2, <2>2
<1> QED BY <1>3, <1>4, <1>5 DEF Queued

LEMMA StoreQueues ==
    ASSUME IInv, Queued, StoreServes \/ StoreFails
    PROVE  Queued'
<1> DEFINE h == Head(queue).task
<1>1. /\ queue \in Seq(SaveCall) /\ queue # <<>> /\ queue' = Tail(queue)
      /\ task \in [Tasks -> Task] /\ \A t \in Tasks : task[t] \in Task
  BY DEF StoreServes, StoreFails, IInv, TypeOK
<1>2. h \in Tasks \cup {"gone"}
  <2>1. Head(queue) \in SaveCall
    BY <1>1
  <2> QED BY <2>1 DEF SaveCall
<1>3. CASE h = "gone"
  <2>1. task' = task /\ h \notin Tasks
    BY <1>3 DEF StoreServes, StoreFails, Tasks
  <2> HIDE DEF h
  <2> QED BY <1>1, <1>3, <2>1, QueuedTail DEF h
<1>4. CASE h # "gone"
  <2>1. \E r : /\ task' = [task EXCEPT ![h] = r]
               /\ r.saving = FALSE
    <3> DEFINE w == [task[h] EXCEPT !.saving = FALSE]
               f == [task[h] EXCEPT !.at = "release", !.saving = FALSE,
                                    !.ok = FALSE]
    <3>1. w.saving = FALSE /\ f.saving = FALSE
      BY <1>1, <1>2, <1>4 DEF Task
    <3>2. task' = [task EXCEPT ![h] = w] \/ task' = [task EXCEPT ![h] = f]
      BY <1>4 DEF StoreServes, StoreFails
    <3> HIDE DEF w, f
    <3> QED BY <3>1, <3>2
  <2>2. h \in Tasks
    BY <1>2, <1>4
  <2> HIDE DEF h
  <2>3. task'[h].saving = FALSE /\ \A u \in Tasks \ {h} : task'[u] = task[u]
    BY <1>1, <2>1, <2>2
  <2> QED BY <1>1, <1>4, <2>3, QueuedTail DEF h
<1> QED BY <1>3, <1>4

(* A time-out takes the call of its task out of the queue or leaves it     *)
(* there with nobody who waits.                                            *)
LEMMA TimeOutQueues ==
    ASSUME IInv, Queued, NEW t \in Tasks, queue' \in CutOff(t),
           task' = [task EXCEPT ![t] = IdleTask]
    PROVE  Queued'
<1>t. /\ queue \in Seq(SaveCall) /\ task \in [Tasks -> Task] /\ t # "gone"
      /\ DOMAIN queue = 1..Len(queue) /\ Len(queue) \in Nat
  BY DEF IInv, TypeOK, Tasks
<1>1. task'[t].saving = FALSE /\ \A u \in Tasks \ {t} : task'[u] = task[u]
  BY <1>t DEF IdleTask
<1>2. \A u \in Tasks : task'[u].saving = TRUE =>
                           task'[u].at \in Saves /\ task'[u].calling = FALSE
  BY <1>1 DEF Queued
<1>3. CASE queue' = Orphaned(t)
  <2>1. DOMAIN queue' = DOMAIN queue
    BY <1>3 DEF Orphaned
  <2>2. \A i \in DOMAIN queue :
           queue'[i].task = IF queue[i].task = t THEN "gone" ELSE queue[i].task
    <3> TAKE i \in DOMAIN queue
    <3>1. queue[i] \in SaveCall
      BY <1>t
    <3> QED BY <1>3, <3>1 DEF Orphaned, SaveCall
  <2>3. ASSUME NEW i \in DOMAIN queue', queue'[i].task # "gone"
        PROVE  queue'[i].task \in Tasks /\ task'[queue'[i].task].saving = TRUE
    <3>1. queue[i].task # t /\ queue'[i].task = queue[i].task
      BY <2>1, <2>2, <2>3
    <3> QED BY <1>1, <2>1, <2>3, <3>1 DEF Queued
  <2>4. ASSUME NEW i \in DOMAIN queue', NEW j \in DOMAIN queue',
               queue'[i].task = queue'[j].task
        PROVE  i = j \/ queue'[i].task = "gone"
    BY <2>1, <2>2, <2>4 DEF Queued
  <2> QED BY <1>2, <2>3, <2>4 DEF Queued
<1>4. CASE queue' \in Withdrawn(t)
  <2>1. PICK k \in DOMAIN queue :
           /\ queue[k].task = t
           /\ queue' = SubSeq(queue, 1, k - 1)
                         \o SubSeq(queue, k + 1, Len(queue))
    BY <1>4 DEF Withdrawn
  <2> DEFINE a == SubSeq(queue, 1, k - 1)
             b == SubSeq(queue, k + 1, Len(queue))
             old(i) == IF i < k THEN i ELSE i + 1
  <2>2. /\ a \in Seq(SaveCall) /\ Len(a) = k - 1
        /\ \A i \in 1..(k - 1) : a[i] = queue[i]
    BY <1>t, SubSeqProperties
  <2>3. /\ b \in Seq(SaveCall) /\ Len(b) = Len(queue) - k
        /\ \A i \in 1..(Len(queue) - k) : b[i] = queue[k + i]
    BY <1>t, SubSeqProperties
  <2>k. k \in Nat /\ 1 <= k /\ k <= Len(queue) /\ Len(queue) \in Nat
    BY <1>t
  <2> HIDE DEF a, b
  <2>4. /\ queue' = a \o b /\ DOMAIN queue' = 1..(Len(queue) - 1)
        /\ \A i \in DOMAIN queue' : queue'[i] = queue[old(i)]
    <3>1. queue' = a \o b
      BY <2>1 DEF a, b
    <3>2. /\ queue' \in Seq(SaveCall)
          /\ DOMAIN queue' = 1..(Len(queue) - 1)
      <4>1. queue' \in Seq(SaveCall) /\ Len(queue') = Len(a) + Len(b)
        BY <2>2, <2>3, <3>1, ConcatProperties
      <4>2. Len(a) + Len(b) = Len(queue) - 1
        BY <2>2, <2>3, <2>k
      <4>3. DOMAIN queue' = 1..Len(queue')
        BY <4>1
      <4> QED BY <4>1, <4>2, <4>3
    <3>3. \A i \in 1..(Len(queue) - 1) :
             queue'[i] = IF i <= k - 1 THEN a[i] ELSE b[i - (k - 1)]
      BY <1>t, <2>2, <2>3, <3>1
    <3>4. ASSUME NEW i \in 1..(Len(queue) - 1)
          PROVE  queue'[i] = queue[old(i)]
      <4>1. CASE i < k
        BY <1>t, <2>2, <3>3, <4>1
      <4>2. CASE i >= k
        <5>1. i - (k - 1) \in 1..(Len(queue) - k) /\ ~(i <= k - 1)
              /\ k + (i - (k - 1)) = i + 1
          BY <1>t, <4>2
        <5>2. queue'[i] = b[i - (k - 1)]
          BY <3>3, <5>1
        <5>3. b[i - (k - 1)] = queue[k + (i - (k - 1))]
          BY <2>3, <5>1
        <5> QED BY <1>t, <4>2, <5>1, <5>2, <5>3
      <4> QED BY <1>t, <4>1, <4>2
    <3> HIDE DEF old
    <3> QED BY <3>1, <3>2, <3>4
  <2>5. \A i \in DOMAIN queue' : old(i) \in DOMAIN queue /\ old(i) # k
    <3> TAKE i \in DOMAIN queue'
    <3>1. i \in Nat /\ 1 <= i /\ i <= Len(queue) - 1
      BY <2>4, <2>k
    <3>2. old(i) \in 1..Len(queue) /\ old(i) # k
      BY <2>k, <3>1
    <3> HIDE DEF old
    <3> QED BY <1>t, <3>2
  <2>6. \A i, j \in DOMAIN queue' : old(i) = old(j) => i = j
    <3> TAKE i, j \in DOMAIN queue'
    <3>1. i \in Nat /\ j \in Nat
      BY <2>4, <2>k
    <3> QED BY <2>k, <3>1
  <2> HIDE DEF old
  <2>7. ASSUME NEW i \in DOMAIN queue', queue'[i].task # "gone"
        PROVE  queue'[i].task \in Tasks /\ task'[queue'[i].task].saving = TRUE
    <3>1. queue[old(i)].task # t
      BY <1>t, <2>1, <2>5 DEF Queued
    <3>2. /\ queue[old(i)].task \in Tasks
          /\ task[queue[old(i)].task].saving = TRUE
      BY <2>4, <2>5, <2>7 DEF Queued
    <3> QED BY <1>1, <2>4, <3>1, <3>2
  <2>8. ASSUME NEW i \in DOMAIN queue', NEW j \in DOMAIN queue',
               queue'[i].task = queue'[j].task
        PROVE  i = j \/ queue'[i].task = "gone"
    <3>1. old(i) = old(j) \/ queue[old(i)].task = "gone"
      BY <2>4, <2>5, <2>8 DEF Queued
    <3> QED BY <2>4, <2>6, <3>1
  <2> QED BY <1>2, <2>7, <2>8 DEF Queued
<1> QED BY <1>3, <1>4 DEF CutOff

LEMMA NextQueued == IInv /\ Queued /\ [Next]_vars => Queued'
<1> SUFFICES ASSUME IInv, Queued, [Next]_vars PROVE Queued'
  OBVIOUS
<1>t. task \in [Tasks -> Task] /\ \A t \in Tasks : task[t] \in Task
  BY DEF IInv, TypeOK
<1>1. CASE UNCHANGED vars
  BY <1>1 DEF vars, Queued
<1>2. CASE Boot \/ Shutdown
  <2>1. Idle("main") /\ "main" \in Tasks
    BY <1>2 DEF Boot, Shutdown, IInv, Shape, PhaseFits, Tasks
  <2>2. task["main"].saving = FALSE
    BY <1>t, <2>1 DEF Queued, Idle, Task, Saves, Calls
  <2>3. /\ queue' = queue /\ task'["main"].saving = task["main"].saving
        /\ \A u \in Tasks \ {"main"} : task'[u] = task[u]
    BY <1>2, <1>t, <2>1 DEF Boot, Shutdown, Task
  <2> QED BY <2>1, <2>2, <2>3, QueuedMove
<1>3. CASE Serve \/ ProcessDies
  BY <1>3 DEF Serve, ProcessDies, Queued
<1>4. CASE Exit
  BY <1>4 DEF Exit, Queued, IdleTask
<1>5. CASE Request
  BY <1>5, RequestQueues
<1>6. ASSUME NEW t \in Tasks, Step(t) PROVE Queued'
  BY <1>6, StepQueues
<1>7. ASSUME NEW t \in Tasks, WaitTimesOut(t) PROVE Queued'
  <2>1. /\ task[t].at = "lock" /\ queue' = queue
        /\ task' = [task EXCEPT ![t] = IdleTask]
    BY <1>7 DEF WaitTimesOut
  <2>2. task[t].saving = FALSE
    BY <1>t, <2>1 DEF Queued, Task, Saves, Calls
  <2>3. /\ task'[t].saving = FALSE
        /\ \A u \in Tasks \ {t} : task'[u] = task[u]
    BY <1>t, <2>1 DEF IdleTask
  <2> QED BY <2>1, <2>2, <2>3, QueuedMove
<1>8. ASSUME NEW t \in Tasks, TimeOut(t) PROVE Queued'
  BY <1>8, TimeOutQueues DEF TimeOut
<1>9. ASSUME NEW a \in Calls, ThreadEnds(a) PROVE Queued'
  BY <1>9 DEF ThreadEnds, Queued
<1>10. CASE StoreServes \/ StoreFails
  BY <1>10, StoreQueues
<1> QED BY <1>1, <1>2, <1>3, <1>4, <1>5, <1>6, <1>7, <1>8, <1>9, <1>10
        DEF Next

---------------------------------------------------------------------------
(* While the agent boots, the start of the core is the only operation.     *)
LEMMA StepBoots ==
    ASSUME IInv, BootFits, NEW t \in Tasks, Step(t)
    PROVE  BootFits'
<1> SUFFICES ASSUME phase' = "booting" PROVE BootFits'
  BY DEF BootFits
<1>m. /\ ~Idle(t) /\ phase' = phase
      /\ \A u \in Tasks \ {t} : task'[u] = task[u]
      /\ \/ task'[t].at \in Body /\ task'[t].op = task[t].op
         \/ Refused(t) /\ task'[t] = IdleTask
         \/ Release(t) \/ ImportReturns(t)
  BY StepMoves
<1>1. t = "main" /\ task[t].op = "start"
  BY <1>m DEF BootFits, Tasks
<1>2. \A u \in {"job", "api"} : Idle(u)' /\ task'[u].op = "none"
  BY <1>m, <1>1 DEF BootFits, Idle, Tasks
<1>3. ~ImportReturns(t)
  BY <1>1 DEF ImportReturns, InCall, IInv, Shape, CallsPlaced
<1>4. CASE Release(t)
  <2>1. task'[t] = IdleTask
    BY <1>1, <1>4 DEF Release, IInv, TypeOK
  <2> QED BY <1>1, <1>2, <2>1 DEF BootFits, Rising, Idle, IdleTask
<1>5. CASE ~Release(t)
  BY <1>m, <1>1, <1>2, <1>3, <1>5
  DEF BootFits, Rising, Idle, IdleTask, Body, Calls
<1> QED BY <1>4, <1>5

(* What the lifespan has begun it also finds when the store has answered.  *)
LEMMA StoreBoots ==
    ASSUME IInv, Queued, BootFits, StoreServes \/ StoreFails
    PROVE  BootFits' /\ (Rising' <=> Rising)
<1>1. phase' = phase /\ st' = st /\ queue # <<>> /\ queue \in Seq(SaveCall)
  BY DEF StoreServes, StoreFails, IInv, TypeOK
<1> DEFINE h == Head(queue).task
<1>2. h \in Tasks \cup {"gone"}
  <2>1. Head(queue) \in SaveCall
    BY <1>1
  <2> QED BY <2>1 DEF SaveCall
<1>3. CASE h = "gone"
  <2>1. task' = task
    BY <1>3 DEF StoreServes, StoreFails
  <2> QED BY <1>1, <2>1 DEF BootFits, Rising, Idle
<1>4. CASE h # "gone"
  <2>1. h \in Tasks /\ task[h] \in Task
    BY <1>2, <1>4 DEF IInv, TypeOK
  <2>2. task[h].at \in Saves
    BY <1>1, <1>4 DEF Queued
  <2> DEFINE w == [task[h] EXCEPT !.saving = FALSE]
             f == [task[h] EXCEPT !.at = "release", !.saving = FALSE,
                                  !.ok = FALSE]
  <2>3. /\ w.at = task[h].at /\ w.op = task[h].op
        /\ f.at = "release" /\ f.op = task[h].op
    BY <2>1 DEF Task
  <2>4. task' = [task EXCEPT ![h] = w] \/ task' = [task EXCEPT ![h] = f]
    BY <1>4 DEF StoreServes, StoreFails
  <2> HIDE DEF w, f, h
  <2>5. /\ task'[h].at \in Saves /\ task'[h].op = task[h].op
        /\ \A u \in Tasks \ {h} : task'[u] = task[u]
    BY <2>1, <2>2, <2>3, <2>4 DEF IInv, TypeOK, Saves
  <2>6. h # "main" => phase # "booting"
    BY <2>1, <2>2 DEF BootFits, Idle, Tasks, Saves, Calls
  <2>7. task[h].at \notin {"idle", "lock"} /\ task'[h].at \notin {"idle", "lock"}
    BY <2>2, <2>5 DEF Saves, Calls
  <2>8. Rising' <=> Rising
    BY <1>1, <2>1, <2>5, <2>7 DEF Rising, Tasks
  <2>9. BootFits'
    BY <1>1, <2>1, <2>5, <2>6, <2>7, <2>8 DEF BootFits, Idle, Tasks
  <2> QED BY <2>8, <2>9
<1> QED BY <1>3, <1>4

LEMMA NextBoots == IInv /\ Queued /\ BootFits /\ [Next]_vars => BootFits'
<1> SUFFICES ASSUME IInv, Queued, BootFits, [Next]_vars PROVE BootFits'
  OBVIOUS
<1>1. CASE UNCHANGED vars
  BY <1>1 DEF vars, BootFits, Rising, Idle
<1>2. CASE Boot
  <2>1. \A t \in Tasks : Idle(t) /\ task[t].op = "none"
    BY <1>2 DEF Boot, IInv, Shape, PhaseFits
  <2>2. CASE st' \in AutoStarted
    <3>1. /\ task'["main"].op = "start" /\ task'["main"].at = "lock"
          /\ \A u \in Tasks \ {"main"} : task'[u] = task[u]
      BY <1>2, <2>2 DEF Boot, IInv, TypeOK, Tasks, Task
    <3> QED BY <2>1, <2>2, <3>1
            DEF BootFits, Idle, Tasks, AutoStarted, Startable
  <2>3. CASE st' \notin AutoStarted
    <3>1. task' = task
      BY <1>2, <2>3 DEF Boot
    <3> QED BY <2>1, <3>1 DEF BootFits, Rising, Idle, Tasks
  <2> QED BY <2>2, <2>3
<1>3. CASE Serve \/ Shutdown \/ Exit
  BY <1>3 DEF Serve, Shutdown, Exit, BootFits
<1>4. CASE Request
  <2>1. phase' = "serving"
    BY <1>4 DEF Request, SubmitJob, PutSettings, PutInbounds, PutIdentity
  <2> QED BY <2>1 DEF BootFits
<1>5. ASSUME NEW t \in Tasks, Step(t) PROVE BootFits'
  BY <1>5, StepBoots
<1>6. ASSUME NEW t \in Tasks, WaitTimesOut(t) \/ TimeOut(t) PROVE BootFits'
  <2>1. phase' = phase /\ t # "main" /\ task[t].op \in TimedOps
    BY <1>6 DEF WaitTimesOut, TimeOut
  <2>2. phase # "booting"
    BY <2>1 DEF BootFits, TimedOps, JobOps, Tasks
  <2> QED BY <2>1, <2>2 DEF BootFits
<1>7. CASE ProcessDies \/ \E a \in Calls : ThreadEnds(a)
  BY <1>7 DEF ProcessDies, ThreadEnds, BootFits, Rising, Idle
<1>8. CASE StoreServes \/ StoreFails
  BY <1>8, StoreBoots
<1> QED BY <1>1, <1>2, <1>3, <1>4, <1>5, <1>6, <1>7, <1>8 DEF Next

---------------------------------------------------------------------------
(* The inductive invariant.                                                *)
Safe == IInv /\ Queued /\ BootFits

LEMMA InitSafe == Init => Safe
<1>1. Init => Queued
  BY DEF Init, Queued, IdleTask
<1>2. Init => BootFits
  BY DEF Init, BootFits
<1> QED BY <1>1, <1>2, InitIInv DEF Safe

LEMMA NextSafe == Safe /\ [Next]_vars => Safe'
  BY NextIInv, NextQueued, NextBoots DEF Safe

(* Safe holds of every behaviour.                                          *)
THEOREM Invariance == Spec => []Safe
  BY InitSafe, NextSafe, PTL DEF Spec

(* Every variable keeps its type; in particular no save is ever queued     *)
(* without the settings of a driver.                                       *)
THEOREM TypeCorrect == Spec => []TypeOK
<1>1. Safe => TypeOK
  BY DEF Safe, IInv
<1> QED BY <1>1, Invariance, PTL

(* Operations of a core exclude each other whatever is refused, fails, is  *)
(* handed over by PUT .../identity or cut off by a time-out.               *)
THEOREM OperationsExclusive == Spec => []Exclusive
<1>1. Safe => Exclusive
  BY DEF Safe, IInv
<1> QED BY <1>1, Invariance, PTL

---------------------------------------------------------------------------
(* Driver calls.  A thread outlives its task only by a time-out.           *)
Accompanied == "call" \notin cut => threads = {}

LEMMA InitAccompanied == Init => Accompanied
  BY DEF Init, Accompanied

LEMMA NextAccompanied ==
    Accompanied /\ [Next]_vars => Accompanied'
<1> SUFFICES ASSUME Accompanied, [Next]_vars PROVE Accompanied'
  OBVIOUS
<1> USE DEF Accompanied
<1>1. CASE UNCHANGED vars
  BY <1>1 DEF vars
<1>2. CASE Boot \/ Serve \/ Shutdown \/ Exit
  BY <1>2 DEF Boot, Serve, Shutdown, Exit, aside
<1>3. CASE Request
  BY <1>3 DEF Request, SubmitJob, PutSettings, PutInbounds, PutIdentity,
              aside
<1>4. ASSUME NEW t \in Tasks, Enter(t) PROVE Accompanied'
  BY <1>4 DEF Enter, Refused, EnterInstall, EnterUninstall, EnterStart,
              EnterStop, EnterRestart, EnterCall, EnterPersist, aside
<1>5. ASSUME NEW t \in Tasks, Returns(t) PROVE Accompanied'
  BY <1>5 DEF Returns, InstallReturns, StartReturns, StopReturns,
              RestopReturns, UninstallReturns, UpdateReturns, HookFails,
              HookApplies, HookEmpties, EmptyStopReturns, aside
<1>6. ASSUME NEW t \in Tasks,
             \/ BeginCall(t) \/ SaveSettings(t) \/ Detach(t) \/ Release(t)
             \/ ImportReturns(t) \/ WaitTimesOut(t)
      PROVE  Accompanied'
  BY <1>6 DEF BeginCall, SaveSettings, Detach, Release, ImportReturns,
              WaitTimesOut, aside
<1>7. ASSUME NEW t \in Tasks, TimeOut(t) PROVE Accompanied'
  <2>1. /\ cut' = cut \cup Interrupted(t)
        /\ threads' = IF task[t].calling THEN threads \cup {task[t].at}
                      ELSE threads
    BY <1>7 DEF TimeOut
  <2>2. task[t].calling => "call" \in cut'
    BY <2>1 DEF Interrupted
  <2> QED BY <2>1, <2>2
<1>8. ASSUME NEW a \in Calls, ThreadEnds(a) PROVE Accompanied'
  BY <1>8 DEF ThreadEnds
<1>9. CASE StoreServes \/ StoreFails \/ ProcessDies
  BY <1>9 DEF StoreServes, StoreFails, ProcessDies
<1> QED BY <1>1, <1>2, <1>3, <1>4, <1>5, <1>6, <1>7, <1>8, <1>9 DEF Next, Step

(* Whoever is in such a call holds the lock, so there is one at most.      *)
LEMMA OneCaller == Safe /\ Accompanied => LifecycleCallsSerialized
<1> SUFFICES ASSUME Safe, Accompanied, "call" \notin cut
             PROVE  Cardinality({t \in Tasks : Inside(t) /\ task[t].calling})
                      + Cardinality(threads) <= 1
  BY DEF LifecycleCallsSerialized
<1> DEFINE callers == {t \in Tasks : Inside(t) /\ task[t].calling}
<1>1. \A t \in callers : lock = t
  BY DEF Safe, IInv, Exclusive
<1>2. callers \subseteq {lock}
  BY <1>1
<1>3. IsFiniteSet({lock}) /\ Cardinality({lock}) = 1
  BY FS_Singleton
<1>4. Cardinality(callers) \in Nat /\ Cardinality(callers) <= 1
  BY <1>2, <1>3, FS_Subset, FS_CardinalityType
<1>5. threads = {} /\ Cardinality({}) = 0
  BY FS_EmptySet DEF Accompanied
<1> QED BY <1>4, <1>5

(* "Jobs are serialized per core": install, start, stop, apply, update and *)
(* uninstall never overlap in the driver of a core, whichever jobs,        *)
(* requests and shutdowns contend for it and whatever time-outs do to      *)
(* their waiting and saving, from a start of the agent until a time-out    *)
(* cuts such a call off.  What the API asks of the driver without the lock *)
(* is not covered, and may overlap any of them.                            *)
THEOREM OneCallAtATime == Spec => []LifecycleCallsSerialized
<1> QED BY OneCaller, InitAccompanied, NextAccompanied, Invariance, PTL
DEF Spec

---------------------------------------------------------------------------
(* Only the end of the agent makes good for what has been cut off.         *)
LEMMA CutGrows ==
    ASSUME [Next]_vars
    PROVE  Exit \/ cut \subseteq cut'
<1>1. CASE UNCHANGED vars
  BY <1>1 DEF vars
<1>2. CASE Boot \/ Serve \/ Shutdown \/ StoreServes \/ StoreFails \/ ProcessDies
  BY <1>2 DEF Boot, Serve, Shutdown, StoreServes, StoreFails, ProcessDies,
              aside
<1>3. CASE Request
  BY <1>3 DEF Request, SubmitJob, PutSettings, PutInbounds, PutIdentity, aside
<1>4. ASSUME NEW t \in Tasks, Enter(t) PROVE cut' = cut
  BY <1>4 DEF Enter, Refused, EnterInstall, EnterUninstall, EnterStart,
              EnterStop, EnterRestart, EnterCall, EnterPersist, aside
<1>5. ASSUME NEW t \in Tasks, Returns(t) PROVE cut' = cut
  BY <1>5 DEF Returns, InstallReturns, StartReturns, StopReturns,
              RestopReturns, UninstallReturns, UpdateReturns, HookFails,
              HookApplies, HookEmpties, EmptyStopReturns, aside
<1>6. ASSUME NEW t \in Tasks,
             \/ BeginCall(t) \/ SaveSettings(t) \/ Detach(t) \/ Release(t)
             \/ ImportReturns(t) \/ WaitTimesOut(t)
      PROVE  cut' = cut
  BY <1>6 DEF BeginCall, SaveSettings, Detach, Release, ImportReturns,
              WaitTimesOut, aside
<1>7. ASSUME NEW t \in Tasks, TimeOut(t) PROVE cut \subseteq cut'
  BY <1>7 DEF TimeOut
<1>8. ASSUME NEW a \in Calls, ThreadEnds(a) PROVE cut' = cut
  BY <1>8 DEF ThreadEnds
<1> QED BY <1>1, <1>2, <1>3, <1>4, <1>5, <1>6, <1>7, <1>8 DEF Next, Step

---------------------------------------------------------------------------
(* The record and the process.  What StateTellsProcess says at rest holds  *)
(* in the middle of every operation as well, except that a core which      *)
(* start_enabled() is about to start may be up already.  proc and died are *)
(* compared with values because the SMT solver takes them for terms.       *)
TellsProcess ==
    /\ st = "running" => proc = TRUE \/ died = TRUE
    /\ st = "stopped" => proc = FALSE \/ Rising

ProcessTold == "call" \notin cut => TellsProcess

LEMMA InitTold == Init => ProcessTold
  BY DEF Init, ProcessTold, TellsProcess

LEMMA ReturnsTell ==
    ASSUME Safe, TellsProcess, NEW t \in Tasks, Returns(t)
    PROVE  TellsProcess'
<1> USE DEF TellsProcess
<1>i. IInv
  BY DEF Safe
<1>r. ~Rising
  <2>1. task[t].at \in Calls
    BY <1>i, ReturnsAdvance
  <2> QED BY <2>1 DEF Rising, Safe, BootFits, Idle, Calls, Tasks
<1>f. task[t].at \in Calls => FitsAt(task[t].at, st) /\ phase # "down"
  BY <1>i, Holder DEF Body, Calls
<1>t. proc \in BOOLEAN /\ died \in BOOLEAN
  BY <1>i DEF IInv, TypeOK
<1>u. proc' \in BOOLEAN /\ died' \in BOOLEAN
  BY <1>i, ReturnsKeep DEF IInv, TypeOK
<1>1. CASE InstallReturns(t)
  BY <1>f, <1>r, <1>1
  DEF InstallReturns, InCall, SetState, FitsAt, Calls, aside
<1>2. CASE StartReturns(t)
  BY <1>f, <1>r, <1>2 DEF StartReturns, InCall, SetState, Calls
<1>3. CASE StopReturns(t)
  BY <1>f, <1>r, <1>3 DEF StopReturns, InCall, SetState, Calls, aside
<1>4. CASE RestopReturns(t)
  BY <1>f, <1>r, <1>4 DEF RestopReturns, InCall, SetState, FitsAt, Calls, aside
<1>5. CASE UninstallReturns(t)
  BY <1>f, <1>r, <1>t, <1>u, <1>5
  DEF UninstallReturns, InCall, SetState, FitsAt, Calls, aside
<1>6. CASE UpdateReturns(t)
  BY <1>f, <1>r, <1>6 DEF UpdateReturns, InCall, Calls, aside
<1>7. CASE HookFails(t)
  BY <1>f, <1>r, <1>t, <1>u, <1>7 DEF HookFails, InCall, SetState, Calls
<1>8. CASE HookApplies(t)
  BY <1>f, <1>r, <1>t, <1>u, <1>8 DEF HookApplies, InCall, SetState, Calls
<1>9. CASE HookEmpties(t)
  BY <1>f, <1>r, <1>t, <1>u, <1>9 DEF HookEmpties, InCall, SetState, Calls
<1>10. CASE EmptyStopReturns(t)
  BY <1>f, <1>r, <1>t, <1>u, <1>10
  DEF EmptyStopReturns, InCall, SetState, Calls
<1> QED BY <1>1, <1>2, <1>3, <1>4, <1>5, <1>6, <1>7, <1>8, <1>9, <1>10
        DEF Returns

LEMMA NextTold ==
    Safe /\ Accompanied /\ ProcessTold /\ [Next]_vars => ProcessTold'
<1> SUFFICES ASSUME Safe, Accompanied, ProcessTold, [Next]_vars,
                    "call" \notin cut', ~Exit
             PROVE  TellsProcess'
  <2>1. Exit => TellsProcess'
    BY DEF Exit, TellsProcess
  <2> QED BY <2>1 DEF ProcessTold
<1>c. "call" \notin cut
  BY CutGrows
<1>i. TellsProcess /\ IInv /\ BootFits
  BY <1>c DEF ProcessTold, Safe
<1>t. proc \in BOOLEAN /\ died \in BOOLEAN
  BY <1>i DEF IInv, TypeOK
<1> USE DEF TellsProcess
<1>1. CASE UNCHANGED vars
  BY <1>i, <1>1 DEF vars, Rising
<1>2. CASE Boot
  <2>1. st' # "running"
    BY <1>2 DEF Boot, Unfinished
  <2>2. st' = "stopped" => Rising'
    BY <1>2, <1>i DEF Boot, AutoStarted, Rising, IInv, TypeOK, Tasks, Task
  <2> QED BY <2>1, <2>2
<1>3. CASE Serve \/ Shutdown
  <2>1. ~Rising
    BY <1>3 DEF Serve, Shutdown, Rising, Idle
  <2> QED BY <1>i, <1>3, <2>1 DEF Serve, Shutdown, aside
<1>4. CASE Request
  <2>1. ~Rising /\ UNCHANGED <<st, proc, died>>
    BY <1>4 DEF Request, SubmitJob, PutSettings, PutInbounds, PutIdentity,
                Rising, aside
  <2> QED BY <1>i, <2>1
<1>5. ASSUME NEW t \in Tasks, Enter(t) PROVE TellsProcess'
  <2>0. proc' = proc /\ died' = died
    BY <1>5
    DEF Enter, Refused, EnterInstall, EnterUninstall, EnterStart, EnterStop,
        EnterRestart, EnterCall, EnterPersist, aside
  <2>1. CASE st' = st /\ ~Rising
    BY <1>i, <2>0, <2>1
  <2>2. CASE st' # st
    <3>1. st' \notin {"running", "stopped"}
      BY <1>5, <2>2
      DEF Enter, Refused, EnterInstall, EnterUninstall, EnterStart, EnterStop,
          EnterRestart, EnterCall, EnterPersist, SetState
    <3> QED BY <3>1
  <2>3. CASE Rising
    <3>1. t = "main" /\ task[t].op = "start" /\ st \in Startable
      BY <1>5, <1>i, <2>3, EnterAdvances DEF BootFits, Rising, Idle, Tasks
    <3>2. EnterStart(t)
      BY <1>5, <3>1
      DEF Enter, Refused, EnterInstall, EnterUninstall, EnterStop,
          EnterRestart, EnterCall, EnterPersist, AtLock, Starts, Stops
    <3> QED BY <3>2 DEF EnterStart, SetState
  <2> QED BY <2>1, <2>2, <2>3
<1>6. ASSUME NEW t \in Tasks, Returns(t) PROVE TellsProcess'
  BY <1>i, <1>6, ReturnsTell
<1>7. ASSUME NEW t \in Tasks,
             \/ BeginCall(t) \/ SaveSettings(t) \/ Detach(t) \/ Release(t)
             \/ ImportReturns(t)
      PROVE  TellsProcess'
  <2>1. proc' = proc /\ died' = died /\ (st' = st \/ st' = "absent")
    BY <1>7 DEF BeginCall, SaveSettings, Detach, Release, ImportReturns, aside
  <2>2. task[t].at # "lock"
    BY <1>7 DEF BeginCall, SaveSettings, Detach, Release, ImportReturns, Ready,
                InCall, Calls
  <2>3. phase' = phase /\ \A u \in Tasks \ {t} : task'[u] = task[u]
    BY <1>7, <1>i, StepMoves DEF Step
  <2>4. Rising => Rising'
    BY <2>2, <2>3 DEF Rising, Tasks
  <2> QED BY <1>i, <2>1, <2>4
<1>8. ASSUME NEW t \in Tasks, WaitTimesOut(t) \/ TimeOut(t)
      PROVE  TellsProcess'
  <2>1. /\ UNCHANGED <<st, proc, died, phase>> /\ t # "main"
        /\ task' = [task EXCEPT ![t] = IdleTask]
    BY <1>8 DEF WaitTimesOut, TimeOut, aside
  <2>2. Rising => Rising'
    BY <1>i, <2>1 DEF Rising, Tasks, IInv, TypeOK
  <2> QED BY <1>i, <2>1, <2>2
<1>9. ASSUME NEW a \in Calls, ThreadEnds(a) PROVE FALSE
  BY <1>c, <1>9 DEF ThreadEnds, Accompanied
<1>10. CASE StoreServes \/ StoreFails
  <2>1. Rising' <=> Rising
    BY <1>10, StoreBoots DEF Safe
  <2> QED BY <1>i, <1>10, <2>1 DEF StoreServes, StoreFails
<1>11. CASE ProcessDies
  BY <1>11 DEF ProcessDies
<1> QED BY <1>1, <1>2, <1>3, <1>4, <1>5, <1>6, <1>7, <1>8, <1>9, <1>10, <1>11
        DEF Next, Step

(* "running" means alive and "stopped" means gone, whatever start and stop *)
(* calls raise, whatever saves fail or are cut off and whenever the agent  *)
(* dies, from its start until a time-out leaves a thread behind that still *)
(* does something to the process.                                          *)
THEOREM RecordTellsProcess == Spec => []StateTellsProcess
<1>1. Safe /\ ProcessTold => StateTellsProcess
  BY DEF ProcessTold, TellsProcess, StateTellsProcess, Quiet, Rising, Safe,
         IInv, TypeOK
<1> QED BY <1>1, InitTold, NextTold, InitAccompanied, NextAccompanied,
           Invariance, PTL DEF Spec

---------------------------------------------------------------------------
(* The row on disk.  What will be in it when the queue has been served:    *)
(* the state of the last call ...                                          *)
LastState(q, r) == IF q = <<>> THEN r.state ELSE q[Len(q)].state

(* ... and the settings of the last call that has any, if no later one     *)
(* removes the row.                                                        *)
Keeps(c)  == c.settings = Keep /\ c.state # "absent"
Stores(c, d) == c.settings = d /\ c.state # "absent"
Written(q, r, d) ==
    \/ r.settings = d /\ \A i \in DOMAIN q : Keeps(q[i])
    \/ \E i \in DOMAIN q : Stores(q[i], d)
                           /\ \A j \in DOMAIN q : j > i => Keeps(q[j])

LEMMA AppendState ==
    ASSUME NEW q \in Seq(SaveCall), NEW c \in SaveCall, NEW r
    PROVE  LastState(Append(q, c), r) = c.state
  BY DEF LastState

LEMMA AppendKeeps ==
    ASSUME NEW q \in Seq(SaveCall), NEW c \in SaveCall, Keeps(c),
           NEW r, NEW d, Written(q, r, d)
    PROVE  Written(Append(q, c), r, d)
<1> DEFINE p == Append(q, c)
<1>1. /\ DOMAIN p = 1..(Len(q) + 1) /\ DOMAIN q = 1..Len(q)
      /\ p[Len(q) + 1] = c /\ \A i \in DOMAIN q : p[i] = q[i]
      /\ Len(q) \in Nat
  OBVIOUS
<1> HIDE DEF p
<1>2. CASE r.settings = d /\ \A i \in DOMAIN q : Keeps(q[i])
  <2>1. \A i \in DOMAIN p : Keeps(p[i])
    <3> TAKE i \in DOMAIN p
    <3>1. i \in DOMAIN q \/ i = Len(q) + 1
      BY <1>1
    <3> QED BY <1>1, <1>2, <3>1
  <2> QED BY <1>2, <2>1 DEF Written
<1>3. ASSUME NEW i \in DOMAIN q, Stores(q[i], d),
             \A j \in DOMAIN q : j > i => Keeps(q[j])
      PROVE  Written(p, r, d)
  <2>1. i \in DOMAIN p /\ Stores(p[i], d)
    BY <1>1, <1>3
  <2>2. \A j \in DOMAIN p : j > i => Keeps(p[j])
    <3> TAKE j \in DOMAIN p
    <3>1. j \in DOMAIN q \/ j = Len(q) + 1
      BY <1>1
    <3> QED BY <1>1, <1>3, <3>1
  <2> QED BY <2>1, <2>2 DEF Written
<1> QED BY <1>2, <1>3 DEF Written, p

LEMMA AppendStores ==
    ASSUME NEW q \in Seq(SaveCall), NEW c \in SaveCall, NEW d, Stores(c, d),
           NEW r
    PROVE  Written(Append(q, c), r, d)
<1> DEFINE p == Append(q, c)
<1>1. /\ DOMAIN p = 1..(Len(q) + 1) /\ p[Len(q) + 1] = c /\ Len(q) \in Nat
  OBVIOUS
<1> HIDE DEF p
<1>2. Len(q) + 1 \in DOMAIN p /\ Stores(p[Len(q) + 1], d)
  BY <1>1
<1>3. \A j \in DOMAIN p : ~(j > Len(q) + 1)
  BY <1>1
<1>4. Written(p, r, d)
  BY <1>2, <1>3 DEF Written
<1> QED BY <1>4 DEF p

(* The row after a call of the store.                                      *)
Served(c, r) ==
    IF c.state = "absent" THEN NoRow
    ELSE [state |-> c.state,
          settings |-> IF c.settings = Keep THEN r.settings ELSE c.settings]

LEMMA ServeState ==
    ASSUME NEW q \in Seq(SaveCall), q # <<>>, NEW r
    PROVE  LastState(Tail(q), Served(Head(q), r)) = LastState(q, r)
<1> DEFINE p == Tail(q)
<1>1. /\ p \in Seq(SaveCall) /\ Len(q) \in Nat \ {0} /\ Head(q) = q[1]
      /\ Len(p) = Len(q) - 1 /\ (Len(q) > 1 => p[Len(q) - 1] = q[Len(q)])
  OBVIOUS
<1>2. Served(Head(q), r).state = Head(q).state
  BY DEF Served, NoRow
<1> HIDE DEF p
<1>3. p = <<>> <=> Len(p) = 0
  BY <1>1, EmptySeq
<1>4. CASE Len(q) = 1
  BY <1>1, <1>2, <1>3, <1>4 DEF LastState, p
<1>5. CASE Len(q) > 1
  BY <1>1, <1>3, <1>5 DEF LastState, p
<1> QED BY <1>1, <1>4, <1>5

LEMMA ServeWritten ==
    ASSUME NEW q \in Seq(SaveCall), q # <<>>, NEW r, NEW d, d # Keep,
           Written(q, r, d)
    PROVE  Written(Tail(q), Served(Head(q), r), d)
<1> DEFINE p == Tail(q)
<1>1. /\ Len(q) \in Nat \ {0} /\ DOMAIN q = 1..Len(q)
      /\ DOMAIN p = 1..(Len(q) - 1) /\ Head(q) = q[1]
      /\ \A i \in DOMAIN p : p[i] = q[i + 1] /\ i + 1 \in DOMAIN q
  OBVIOUS
<1> HIDE DEF p
<1>2. CASE r.settings = d /\ \A i \in DOMAIN q : Keeps(q[i])
  <2>1. Keeps(Head(q))
    BY <1>1, <1>2
  <2>2. Served(Head(q), r).settings = d
    BY <1>2, <2>1 DEF Keeps, Served
  <2> QED BY <1>1, <1>2, <2>2 DEF Written, p
<1>3. ASSUME NEW i \in DOMAIN q, Stores(q[i], d),
             \A j \in DOMAIN q : j > i => Keeps(q[j])
      PROVE  Written(p, Served(Head(q), r), d)
  <2>1. CASE i = 1
    <3>1. Served(Head(q), r).settings = d
      BY <1>1, <1>3, <2>1 DEF Stores, Served
    <3>2. \A j \in DOMAIN p : Keeps(p[j])
      <4> TAKE j \in DOMAIN p
      <4>1. j + 1 \in DOMAIN q /\ j + 1 > i /\ p[j] = q[j + 1]
        BY <1>1, <2>1
      <4> QED BY <1>3, <4>1
    <3> QED BY <3>1, <3>2 DEF Written
  <2>2. CASE i # 1
    <3>1. i - 1 \in DOMAIN p /\ p[i - 1] = q[i]
      BY <1>1, <2>2
    <3>2. \A j \in DOMAIN p : j > i - 1 => Keeps(p[j])
      <4> TAKE j \in DOMAIN p
      <4>1. j + 1 \in DOMAIN q /\ p[j] = q[j + 1] /\ (j > i - 1 => j + 1 > i)
        BY <1>1
      <4> QED BY <1>3, <4>1
    <3>3. \E k \in DOMAIN p : Stores(p[k], d)
                              /\ \A j \in DOMAIN p : j > k => Keeps(p[j])
      BY <1>3, <3>1, <3>2
    <3> QED BY <3>3 DEF Written
  <2> QED BY <2>1, <2>2
<1> QED BY <1>2, <1>3 DEF Written, p

(* A call that fails loses settings only if no other carries any.          *)
OnlyFirstStores(q) == \A i \in DOMAIN q : q[i].settings # Keep <=> i = 1

LEMMA FailState ==
    ASSUME NEW q \in Seq(SaveCall), q # <<>>, Tail(q) # <<>>, NEW r
    PROVE  LastState(Tail(q), r) = LastState(q, r)
<1> DEFINE p == Tail(q)
<1>1. /\ p \in Seq(SaveCall) /\ Len(q) \in Nat \ {0}
      /\ Len(p) = Len(q) - 1 /\ (Len(q) > 1 => p[Len(q) - 1] = q[Len(q)])
  OBVIOUS
<1> HIDE DEF p
<1>2. p # <<>> => Len(q) > 1
  BY <1>1, EmptySeq
<1> QED BY <1>1, <1>2 DEF LastState, p

LEMMA FailWritten ==
    ASSUME NEW q \in Seq(SaveCall), q # <<>>, NEW r, NEW d, d # Keep,
           Written(q, r, d), ~OnlyFirstStores(q)
    PROVE  Written(Tail(q), r, d)
<1> DEFINE p == Tail(q)
<1>1. /\ Len(q) \in Nat \ {0} /\ DOMAIN q = 1..Len(q)
      /\ DOMAIN p = 1..(Len(q) - 1)
      /\ \A i \in DOMAIN p : p[i] = q[i + 1] /\ i + 1 \in DOMAIN q
  OBVIOUS
<1> HIDE DEF p
<1>2. CASE r.settings = d /\ \A i \in DOMAIN q : Keeps(q[i])
  BY <1>1, <1>2 DEF Written, p
<1>3. ASSUME NEW i \in DOMAIN q, Stores(q[i], d),
             \A j \in DOMAIN q : j > i => Keeps(q[j])
      PROVE  Written(p, r, d)
  <2>1. i # 1
    <3>1. ASSUME i = 1 PROVE OnlyFirstStores(q)
      <4>1. ASSUME NEW j \in DOMAIN q PROVE q[j].settings # Keep <=> j = 1
        <5>1. CASE j = 1
          BY <1>3, <3>1, <5>1 DEF Stores
        <5>2. CASE j # 1
          BY <1>1, <1>3, <3>1, <5>2 DEF Keeps
        <5> QED BY <5>1, <5>2
      <4> QED BY <4>1 DEF OnlyFirstStores
    <3> QED BY <3>1
  <2>2. i - 1 \in DOMAIN p /\ p[i - 1] = q[i]
    BY <1>1, <2>1
  <2>3. \A j \in DOMAIN p : j > i - 1 => Keeps(p[j])
    <3> TAKE j \in DOMAIN p
    <3>1. j + 1 \in DOMAIN q /\ p[j] = q[j + 1] /\ (j > i - 1 => j + 1 > i)
      BY <1>1
    <3> QED BY <1>3, <3>1
  <2>4. \E k \in DOMAIN p : Stores(p[k], d)
                            /\ \A j \in DOMAIN p : j > k => Keeps(p[j])
    BY <1>3, <2>2, <2>3
  <2> QED BY <2>4 DEF Written
<1> QED BY <1>2, <1>3 DEF Written, p

(* A new driver has a state that only the end of its install saves.        *)
Installing == lock # Free /\ task[lock].at = "install"

(* The queue and the row owe memory nothing but what is on its way, except *)
(* what the history variables confess.                                     *)
DiskFits ==
    drv # NoDriver =>
        /\ \/ LastState(queue, row) = st \/ Rising \/ Installing
           \/ queue = <<>> /\ refused = TRUE
        /\ Written(queue, row, drv) \/ unsaved = TRUE

Recorded ==
    "operation" \notin cut =>
        DiskFits /\ (phase = "down" => queue = <<>>)

(* How a step can be good to DiskFits: it saves a new state ...            *)
LEMMA SavesState ==
    ASSUME IInv, DiskFits, drv # NoDriver,
           NEW t \in Tasks, NEW s \in CoreState, NEW a \in Body, NEW ok \in BOOLEAN,
           SetState(t, s, a, ok), lock' = t, row' = row,
           (drv' = drv /\ unsaved' = unsaved) \/ unsaved' = TRUE
    PROVE  DiskFits'
<1>q. queue \in Seq(SaveCall)
  BY DEF IInv, TypeOK
<1> DEFINE c == [task |-> t, state |-> s, settings |-> Keep]
<1>1. queue' = Append(queue, c) /\ st' = s
  BY DEF SetState, Save
<1>2. c \in SaveCall /\ c.state = s /\ Keeps(c)
  BY DEF SaveCall, Keeps, CoreState
<1>3. LastState(queue', row') = st'
  BY <1>q, <1>1, <1>2, AppendState
<1>4. CASE unsaved' = TRUE
  BY <1>3, <1>4 DEF DiskFits
<1>5. CASE drv' = drv /\ unsaved' = unsaved
  <2>1. Written(queue, row, drv) \/ unsaved = TRUE
    BY DEF DiskFits
  <2>2. Written(queue, row, drv) => Written(queue', row', drv')
    BY <1>q, <1>1, <1>2, <1>5, AppendKeeps
  <2> QED BY <1>3, <1>5, <2>1, <2>2 DEF DiskFits
<1> QED BY <1>4, <1>5

(* ... or the settings of the driver ...                                   *)
LEMMA SavesSettings ==
    ASSUME IInv, NEW t \in Tasks, drv' \in Value, st \in CoreState, st' = st,
           row' = row,
           queue' = Append(queue, [task |-> t, state |-> st, settings |-> drv'])
    PROVE  DiskFits'
<1>q. queue \in Seq(SaveCall)
  BY DEF IInv, TypeOK
<1> DEFINE c == [task |-> t, state |-> st, settings |-> drv']
<1>1. c \in SaveCall /\ c.state = st /\ Stores(c, drv')
  BY DEF SaveCall, Stores, CoreState
<1>2. LastState(queue', row') = st'
  BY <1>q, <1>1, AppendState
<1>3. Written(queue', row', drv')
  BY <1>q, <1>1, AppendStores
<1> QED BY <1>2, <1>3 DEF DiskFits

(* ... or leaves state, queue and row alone.                               *)
LEMMA SavesNothing ==
    ASSUME DiskFits, UNCHANGED <<st, queue, row, refused>>,
           drv' = NoDriver \/ drv # NoDriver,
           (drv' = drv /\ unsaved' = unsaved) \/ unsaved' = TRUE,
           Rising => Rising',
           Installing => Installing'
    PROVE  DiskFits'
  BY DEF DiskFits

LEMMA EnterRecords ==
    ASSUME IInv, BootFits, DiskFits, NEW t \in Tasks, Enter(t)
    PROVE  DiskFits'
<1> USE CoreAssumption
<1>0. task[t].at = "lock" /\ lock = Free
  BY DEF Enter, Refused, EnterInstall, EnterUninstall, EnterStart, EnterStop,
         EnterRestart, EnterCall, EnterPersist, AtLock
<1>h. ~Installing
  BY <1>0 DEF Installing
<1>r. Rising => t = "main" /\ task[t].op = "start" /\ st \in Startable
  BY <1>0 DEF Rising, BootFits, Idle, Tasks
<1>t. /\ drv \in Value \cup {NoDriver} /\ st \in CoreState \cup {"absent"}
      /\ drv = NoDriver <=> st = "absent"
  BY DEF IInv, TypeOK, Shape, Attached
<1>1. CASE Refused(t)
  <2>1. ~Rising
    BY <1>r, <1>1 DEF Refused, Starts, Stops
  <2> QED BY <1>h, <1>1, <2>1, SavesNothing DEF Refused, aside
<1>2. CASE EnterInstall(t)
  <2>1. Installing'
    BY <1>2, GotoMoves
    DEF EnterInstall, IInv, Moved, Installing, Body, Calls, Tasks, Free
  <2>2. unsaved' = TRUE
    BY <1>2 DEF EnterInstall
  <2> QED BY <2>1, <2>2 DEF DiskFits
<1>3. CASE (EnterUninstall(t) /\ st # "running") \/ EnterCall(t)
  <2>1. ~Rising /\ UNCHANGED <<drv, st, queue, row, unsaved, refused>>
    BY <1>r, <1>3 DEF EnterUninstall, EnterCall, AtLock, aside
  <2> QED BY <1>h, <2>1, SavesNothing
<1>4. CASE EnterUninstall(t) /\ st = "running"
  <2>1. SetState(t, "stopping", "stop", TRUE) /\ lock' = t /\ drv # NoDriver
        /\ UNCHANGED <<drv, row, unsaved>>
    BY <1>4 DEF EnterUninstall, aside
  <2> QED BY <2>1, SavesState DEF CoreState, Body, Calls
<1>5. CASE EnterStart(t)
  <2>1. SetState(t, "starting", "start", TRUE) /\ lock' = t /\ drv # NoDriver
        /\ UNCHANGED <<drv, row, unsaved>>
    BY <1>t, <1>5 DEF EnterStart, Startable, aside
  <2> QED BY <2>1, SavesState DEF CoreState, Body, Calls
<1>6. CASE EnterStop(t)
  <2>1. SetState(t, "stopping", "stop", TRUE) /\ lock' = t /\ drv # NoDriver
        /\ UNCHANGED <<drv, row, unsaved>>
    BY <1>t, <1>6 DEF EnterStop, Stoppable, aside
  <2> QED BY <2>1, SavesState DEF CoreState, Body, Calls
<1>7. CASE EnterRestart(t)
  <2>1. SetState(t, "stopping", "restop", TRUE) /\ lock' = t /\ drv # NoDriver
        /\ UNCHANGED <<drv, row, unsaved>>
    BY <1>t, <1>7 DEF EnterRestart, aside
  <2> QED BY <2>1, SavesState DEF CoreState, Body, Calls
<1>8. CASE EnterPersist(t)
  BY <1>t, <1>8, SavesSettings DEF EnterPersist, Save
<1> QED BY <1>1, <1>2, <1>3, <1>4, <1>5, <1>6, <1>7, <1>8 DEF Enter

LEMMA ReturnsRecord ==
    ASSUME IInv, BootFits, DiskFits, NEW t \in Tasks, Returns(t)
    PROVE  DiskFits'
<1>0. task[t].at \in Calls
  BY DEF Returns, InstallReturns, StartReturns, StopReturns, RestopReturns,
         UninstallReturns, UpdateReturns, HookFails, HookApplies, HookEmpties,
         EmptyStopReturns, InCall, Calls
<1>h. lock = t /\ ~Idle(t) /\ FitsAt(task[t].at, st)
  BY <1>0, Holder DEF Body, Calls
<1>r. ~Rising
  BY <1>0, <1>h DEF Rising, BootFits, Idle, Calls, Tasks
<1>d. drv # NoDriver
  BY <1>0, <1>h DEF FitsAt, Calls, IInv, Shape, Attached
<1>i. task[t].at # "install" => ~Installing
  BY <1>0, <1>h DEF Installing, Calls
<1>u. unsaved \in BOOLEAN /\ unsaved' \in BOOLEAN
  BY ReturnsKeep DEF IInv, TypeOK
<1>l. lock' = lock /\ row' = row
  <2>1. CASE InstallReturns(t) \/ StopReturns(t) \/ RestopReturns(t)
    BY <2>1 DEF InstallReturns, StopReturns, RestopReturns
  <2>2. CASE UninstallReturns(t) \/ UpdateReturns(t) \/ StartReturns(t)
    BY <2>2 DEF UninstallReturns, UpdateReturns, StartReturns
  <2>3. CASE HookFails(t) \/ HookApplies(t)
    BY <2>3 DEF HookFails, HookApplies
  <2>4. CASE HookEmpties(t) \/ EmptyStopReturns(t)
    BY <2>4 DEF HookEmpties, EmptyStopReturns
  <2> QED BY <2>1, <2>2, <2>3, <2>4 DEF Returns
<1>1. CASE InstallReturns(t)
  <2>1. CASE SetState(t, "installed", "settings", TRUE) /\ UNCHANGED drv
    BY <1>h, <1>d, <1>l, <1>1, <2>1, SavesState
    DEF InstallReturns, CoreState, Body, aside
  <2>2. CASE drv' = NoDriver
    BY <2>2 DEF DiskFits
  <2> QED BY <1>1, <2>1, <2>2 DEF InstallReturns
<1>2. CASE ~InstallReturns(t)
  <2>1. task[t].at # "install"
    BY <1>2 DEF Returns, StartReturns, StopReturns, RestopReturns,
         UninstallReturns, UpdateReturns, HookFails, HookApplies, HookEmpties,
         EmptyStopReturns, InCall
  <2>2. (drv' = drv /\ unsaved' = unsaved) \/ unsaved' = TRUE
    <3>1. CASE HookFails(t) \/ HookApplies(t) \/ HookEmpties(t)
      <4>1. unsaved' = (unsaved \/ drv' # drv)
        BY <3>1 DEF HookFails, HookApplies, HookEmpties
      <4> QED BY <1>u, <4>1
    <3>2. CASE ~(HookFails(t) \/ HookApplies(t) \/ HookEmpties(t))
      BY <1>2, <3>2 DEF Returns, StartReturns, StopReturns, RestopReturns,
         UninstallReturns, UpdateReturns, EmptyStopReturns, aside
    <3> QED BY <3>1, <3>2
  <2>6. refused' = refused
    <3>1. CASE StartReturns(t) \/ StopReturns(t) \/ RestopReturns(t)
      BY <3>1 DEF StartReturns, StopReturns, RestopReturns, aside
    <3>2. CASE UninstallReturns(t) \/ UpdateReturns(t)
      BY <3>2 DEF UninstallReturns, UpdateReturns, aside
    <3>3. CASE HookFails(t) \/ HookApplies(t)
      BY <3>3 DEF HookFails, HookApplies
    <3>4. CASE HookEmpties(t) \/ EmptyStopReturns(t)
      BY <3>4 DEF HookEmpties, EmptyStopReturns
    <3> QED BY <1>2, <3>1, <3>2, <3>3, <3>4 DEF Returns
  <2>3. \/ UNCHANGED <<st, queue>>
        \/ \E s \in CoreState, a \in Body, ok \in BOOLEAN : SetState(t, s, a, ok)
    <3>1. CASE StartReturns(t) \/ StopReturns(t) \/ RestopReturns(t)
      BY <3>1
      DEF StartReturns, StopReturns, RestopReturns, CoreState, Body, Calls
    <3>2. CASE UninstallReturns(t) \/ UpdateReturns(t)
      BY <3>2 DEF UninstallReturns, UpdateReturns, CoreState, Body, Calls
    <3>3. CASE HookFails(t) \/ HookApplies(t)
      BY <3>3 DEF HookFails, HookApplies, CoreState, Body, Calls
    <3>4. CASE HookEmpties(t) \/ EmptyStopReturns(t)
      BY <3>4 DEF HookEmpties, EmptyStopReturns, CoreState, Body, Calls
    <3> QED BY <1>2, <3>1, <3>2, <3>3, <3>4 DEF Returns
  <2>4. CASE UNCHANGED <<st, queue>>
    BY <1>d, <1>i, <1>l, <1>r, <2>1, <2>2, <2>4, <2>6, SavesNothing
  <2>5. CASE \E s \in CoreState, a \in Body, ok \in BOOLEAN : SetState(t, s, a, ok)
    BY <1>d, <1>h, <1>l, <2>2, <2>5, SavesState
  <2> QED BY <2>3, <2>4, <2>5
<1> QED BY <1>1, <1>2

LEMMA StepRecords ==
    ASSUME IInv, BootFits, DiskFits, NEW t \in Tasks, Step(t)
    PROVE  DiskFits'
<1>1. CASE Enter(t)
  BY <1>1, EnterRecords
<1>2. CASE Returns(t)
  BY <1>2, ReturnsRecord
<1>m. /\ ~Idle(t) /\ phase' = phase
      /\ \A u \in Tasks \ {t} : task'[u] = task[u]
  BY StepMoves
<1>3. CASE BeginCall(t)
  <2>1. task'[t].at = task[t].at /\ task[t].at \in Calls
    BY <1>3 DEF BeginCall, Ready, IInv, TypeOK, Task
  <2>2. Installing' <=> Installing
    BY <1>m, <1>3, <2>1 DEF BeginCall, Installing, IInv, TypeOK, Tasks, Free
  <2>3. Rising' <=> Rising
    BY <1>m, <2>1 DEF Rising, Tasks
  <2> QED BY <1>3, <2>2, <2>3, SavesNothing DEF BeginCall, aside, DiskFits
<1>4. CASE SaveSettings(t)
  <2>1. FitsAt("settings", st)
    BY <1>4, Holder DEF SaveSettings, Ready, Body
  <2>2. drv \in Value /\ st \in CoreState
    BY <2>1 DEF FitsAt, IInv, TypeOK, Shape, Attached
  <2> QED BY <1>4, <2>2, SavesSettings DEF SaveSettings, Save
<1>5. CASE Detach(t)
  BY <1>5 DEF Detach, DiskFits
<1>6. CASE Release(t)
  <2>1. task[t].at = "release"
    BY <1>6 DEF Release, Ready
  <2>2. lock' = IF lock = t THEN Free ELSE lock
    BY <1>6 DEF Release
  <2>3. Installing => Installing'
    BY <1>m, <2>1, <2>2 DEF Installing, IInv, TypeOK, Tasks, Free
  <2>4. Rising => Rising'
    BY <1>m, <2>1 DEF Rising, BootFits, Idle, Tasks
  <2> QED BY <1>6, <2>3, <2>4, SavesNothing DEF Release, aside, DiskFits
<1>7. CASE ImportReturns(t)
  <2>1. task[t].at = "import" /\ lock' = lock
    BY <1>7 DEF ImportReturns, InCall
  <2>2. Installing => Installing'
    BY <1>m, <2>1 DEF Installing, IInv, TypeOK, Tasks, Free
  <2>3. Rising => Rising'
    BY <1>m, <2>1 DEF Rising, Tasks
  <2> QED BY <1>7, <2>2, <2>3, SavesNothing DEF ImportReturns, aside, DiskFits
<1> QED BY <1>1, <1>2, <1>3, <1>4, <1>5, <1>6, <1>7 DEF Step

(* Requests find nobody at the lock who is idle.                           *)
LEMMA RequestRecords ==
    ASSUME IInv, DiskFits, Request
    PROVE  DiskFits' /\ phase' # "down"
<1> USE CoreAssumption
<1>0. phase = "serving" /\ phase' = phase
  BY DEF Request, SubmitJob, PutSettings, PutInbounds, PutIdentity
<1>1. ~Rising /\ phase' # "down"
  BY <1>0 DEF Rising
<1>t. /\ drv \in Value \cup {NoDriver} /\ st \in CoreState \cup {"absent"}
      /\ drv = NoDriver <=> st = "absent"
  BY DEF IInv, TypeOK, Shape, Attached
<1>h. ASSUME NEW t \in Tasks, Idle(t), lock' = lock,
             \A u \in Tasks \ {t} : task'[u] = task[u]
      PROVE  Installing => Installing'
  BY <1>h DEF Installing, Idle, IInv, TypeOK, Tasks, Free
<1>2. CASE \E o \in JobOps, s \in Value : SubmitJob(o, s)
  <2>1. Idle("job") /\ UNCHANGED <<drv, st, queue, row, unsaved, refused, lock>>
        /\ \A u \in Tasks \ {"job"} : task'[u] = task[u]
    BY <1>2 DEF SubmitJob, IInv, TypeOK, Tasks, aside
  <2>2. "job" \in Tasks
    BY DEF Tasks
  <2> QED BY <1>1, <1>h, <2>1, <2>2, SavesNothing DEF DiskFits
<1>3. CASE \E s \in Settings : PutInbounds(s)
  <2>1. Idle("api") /\ UNCHANGED <<drv, st, queue, row, unsaved, refused, lock>>
        /\ \A u \in Tasks \ {"api"} : task'[u] = task[u]
    BY <1>3 DEF PutInbounds, IInv, TypeOK, Tasks, aside
  <2>2. "api" \in Tasks
    BY DEF Tasks
  <2> QED BY <1>1, <1>h, <2>1, <2>2, SavesNothing DEF DiskFits
<1>4. CASE \E s \in Settings : PutIdentity(s)
  <2>1. Idle("api") /\ UNCHANGED <<st, queue, row, refused, lock>>
        /\ drv # NoDriver /\ \A u \in Tasks \ {"api"} : task'[u] = task[u]
    BY <1>4 DEF PutIdentity, IInv, TypeOK, Tasks
  <2>2. (drv' = drv /\ unsaved' = unsaved) \/ unsaved' = TRUE
    <3>1. unsaved' = (unsaved \/ drv' # drv)
      BY <1>4 DEF PutIdentity
    <3>2. unsaved \in BOOLEAN
      BY DEF IInv, TypeOK
    <3> QED BY <3>1, <3>2
  <2>3. "api" \in Tasks
    BY DEF Tasks
  <2> QED BY <1>1, <1>h, <2>1, <2>2, <2>3, SavesNothing
<1>5. ASSUME NEW s \in Settings, PutSettings(s) PROVE DiskFits'
  <2>1. "api" \in Tasks /\ s \in Value
    BY DEF Tasks, Value
  <2>2. st \in CoreState
    BY <1>t, <1>5 DEF PutSettings
  <2> QED BY <1>5, <2>1, <2>2, SavesSettings DEF PutSettings
<1> QED BY <1>0, <1>1, <1>2, <1>3, <1>4, <1>5 DEF Request

(* A call of the store that fails leaves the row, and with it the state of *)
(* the last call, where they were.                                         *)
LEMMA StoreRecords ==
    ASSUME Safe, DiskFits, StoreServes \/ StoreFails
    PROVE  DiskFits'
<1> DEFINE c == Head(queue)
<1>1. /\ queue \in Seq(SaveCall) /\ queue # <<>> /\ queue' = Tail(queue)
      /\ UNCHANGED <<drv, st, lock, phase>>
  BY DEF StoreServes, StoreFails, Safe, IInv, TypeOK
<1>2. Rising' <=> Rising
  BY StoreBoots DEF Safe
<1>3. Installing => Installing'
  <2>1. c.task \in Tasks \cup {"gone"}
    <3>1. c \in SaveCall
      BY <1>1
    <3> QED BY <3>1 DEF SaveCall
  <2>2. c.task # "gone" => task[c.task].at # "install"
    BY <1>1 DEF Safe, Queued, Saves
  <2>3. \A u \in Tasks : u # c.task => task'[u] = task[u]
    <3>1. \/ task' = task
          \/ \E f : c.task # "gone" /\ task' = [task EXCEPT ![c.task] = f]
      <4>1. CASE StoreServes
        BY <4>1 DEF StoreServes
      <4>2. CASE StoreFails
        BY <4>2 DEF StoreFails
      <4> QED BY <4>1, <4>2
    <3> HIDE DEF c
    <3> QED BY <2>1, <3>1 DEF Safe, IInv, TypeOK
  <2> HIDE DEF c
  <2>4. lock # Free => lock \in Tasks /\ lock # "gone"
    BY DEF Safe, IInv, TypeOK, Tasks
  <2> QED BY <1>1, <2>2, <2>3, <2>4 DEF Installing
<1>4. CASE StoreServes
  <2>1. row' = Served(c, row) /\ unsaved' = unsaved
    BY <1>4 DEF StoreServes, Served
  <2>2. LastState(queue', row') = LastState(queue, row)
    BY <1>1, <2>1, ServeState
  <2>3. drv # NoDriver /\ Written(queue, row, drv) => Written(queue', row', drv')
    <3>1. drv # NoDriver => drv # Keep
      BY CoreAssumption DEF Safe, IInv, TypeOK, Value
    <3> QED BY <1>1, <2>1, <3>1, ServeWritten
  <2> HIDE DEF c
  <2> QED BY <1>1, <1>2, <1>3, <2>1, <2>2, <2>3 DEF DiskFits
<1>5. CASE StoreFails
  <2>1. row' = row /\ refused' = TRUE
        /\ unsaved' = (unsaved \/ OnlyFirstStores(queue))
    BY <1>5 DEF StoreFails, OnlyFirstStores
  <2>2. queue' # <<>> => LastState(queue', row') = LastState(queue, row)
    BY <1>1, <2>1, FailState
  <2>3. drv # NoDriver /\ Written(queue, row, drv) =>
            Written(queue', row', drv') \/ unsaved' = TRUE
    <3>1. drv # NoDriver => drv # Keep
      BY CoreAssumption DEF Safe, IInv, TypeOK, Value
    <3>2. CASE OnlyFirstStores(queue)
      BY <2>1, <3>2
    <3>3. CASE ~OnlyFirstStores(queue)
      BY <1>1, <2>1, <3>1, <3>3, FailWritten
    <3> QED BY <3>2, <3>3
  <2>4. unsaved = TRUE => unsaved' = TRUE
    BY <2>1
  <2> QED BY <1>1, <1>2, <1>3, <2>1, <2>2, <2>3, <2>4 DEF DiskFits
<1> QED BY <1>4, <1>5

LEMMA InitRecorded == Init => Recorded
  BY DEF Init, Recorded, DiskFits

LEMMA NextRecorded ==
    Safe /\ Recorded /\ [Next]_vars => Recorded'
<1> SUFFICES ASSUME Safe, Recorded, [Next]_vars, "operation" \notin cut', ~Exit
             PROVE  DiskFits' /\ (phase = "down" => queue = <<>>)'
  <2>1. Exit => DiskFits' /\ (phase = "down" => queue = <<>>)'
    BY DEF Exit, DiskFits
  <2> QED BY <2>1 DEF Recorded
<1>c. "operation" \notin cut
  BY CutGrows
<1>i. /\ IInv /\ BootFits /\ DiskFits
      /\ phase = "down" => queue = <<>>
  BY <1>c DEF Recorded, Safe
<1>1. CASE UNCHANGED vars
  BY <1>i, <1>1 DEF vars, DiskFits, Rising, Installing
<1>2. CASE Boot
  <2>1. queue' = <<>> /\ lock' = lock /\ row' = row /\ phase' = "booting"
    BY <1>i, <1>2 DEF Boot
  <2>2. drv' # NoDriver => row.settings = drv'
    BY <1>2 DEF Boot
  <2>3. CASE st' \in AutoStarted
    <3>1. task'["main"].at = "lock"
      BY <1>2, <1>i, <2>3 DEF Boot, IInv, TypeOK, Tasks, Task
    <3>2. Rising'
      BY <2>1, <3>1 DEF Rising
    <3> QED BY <2>1, <2>2, <3>2 DEF DiskFits, Written
  <2>4. CASE st' \notin AutoStarted
    <3>1. task' = task /\ st' = row.state
      BY <1>2, <2>4 DEF Boot, AutoStarted
    <3> QED BY <2>1, <2>2, <3>1 DEF DiskFits, Written, LastState
  <2> QED BY <2>3, <2>4
<1>3. CASE Serve
  <2>1. ~Rising
    BY <1>3 DEF Serve, Rising, Idle
  <2> QED BY <1>i, <1>3, <2>1
          DEF Serve, aside, DiskFits, Rising, Installing
<1>4. CASE Shutdown
  <2>1. ~Rising /\ Idle("main") /\ phase' = "stopping"
    BY <1>4, <1>i DEF Shutdown, Rising, IInv, Shape, PhaseFits
  <2>2. UNCHANGED <<drv, st, queue, row, unsaved, refused, lock>>
    BY <1>4 DEF Shutdown, aside
  <2>3. \A u \in Tasks \ {"main"} : task'[u] = task[u]
    BY <1>4, <1>i DEF Shutdown, IInv, TypeOK
  <2>4. Installing => Installing'
    BY <1>i, <2>1, <2>2, <2>3
    DEF Installing, Idle, IInv, TypeOK, Tasks, Free
  <2> QED BY <1>i, <2>1, <2>2, <2>4, SavesNothing DEF DiskFits
<1>5. ASSUME NEW t \in Tasks, WaitTimesOut(t)
      PROVE  DiskFits' /\ (phase = "down" => queue = <<>>)'
  <2>1. /\ task[t].at = "lock" /\ t # "main"
        /\ task' = [task EXCEPT ![t] = IdleTask]
        /\ UNCHANGED <<drv, st, row, queue, lock, phase, unsaved, refused>>
    BY <1>5 DEF WaitTimesOut, aside
  <2>2. \A u \in Tasks \ {t} : task'[u] = task[u]
    BY <1>i, <2>1 DEF IInv, TypeOK
  <2>3. lock # t
    BY <1>i, <2>1 DEF IInv, Exclusive, Inside
  <2>4. Rising => Rising'
    BY <2>1, <2>2 DEF Rising, Tasks
  <2>5. Installing => Installing'
    BY <1>i, <2>1, <2>2, <2>3 DEF Installing, IInv, TypeOK
  <2> QED BY <1>i, <2>1, <2>4, <2>5, SavesNothing DEF DiskFits
<1>6. ASSUME NEW t \in Tasks, TimeOut(t) PROVE FALSE
  BY <1>6 DEF TimeOut, Interrupted
<1>7. CASE Request
  BY <1>i, <1>7, RequestRecords
<1>8. ASSUME NEW t \in Tasks, Step(t) PROVE DiskFits' /\ phase' # "down"
  BY <1>i, <1>8, StepRecords, StepMoves
<1>9. CASE ProcessDies \/ \E a \in Calls : ThreadEnds(a)
  BY <1>i, <1>9
  DEF ProcessDies, ThreadEnds, DiskFits, Rising, Installing
<1>10. CASE StoreServes \/ StoreFails
  <2>1. DiskFits'
    BY <1>i, <1>10, StoreRecords
  <2>2. queue # <<>> /\ phase' = phase
    BY <1>10 DEF StoreServes, StoreFails
  <2> QED BY <1>i, <2>1, <2>2
<1> QED BY <1>1, <1>2, <1>3, <1>4, <1>5, <1>6, <1>7, <1>8, <1>9, <1>10
        DEF Next

(* At rest the row is the memory: whatever operations, driver failures,    *)
(* saves beside the lock, crashes and time-outs of waiting tasks have come *)
(* before, from a start of the agent until a time-out cuts an operation    *)
(* off in the middle.  A failed save shows in the state only while it is   *)
(* the last, and in the settings only while none newer have been stored.   *)
THEOREM RowIsMemory == Spec => []MemoryOnDisk
<1>1. Safe /\ Recorded => MemoryOnDisk
  <2> SUFFICES ASSUME Safe, Recorded, "operation" \notin cut, Quiet,
                      drv # NoDriver
               PROVE  /\ row.state = st \/ refused
                      /\ row.settings = drv \/ unsaved
    BY DEF MemoryOnDisk
  <2>1. DiskFits /\ queue = <<>> /\ ~Rising
    BY DEF Recorded, Quiet, Rising
  <2>2. lock = Free
    BY DEF Quiet, Safe, IInv, TypeOK, Exclusive, Inside, Idle
  <2>3. Written(queue, row, drv) => row.settings = drv
    BY <2>1 DEF Written
  <2> QED BY <2>1, <2>2, <2>3 DEF DiskFits, Installing, LastState
<1> QED BY <1>1, InitRecorded, NextRecorded, Invariance, PTL DEF Spec

---------------------------------------------------------------------------
(* The refinement of CoreLifecycle: the moves of the state, by the place   *)
(* of the operation that makes them.                                       *)
Moves == [Lifecycle!Next]_st

LEMMA EnterMoves == ASSUME IInv, NEW t \in Tasks, Enter(t) PROVE Moves
<1>1. CASE EnterInstall(t)
  BY <1>1 DEF EnterInstall, IInv, Shape, Attached, Moves, Lifecycle!Next,
              Lifecycle!Attach
<1>2. CASE EnterUninstall(t) \/ EnterStop(t) \/ EnterRestart(t)
  BY <1>2 DEF EnterUninstall, EnterStop, EnterRestart, SetState, Stoppable,
              Moves, Lifecycle!Next, Lifecycle!BeginStop
<1>3. CASE EnterStart(t)
  BY <1>3 DEF EnterStart, SetState, Startable, Moves, Lifecycle!Next,
              Lifecycle!BeginStart
<1>4. CASE Refused(t) \/ EnterCall(t) \/ EnterPersist(t)
  BY <1>4 DEF Refused, EnterCall, EnterPersist, Moves
<1> QED BY <1>1, <1>2, <1>3, <1>4 DEF Enter

LEMMA ReturnsMove == ASSUME IInv, NEW t \in Tasks, Returns(t) PROVE Moves
<1>f. task[t].at \in Calls => FitsAt(task[t].at, st)
  BY Holder DEF Body, Calls
<1>1. CASE InstallReturns(t)
  BY <1>f, <1>1
  DEF InstallReturns, InCall, SetState, FitsAt, Calls, Moves, Lifecycle!Next,
      Lifecycle!Installed, Lifecycle!TakeBack
<1>2. CASE StartReturns(t)
  BY <1>f, <1>2
  DEF StartReturns, InCall, SetState, FitsAt, Calls, Moves, Lifecycle!Next,
      Lifecycle!Started, Lifecycle!Fail
<1>3. CASE StopReturns(t)
  BY <1>f, <1>3
  DEF StopReturns, InCall, SetState, FitsAt, Calls, Moves, Lifecycle!Next,
      Lifecycle!Stopped, Lifecycle!Fail
<1>4. CASE RestopReturns(t)
  BY <1>f, <1>4
  DEF RestopReturns, InCall, SetState, FitsAt, Calls, Moves, Lifecycle!Next,
      Lifecycle!BeginStart
<1>5. CASE UninstallReturns(t)
  BY <1>f, <1>5
  DEF UninstallReturns, InCall, SetState, FitsAt, Calls, Moves,
      Lifecycle!Next, Lifecycle!Uninstall
<1>6. CASE UpdateReturns(t)
  BY <1>6 DEF UpdateReturns, Moves
<1>7. CASE HookFails(t) \/ HookApplies(t)
  BY <1>7
  DEF HookFails, HookApplies, SetState, Moves, Lifecycle!Next,
      Lifecycle!Follow
<1>8. CASE HookEmpties(t) \/ EmptyStopReturns(t)
  BY <1>8
  DEF HookEmpties, EmptyStopReturns, SetState, Moves, Lifecycle!Next,
      Lifecycle!Follow
<1> QED BY <1>1, <1>2, <1>3, <1>4, <1>5, <1>6, <1>7, <1>8 DEF Returns

LEMMA BootMoves == ASSUME IInv, Boot PROVE Moves
<1>1. st = "absent"
  BY DEF Boot, IInv, Shape, PhaseFits
<1>2. row.state \in CoreState \cup {"absent"}
  BY DEF IInv, TypeOK, Row, NoRow
<1>3. st' \in {"loaded", "installed", "stopped", "error", "uninstalled",
             "absent"}
  BY <1>2 DEF Boot, CoreState, Unfinished
<1> QED BY <1>1, <1>3 DEF Moves, Lifecycle!Next, Lifecycle!TakeUp

LEMMA NextMoves == IInv /\ [Next]_vars => [Lifecycle!Next]_st
<1> SUFFICES ASSUME IInv, [Next]_vars PROVE Moves
  BY DEF Moves
<1>1. CASE UNCHANGED vars
  BY <1>1 DEF vars, Moves
<1>2. CASE \/ Serve \/ Shutdown \/ Request
           \/ StoreServes \/ StoreFails \/ ProcessDies
  BY <1>2 DEF Serve, Shutdown, Request, SubmitJob, PutSettings, PutInbounds,
              PutIdentity, StoreServes, StoreFails, ProcessDies, Moves
<1>3. CASE Exit
  BY <1>3 DEF Exit, Moves, Lifecycle!Next, Lifecycle!Vanish
<1>4. ASSUME NEW t \in Tasks, Detach(t) PROVE Moves
  <2>1. st = "uninstalled"
    BY <1>4, Holder DEF Detach, Ready, FitsAt, Body, Calls
  <2> QED BY <1>4, <2>1 DEF Detach, Moves, Lifecycle!Next, Lifecycle!Detach
<1>5. ASSUME NEW t \in Tasks,
             \/ BeginCall(t) \/ SaveSettings(t) \/ Release(t)
             \/ ImportReturns(t) \/ WaitTimesOut(t) \/ TimeOut(t)
      PROVE  Moves
  BY <1>5 DEF BeginCall, SaveSettings, Release, ImportReturns, WaitTimesOut,
              TimeOut, Moves
<1>6. ASSUME NEW a \in Calls, ThreadEnds(a) PROVE Moves
  BY <1>6 DEF ThreadEnds, Moves
<1> QED BY <1>1, <1>2, <1>3, <1>4, <1>5, <1>6, BootMoves, EnterMoves,
           ReturnsMove DEF Next, Step

(* Whatever tasks, failures, time-outs and crashes do, the state of a core *)
(* moves only as the lifecycle allows; a running core is never removed and *)
(* none comes back from a restart believed to run.                         *)
THEOREM ImplementsLifecycle == Spec => FollowsLifecycle
<1>1. Init => st = "absent"
  BY DEF Init
<1>2. Safe => IInv
  BY DEF Safe
<1> QED BY <1>1, <1>2, NextMoves, Invariance, PTL
        DEF Spec, FollowsLifecycle, Lifecycle!Spec

===========================================================================
