---------------------------- MODULE CoreManager ----------------------------
(***************************************************************************)
(* One core under the CoreManager of the node                              *)
(* (vendor/zagros/app/cores/manager.py), driven by the lifecycle jobs and  *)
(* the PUT handlers of node_agent/app.py and by the lifespan of the agent. *)
(* Cores share nothing but the file the store writes, and the store        *)
(* serializes its writers, so one core is modelled.                        *)
(*                                                                         *)
(* Tasks of one event loop run from await to await.  A task waits for the  *)
(* lifecycle lock of the core, for the store, or for the driver.  The      *)
(* store is a queue: save_state() and remove() take an asyncio lock, which *)
(* is first come first served, and rewrite the row of the core before they *)
(* release it, or raise.  A driver call ends well or raises.  wait_for()   *)
(* cancels a task at any await; what the driver runs in a thread then goes *)
(* on.  Calls that only ask the driver or hand it accounts are not in this *)
(* module: they take no lock and change neither state nor settings.        *)
(*                                                                         *)
(* Settings are what the panel supplied; what a driver adds by itself is   *)
(* left out.  The enabled flag is left out as well: the node never clears  *)
(* it.                                                                     *)
(***************************************************************************)
EXTENDS Naturals, Sequences, FiniteSets

CONSTANTS
    Settings,     \* settings documents the panel may send
    Blank,        \* the empty settings of a row saved without any
    NoDriver,     \* core_id not in _drivers
    MaxCancels    \* bound: operations cut off inside while the agent runs

(* save_state(settings=None)                                               *)
Keep == "keep"

ASSUME CoreAssumption ==
    /\ Blank \notin Settings
    /\ NoDriver \notin Settings \cup {Blank}
    /\ Keep \notin Settings \cup {Blank}
    /\ MaxCancels \in Nat

VARIABLES
    drv,      \* _drivers: the settings of the attached driver, or NoDriver
    st,       \* _states: the lifecycle state, "absent" without an entry
    row,      \* the row of the core in cores.json, or NoRow
    queue,    \* calls of the store in the order of their lock
    proc,     \* the service process of the core is alive
    lock,     \* _locks[core_id]: the task that holds it, or Free
    task,     \* the tasks of the event loop
    phase,    \* "down", "booting", "serving" or "stopping"
    threads,  \* driver calls whose task is gone
    cancels,  \* time-outs so far
    cut,      \* history: what they have cut off since the agent has started
    died,     \* the process has gone since its start without a record of it
    unsaved,  \* the memory has settings that no call of the store carries
    refused   \* history: the last call of the store has failed

vars == <<drv, st, row, queue, proc, lock, task, phase, threads, cancels,
          cut, died, unsaved, refused>>

(* Ground truth, history and bookkeeping that most steps leave alone.      *)
aside == <<threads, cancels, cut, died, unsaved, refused>>

---------------------------------------------------------------------------
CoreState == {"loaded", "installed", "starting", "running", "stopping",
              "stopped", "error", "uninstalled"}
Value     == Settings \cup {Blank}
NoRow     == [state |-> "absent", settings |-> Blank]
Row       == [state : CoreState, settings : Value] \cup {NoRow}

(* The lifecycle job of the core (jobs.py allows one), a PUT handler, and  *)
(* the lifespan of the agent.                                              *)
Tasks == {"job", "api", "main"}
Free  == "free"

JobOps == {"install", "uninstall", "start", "stop", "restart", "update"}
ApiOps == {"settings", "studio", "identity", "idstop", "idstart"}

(* at: what the task does when it gets the event loop next.  "lock": it    *)
(* waits for the lock; a driver call: it makes or awaits that call;        *)
(* "import": it awaits a call of the driver outside an operation;          *)
(* "settings": it saves the settings; "detach": it forgets the driver;     *)
(* "release": it is about to leave the operation.                          *)
Calls == {"install", "start", "stop", "restop", "emptystop", "uninstall",
          "update", "hook"}
Task  == [op : JobOps \cup ApiOps \cup {"none"},
          at : {"idle", "lock", "import", "settings", "detach", "release"}
               \cup Calls,
          arg : Value, saving : BOOLEAN, calling : BOOLEAN, ok : BOOLEAN]
IdleTask == [op |-> "none", at |-> "idle", arg |-> Blank, saving |-> FALSE,
             calling |-> FALSE, ok |-> TRUE]

(* A call of the store: the task it belongs to ("gone" after a time-out),  *)
(* the state to save ("absent" for remove()) and the settings, if given.   *)
SaveCall == [task : Tasks \cup {"gone"}, state : CoreState \cup {"absent"},
             settings : Value \cup {Keep}]

Idle(t) == task[t].at = "idle"
(* The task runs next: it awaits neither the store nor the driver.         *)
Ready(t, a) == task[t].at = a /\ ~task[t].saving /\ ~task[t].calling
(* The driver call the task awaits may return now.                         *)
InCall(t, a) == task[t].at = a /\ task[t].calling

Goto(t, a)     == task' = [task EXCEPT ![t].at = a, ![t].calling = FALSE]
GotoCall(t, a) == task' = [task EXCEPT ![t].at = a, ![t].calling = TRUE]
GotoFailed(t)  == task' = [task EXCEPT ![t].at = "release",
                                       ![t].calling = FALSE, ![t].ok = FALSE]

(* await self._store.save_state(...): queued, and the task waits.          *)
Save(t, state, settings, next, ok) ==
    /\ queue' = Append(queue, [task |-> t, state |-> state,
                               settings |-> settings])
    /\ task' = [task EXCEPT ![t].at = next, ![t].saving = TRUE,
                            ![t].calling = FALSE, ![t].ok = ok]

(* _set_state: the state in memory, then the row, whose settings stay.     *)
SetState(t, s, next, ok) == st' = s /\ Save(t, s, Keep, next, ok)

Init ==
    /\ drv = NoDriver /\ st = "absent" /\ row = NoRow /\ queue = <<>>
    /\ proc = FALSE /\ lock = Free /\ phase = "down"
    /\ task = [t \in Tasks |-> IdleTask]
    /\ threads = {} /\ cancels = 0 /\ cut = {}
    /\ died = FALSE /\ unsaved = FALSE /\ refused = FALSE

---------------------------------------------------------------------------
(* The lifespan of the agent.                                              *)

Unfinished  == {"running", "starting", "stopping"}
AutoStarted == {"installed", "stopped", "error"}

(* boot() rebuilds memory from the row and never trusts an unfinished      *)
(* state; start_enabled() then starts a core that is at rest, while no     *)
(* request is served yet.                                                  *)
Boot ==
    /\ phase = "down"
    /\ phase' = "booting"
    /\ drv' = IF row = NoRow THEN NoDriver ELSE row.settings
    /\ st' = IF row.state \in Unfinished THEN "stopped" ELSE row.state
    /\ task' = IF st' \in AutoStarted
               THEN [task EXCEPT !["main"].op = "start", !["main"].at = "lock"]
               ELSE task
    /\ UNCHANGED <<row, queue, proc, lock, aside>>

(* The lifespan yields: the control plane serves requests.                 *)
Serve ==
    /\ phase = "booting" /\ Idle("main")
    /\ phase' = "serving"
    /\ UNCHANGED <<drv, st, row, queue, proc, lock, task, aside>>

(* Requests have been drained, the lifespan resumes: stop_all() stops a    *)
(* core that is running.  A job is not a request and may still run.        *)
Shutdown ==
    /\ phase = "serving" /\ Idle("api")
    /\ phase' = "stopping"
    /\ task' = IF st = "running"
               THEN [task EXCEPT !["main"].op = "stop", !["main"].at = "lock"]
               ELSE task
    /\ UNCHANGED <<drv, st, row, queue, proc, lock, aside>>

(* The process ends, after stop_all() or by a crash at any time: memory,   *)
(* queued saves and threads are gone.  A child process goes with it, an    *)
(* interface of the kernel (WireGuard) may stay.                           *)
Exit ==
    /\ phase # "down"
    /\ phase' = "down"
    /\ drv' = NoDriver /\ st' = "absent" /\ queue' = <<>>
    /\ proc' \in {proc, FALSE} /\ lock' = Free /\ threads' = {}
    /\ task' = [t \in Tasks |-> IdleTask]
    /\ cut' = {} /\ died' = FALSE /\ unsaved' = FALSE /\ refused' = FALSE
    /\ cancels' = 0 /\ UNCHANGED row

---------------------------------------------------------------------------
(* Requests.                                                               *)

(* A lifecycle job starts to execute; it will take the lock.  An install   *)
(* may come without settings.                                              *)
SubmitJob(o, s) ==
    /\ phase = "serving" /\ Idle("job")
    /\ task' = [task EXCEPT !["job"] =
                  [IdleTask EXCEPT !.op = o, !.at = "lock",
                                   !.arg = IF o = "install" THEN s ELSE Blank]]
    /\ UNCHANGED <<drv, st, row, queue, proc, lock, phase, aside>>

(* PUT .../settings: no lock; the driver gets the merged settings and the  *)
(* handler saves them with the state it finds in memory.                   *)
PutSettings(s) ==
    /\ phase = "serving" /\ Idle("api") /\ drv # NoDriver
    /\ drv' = s
    /\ queue' = Append(queue, [task |-> "api", state |-> st, settings |-> s])
    /\ task' = [task EXCEPT !["api"] =
                  [IdleTask EXCEPT !.op = "settings", !.at = "release",
                                   !.saving = TRUE]]
    /\ unsaved' = FALSE
    /\ UNCHANGED <<st, row, proc, lock, phase, threads, cancels, cut, died,
                   refused>>

(* PUT .../inbounds: apply_studio_document().                              *)
PutInbounds(s) ==
    /\ phase = "serving" /\ Idle("api") /\ drv # NoDriver
    /\ task' = [task EXCEPT !["api"] =
                  [IdleTask EXCEPT !.op = "studio", !.at = "lock", !.arg = s]]
    /\ UNCHANGED <<drv, st, row, queue, proc, lock, phase, aside>>

(* PUT .../identity: the driver imports the material, without the lock.    *)
(* What is backed by its settings (the PSK of SoftEther) it changes before *)
(* its first await; an import without an await is one that returns next.   *)
PutIdentity(s) ==
    /\ phase = "serving" /\ Idle("api") /\ drv # NoDriver
    /\ drv' \in {drv, s}
    /\ unsaved' = (unsaved \/ drv' # drv)
    /\ task' = [task EXCEPT !["api"] =
                  [IdleTask EXCEPT !.op = "identity", !.at = "import",
                                   !.calling = TRUE]]
    /\ UNCHANGED <<st, row, queue, proc, lock, phase, threads, cancels, cut,
                   died, refused>>

(* The import raised or applied nothing, and the request is over with what *)
(* it changed by then; or persist_settings() takes the lock.               *)
ImportReturns(t) ==
    /\ InCall(t, "import")
    /\ task' \in {[task EXCEPT ![t] = IdleTask],
                  [task EXCEPT ![t].at = "lock", ![t].calling = FALSE]}
    /\ UNCHANGED <<drv, st, row, queue, proc, lock, phase, aside>>

---------------------------------------------------------------------------
(* Entering an operation: the lock is taken and the state examined in one  *)
(* step.                                                                   *)
Starts   == {"start", "idstart"}
Stops    == {"stop", "idstop"}
Startable == {"installed", "stopped", "error"}
Stoppable == {"running", "error", "starting"}

AtLock(t, ops) == task[t].at = "lock" /\ task[t].op \in ops /\ lock = Free

(* Mutant: a refusal forgets to give the lock back.                        *)
RefusedKeepsLock(t) ==
    /\ task[t].at = "lock" /\ lock = Free
    /\ CASE task[t].op = "install" -> drv # NoDriver
         [] task[t].op \in Starts  -> st \notin Startable
         [] task[t].op \in Stops   -> st \notin Stoppable
         [] task[t].op = "restart" -> st # "running"
         [] OTHER                  -> drv = NoDriver
    /\ lock' = t
    /\ task' = [task EXCEPT ![t] = IdleTask]
    /\ UNCHANGED <<drv, st, row, queue, proc, phase, aside>>

(* CoreStateError or CoreNotFoundError: the lock is given back at once.    *)
Refused(t) ==
    /\ task[t].at = "lock" /\ lock = Free
    /\ CASE task[t].op = "install" -> drv # NoDriver
         [] task[t].op \in Starts  -> st \notin Startable
         [] task[t].op \in Stops   -> st \notin Stoppable
         [] task[t].op = "restart" -> st # "running"
         [] OTHER                  -> drv = NoDriver
    /\ task' = [task EXCEPT ![t] = IdleTask]
    /\ UNCHANGED <<drv, st, row, queue, proc, lock, phase, aside>>

EnterInstall(t) ==
    /\ AtLock(t, {"install"}) /\ drv = NoDriver
    /\ lock' = t
    /\ drv' = task[t].arg /\ st' = "loaded"
    /\ GotoCall(t, "install")
    /\ unsaved' = TRUE
    /\ UNCHANGED <<row, queue, proc, phase, threads, cancels, cut, died,
                   refused>>

(* Mutant: a running core is uninstalled without being stopped first.      *)
EnterUninstallRunning(t) ==
    /\ AtLock(t, {"uninstall"}) /\ drv # NoDriver
    /\ lock' = t
    /\ GotoCall(t, "uninstall")
    /\ UNCHANGED <<drv, st, row, queue, proc, phase, aside>>

EnterUninstall(t) ==
    /\ AtLock(t, {"uninstall"}) /\ drv # NoDriver
    /\ lock' = t
    /\ IF st = "running" THEN SetState(t, "stopping", "stop", TRUE)
       ELSE GotoCall(t, "uninstall") /\ UNCHANGED <<st, queue>>
    /\ UNCHANGED <<drv, row, proc, phase, aside>>

EnterStart(t) ==
    /\ AtLock(t, Starts) /\ st \in Startable
    /\ lock' = t
    /\ SetState(t, "starting", "start", TRUE)
    /\ UNCHANGED <<drv, row, proc, phase, aside>>

EnterStop(t) ==
    /\ AtLock(t, Stops) /\ st \in Stoppable
    /\ lock' = t
    /\ SetState(t, "stopping", "stop", TRUE)
    /\ UNCHANGED <<drv, row, proc, phase, aside>>

EnterRestart(t) ==
    /\ AtLock(t, {"restart"}) /\ st = "running"
    /\ lock' = t
    /\ SetState(t, "stopping", "restop", TRUE)
    /\ UNCHANGED <<drv, row, proc, phase, aside>>

(* Mutant: update and apply do not go through the lock of the core.        *)
EnterCallUnlocked(t) ==
    /\ task[t].at = "lock" /\ task[t].op \in {"update", "studio"}
    /\ drv # NoDriver
    /\ GotoCall(t, IF task[t].op = "update" THEN "update" ELSE "hook")
    /\ UNCHANGED <<drv, st, row, queue, proc, lock, phase, aside>>

EnterCall(t) ==
    /\ AtLock(t, {"update", "studio"}) /\ drv # NoDriver
    /\ lock' = t
    /\ GotoCall(t, IF task[t].op = "update" THEN "update" ELSE "hook")
    /\ UNCHANGED <<drv, st, row, queue, proc, phase, aside>>

(* persist_settings().                                                     *)
EnterPersist(t) ==
    /\ AtLock(t, {"identity"}) /\ drv # NoDriver
    /\ lock' = t
    /\ Save(t, st, drv, "release", TRUE)
    /\ unsaved' = FALSE
    /\ UNCHANGED <<drv, st, row, proc, phase, threads, cancels, cut, died,
                   refused>>

---------------------------------------------------------------------------
(* The body of the operations, between the awaits.                         *)

(* The state has been saved, the driver is called.                         *)
BeginCall(t) ==
    /\ \E a \in Calls : Ready(t, a)
    /\ task' = [task EXCEPT ![t].calling = TRUE]
    /\ UNCHANGED <<drv, st, row, queue, proc, lock, phase, aside>>

InstallReturns(t) ==
    /\ InCall(t, "install")
    /\ \/ SetState(t, "installed", "settings", TRUE) /\ UNCHANGED drv
       \/ /\ drv' = NoDriver /\ st' = "absent"
          /\ GotoFailed(t)
          /\ UNCHANGED queue
    /\ UNCHANGED <<row, proc, lock, phase, aside>>

(* driver.start() of start_core, restart_core and apply_studio_document: a *)
(* start that raises may have brought the process up.                      *)
StartReturns(t) ==
    /\ InCall(t, "start")
    /\ \/ /\ proc' = TRUE
          /\ died' = FALSE
          /\ SetState(t, "running", "settings", TRUE)
       \/ /\ proc' \in BOOLEAN
          /\ SetState(t, "error", "release", FALSE)
          /\ UNCHANGED died
    /\ UNCHANGED <<drv, row, lock, phase, threads, cancels, cut, unsaved,
                   refused>>

(* Mutant: _transition swallows a failed stop and records it as a success. *)
StopReturnsSwallowed(t) ==
    /\ InCall(t, "stop")
    /\ proc' \in {proc, FALSE}
    /\ SetState(t, "stopped", IF task[t].op = "uninstall"
                              THEN "uninstall" ELSE "release", TRUE)
    /\ UNCHANGED <<drv, row, lock, phase, aside>>

(* driver.stop() of _transition, for stop_core and uninstall_core.         *)
StopReturns(t) ==
    /\ InCall(t, "stop")
    /\ \/ /\ proc' = FALSE
          /\ SetState(t, "stopped", IF task[t].op = "uninstall"
                                    THEN "uninstall" ELSE "release", TRUE)
       \/ /\ proc' \in {proc, FALSE}
          /\ SetState(t, "error", "release", FALSE)
    /\ UNCHANGED <<drv, row, lock, phase, aside>>

(* driver.stop() of restart_core: no handler around it.                    *)
RestopReturns(t) ==
    /\ InCall(t, "restop")
    /\ \/ /\ proc' = FALSE
          /\ SetState(t, "starting", "start", TRUE)
       \/ /\ proc' \in {proc, FALSE}
          /\ GotoFailed(t)
          /\ UNCHANGED <<st, queue>>
    /\ UNCHANGED <<drv, row, lock, phase, aside>>

(* driver.uninstall(): most drivers stop the process, xray does not.       *)
UninstallReturns(t) ==
    /\ InCall(t, "uninstall")
    /\ proc' \in {proc, FALSE}
    /\ \/ SetState(t, "uninstalled", "detach", TRUE)
       \/ GotoFailed(t) /\ UNCHANGED <<st, queue>>
    /\ UNCHANGED <<drv, row, lock, phase, aside>>

UpdateReturns(t) ==
    /\ InCall(t, "update")
    /\ Goto(t, "release") \/ GotoFailed(t)
    /\ UNCHANGED <<drv, st, row, queue, proc, lock, phase, aside>>

(* The hook of apply_studio_document() raised: the settings may have been  *)
(* changed and the process may be gone, which makes a running core an      *)
(* erroneous one.                                                          *)
HookFails(t) ==
    /\ InCall(t, "hook")
    /\ drv' \in {drv, task[t].arg}
    /\ unsaved' = (unsaved \/ drv' # drv)
    /\ proc' \in {proc, FALSE}
    /\ IF st = "running" /\ ~proc' THEN SetState(t, "error", "release", FALSE)
       ELSE GotoFailed(t) /\ UNCHANGED <<st, queue>>
    /\ UNCHANGED <<row, lock, phase, threads, cancels, cut, died, refused>>

(* The hook succeeded with at least one inbound: a core recorded running   *)
(* or erroneous is made to run, and one found running is recorded so.      *)
HookApplies(t) ==
    /\ InCall(t, "hook")
    /\ drv' \in {drv, task[t].arg}
    /\ proc' \in {proc, FALSE}
    /\ IF st \in {"running", "error"} /\ ~proc'
       THEN SetState(t, "starting", "start", TRUE)
       ELSE IF st = "error" THEN SetState(t, "running", "settings", TRUE)
       ELSE Goto(t, "settings") /\ UNCHANGED <<st, queue>>
    /\ unsaved' = (unsaved \/ drv' # drv)
    /\ UNCHANGED <<row, lock, phase, threads, cancels, cut, died, refused>>

(* The hook succeeded without inbounds, and the driver stops then.         *)
HookEmpties(t) ==
    /\ InCall(t, "hook")
    /\ drv' \in {drv, task[t].arg}
    /\ IF proc THEN GotoCall(t, "emptystop") /\ UNCHANGED <<st, queue>>
       ELSE IF st \in {"running", "error"}
            THEN SetState(t, "stopped", "settings", TRUE)
            ELSE Goto(t, "settings") /\ UNCHANGED <<st, queue>>
    /\ unsaved' = (unsaved \/ drv' # drv)
    /\ UNCHANGED <<row, proc, lock, phase, threads, cancels, cut, died,
                   refused>>

(* driver.stop() of that case: no handler around it either, so a stop that *)
(* kills the process and then raises leaves the record "running".          *)
EmptyStopReturns(t) ==
    /\ InCall(t, "emptystop")
    /\ \/ /\ proc' = FALSE
          /\ IF st \in {"running", "error"}
             THEN SetState(t, "stopped", "settings", TRUE)
             ELSE Goto(t, "settings") /\ UNCHANGED <<st, queue>>
          /\ UNCHANGED died
       \/ /\ proc' \in {proc, FALSE}
          /\ died' = (died \/ (proc /\ ~proc'))
          /\ GotoFailed(t)
          /\ UNCHANGED <<st, queue>>
    /\ UNCHANGED <<drv, row, lock, phase, threads, cancels, cut, unsaved,
                   refused>>

(* Mutant: the last save does not pass the settings of the driver.         *)
SaveSettingsStateOnly(t) ==
    /\ Ready(t, "settings")
    /\ Save(t, st, Keep, "release", TRUE)
    /\ unsaved' = FALSE
    /\ UNCHANGED <<drv, st, row, proc, lock, phase, threads, cancels, cut,
                   died, refused>>

(* The save that ends install, start, restart and apply.                   *)
SaveSettings(t) ==
    /\ Ready(t, "settings")
    /\ Save(t, st, drv, "release", TRUE)
    /\ unsaved' = FALSE
    /\ UNCHANGED <<drv, st, row, proc, lock, phase, threads, cancels, cut,
                   died, refused>>

(* The end of uninstall_core: memory first, then the row.                  *)
Detach(t) ==
    /\ Ready(t, "detach")
    /\ drv' = NoDriver /\ st' = "absent"
    /\ Save(t, "absent", Keep, "release", TRUE)
    /\ UNCHANGED <<row, proc, lock, phase, aside>>

(* Mutant: a task that ends releases the lock whoever holds it.            *)
ReleaseAnyLock(t) ==
    /\ Ready(t, "release")
    /\ lock' = Free
    /\ task' = [task EXCEPT ![t] = IdleTask]
    /\ UNCHANGED <<drv, st, row, queue, proc, phase, aside>>

(* The operation is over and its lock released.  PUT .../identity goes on  *)
(* to stop and start a core it finds running, each under the lock anew.    *)
Release(t) ==
    /\ Ready(t, "release")
    /\ lock' = IF lock = t THEN Free ELSE lock
    /\ task' = [task EXCEPT ![t] =
          IF task[t].op = "identity" /\ st = "running"
          THEN [IdleTask EXCEPT !.op = "idstop", !.at = "lock"]
          ELSE IF task[t].op = "idstop" /\ task[t].ok
          THEN [IdleTask EXCEPT !.op = "idstart", !.at = "lock"]
          ELSE IdleTask]
    /\ UNCHANGED <<drv, st, row, queue, proc, phase, aside>>

---------------------------------------------------------------------------
(* The environment of the tasks.                                           *)

(* Mutant: remove() blanks the state and leaves the settings in the file.  *)
StoreServesLeavesSettings ==
    /\ queue # <<>>
    /\ LET call == Head(queue)
       IN  /\ row' = [state |-> call.state,
                      settings |-> IF call.settings = Keep
                                   THEN row.settings ELSE call.settings]
           /\ task' = IF call.task = "gone" THEN task
                      ELSE [task EXCEPT ![call.task].saving = FALSE]
    /\ queue' = Tail(queue)
    /\ refused' = FALSE
    /\ UNCHANGED <<drv, st, proc, lock, phase, threads, cancels, cut, died,
                   unsaved>>

(* The store serves the first call of its queue: the row is rewritten, and *)
(* the task that waits for it may go on.                                   *)
StoreServes ==
    /\ queue # <<>>
    /\ LET call == Head(queue)
       IN  /\ row' = IF call.state = "absent" THEN NoRow
                     ELSE [state |-> call.state,
                           settings |-> IF call.settings = Keep
                                        THEN row.settings ELSE call.settings]
           /\ task' = IF call.task = "gone" THEN task
                      ELSE [task EXCEPT ![call.task].saving = FALSE]
    /\ queue' = Tail(queue)
    /\ refused' = FALSE
    /\ UNCHANGED <<drv, st, proc, lock, phase, threads, cancels, cut, died,
                   unsaved>>

(* A call of the store raises on its way to the file (OSError): the row    *)
(* stays as it was, the memory keeps what _set_state() or the driver has   *)
(* put there, and the task leaves its operation; nothing is tried again.   *)
(* Settings the call carried are unsaved unless a later one carries newer. *)
StoreFails ==
    /\ queue # <<>>
    /\ LET call == Head(queue)
       IN  /\ task' = IF call.task = "gone" THEN task
                      ELSE [task EXCEPT ![call.task].at = "release",
                                        ![call.task].saving = FALSE,
                                        ![call.task].ok = FALSE]
           /\ unsaved' = (unsaved \/
                             \A i \in DOMAIN queue :
                                queue[i].settings # Keep <=> i = 1)
    /\ queue' = Tail(queue)
    /\ refused' = TRUE
    /\ UNCHANGED <<drv, st, row, proc, lock, phase, threads, cancels, cut,
                   died>>

(* wait_for() around a job, an apply or the restart of an identity change  *)
(* times out: the task leaves at its await and releases the lock.  A call  *)
(* of the store is withdrawn or, when it is the first and its write has    *)
(* begun, carried out; a driver call goes on in its thread.  A hook that   *)
(* is cut off may have changed the settings already.                       *)
TimedOps == JobOps \cup {"studio", "idstop", "idstart"}

Withdrawn(t) == {SubSeq(queue, 1, i - 1) \o SubSeq(queue, i + 1, Len(queue)) :
                   i \in {j \in DOMAIN queue : queue[j].task = t}}
Orphaned(t)  == [i \in DOMAIN queue |->
                   IF queue[i].task = t THEN [queue[i] EXCEPT !.task = "gone"]
                                        ELSE queue[i]]
CutOff(t)    == Withdrawn(t) \cup
                {q \in {Orphaned(t)} :
                   \A i \in DOMAIN queue : queue[i].task = t => i = 1}

(* What a time-out meets inside an operation.                              *)
Interrupted(t) == {x \in {"operation", "call"} : x = "call" => task[t].calling}

(* A task that waits for the lock leaves nothing behind.                   *)
WaitTimesOut(t) ==
    /\ t # "main" /\ task[t].op \in TimedOps /\ task[t].at = "lock"
    /\ task' = [task EXCEPT ![t] = IdleTask]
    /\ UNCHANGED <<drv, st, row, queue, proc, lock, phase, aside>>

(* Mutant: a cancelled operation does not release its lock.                *)
TimeOutKeepsLock(t) ==
    /\ cancels < MaxCancels
    /\ t # "main" /\ task[t].op \in TimedOps /\ task[t].at # "lock"
    /\ cancels' = cancels + 1
    /\ cut' = cut \cup Interrupted(t)
    /\ queue' \in CutOff(t)
    /\ drv' \in IF InCall(t, "hook") THEN {drv, task[t].arg} ELSE {drv}
    /\ unsaved' = (unsaved \/ drv' # drv)
    /\ threads' = IF task[t].calling THEN threads \cup {task[t].at}
                                     ELSE threads
    /\ task' = [task EXCEPT ![t] = IdleTask]
    /\ UNCHANGED <<st, row, proc, lock, phase, died, refused>>

TimeOut(t) ==
    /\ cancels < MaxCancels
    /\ t # "main" /\ task[t].op \in TimedOps /\ task[t].at # "lock"
    /\ cancels' = cancels + 1
    /\ cut' = cut \cup Interrupted(t)
    /\ queue' \in CutOff(t)
    /\ drv' \in IF InCall(t, "hook") THEN {drv, task[t].arg} ELSE {drv}
    /\ unsaved' = (unsaved \/ drv' # drv)
    /\ threads' = IF task[t].calling THEN threads \cup {task[t].at}
                                     ELSE threads
    /\ lock' = IF lock = t THEN Free ELSE lock
    /\ task' = [task EXCEPT ![t] = IdleTask]
    /\ UNCHANGED <<st, row, proc, phase, died, refused>>

(* An abandoned thread finishes what it was doing to the process.          *)
ThreadEnds(a) ==
    /\ a \in threads
    /\ threads' = threads \ {a}
    /\ proc' \in (CASE a = "start" -> {proc, TRUE}
                    [] a \in {"stop", "restop", "emptystop", "uninstall",
                              "hook"} -> {proc, FALSE}
                    [] OTHER -> {proc})
    /\ UNCHANGED <<drv, st, row, queue, lock, task, phase, cancels, cut,
                   died, unsaved, refused>>

(* The service process dies by itself; nobody is told.                     *)
ProcessDies ==
    /\ proc
    /\ proc' = FALSE /\ died' = TRUE
    /\ UNCHANGED <<drv, st, row, queue, lock, task, phase, threads, cancels,
                   cut, unsaved, refused>>

---------------------------------------------------------------------------
Enter(t) ==
    \/ Refused(t) \/ EnterInstall(t) \/ EnterUninstall(t) \/ EnterStart(t)
    \/ EnterStop(t) \/ EnterRestart(t) \/ EnterCall(t) \/ EnterPersist(t)

Returns(t) ==
    \/ InstallReturns(t) \/ StartReturns(t) \/ StopReturns(t)
    \/ RestopReturns(t) \/ UninstallReturns(t) \/ UpdateReturns(t)
    \/ HookFails(t) \/ HookApplies(t) \/ HookEmpties(t) \/ EmptyStopReturns(t)

Step(t) ==
    Enter(t) \/ BeginCall(t) \/ Returns(t) \/ SaveSettings(t) \/ Detach(t)
             \/ Release(t) \/ ImportReturns(t)

Request ==
    \/ \E o \in JobOps, s \in Value : SubmitJob(o, s)
    \/ \E s \in Settings : PutSettings(s) \/ PutInbounds(s) \/ PutIdentity(s)

Next ==
    \/ Boot \/ Serve \/ Shutdown \/ Exit
    \/ Request
    \/ \E t \in Tasks : Step(t) \/ WaitTimesOut(t) \/ TimeOut(t)
    \/ \E a \in Calls : ThreadEnds(a)
    \/ StoreServes \/ StoreFails \/ ProcessDies

Spec == Init /\ [][Next]_vars

(* The event loop runs every task that can go on; asyncio.Lock wakes its   *)
(* waiters in order, so nobody is overtaken for ever; a call of the store  *)
(* and of the driver returns or raises.                                    *)
Fairness ==
    /\ \A t \in Tasks : SF_vars(Enter(t)) /\ WF_vars(Step(t))
    /\ WF_vars(StoreServes \/ StoreFails)

FairSpec == Spec /\ Fairness

---------------------------------------------------------------------------
(* Every variable has its type.                                            *)
TypeOK ==
    /\ drv \in Value \cup {NoDriver}
    /\ st \in CoreState \cup {"absent"}
    /\ row \in Row
    /\ queue \in Seq(SaveCall)
    /\ proc \in BOOLEAN
    /\ lock \in Tasks \cup {Free}
    /\ task \in [Tasks -> Task]
    /\ phase \in {"down", "booting", "serving", "stopping"}
    /\ threads \subseteq Calls
    /\ cancels \in 0..MaxCancels
    /\ cut \subseteq {"operation", "call"}
    /\ {died, unsaved, refused} \subseteq BOOLEAN

(* Inside an operation, as opposed to before its lock or in the PUT of     *)
(* settings, which takes none.                                             *)
Inside(t) == /\ task[t].at \notin {"idle", "lock", "import"}
             /\ task[t].op # "settings"

(* A task is inside an operation of the core exactly when it holds the     *)
(* lock: no two operations overlap, no path out of one, refusal, failure,  *)
(* time-out or hand-over of PUT .../identity, leaks the lock, and none     *)
(* gives back a lock that is not its own.                                  *)
Exclusive == \A t \in Tasks : Inside(t) <=> lock = t

(* "Jobs are serialized per core": of the calls that install, start, stop, *)
(* apply to, update or uninstall a core, by whatever tasks and threads, no *)
(* two overlap, until a time-out cuts one off whose thread goes on.  Calls *)
(* made without the lock are not meant: an import of PUT .../identity may  *)
(* overlap any of them, and so may status, logs, usage, online devices and *)
(* accounts, which this module leaves out.                                 *)
LifecycleCallsSerialized ==
    "call" \notin cut =>
        Cardinality({t \in Tasks : Inside(t) /\ task[t].calling})
            + Cardinality(threads) <= 1

(* Nothing is going on: what is recorded now is what a panel or a restart  *)
(* will find.                                                              *)
Quiet == /\ phase = "serving" /\ queue = <<>> /\ threads = {}
         /\ \A t \in Tasks : Idle(t)

(* At rest the row on disk is the memory: the last state and the last      *)
(* settings, in spite of the saves of PUT .../settings, which happen       *)
(* beside the lock.  The state may differ only when the very last call of  *)
(* the store has failed; settings only when the call that carried them     *)
(* failed, or an apply or import failed after it had changed them; and     *)
(* only a time-out inside an operation can lose a save without a word.     *)
MemoryOnDisk ==
    Quiet /\ drv # NoDriver /\ "operation" \notin cut =>
        /\ row.state = st \/ refused
        /\ row.settings = drv \/ unsaved

(* At rest the record tells the truth about the process: running means     *)
(* alive (unless it died by itself, which nobody watches, or in a stop     *)
(* that raised inside an apply), stopped means gone.  A thread that has    *)
(* outlived its call may make it a lie, until the agent starts again;      *)
(* losing a save does not.                                                 *)
StateTellsProcess ==
    Quiet /\ "call" \notin cut =>
        /\ st = "running" => proc \/ died
        /\ st = "stopped" => ~proc

(* Every operation ends: no task waits for ever for the lock, the store or *)
(* another task.                                                           *)
OperationsEnd == \A t \in Tasks : ~Idle(t) ~> Idle(t)

(* The state of a core moves only as CoreLifecycle allows.                 *)
Lifecycle == INSTANCE CoreLifecycle WITH state <- st
FollowsLifecycle == Lifecycle!Spec

===========================================================================
