---------------------------- MODULE JobManager ----------------------------
(***************************************************************************)
(* The asynchronous lifecycle jobs of the node agent (node_agent/jobs.py)  *)
(* together with the handler that submits them and waits for them          *)
(* (core_lifecycle in node_agent/app.py).                                  *)
(*                                                                         *)
(* Everything runs on one event loop, so the code between two awaits is    *)
(* atomic: submit() holds an asyncio lock over a section without an await, *)
(* and _run() is cut at its only await, the coroutine of the action.  A    *)
(* Job object lives as long as a task or a handler refers to it, even when *)
(* the bounded history has dropped its id; "job" therefore keeps every     *)
(* object ever made and "jobs" only the ids the dictionary _jobs holds.    *)
(***************************************************************************)
EXTENDS Naturals, Sequences, FiniteSets

CONSTANTS
    Cores,          \* the allowlisted core ids
    Actions,        \* install, uninstall, start, stop, restart, update
    Options,        \* what else a body carries: settings, purge, force
    Requests,       \* handler invocations of POST .../lifecycle
    HistoryLimit,   \* _HISTORY_LIMIT (200 in the code)
    MaxJobs,        \* bound: how many jobs a behaviour may create
    NoJob           \* "core_id not in _active"

JobIds == 1..MaxJobs

ASSUME JobAssumption ==
    /\ Cores # {} /\ Actions # {} /\ Options # {}
    /\ HistoryLimit \in Nat \ {0}
    /\ MaxJobs \in Nat
    /\ NoJob \notin Nat

VARIABLES
    job,     \* the Job objects: the body they were made from and their state
    made,    \* number of Job objects made so far (ids are handed out in order)
    jobs,    \* JobManager._jobs: the ids that can still be looked up
    order,   \* JobManager._order: submission order of the remembered ids
    active,  \* JobManager._active: core -> job id, or NoJob
    req      \* the lifecycle handlers: where each one is and what it replied

vars == <<job, made, jobs, order, active, req>>

Terminal == {"succeeded", "failed", "cancelled"}
Live     == {"queued", "running"}

Body == [core : Cores, action : Actions, options : Options]

Job == [body : Body, state : {"unborn"} \cup Live \cup Terminal]

(* "pending" is the reply of a handler whose job is still queued or        *)
(* running; "conflict" is JobConflictError (409); "keyerror" is what       *)
(* submit() raises when the active job is no longer in _jobs (500).        *)
Reply == {"none", "pending", "conflict", "keyerror"} \cup Terminal

Handler == [at : {"idle", "waiting", "done"}, body : Body,
            job : JobIds \cup {NoJob}, reply : Reply]

AnyBody == CHOOSE b \in Body : TRUE

---------------------------------------------------------------------------
Ended(j) == job[j].state \in Terminal
Alive(j) == job[j].state \in Live

(* Mutant of Remember: the ids are cut from the list one too late.          *)
RememberOffByOne(j) ==
    LET longer == Append(order, j)
        stale  == IF Len(longer) > HistoryLimit + 1
                  THEN Len(longer) - (HistoryLimit + 1) ELSE 0
    IN  /\ order' = SubSeq(longer, stale + 1, Len(longer))
        /\ jobs' = (jobs \cup {j}) \ {longer[i] : i \in 1..stale}

(* _remember: append the id, then forget the oldest ones over the limit,   *)
(* whatever the state of their jobs.                                       *)
Remember(j) ==
    LET longer == Append(order, j)
        stale  == IF Len(longer) > HistoryLimit
                  THEN Len(longer) - HistoryLimit ELSE 0
    IN  /\ order' = SubSeq(longer, stale + 1, Len(longer))
        /\ jobs' = (jobs \cup {j}) \ {longer[i] : i \in 1..stale}

(* What core_lifecycle does once submit() returned job j: with wait = 0 it *)
(* replies at once, in the same step, with a job that is still live; with  *)
(* wait > 0 it enters the polling loop.                                    *)
Hold(r, b, j, wait) ==
    req' = [req EXCEPT ![r] =
              [at |-> IF wait THEN "waiting" ELSE "done", body |-> b, job |-> j,
               reply |-> IF wait THEN "none" ELSE "pending"]]

Refuse(r, b, why) ==
    req' = [req EXCEPT ![r] =
              [at |-> "done", body |-> b, job |-> NoJob, reply |-> why]]

Answer(r, reply) ==
    req' = [req EXCEPT ![r].at = "done", ![r].reply = reply]

Init ==
    /\ job = [j \in JobIds |-> [body |-> AnyBody, state |-> "unborn"]]
    /\ made = 0
    /\ jobs = {}
    /\ order = <<>>
    /\ active = [c \in Cores |-> NoJob]
    /\ req = [r \in Requests |-> [at |-> "idle", body |-> AnyBody,
                                  job |-> NoJob, reply |-> "none"]]

---------------------------------------------------------------------------
(* submit() on an idle core: a new job, remembered and active; its task is *)
(* created but has not run yet.                                            *)
SubmitNew(r, b, wait) ==
    /\ req[r].at = "idle"
    /\ active[b.core] = NoJob
    /\ made < MaxJobs
    /\ made' = made + 1
    /\ job' = [job EXCEPT ![made + 1] = [body |-> b, state |-> "queued"]]
    /\ Remember(made + 1)
    /\ active' = [active EXCEPT ![b.core] = made + 1]
    /\ Hold(r, b, made + 1, wait)

(* Mutant of SubmitJoin: any job in flight is joined.                       *)
SubmitJoinAny(r, b, wait) ==
    /\ req[r].at = "idle"
    /\ active[b.core] \in jobs
    /\ Hold(r, b, active[b.core], wait)
    /\ UNCHANGED <<job, made, jobs, order, active>>

(* submit() on a busy core whose job has the same action: the caller joins *)
(* the job in flight.  Only the name of the action is compared.            *)
SubmitJoin(r, b, wait) ==
    /\ req[r].at = "idle"
    /\ active[b.core] \in jobs
    /\ job[active[b.core]].body.action = b.action
    /\ Hold(r, b, active[b.core], wait)
    /\ UNCHANGED <<job, made, jobs, order, active>>

(* submit() on a busy core with another action: JobConflictError.          *)
SubmitConflict(r, b) ==
    /\ req[r].at = "idle"
    /\ active[b.core] \in jobs
    /\ job[active[b.core]].body.action # b.action
    /\ Refuse(r, b, "conflict")
    /\ UNCHANGED <<job, made, jobs, order, active>>

(* submit() on a busy core whose job id the history has dropped:           *)
(* self._jobs[self._active[core_id]] raises KeyError.                      *)
SubmitKeyError(r, b) ==
    /\ req[r].at = "idle"
    /\ active[b.core] # NoJob
    /\ active[b.core] \notin jobs
    /\ Refuse(r, b, "keyerror")
    /\ UNCHANGED <<job, made, jobs, order, active>>

(* The task created by submit() gets the event loop for the first time.    *)
RunStart(j) ==
    /\ job[j].state = "queued"
    /\ job' = [job EXCEPT ![j].state = "running"]
    /\ UNCHANGED <<made, jobs, order, active, req>>

(* Mutant of RunEnd: a time-out gets a state outside TERMINAL.              *)
RunEndOwnTimeoutState(j, outcome) ==
    /\ job[j].state = "running"
    /\ job' = [job EXCEPT ![j].state = IF outcome = "failed" THEN "timeout"
                                                             ELSE outcome]
    /\ active' = [active EXCEPT ![job[j].body.core] = NoJob]
    /\ UNCHANGED <<made, jobs, order, req>>

(* Mutant of RunEnd: the pop of _active is not in the finally clause, so a  *)
(* cancelled job skips it.                                                  *)
RunEndPopSkipped(j, outcome) ==
    /\ job[j].state = "running"
    /\ job' = [job EXCEPT ![j].state = outcome]
    /\ active' = IF outcome = "cancelled" THEN active
                 ELSE [active EXCEPT ![job[j].body.core] = NoJob]
    /\ UNCHANGED <<made, jobs, order, req>>

(* wait_for() returned, timed out, raised or was cancelled: the final      *)
(* state and the pop of _active happen without an await in between.        *)
RunEnd(j, outcome) ==
    /\ job[j].state = "running"
    /\ job' = [job EXCEPT ![j].state = outcome]
    /\ active' = [active EXCEPT ![job[j].body.core] = NoJob]
    /\ UNCHANGED <<made, jobs, order, req>>

(* Mutant of PollEnded: the loop does not know that "cancelled" is final.   *)
PollEndedForgetsCancelled(r) ==
    /\ req[r].at = "waiting"
    /\ job[req[r].job].state \in {"succeeded", "failed"}
    /\ Answer(r, job[req[r].job].state)
    /\ UNCHANGED <<job, made, jobs, order, active>>

(* One wake-up of the polling loop of core_lifecycle: the job is over, and *)
(* its state is the reply.                                                 *)
PollEnded(r) ==
    /\ req[r].at = "waiting"
    /\ Ended(req[r].job)
    /\ Answer(r, job[req[r].job].state)
    /\ UNCHANGED <<job, made, jobs, order, active>>

(* The deadline of the loop has passed while the job is still live.        *)
Deadline(r) ==
    /\ req[r].at = "waiting"
    /\ Alive(req[r].job)
    /\ Answer(r, "pending")
    /\ UNCHANGED <<job, made, jobs, order, active>>

Submit(r, b) ==
    \/ \E wait \in BOOLEAN : SubmitNew(r, b, wait) \/ SubmitJoin(r, b, wait)
    \/ SubmitConflict(r, b)
    \/ SubmitKeyError(r, b)

Run(j) == RunStart(j) \/ \E o \in Terminal : RunEnd(j, o)

Wake(r) == PollEnded(r) \/ Deadline(r)

Next ==
    \/ \E r \in Requests, b \in Body : Submit(r, b)
    \/ \E j \in JobIds : Run(j)
    \/ \E r \in Requests : Wake(r)

(* The event loop runs every ready task; wait_for() bounds the action and  *)
(* the deadline bounds the polling loop.  Nothing obliges a panel to       *)
(* submit.                                                                 *)
Fairness ==
    /\ \A j \in JobIds : WF_vars(Run(j))
    /\ \A r \in Requests : WF_vars(Wake(r))

Spec == Init /\ [][Next]_vars

FairSpec == Spec /\ Fairness

---------------------------------------------------------------------------
(* Every variable has its type.                                            *)
TypeOK ==
    /\ job \in [JobIds -> Job]
    /\ made \in 0..MaxJobs
    /\ jobs \subseteq JobIds
    /\ order \in Seq(JobIds)
    /\ active \in [Cores -> JobIds \cup {NoJob}]
    /\ req \in [Requests -> Handler]

(* "Jobs are serialized per core": a job is queued or running exactly when *)
(* it is the one _active names for its core, so no core ever has two live  *)
(* jobs, none is left registered after it ended, and none runs             *)
(* unregistered (jobs.py submit and the finally of _run).                  *)
Serialized ==
    \A j \in JobIds : Alive(j) <=> active[job[j].body.core] = j

(* The history is the window of the newest ids: what _order lists is what  *)
(* _jobs holds, in submission order, never more than the limit, and a job  *)
(* is dropped only when HistoryLimit newer ones exist.                     *)
HistoryWindow ==
    LET first == IF made > HistoryLimit THEN made - HistoryLimit ELSE 0
    IN  /\ order = [i \in 1..(made - first) |-> first + i]
        /\ jobs = (first + 1)..made

(* A handler speaks about the core and the action it was asked for, and a  *)
(* final state it reported stays the state of that job, whatever is        *)
(* submitted or forgotten afterwards.                                      *)
ReplyTruthful ==
    \A r \in Requests :
        req[r].job # NoJob =>
            LET j == req[r].job
            IN  /\ j <= made
                /\ job[j].body.core = req[r].body.core
                /\ job[j].body.action = req[r].body.action
                /\ req[r].reply \in Terminal => job[j].state = req[r].reply

(* A core is not busy for ever: whatever occupies it ends by itself        *)
(* (completion or timeout) and the next action can be submitted.           *)
CoreFreed == \A c \in Cores : active[c] # NoJob ~> active[c] = NoJob

(* A handler that waits for a job is always released, by the end of the    *)
(* job or by its own deadline.                                             *)
HandlersAnswered ==
    \A r \in Requests : req[r].at = "waiting" ~> req[r].at = "done"

===========================================================================
