-------------------------- MODULE JobManagerProofs --------------------------
(***************************************************************************)
(* Proofs about JobManager for every set of cores, actions and handlers,   *)
(* every history limit and every number of jobs.                           *)
(***************************************************************************)
EXTENDS JobManager, TLAPS

(* Ids are handed out in order: exactly the first "made" objects exist.    *)
Born == \A j \in JobIds : job[j].state = "unborn" <=> j > made

(* _active files a job under the core of its own body.                     *)
Filed == \A c \in Cores :
            active[c] # NoJob => job[active[c]].body.core = c

Inv == TypeOK /\ Born /\ Filed /\ Serialized /\ HistoryWindow
              /\ ReplyTruthful

LEMMA BodyExists == AnyBody \in Body
  <1>1. PICK c \in Cores, a \in Actions, o \in Options : TRUE
    BY JobAssumption
  <1>2. [core |-> c, action |-> a, options |-> o] \in Body
    BY <1>1 DEF Body
  <1> QED BY <1>2 DEF AnyBody

(* Appending to the window and cutting the overflow gives the next window: *)
(* what _remember() does to _order.                                        *)
LEMMA WindowSlides ==
  ASSUME NEW m \in Nat, NEW L \in Nat \ {0},
         NEW o \in Seq(Nat),
         o = [i \in 1..(m - (IF m > L THEN m - L ELSE 0))
                |-> (IF m > L THEN m - L ELSE 0) + i]
  PROVE  LET longer == Append(o, m + 1)
             stale  == IF Len(longer) > L THEN Len(longer) - L ELSE 0
             first  == IF m + 1 > L THEN m + 1 - L ELSE 0
         IN  /\ SubSeq(longer, stale + 1, Len(longer))
                  = [i \in 1..(m + 1 - first) |-> first + i]
             /\ {longer[i] : i \in 1..stale}
                  = {x \in {first} : m + 1 > L}
  <1> DEFINE longer == Append(o, m + 1)
             old    == IF m > L THEN m - L ELSE 0
             stale  == IF Len(longer) > L THEN Len(longer) - L ELSE 0
             first  == IF m + 1 > L THEN m + 1 - L ELSE 0
  <1>0. old \in Nat /\ first \in Nat /\ m - old \in Nat
    OBVIOUS
  <1>1. Len(o) = m - old
    BY <1>0
  <1>2. longer \in Seq(Nat) /\ Len(longer) = m - old + 1
    BY <1>0, <1>1
  <1>3. \A i \in 1..(m - old + 1) : longer[i] = old + i
    BY <1>0, <1>1
  <1>4. stale = first - old /\ stale \in 0..1
    BY <1>2
  <1>5. SubSeq(longer, stale + 1, Len(longer))
          = [i \in 1..(m + 1 - first) |-> first + i]
    <2> HIDE DEF longer
    <2>1. Len(longer) = m - old + 1 /\ Len(longer) >= stale
      BY <1>0, <1>2, <1>4
    <2>2. SubSeq(longer, stale + 1, Len(longer))
            = [i \in 1..(Len(longer) - stale) |-> longer[i + stale]]
      BY <1>2, <1>4, <2>1
    <2>3. Len(longer) - stale = m + 1 - first
      BY <1>0, <1>4, <2>1
    <2>4. \A i \in 1..(m + 1 - first) : longer[i + stale] = first + i
      <3> TAKE i \in 1..(m + 1 - first)
      <3> HIDE DEF old, stale, first
      <3>1. i + stale \in 1..(m - old + 1)
        BY <1>0, <1>4
      <3>2. longer[i + stale] = old + (i + stale)
        BY <1>3, <3>1
      <3> QED BY <3>2, <1>0, <1>4
    <2> HIDE DEF stale, first
    <2> QED
      BY <2>2, <2>3, <2>4
  <1>6. {longer[i] : i \in 1..stale} = {x \in {first} : m + 1 > L}
    <2>1. CASE m + 1 > L
      <3>1. stale = 1 /\ longer[1] = first
        BY <2>1, <1>0, <1>2, <1>3, <1>4
      <3> QED BY <3>1, <2>1
    <2>2. CASE ~(m + 1 > L)
      <3>1. stale = 0
        BY <2>2, <1>4
      <3> QED BY <3>1, <2>2
    <2> QED BY <2>1, <2>2
  <1> QED BY <1>5, <1>6

LEMMA InitEstablishes == Init => Inv
  <1> SUFFICES ASSUME Init PROVE Inv
    OBVIOUS
  <1> USE JobAssumption, BodyExists DEF Init
  <1>1. TypeOK
    BY DEF TypeOK, Job, Handler, Reply, JobIds
  <1>2. Born
    BY DEF Born, JobIds
  <1>3. Filed
    BY DEF Filed
  <1>4. Serialized
    BY DEF Serialized, Alive, Live, JobIds, Body
  <1>5. HistoryWindow
    BY DEF HistoryWindow
  <1>6. ReplyTruthful
    BY DEF ReplyTruthful
  <1> QED BY <1>1, <1>2, <1>3, <1>4, <1>5, <1>6 DEF Inv

(* A job that the manager has just made, seen by the history.              *)
LEMMA RememberSlides ==
  ASSUME TypeOK, HistoryWindow, made < MaxJobs,
         Remember(made + 1), made' = made + 1
  PROVE  HistoryWindow' /\ order' \in Seq(JobIds) /\ jobs' \subseteq JobIds
  <1> DEFINE first == IF made > HistoryLimit THEN made - HistoryLimit ELSE 0
             next  == IF made + 1 > HistoryLimit
                      THEN made + 1 - HistoryLimit ELSE 0
             longer == Append(order, made + 1)
             stale  == IF Len(longer) > HistoryLimit
                       THEN Len(longer) - HistoryLimit ELSE 0
  <1>1. made \in Nat /\ order \in Seq(Nat) /\ HistoryLimit \in Nat \ {0}
    BY JobAssumption DEF TypeOK, JobIds
  <1>2. order = [i \in 1..(made - first) |-> first + i]
    BY DEF HistoryWindow
  <1>3. jobs = (first + 1)..made
    BY DEF HistoryWindow
  <1>4. /\ SubSeq(longer, stale + 1, Len(longer))
             = [i \in 1..(made + 1 - next) |-> next + i]
        /\ {longer[i] : i \in 1..stale}
             = {x \in {next} : made + 1 > HistoryLimit}
    BY <1>1, <1>2, WindowSlides
  <1>5. order' = [i \in 1..(made + 1 - next) |-> next + i]
    BY <1>4 DEF Remember
  <1>6. jobs' = (jobs \cup {made + 1})
                  \ {x \in {next} : made + 1 > HistoryLimit}
    BY <1>4 DEF Remember
  <1>7. jobs' = (next + 1)..(made + 1)
    BY <1>1, <1>3, <1>6
  <1>8. HistoryWindow'
    BY <1>5, <1>7, <1>1, JobAssumption DEF HistoryWindow
  <1>9. jobs' \subseteq JobIds
    BY <1>7, <1>1, JobAssumption DEF JobIds
  <1>10. order' \in Seq(JobIds)
    <2>1. made + 1 - next \in Nat /\ next \in Nat
      BY <1>1
    <2>2. \A i \in 1..(made + 1 - next) : next + i \in JobIds
      BY <1>1, JobAssumption DEF JobIds
    <2> HIDE DEF next
    <2> QED BY <1>5, <2>1, <2>2
  <1> QED BY <1>8, <1>9, <1>10

(* The steps that leave the manager alone and only move a handler.         *)
LEMMA HandlerMoves ==
  ASSUME Inv, UNCHANGED <<job, made, jobs, order, active>>,
         req' \in [Requests -> Handler], ReplyTruthful'
  PROVE  Inv'
  BY DEF Inv, TypeOK, Born, Filed, Serialized, Alive, HistoryWindow

LEMMA SubmitNewStep ==
  ASSUME Inv, NEW r \in Requests, NEW b \in Body, NEW wait \in BOOLEAN,
         SubmitNew(r, b, wait)
  PROVE  Inv'
  <1> DEFINE n == made + 1
  <1>0. /\ made \in Nat /\ n \in JobIds /\ n # NoJob /\ NoJob \notin JobIds
        /\ MaxJobs \in Nat
    BY JobAssumption DEF Inv, TypeOK, SubmitNew, JobIds
  <1>1. /\ job' = [job EXCEPT ![n] = [body |-> b, state |-> "queued"]]
        /\ active' = [active EXCEPT ![b.core] = n]
        /\ made' = n
        /\ active[b.core] = NoJob
        /\ b.core \in Cores
    BY DEF SubmitNew, Body
  <1>2. HistoryWindow' /\ order' \in Seq(JobIds) /\ jobs' \subseteq JobIds
    BY RememberSlides DEF Inv, SubmitNew
  <1>3. req' \in [Requests -> Handler]
    BY <1>0 DEF Inv, TypeOK, SubmitNew, Hold, Handler, Reply
  <1>4. TypeOK'
    BY <1>0, <1>1, <1>2, <1>3 DEF Inv, TypeOK, Job, Live, SubmitNew, JobIds
  <1>5. job[n].state = "unborn"
    BY <1>0 DEF Inv, Born
  <1>6. Born'
    BY <1>0, <1>1 DEF Inv, TypeOK, Born, JobIds
  <1>7. \A c \in Cores : active[c] # n
    <2> SUFFICES ASSUME NEW c \in Cores, active[c] = n PROVE FALSE
      OBVIOUS
    <2>1. job[n].body.core = c
      BY <1>0 DEF Inv, Filed
    <2>2. Alive(n)
      BY <1>0, <2>1 DEF Inv, Serialized
    <2> QED BY <2>2, <1>5 DEF Alive, Live
  <1>8. Filed'
    BY <1>0, <1>1, <1>7 DEF Inv, TypeOK, Filed
  <1>9. Serialized'
    <2> SUFFICES ASSUME NEW j \in JobIds
                 PROVE  Alive(j)' <=> active'[job'[j].body.core] = j
      BY DEF Serialized
    <2>1. CASE j = n
      BY <2>1, <1>0, <1>1 DEF Inv, TypeOK, Alive, Live
    <2>2. CASE j # n
      <3>1. job'[j] = job[j] /\ job[j].body.core \in Cores
        BY <2>2, <1>0, <1>1 DEF Inv, TypeOK, Job, Body
      <3>2. CASE job[j].body.core = b.core
        BY <2>2, <3>1, <3>2, <1>0, <1>1 DEF Inv, TypeOK, Serialized, Alive
      <3>3. CASE job[j].body.core # b.core
        BY <3>1, <3>3, <1>0, <1>1 DEF Inv, TypeOK, Serialized, Alive
      <3> QED BY <3>2, <3>3
    <2> QED BY <2>1, <2>2
  <1>10. ReplyTruthful'
    <2> SUFFICES ASSUME NEW q \in Requests, req'[q].job # NoJob
                 PROVE  /\ req'[q].job <= made'
                        /\ job'[req'[q].job].body.core = req'[q].body.core
                        /\ job'[req'[q].job].body.action
                             = req'[q].body.action
                        /\ req'[q].reply \in Terminal =>
                             job'[req'[q].job].state = req'[q].reply
      BY DEF ReplyTruthful
    <2>1. CASE q = r
      <3>1. req'[q].job = n /\ req'[q].body = b
        BY <2>1 DEF SubmitNew, Hold, Inv, TypeOK
      <3>2. req'[q].reply \notin Terminal
        BY <2>1 DEF SubmitNew, Hold, Inv, TypeOK, Terminal
      <3> QED BY <3>1, <3>2, <1>0, <1>1 DEF Inv, TypeOK
    <2>2. CASE q # r
      <3>1. req'[q] = req[q]
        BY <2>2 DEF SubmitNew, Hold, Inv, TypeOK
      <3>2. req[q].job \in JobIds /\ req[q].job <= made
        BY <3>1 DEF Inv, TypeOK, Handler, ReplyTruthful
      <3>3. job'[req[q].job] = job[req[q].job]
        BY <3>2, <1>0, <1>1 DEF Inv, TypeOK, JobIds
      <3> QED BY <3>1, <3>2, <3>3, <1>0, <1>1 DEF Inv, ReplyTruthful, JobIds
    <2> QED BY <2>1, <2>2
  <1> QED BY <1>4, <1>6, <1>8, <1>9, <1>2, <1>10 DEF Inv

LEMMA SubmitJoinStep ==
  ASSUME Inv, NEW r \in Requests, NEW b \in Body, NEW wait \in BOOLEAN,
         SubmitJoin(r, b, wait)
  PROVE  Inv'
  <1> DEFINE j == active[b.core]
  <1>1. /\ b.core \in Cores /\ j \in JobIds /\ j # NoJob
        /\ UNCHANGED <<job, made, jobs, order, active>>
        /\ job[j].body.action = b.action
    <2>1. b.core \in Cores
      BY DEF Body
    <2>2. j \in JobIds
      BY DEF SubmitJoin, Inv, TypeOK
    <2>3. j # NoJob
      BY <2>2, JobAssumption DEF JobIds
    <2> QED BY <2>1, <2>2, <2>3 DEF SubmitJoin
  <1>2. job[j].body.core = b.core
    BY <1>1 DEF Inv, Filed
  <1>3. j <= made
    <2>1. Alive(j)
      BY <1>1, <1>2 DEF Inv, Serialized
    <2> QED BY <1>1, <2>1, JobAssumption DEF Inv, TypeOK, Born, Alive, Live, JobIds
  <1>4. req' \in [Requests -> Handler]
    BY <1>1 DEF Inv, TypeOK, SubmitJoin, Hold, Handler, Reply
  <1>5. /\ req'[r].job = j /\ req'[r].body = b
        /\ req'[r].reply \notin Terminal
        /\ \A q \in Requests : q # r => req'[q] = req[q]
    BY DEF Inv, TypeOK, SubmitJoin, Hold, Terminal
  <1>6. ReplyTruthful'
    BY <1>1, <1>2, <1>3, <1>5 DEF Inv, ReplyTruthful
  <1> QED BY <1>1, <1>4, <1>6, HandlerMoves

LEMMA RefusedStep ==
  ASSUME Inv, NEW r \in Requests, NEW b \in Body,
         SubmitConflict(r, b) \/ SubmitKeyError(r, b)
  PROVE  Inv'
  <1>1. PICK why \in {"conflict", "keyerror"} : Refuse(r, b, why)
    BY DEF SubmitConflict, SubmitKeyError
  <1>2. req' \in [Requests -> Handler]
    BY <1>1 DEF Inv, TypeOK, Refuse, Handler, Reply
  <1>3. UNCHANGED <<job, made, jobs, order, active>>
    BY DEF SubmitConflict, SubmitKeyError
  <1>4. req'[r].job = NoJob /\ \A q \in Requests : q # r => req'[q] = req[q]
    BY <1>1 DEF Inv, TypeOK, Refuse
  <1>5. ReplyTruthful'
    BY <1>3, <1>4 DEF Inv, ReplyTruthful
  <1> QED BY <1>2, <1>3, <1>5, HandlerMoves

(* A job changes state only while it is queued or running, so a reported   *)
(* final state is never contradicted.                                      *)
LEMMA RunStep ==
  ASSUME Inv, NEW j \in JobIds, Run(j)
  PROVE  Inv'
  <1>1. PICK s \in {"running"} \cup Terminal :
            /\ job' = [job EXCEPT ![j].state = s]
            /\ active' = IF s \in Terminal
                         THEN [active EXCEPT ![job[j].body.core] = NoJob]
                         ELSE active
    BY DEF Run, RunStart, RunEnd, Terminal
  <1>2. Alive(j) /\ UNCHANGED <<made, jobs, order, req>>
    BY DEF Run, RunStart, RunEnd, Alive, Live
  <1>3. /\ job[j].body.core \in Cores
        /\ active[job[j].body.core] = j /\ j # NoJob
    BY <1>2, JobAssumption DEF Inv, TypeOK, Job, Body, Serialized, JobIds
  <1>4. /\ job'[j].state = s /\ job'[j].body = job[j].body
        /\ \A k \in JobIds : k # j => job'[k] = job[k]
        /\ \A k \in JobIds : job'[k].body = job[k].body
    BY <1>1 DEF Inv, TypeOK, Job
  <1>5. s # "unborn" /\ (s \in Live <=> s \notin Terminal)
        /\ job[j].state # "unborn" /\ job[j].state \notin Terminal
    BY <1>2 DEF Live, Terminal, Alive
  <1>6. TypeOK'
    <2>1. job' \in [JobIds -> Job]
      BY <1>1 DEF Inv, TypeOK, Job, Live, Terminal
    <2>2. active' \in [Cores -> JobIds \cup {NoJob}]
      BY <1>1, <1>3 DEF Inv, TypeOK
    <2> QED BY <2>1, <2>2, <1>2 DEF Inv, TypeOK
  <1>7. Born'
    BY <1>2, <1>4, <1>5 DEF Inv, Born
  <1>8. Filed'
    BY <1>1, <1>3, <1>4 DEF Inv, TypeOK, Filed
  <1>9. Serialized'
    <2> SUFFICES ASSUME NEW k \in JobIds
                 PROVE  Alive(k)' <=> active'[job[k].body.core] = k
      BY <1>4 DEF Serialized
    <2>0. job[k].body.core \in Cores /\ k # NoJob
      BY JobAssumption DEF Inv, TypeOK, Job, Body, JobIds
    <2>1. CASE k = j
      BY <2>0, <2>1, <1>1, <1>3, <1>4, <1>5 DEF Inv, TypeOK, Alive
    <2>2. CASE k # j
      BY <2>0, <2>2, <1>1, <1>3, <1>4 DEF Inv, TypeOK, Serialized, Alive
    <2> QED BY <2>1, <2>2
  <1>10. HistoryWindow'
    BY <1>2 DEF Inv, HistoryWindow
  <1>11. ReplyTruthful'
    <2> SUFFICES ASSUME NEW q \in Requests, req[q].job # NoJob
                 PROVE  req[q].reply \in Terminal =>
                          job'[req[q].job].state = req[q].reply
      <3>1. \A q \in Requests : req[q].job # NoJob => req[q].job \in JobIds
        BY DEF Inv, TypeOK, Handler
      <3> QED BY <1>2, <1>4, <3>1 DEF Inv, ReplyTruthful
    <2>1. req[q].job \in JobIds
      BY DEF Inv, TypeOK, Handler
    <2> QED BY <2>1, <1>4, <1>5 DEF Inv, ReplyTruthful
  <1> QED BY <1>6, <1>7, <1>8, <1>9, <1>10, <1>11 DEF Inv

LEMMA WakeStep ==
  ASSUME Inv, NEW r \in Requests, Wake(r)
  PROVE  Inv'
  <1>1. UNCHANGED <<job, made, jobs, order, active>>
    BY DEF Wake, PollEnded, Deadline
  <1>2. PICK a \in Reply :
            /\ Answer(r, a)
            /\ a \in Terminal => a = job[req[r].job].state
    BY DEF Wake, PollEnded, Deadline, Ended, Reply, Terminal
  <1> DEFINE h == [req[r] EXCEPT !.at = "done", !.reply = a]
  <1>h. /\ h \in Handler
        /\ h.job = req[r].job /\ h.body = req[r].body /\ h.reply = a
    <2>1. req[r] \in Handler
      BY DEF Inv, TypeOK
    <2> QED BY <2>1 DEF Handler
  <1>r. req' = [req EXCEPT ![r] = h]
    BY <1>2 DEF Answer
  <1> HIDE DEF h
  <1>3. req' \in [Requests -> Handler]
    BY <1>h, <1>r DEF Inv, TypeOK
  <1>4. /\ req'[r].job = req[r].job /\ req'[r].body = req[r].body
        /\ req'[r].reply = a
        /\ \A q \in Requests : q # r => req'[q] = req[q]
    BY <1>h, <1>r DEF Inv, TypeOK
  <1>5. ReplyTruthful'
    BY <1>1, <1>2, <1>4 DEF Inv, ReplyTruthful
  <1> QED BY <1>1, <1>3, <1>5, HandlerMoves

LEMMA NextPreserves == Inv /\ [Next]_vars => Inv'
  <1> SUFFICES ASSUME Inv, [Next]_vars PROVE Inv'
    OBVIOUS
  <1>1. ASSUME NEW r \in Requests, NEW b \in Body, Submit(r, b) PROVE Inv'
    BY <1>1, SubmitNewStep, SubmitJoinStep, RefusedStep DEF Submit
  <1>2. ASSUME NEW j \in JobIds, Run(j) PROVE Inv'
    BY <1>2, RunStep
  <1>3. ASSUME NEW r \in Requests, Wake(r) PROVE Inv'
    BY <1>3, WakeStep
  <1>4. CASE UNCHANGED vars
    BY <1>4 DEF vars, Inv, TypeOK, Born, Filed, Serialized, Alive,
                HistoryWindow, ReplyTruthful
  <1> QED BY <1>1, <1>2, <1>3, <1>4 DEF Next

(* Every reachable state of the job manager satisfies the inductive        *)
(* invariant.                                                              *)
THEOREM Invariance == Spec => []Inv
  BY InitEstablishes, NextPreserves, PTL DEF Spec

(* The variables of the job manager always have their types.               *)
THEOREM TypeCorrect == Spec => []TypeOK
  <1>1. Inv => TypeOK
    BY DEF Inv
  <1> QED BY <1>1, Invariance, PTL

(* Jobs are serialized per core: the live jobs are exactly the registered  *)
(* ones, and each core registers one (submit() and _run() of jobs.py).     *)
THEOREM JobsSerialized == Spec => []Serialized
  <1>1. Inv => Serialized
    BY DEF Inv
  <1> QED BY <1>1, Invariance, PTL

(* _remember() keeps exactly the newest HistoryLimit jobs, in submission   *)
(* order, in both of its containers.                                       *)
THEOREM HistoryIsWindow == Spec => []HistoryWindow
  <1>1. Inv => HistoryWindow
    BY DEF Inv
  <1> QED BY <1>1, Invariance, PTL

(* What core_lifecycle replies is about the requested core and action, and *)
(* a final state once reported stays true.                                 *)
THEOREM RepliesTruthful == Spec => []ReplyTruthful
  <1>1. Inv => ReplyTruthful
    BY DEF Inv
  <1> QED BY <1>1, Invariance, PTL

=============================================================================
