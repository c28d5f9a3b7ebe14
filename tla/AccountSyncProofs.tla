------------------------- MODULE AccountSyncProofs -------------------------
(***************************************************************************)
(* Core, snapshot and panel agree on the accounts, and limits survive a    *)
(* restart, for any number of accounts and of requests that meet.          *)
(***************************************************************************)
EXTENDS AccountSync, TLAPS

(* A core that is gone has no accounts, nobody holds its driver, and a     *)
(* purge is over before the core is installed again.                       *)
Detached ==
    /\ purging => ~installed
    /\ ~installed => /\ live = {}
                     /\ \A r \in Puts : ~put[r].attached
                     /\ ~upset => want = {}

(* Who has met nobody is the only one, and once its accounts are in the    *)
(* driver it knows what the driver had before.                             *)
Lonely ==
    \A r \in Puts :
        /\ put[r].pc = "idle" => ~put[r].alone
        /\ put[r].alone =>
             /\ put[r].attached /\ Open = {r}
             /\ put[r].pc = "publishing" =>
                  /\ live = IF wholesale THEN put[r].sent
                            ELSE put[r].before \cup put[r].sent
                  /\ ~upset => put[r].before = want

(* A difference between driver and panel is owed to a request that is      *)
(* still to be answered.                                                   *)
Owed ==
    ~upset /\ (\A r \in Puts : put[r].pc = "publishing" => ~put[r].attached)
        => live = want

SnapshotTold == ~unsaved => snap = want

IInv == TypeOK /\ Detached /\ Lonely /\ Owed /\ SnapshotTold

---------------------------------------------------------------------------
LEMMA ClosedTyped ==
  Closed \in Request /\ Closed.pc = "idle" /\ ~Closed.alone /\ ~Closed.attached
  BY DEF Closed, Request

LEMMA InitHolds == Init => IInv
  <1> SUFFICES ASSUME Init PROVE IInv
    OBVIOUS
  <1>1. \A r \in Puts : put[r] = Closed
    BY DEF Init
  <1>2. TypeOK
    BY ClosedTyped DEF Init, TypeOK
  <1>3. Detached /\ Owed /\ SnapshotTold
    BY <1>1, ClosedTyped DEF Init, Detached, Owed, SnapshotTold
  <1>4. Lonely
    BY <1>1, ClosedTyped DEF Lonely
  <1> QED BY <1>2, <1>3, <1>4 DEF IInv

(* A request begins: whoever is open already has company from now on.      *)
LEMMA PutBeginStep ==
  ASSUME IInv, NEW r \in Puts, NEW sent \in SUBSET Accounts, NEW replace \in BOOLEAN,
         PutBegin(r, sent, replace), wholesale' = wholesale
  PROVE  IInv'
  <1> DEFINE new == [pc |-> "syncing", sent |-> sent, replace |-> replace,
                     before |-> {}, attached |-> TRUE, alone |-> Open = {}]
  <1>1. TypeOK /\ installed /\ put[r].pc = "idle" /\ put \in [Puts -> Request]
    BY DEF IInv, TypeOK, PutBegin, Open
  <1>2. new \in Request
    BY DEF Request
  <1>3. ASSUME NEW q \in Puts, q # r
        PROVE  /\ put'[q].pc = put[q].pc /\ put'[q].attached = put[q].attached
               /\ put'[q] \in Request /\ ~put'[q].alone
               /\ put[q].pc = "idle" => put'[q] = put[q]
    <2>1. CASE q \in Open
      <3>1. put'[q] = [put[q] EXCEPT !.alone = FALSE]
        BY <1>3, <2>1 DEF PutBegin
      <3> QED BY <1>1, <2>1, <3>1 DEF Request, Open
    <2>2. CASE q \notin Open
      <3>1. put'[q] = put[q]
        BY <1>3, <2>2 DEF PutBegin
      <3>2. ~put[q].alone
        BY <2>2 DEF IInv, Lonely, Open
      <3> QED BY <1>1, <3>1, <3>2, ClosedTyped
    <2> QED BY <2>1, <2>2
  <1>4. put'[r] = new
    BY DEF PutBegin
  <1>5. put' \in [Puts -> Request]
    <2>1. put' = [q \in Puts |-> put'[q]]
      BY DEF PutBegin
    <2> QED BY <1>2, <1>3, <1>4, <2>1
  <1>6. TypeOK'
    BY <1>1, <1>5 DEF PutBegin, TypeOK, shape
  <1>7. Detached' /\ SnapshotTold'
    BY <1>1 DEF IInv, Detached, SnapshotTold, PutBegin
  <1>8. Owed'
    BY <1>1, <1>3 DEF IInv, Owed, PutBegin
  <1>9. Lonely'
    <2>1. ASSUME Open = {} PROVE Open' = {r}
      <3>1. \A q \in Puts : q # r => put'[q].pc = "idle"
        BY <1>3, <2>1 DEF Open
      <3>2. put'[r].pc = "syncing"
        BY <1>4
      <3> QED BY <3>1, <3>2 DEF Open
    <2>2. \A q \in Puts : put'[q].pc = "idle" => ~put'[q].alone
      BY <1>3, <1>4
    <2>3. put'[r].alone => put'[r].attached /\ Open' = {r}
      <3>1. put'[r].attached
        BY <1>4
      <3>2. ASSUME Open # {} PROVE ~put'[r].alone
        <4>1. new.alone = FALSE
          BY <3>2
        <4> QED BY <1>4, <4>1
      <3> QED BY <2>1, <3>1, <3>2
    <2>4. put'[r].pc = "syncing"
      BY <1>4
    <2> HIDE DEF new
    <2> QED BY <1>3, <2>2, <2>3, <2>4 DEF Lonely
  <1> QED BY <1>6, <1>7, <1>8, <1>9 DEF IInv

(* The driver takes the accounts.                                          *)
LEMMA ApplyStep ==
  ASSUME IInv, NEW r \in Puts, Apply(r), wholesale' = wholesale
  PROVE  IInv'
  <1>1. TypeOK /\ put[r].pc = "syncing" /\ put[r] \in Request
    BY DEF IInv, TypeOK, Apply
  <1>2. put'[r] = [put[r] EXCEPT !.pc = "publishing", !.before = live]
    BY <1>1 DEF Apply, TypeOK
  <1>3. /\ put'[r] \in Request
        /\ put'[r].pc = "publishing" /\ put'[r].before = live
        /\ put'[r].sent = put[r].sent /\ put'[r].replace = put[r].replace
        /\ put'[r].attached = put[r].attached /\ put'[r].alone = put[r].alone
    <2> DEFINE mid == [put[r] EXCEPT !.pc = "publishing"]
    <2>1. /\ mid \in Request /\ mid.pc = "publishing"
          /\ mid.sent = put[r].sent /\ mid.replace = put[r].replace
          /\ mid.attached = put[r].attached /\ mid.alone = put[r].alone
      BY <1>1 DEF Request
    <2>2. put'[r] = [mid EXCEPT !.before = live]
      BY <1>2
    <2> HIDE DEF mid
    <2> QED BY <1>1, <2>1, <2>2 DEF Request, TypeOK
  <1>4. \A q \in Puts : q # r => put'[q] = put[q]
    BY <1>1 DEF Apply, TypeOK
  <1>5. put' \in [Puts -> Request]
    <2>1. put' = [q \in Puts |-> put'[q]]
      BY <1>1 DEF Apply, TypeOK
    <2> QED BY <1>1, <1>3, <1>4, <2>1 DEF TypeOK
  <1>6. live' = IF ~put[r].attached THEN live
                ELSE IF wholesale THEN put[r].sent ELSE live \cup put[r].sent
    BY DEF Apply
  <1>7. TypeOK'
    <2>1. put[r].sent \subseteq Accounts
      BY <1>1 DEF Request
    <2> QED BY <1>1, <1>5, <1>6, <2>1 DEF Apply, TypeOK, shape
  <1>8. Detached'
    BY <1>3, <1>4, <1>6 DEF IInv, Detached, Apply
  <1>9. Lonely'
    <2>1. Open' = Open
      BY <1>1, <1>3, <1>4 DEF Open
    <2>2. ASSUME put[r].alone
          PROVE  /\ put[r].attached /\ Open = {r}
                 /\ ~upset => live = want
      <3>1. put[r].attached /\ Open = {r}
        BY <2>2 DEF IInv, Lonely
      <3>2. \A q \in Puts : put[q].pc # "publishing"
        BY <1>1, <3>1 DEF Open
      <3> QED BY <3>1, <3>2 DEF IInv, Owed
    <2>3. ASSUME NEW q \in Puts, q # r PROVE ~put'[q].alone \/ put'[q].pc = "idle"
      BY <1>1, <1>4, <2>3 DEF IInv, Lonely, Open
    <2>4. ASSUME NEW q \in Puts, q # r PROVE ~put'[q].alone
      BY <1>4, <2>3, <2>4, ClosedTyped DEF IInv, Lonely
    <2>5. put'[r].pc # "idle"
      BY <1>3
    <2> QED BY <1>3, <1>6, <2>1, <2>2, <2>4, <2>5 DEF Lonely, Apply
  <1>10. Owed'
    BY <1>1, <1>3, <1>4, <1>6 DEF IInv, Owed, Apply
  <1>11. SnapshotTold'
    BY DEF IInv, SnapshotTold, Apply
  <1> QED BY <1>7, <1>8, <1>9, <1>10, <1>11 DEF IInv

(* A request leaves: those that are still open have met it.                *)
LEMMA LeavingCompany ==
  ASSUME IInv, NEW r \in Puts, r \in Open, put' = [put EXCEPT ![r] = Closed]
  PROVE  /\ put' \in [Puts -> Request] /\ put'[r] = Closed
         /\ \A q \in Puts : q # r => put'[q] = put[q]
         /\ \A q \in Puts : ~put'[q].alone
         /\ \A q \in Puts : put'[q].attached => put[q].attached
  <1>1. put \in [Puts -> Request]
    BY DEF IInv, TypeOK
  <1>2. /\ put' \in [Puts -> Request] /\ put'[r] = Closed
        /\ \A q \in Puts : q # r => put'[q] = put[q]
    BY <1>1, ClosedTyped
  <1>3. ASSUME NEW q \in Puts, q # r PROVE ~put'[q].alone
    <2>1. put[q].alone => Open = {q}
      BY DEF IInv, Lonely
    <2> QED BY <1>2, <1>3, <2>1
  <1>4. ~put'[r].alone
    BY <1>2, ClosedTyped
  <1>6. \A q \in Puts : put'[q].attached => put[q].attached
    BY <1>2, ClosedTyped
  <1> QED BY <1>2, <1>3, <1>4, <1>6

(* An answer: what the panel is told is what the driver has.               *)
LEMMA AnsweredStep ==
  ASSUME IInv, NEW r \in Puts, Answered(r), wholesale' = wholesale,
         snap' \subseteq Accounts, unsaved' \in BOOLEAN, SnapshotTold'
  PROVE  IInv'
  <1>1. /\ TypeOK /\ put[r] \in Request /\ put[r].pc = "publishing"
        /\ r \in Open /\ put' = [put EXCEPT ![r] = Closed]
        /\ UNCHANGED <<installed, purging, live, limits, shaped>>
    BY DEF IInv, TypeOK, Answered, Open, shape
  <1>2. /\ put' \in [Puts -> Request] /\ put'[r] = Closed
        /\ \A q \in Puts : q # r => put'[q] = put[q]
        /\ \A q \in Puts : ~put'[q].alone
        /\ \A q \in Puts : put'[q].attached => put[q].attached
    BY <1>1, LeavingCompany
  <1>3. /\ put[r].sent \subseteq Accounts
        /\ put[r].replace \in BOOLEAN /\ put[r].alone \in BOOLEAN
    BY <1>1 DEF Request
  <1>4. /\ want' = IF put[r].replace THEN put[r].sent ELSE want \cup put[r].sent
        /\ upset' = (\/ ~put[r].alone \/ put[r].replace # wholesale
                     \/ upset /\ ~put[r].replace)
    BY DEF Answered
  <1>5. TypeOK'
    <2>1. want' \subseteq Accounts
      BY <1>1, <1>3, <1>4 DEF TypeOK
    <2>2. upset' \in BOOLEAN
      BY <1>4
    <2> QED BY <1>1, <1>2, <2>1, <2>2 DEF TypeOK
  <1>6. ASSUME ~upset' PROVE live' = want' /\ installed
    <2>1. put[r].alone /\ (put[r].replace <=> wholesale) /\ (upset => put[r].replace)
      BY <1>1, <1>3, <1>4, <1>6 DEF TypeOK
    <2>2. /\ put[r].attached
          /\ live = IF wholesale THEN put[r].sent ELSE put[r].before \cup put[r].sent
          /\ ~upset => put[r].before = want
      BY <1>1, <2>1 DEF IInv, Lonely
    <2>3. installed
      BY <2>2 DEF IInv, Detached
    <2>4. CASE put[r].replace
      BY <1>1, <1>4, <2>1, <2>2, <2>3, <2>4
    <2>5. CASE ~put[r].replace
      BY <1>1, <1>4, <2>1, <2>2, <2>3, <2>5
    <2> QED BY <2>4, <2>5
  <1>7. Detached'
    BY <1>1, <1>2, <1>6 DEF IInv, Detached
  <1>8. Lonely'
    BY <1>2 DEF Lonely
  <1>9. Owed'
    BY <1>6 DEF Owed
  <1> QED BY <1>5, <1>7, <1>8, <1>9 DEF IInv

LEMMA PutDoneStep ==
  ASSUME IInv, NEW r \in Puts, PutDone(r), wholesale' = wholesale
  PROVE  IInv'
  <1>1. put[r] \in Request /\ snap \subseteq Accounts /\ unsaved \in BOOLEAN
    BY DEF IInv, TypeOK
  <1>2. put[r].sent \subseteq Accounts /\ put[r].replace \in BOOLEAN
    BY <1>1 DEF Request
  <1>3. snap' \subseteq Accounts /\ unsaved' \in BOOLEAN
    BY <1>1, <1>2 DEF PutDone, Stored
  <1>4. SnapshotTold'
    BY <1>1, <1>2 DEF IInv, SnapshotTold, PutDone, Stored, Answered
  <1> QED BY <1>3, <1>4, AnsweredStep DEF PutDone

LEMMA PutDoneUnsavedStep ==
  ASSUME IInv, NEW r \in Puts, PutDoneUnsaved(r), wholesale' = wholesale
  PROVE  IInv'
  <1>1. snap' \subseteq Accounts /\ unsaved' \in BOOLEAN /\ SnapshotTold'
    BY DEF IInv, TypeOK, PutDoneUnsaved, SnapshotTold
  <1> QED BY <1>1, AnsweredStep DEF PutDoneUnsaved

LEMMA PutFailsStep ==
  ASSUME IInv, NEW r \in Puts, PutFails(r), wholesale' = wholesale
  PROVE  IInv'
  <1>1. /\ TypeOK /\ put[r] \in Request /\ r \in Open
        /\ put' = [put EXCEPT ![r] = Closed]
        /\ UNCHANGED <<installed, purging, snap, limits, shaped, want, unsaved>>
        /\ upset' = (upset \/ put[r].pc = "publishing")
    BY DEF IInv, TypeOK, PutFails, shape
  <1>2. /\ put' \in [Puts -> Request] /\ put'[r] = Closed
        /\ \A q \in Puts : q # r => put'[q] = put[q]
        /\ \A q \in Puts : ~put'[q].alone
        /\ \A q \in Puts : put'[q].attached => put[q].attached
    BY <1>1, LeavingCompany
  <1>3. \/ live' = live
        \/ put[r].pc = "publishing" /\ put[r].attached /\ live' = put[r].before
    BY DEF PutFails
  <1>4. TypeOK'
    <2>1. live' \subseteq Accounts
      BY <1>1, <1>3 DEF TypeOK, Request
    <2>2. upset' \in BOOLEAN
      BY <1>1 DEF TypeOK
    <2> QED BY <1>1, <1>2, <2>1, <2>2 DEF TypeOK
  <1>5. Detached'
    BY <1>1, <1>2, <1>3 DEF IInv, Detached
  <1>6. Lonely'
    BY <1>2 DEF Lonely
  <1>7. Owed'
    <2> SUFFICES ASSUME ~upset',
                        \A q \in Puts : put'[q].pc = "publishing" => ~put'[q].attached
                 PROVE  live' = want'
      BY DEF Owed
    <2>1. ~upset /\ put[r].pc # "publishing" /\ live' = live
      BY <1>1, <1>3
    <2>2. \A q \in Puts : put[q].pc = "publishing" => ~put[q].attached
      BY <1>2, <2>1
    <2> QED BY <1>1, <2>1, <2>2 DEF IInv, Owed
  <1>8. SnapshotTold'
    BY <1>1 DEF IInv, SnapshotTold
  <1> QED BY <1>4, <1>5, <1>6, <1>7, <1>8 DEF IInv

(* The core comes, goes and is purged.                                     *)
LEMMA InstallStep ==
  ASSUME IInv, Install, wholesale' = wholesale
  PROVE  IInv'
  <1>1. TypeOK' /\ SnapshotTold'
    BY DEF IInv, TypeOK, SnapshotTold, Install, shape
  <1>2. Detached' /\ Owed'
    BY DEF IInv, Detached, Owed, Install
  <1>3. Lonely'
    BY DEF IInv, Lonely, Open, Install
  <1> QED BY <1>1, <1>2, <1>3 DEF IInv

LEMMA UninstallStep ==
  ASSUME IInv, NEW purge \in BOOLEAN, Uninstall(purge), wholesale' = wholesale
  PROVE  IInv'
  <1>1. put \in [Puts -> Request]
    BY DEF IInv, TypeOK
  <1>2. ASSUME NEW r \in Puts
        PROVE  /\ put'[r] \in Request /\ ~put'[r].alone /\ ~put'[r].attached
    <2> DEFINE mid == [put[r] EXCEPT !.attached = FALSE]
    <2>1. mid \in Request /\ mid.pc = put[r].pc /\ ~mid.attached
      BY <1>1 DEF Request
    <2>2. put'[r] = [mid EXCEPT !.alone = FALSE]
      BY DEF Uninstall
    <2> HIDE DEF mid
    <2>4. put'[r] \in Request /\ ~put'[r].alone /\ ~put'[r].attached /\ put'[r].pc = put[r].pc
      BY <2>1, <2>2 DEF Request
    <2> QED BY <2>4
  <1>3. put' \in [Puts -> Request]
    <2>1. put' = [r \in Puts |-> put'[r]]
      BY DEF Uninstall
    <2> QED BY <1>2, <2>1
  <1>4. TypeOK' /\ SnapshotTold'
    BY <1>3 DEF IInv, TypeOK, SnapshotTold, Uninstall, shape
  <1>5. Detached' /\ Owed' /\ Lonely'
    BY <1>2 DEF IInv, Detached, Owed, Lonely, Uninstall
  <1> QED BY <1>4, <1>5 DEF IInv

LEMMA ForgetStep ==
  ASSUME IInv, Forget, wholesale' = wholesale
  PROVE  IInv'
  <1>1. ~installed /\ live = {} /\ \A r \in Puts : ~put[r].attached
    BY DEF IInv, Detached, Forget
  <1>2. \A r \in Puts : ~put[r].alone
    BY <1>1 DEF IInv, Lonely
  <1>3. TypeOK' /\ SnapshotTold'
    BY DEF IInv, TypeOK, SnapshotTold, Forget, shape
  <1>4. Detached' /\ Owed' /\ Lonely'
    BY <1>1, <1>2 DEF IInv, Detached, Owed, Lonely, Forget
  <1> QED BY <1>3, <1>4 DEF IInv

LEMMA PutLimitsStep ==
  ASSUME IInv, NEW lim \in SUBSET Limitable, PutLimits(lim), wholesale' = wholesale
  PROVE  IInv'
  <1>1. limits' \subseteq Accounts /\ shaped' \subseteq Accounts
    BY SyncAssumption DEF IInv, TypeOK, PutLimits, Desired
  <1>2. TypeOK' /\ SnapshotTold' /\ Detached' /\ Owed'
    BY <1>1 DEF IInv, TypeOK, SnapshotTold, Detached, Owed, PutLimits
  <1>3. Lonely'
    BY DEF IInv, Lonely, Open, PutLimits
  <1> QED BY <1>2, <1>3 DEF IInv

(* A restart serves the snapshot, which is what the panel was told.        *)
LEMMA RestartStep ==
  ASSUME IInv, NEW restored \in BOOLEAN, NEW applied \in BOOLEAN,
         Restart(restored, applied), wholesale' = wholesale
  PROVE  IInv'
  <1>1. \A r \in Puts : put'[r] = Closed
    BY DEF Restart
  <1>2. TypeOK'
    <2>1. put' \in [Puts -> Request]
      BY ClosedTyped DEF Restart
    <2>2. live' \subseteq Accounts /\ shaped' \subseteq Accounts
      BY DEF IInv, TypeOK, Restart, Reshaped, Desired
    <2>3. upset' \in BOOLEAN
      BY DEF IInv, TypeOK, Restart
    <2> QED BY <2>1, <2>2, <2>3 DEF IInv, TypeOK, Restart
  <1>3. Detached'
    BY <1>1, ClosedTyped DEF IInv, Detached, Restart
  <1>4. Lonely'
    BY <1>1, ClosedTyped DEF Lonely
  <1>5. Owed'
    BY DEF IInv, Detached, Owed, SnapshotTold, TypeOK, Restart
  <1>6. SnapshotTold'
    BY DEF IInv, SnapshotTold, Restart
  <1> QED BY <1>2, <1>3, <1>4, <1>5, <1>6 DEF IInv

LEMMA NextHolds == IInv /\ [Next]_vars => IInv'
  <1> SUFFICES ASSUME IInv, [Next]_vars PROVE IInv'
    OBVIOUS
  <1>1. CASE Next
    BY <1>1, PutBeginStep, ApplyStep, PutDoneStep, PutDoneUnsavedStep, PutFailsStep,
       InstallStep, UninstallStep, ForgetStep, PutLimitsStep, RestartStep DEF Next
  <1>2. CASE UNCHANGED vars
    BY <1>2 DEF vars, shape, IInv, TypeOK, Detached, Lonely, Open, Owed, SnapshotTold
  <1> QED BY <1>1, <1>2

---------------------------------------------------------------------------
(* The strengthening is an invariant of the specification.                 *)
THEOREM Invariance == Spec => []IInv
  BY InitHolds, NextHolds, PTL DEF Spec

(* Every variable has its type.                                            *)
THEOREM TypeCorrect == Spec => []TypeOK
  <1>1. IInv => TypeOK
    BY DEF IInv
  <1> QED BY <1>1, Invariance, PTL

(* At rest the core serves what the panel was told it serves.              *)
THEOREM CoreAndPanelAgree == Spec => []ServesWhatWasPushed
  <1>1. IInv => ServesWhatWasPushed
    BY DEF IInv, Owed, ServesWhatWasPushed, Open
  <1> QED BY <1>1, Invariance, PTL

(* A restart that replays the snapshot limits again whom the panel was     *)
(* told of and had limited.                                                *)
THEOREM LimitsSurvive == Spec => RestartReshapes
  <1>1. IInv /\ [Next]_vars =>
          [installed /\ ~unsaved /\ Restart(TRUE, TRUE)
             => limits \cap want \subseteq shaped']_vars
    BY DEF IInv, SnapshotTold, Restart, Reshaped, Desired
  <1> QED BY <1>1, Invariance, PTL DEF Spec, RestartReshapes

=============================================================================
