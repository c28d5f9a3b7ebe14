---------------------------- MODULE AccountSync ----------------------------
(***************************************************************************)
(* The accounts and the speed limits of one core of a node: PUT accounts   *)
(* and PUT bandwidth/limits of node_agent/app.py, the snapshot of          *)
(* accounts_store.py, the limiter of limits.py, and what the start of the  *)
(* agent makes of their two files.                                         *)
(*                                                                         *)
(* A driver keeps its accounts in memory only.  PUT accounts runs beside   *)
(* the lock of the core: another PUT, or an uninstall, may run while the   *)
(* driver publishes.  wait_for() runs the driver inline, so the snapshot   *)
(* is written in the step in which the driver returns.  An account that    *)
(* does not validate refuses the whole PUT before anything has changed.    *)
(***************************************************************************)
CONSTANTS
    Accounts,    \* account ids the panel knows
    Limitable,   \* bound: those a speed limit is ever pushed for
    Puts         \* PUT accounts requests that may be open at once

ASSUME SyncAssumption == Limitable \subseteq Accounts

VARIABLES
    wholesale,   \* sync_accounts() removes what it is not given (WireGuard,
                 \* OpenVPN, sing-box, SSH, PPTP, SoftEther), or adds (Xray)
    installed,   \* the core has a driver
    purging,     \* an uninstall with purge has dropped the driver already
    live,        \* driver._accounts
    snap,        \* accounts/<core>.json, {} without a file
    put,         \* the PUT accounts requests
    limits,      \* bandwidth-limits.json: the accounts with a limit; _limits
                 \* in memory is read only by the apply() that has set it
    shaped,      \* accounts whose traffic the kernel limits
    want,        \* what the panel was last told this core serves
    upset,       \* history: the driver may serve something else
    unsaved      \* history: the snapshot may hold something else

shape == <<limits, shaped>>
vars  == <<wholesale, installed, purging, live, snap, put, shape, want, upset,
           unsaved>>

(* A request: where its handler is, what it was given, what the driver had *)
(* before, whether its driver still is the one of the core, and whether no *)
(* other PUT and no uninstall has met it.                                  *)
Request == [pc : {"idle", "syncing", "publishing"}, sent : SUBSET Accounts,
            replace : BOOLEAN, before : SUBSET Accounts, attached : BOOLEAN,
            alone : BOOLEAN]
Closed  == [pc |-> "idle", sent |-> {}, replace |-> TRUE, before |-> {},
            attached |-> FALSE, alone |-> FALSE]

Open == {r \in Puts : put[r].pc # "idle"}

Init ==
    /\ wholesale \in BOOLEAN
    /\ installed = FALSE /\ purging = FALSE
    /\ live = {} /\ snap = {} /\ want = {}
    /\ put = [r \in Puts |-> Closed]
    /\ limits = {} /\ shaped = {}
    /\ upset = FALSE /\ unsaved = FALSE

---------------------------------------------------------------------------
(* The core is installed and every account valid; the driver is looked up. *)
PutBegin(r, sent, replace) ==
    /\ installed /\ r \notin Open
    /\ put' = [q \in Puts |->
                 CASE q = r -> [pc |-> "syncing", sent |-> sent,
                                replace |-> replace, before |-> {},
                                attached |-> TRUE, alone |-> Open = {}]
                   [] q \in Open -> [put[q] EXCEPT !.alone = FALSE]
                   [] OTHER -> put[q]]
    /\ UNCHANGED <<installed, purging, live, snap, shape, want, upset, unsaved>>

(* driver.sync_accounts(), first half: the accounts in memory change.  The *)
(* flag "replace" of the request does not reach the driver.                *)
Apply(r) ==
    /\ put[r].pc = "syncing"
    /\ put' = [put EXCEPT ![r].pc = "publishing", ![r].before = live]
    /\ live' = IF ~put[r].attached THEN live
               ELSE IF wholesale THEN put[r].sent ELSE live \cup put[r].sent
    /\ UNCHANGED <<installed, purging, snap, shape, want, upset, unsaved>>

(* Mutant of Stored: append() where extend() is meant.                     *)
StoredNested(r, old) == old \cup {put[r].sent}

(* accounts_store.store(): overwrite, or merge by account id.              *)
Stored(r, old) == IF put[r].replace THEN put[r].sent ELSE old \cup put[r].sent

(* The request is answered with ok.  The driver then serves what the panel *)
(* thinks if nobody met the request and the driver understood it.          *)
Answered(r) ==
    /\ put[r].pc = "publishing"
    /\ put' = [put EXCEPT ![r] = Closed]
    /\ want' = IF put[r].replace THEN put[r].sent ELSE want \cup put[r].sent
    /\ upset' = (\/ ~put[r].alone \/ put[r].replace # wholesale
                 \/ upset /\ ~put[r].replace)
    /\ UNCHANGED <<installed, purging, live, shape>>

(* Second half: the driver has published and the snapshot is written ...   *)
PutDone(r) ==
    /\ Answered(r)
    /\ snap' = Stored(r, snap)
    /\ unsaved' = (unsaved /\ ~put[r].replace)

(* ... or cannot be written, which is logged.                              *)
PutDoneUnsaved(r) ==
    /\ Answered(r)
    /\ unsaved' = TRUE
    /\ UNCHANGED snap

(* The driver raises (409) or exceeds _ACCOUNTS_TIMEOUT (504), before or   *)
(* after its accounts changed; only some drivers take the change back.     *)
PutFails(r) ==
    /\ r \in Open
    /\ put' = [put EXCEPT ![r] = Closed]
    /\ \/ UNCHANGED live
       \/ put[r].pc = "publishing" /\ put[r].attached /\ live' = put[r].before
    /\ upset' = (upset \/ put[r].pc = "publishing")
    /\ UNCHANGED <<installed, purging, snap, shape, want, unsaved>>

(* A job installs the core: a driver without accounts.                     *)
Install ==
    /\ ~installed /\ ~purging
    /\ installed' = TRUE
    /\ UNCHANGED <<purging, live, snap, put, shape, want, upset, unsaved>>

(* uninstall_core() drops the driver, whoever is still using it ...        *)
Uninstall(purge) ==
    /\ installed
    /\ installed' = FALSE /\ purging' = purge
    /\ live' = {}
    /\ put' = [r \in Puts |-> [put[r] EXCEPT !.attached = FALSE, !.alone = FALSE]]
    /\ upset' = TRUE
    /\ UNCHANGED <<snap, shape, want, unsaved>>

(* Mutant of Forget: the file stays where it is.                           *)
ForgetNothing ==
    /\ purging
    /\ purging' = FALSE
    /\ want' = {} /\ upset' = FALSE /\ unsaved' = FALSE
    /\ UNCHANGED <<installed, live, snap, put, shape>>

(* ... and accounts_store.forget() removes the snapshot of a purged core.  *)
Forget ==
    /\ purging
    /\ purging' = FALSE
    /\ snap' = {}
    /\ want' = {} /\ upset' = FALSE /\ unsaved' = FALSE
    /\ UNCHANGED <<installed, live, put, shape>>

(* _desired(): a limit takes hold of the accounts the driver has now.      *)
Desired(lim, accounts) == lim \cap accounts

(* PUT bandwidth/limits, under the lock of the limiter: keep, store, then  *)
(* reconcile.  The write may fail, which is logged, and reconcile() may    *)
(* raise before or after the kernel has the new rules.                     *)
PutLimits(lim) ==
    /\ limits' \in {lim, limits}
    /\ shaped' \in {Desired(lim, live), shaped}
    /\ UNCHANGED <<installed, purging, live, snap, put, want, upset, unsaved>>

(* Mutant of Reshaped: the limits are applied before the accounts exist.   *)
ReshapedFirst(accounts) == Desired(limits, {})

(* limiter.load() and limiter.apply(), after restore_accounts().           *)
Reshaped(accounts) == Desired(limits, accounts)

(* The agent stops or dies, in the middle of a PUT or of an uninstall or   *)
(* not, and starts again before it serves a request: restore_accounts()    *)
(* replays the snapshot into an installed core, which may fail, as may the *)
(* reconcile that follows.                                                 *)
Restart(restored, applied) ==
    /\ live' = IF installed /\ restored THEN snap ELSE {}
    /\ shaped' = IF applied THEN Reshaped(live') ELSE shaped
    /\ put' = [r \in Puts |-> Closed]
    /\ purging' = FALSE
    /\ upset' = IF installed THEN ~restored \/ unsaved ELSE upset
    /\ UNCHANGED <<installed, snap, limits, want, unsaved>>

Next ==
    /\ \/ \E r \in Puts :
            \/ \E sent \in SUBSET Accounts, replace \in BOOLEAN :
                 PutBegin(r, sent, replace)
            \/ Apply(r) \/ PutDone(r) \/ PutDoneUnsaved(r) \/ PutFails(r)
       \/ Install \/ Forget
       \/ \E purge \in BOOLEAN : Uninstall(purge)
       \/ \E lim \in SUBSET Limitable : PutLimits(lim)
       \/ \E restored, applied \in BOOLEAN : Restart(restored, applied)
    /\ UNCHANGED wholesale

Spec == Init /\ [][Next]_vars

---------------------------------------------------------------------------
(* Every variable has its type.                                            *)
TypeOK ==
    /\ wholesale \in BOOLEAN /\ installed \in BOOLEAN /\ purging \in BOOLEAN
    /\ live \subseteq Accounts /\ snap \subseteq Accounts /\ want \subseteq Accounts
    /\ limits \subseteq Accounts /\ shaped \subseteq Accounts
    /\ upset \in BOOLEAN /\ unsaved \in BOOLEAN
    /\ put \in [Puts -> Request]

(* At rest the core serves exactly the accounts the panel has been told it *)
(* serves: across restarts that replay the snapshot, uninstalls with and   *)
(* without purge, and earlier failures that a later PUT or a restart has   *)
(* repaired.  Excepted are PUTs that met another PUT or an uninstall, and  *)
(* those whose "replace" is not what the driver does anyway.               *)
ServesWhatWasPushed == installed /\ Open = {} /\ ~upset => live = want

(* "Limits pushed earlier must survive a restart": an account the panel    *)
(* was told of, and limited, is limited again by a restart that replays    *)
(* the snapshot, before any request is served.                             *)
RestartReshapes ==
    [][installed /\ ~unsaved /\ Restart(TRUE, TRUE)
         => limits \cap want \subseteq shaped']_vars

(* "With replace=False the node only creates/updates what is sent": a PUT  *)
(* of that kind that meets nobody takes no account away from the driver.   *)
IncrementalKeeps ==
    \A r \in Puts :
        put[r].pc = "publishing" /\ put[r].alone /\ ~put[r].replace
            => put[r].before \subseteq live

===========================================================================
