# Zagros node: TLA+ models, model checks and proofs

Zagros node (`src/node_agent`, with the driver runtime vendored in
`src/vendor/zagros`) is an agent that runs on a server and lets a remote panel
manage VPN cores there: xray, sing-box, OpenVPN, WireGuard, SSH, SoftEther and
PPTP.  This directory holds TLA+ models of the parts of it whose correctness
depends on order, concurrency, failure and restart, the TLC configurations that
check them on small instances, and TLAPS proofs for instances of any size.

`PROJECT.json` is the index: components, runs, mutants, the map from definitions
to source lines, findings, hazards and theorems.

```
tlc -workers 2 -config JobManager.cfg JobManager        # one run
tlapm JobManagerProofs.tla                              # one module of proofs
```

## 1. The system

### Components, their state and their operations

| component | source | state | operations |
|---|---|---|---|
| lifecycle jobs | `node_agent/jobs.py`, `core_lifecycle` in `app.py` | Job objects, `_jobs`, `_order`, `_active` (memory) | `submit`, `_run`, `_remember`, the polling loop of `POST /v1/cores/{id}/lifecycle?wait=` |
| replay guard | `ReplayGuard` in `security.py` | `_seen`, `replay.json` | `accept`, loading at start |
| node identity | `NodeIdentityStore` in `security.py`, `cli.py` | `identity.json` (node id, hash of the one-time token, sealed signing key), `identity.key` (the local key that seals it) | constructor, `register`, `revoke`, `reset_registration` |
| core manager | `vendor/zagros/app/cores/manager.py` | `_drivers`, `_states`, `_enabled`, `_locks` (memory) | `boot`, `start_enabled`, `stop_all`, `install_core`, `uninstall_core`, `update_core`, `start_core`, `stop_core`, `restart_core`, `apply_studio_document`, `persist_settings` |
| core state store | `node_agent/state.py` | `cores.json`, one asyncio lock | `load`, `save_state`, `remove` |
| accounts | `accounts_store.py`, `PUT .../accounts` | `accounts/<core>.json`, accounts in the drivers | replace, merge, replay at boot, forget at purge |
| bandwidth limits | `limits.py`, `platform/bandwidth.py` | `bandwidth-limits.json`, the rules of the kernel | `load`, `apply`, reconcile |
| usage telemetry | `app.py` 590-720, `cores/stats.py` | baselines of the drivers, `usage-baselines.json` | `GET runtime/usage`, restore at boot |
| IP bans | `ip_limits.py`, `PUT ip-bans` | one nftables table | replace the projection, close sessions |
| TLS material | `tls.py` | certificate and key file | `ensure`, `generate` |
| sessions, quota, devices | `cores/sessions.py`, `quota.py`, `devices.py` | samples per account | sample, fold |
| service processes | `cores/process.py` | child process, log pump | spawn, wait, kill |
| drivers | `cores/drivers/*` | configuration files, external programs | install, start, stop, status, ... |
| Xray TLS material | `app.py` 804-892 | PEM files of inbounds | write the pairs of one document |
| info server, configuration | `info_api.py`, `config.py` | - | read-only |
| routing, outbounds, policy, gRPC stubs | `cores/routing`, `xray_api`, ... | - | engines and generated code the agent does not drive |

### How they interact

The agent is one asyncio event loop. A request passes `signed_request` (identity, then
the replay guard) and reaches a handler. `POST .../lifecycle` submits a job whose
coroutine calls the core manager; `PUT .../settings`, `.../inbounds` and `.../identity`
call the manager, or its store, directly. Many handlers call the driver without the lock
of the core: the import of an identity (`app.py:442`), accounts (502, and the replay at
boot, 773), usage (642), online devices (612), status (336), versions (360) and logs
(377). The manager takes one lock per core, calls the driver, and saves through the
state store, which runs its file work in threads. The lifespan of the application boots
the manager, starts the cores, replays the accounts, then applies the limits, before
requests are served, and stops the cores afterwards. The command line is a second
process on the same `identity.json` and the same TLS files.

### What is hard

* several tasks contend for one core, with refusals, failures and hand-overs, and
  `PUT .../settings` and `PUT .../accounts` work beside the lock;
* `wait_for` cuts an operation off at any await while its thread goes on;
* a driver call, or a call of the store, may raise after half of the work is done;
* the process may die between any two saves, and boots from what is on disk;
* two processes, or a process and a thread nobody waits for any more, write one
  file through one temporary name;
* commands are delivered late, twice or after a restart, and replies are lost,
  after the state they speak of has been saved;
* counters restart, clocks are cut to whole seconds, and what was read before an
  await is used after it;
* a bounded history forgets jobs others still refer to.

The list with lines is `hazards` in `PROJECT.json`.

## 2. The modules

| module | models | proofs |
|---|---|---|
| `JobManager` | jobs and the handlers that wait for them | `JobManagerProofs` |
| `ReplayGuard` (`MCReplayGuard`) | the nonce cache, its file, clocks and copies | `ReplayGuardProofs` |
| `NodeIdentity` (`MCNodeIdentity`) | `identity.json` and `identity.key` under the agent and the command line | `NodeIdentityProofs` |
| `CoreLifecycle` | abstract: the moves the state of a core may make | - |
| `CoreManager` | one core: manager, store, handlers, lifespan, time-outs | `CoreManagerProofs` |
| `AtomicStore` | abstract: a store whose calls take effect in one step | - |
| `StateStore` | `cores.json` with locks, threads, cancellations and crashes | `StateStoreProofs` |
| `AccountSync` | accounts and limits of a core: driver, snapshot, kernel, panel | `AccountSyncProofs` |
| `UsageTelemetry` | counters, cursors, their file, polls and replies | `UsageTelemetryProofs` |
| `IpBans` | the ban table under two requests, and the sessions | `HostProofs` |
| `TlsMaterial` | certificate and key under the agent and the command line | `HostProofs` |

**JobManager.**  `submit` has no await inside its lock, so a submission is one
step with four outcomes: `SubmitNew`, `SubmitJoin`, `SubmitConflict`,
`SubmitKeyError` (the id in `_active` is no longer in `_jobs`).  `_run` is cut at
its only await: `RunStart`, `RunEnd`.  `job` holds every Job object, because a
handler keeps its object after the history has dropped the id; `jobs` and `order`
are the dictionary and the list.  A handler without `?wait=` replies in the step
of its submission, one with it waits for `PollEnded` or `Deadline`.

**ReplayGuard.**  One action per outcome of `accept()`; a refusal for being
outside the window changes nothing and has none.  `Send` is the panel with a
clock of its own: any timestamp, and every copy the network makes is an `Accept`
or `RefuseReplay` of the same nonce.  `AcceptWriteFails` is an `OSError` from
`_write`.  A crash between the dictionary and the file is `Crash` before the
step: nothing was let through and the file is old.

**NodeIdentity.**  The constructor makes a missing `identity.key` first (`Prepare`),
reads it (`Load`), and then leaves `identity.json` as it is or computes a new content
(`Construct`); `Register`, `Revoke` and `ResetRegistration` read and compute in one
step.  `AgentBoot`, `CliInfo` and `CliReset` begin a constructor.  Every content, the
local key included, is written through the one `identity.part`: `Open` truncates it,
`Fill` writes into it, `ReplaceKey` or `Replace` renames whatever is there onto the
target.  A process keeps its file open while the other renames (`fd`), so it may fill
the real file; a file that is empty, mixed or of the other kind is `Torn`, and nothing
reads it.  `Fails` is an exception or an interruption at any of these points, which
leaves the `.part` file behind.  `cipher` is the local key the agent has loaded, `seal`
the one a signing key is sealed with.  `zagros-node audit` constructs a store and no
more: `CliReset(NoToken)` followed by `Fails`.  `dropped` (keys that were forgotten),
`told` (the key the panel was given; a reply may be lost on its way) and `raced` (agent
and command line have been inside an operation at the same time) are history.

**CoreManager.**  The tasks of one core are the job (jobs.py allows one), one
`PUT` handler, and the lifespan.  A task is at a place of its operation and may
wait for the lock, the store (`saving`) or the driver (`calling`).  Entering an
operation, which takes the lock and examines the state, is one step; each return
of a driver call is an action with the outcomes the code distinguishes, and the
save that follows is queued in the same step.  The store is a queue: its asyncio
lock is first come first served, and a call rewrites the row (`StoreServes`), or
raises an `OSError` (`StoreFails`), before the next one starts.  A failed call leaves
the row as it was and the memory as `_set_state` or the driver has made it, and the
task leaves its operation: nothing tries again.  `TimeOut` is `wait_for` firing inside
an operation: the task is gone, the lock released, a call of the store withdrawn or
(when its write has begun) carried out, a driver call goes on as a member of `threads`.
`WaitTimesOut` is the same for a task that still waits for the lock.  `Exit` ends the
process at any moment; what the core runs goes with it or, like the interface of
WireGuard, stays.

Of the calls made without the lock, the import of `PUT .../identity` is here
(`PutIdentity`, `ImportReturns`), because it may change settings: it awaits the driver
beside any operation, may raise, and may have changed them by then.  Accounts and their
replay are `AccountSync`, usage is `UsageTelemetry`; status, versions, logs and online
devices change nothing and are in no module.

A driver is represented by how its calls may end: a start that raises may have
brought the process up, a stop that raises may have killed it, a hook that raises
may have changed the settings.  Settings are what the panel sent, as opaque
values.  `died`, `unsaved`, `refused` (the last call of the store has failed) and `cut`
(what time-outs have cut off since the agent started: an operation, a driver call) are
history variables used by properties.

One core is enough because cores share only the file of the store, whose calls are
serialized, and because no shipped driver requires a feature of another one, so
`dependents()` is empty.  The agent constructs the manager without built-in cores.
The enabled flag is left out since the agent never clears it.

**CoreLifecycle** is what the manager promises about `_states[core]`: the moves
between the members of `CoreState`, with "absent" for a core without an entry.
`CoreManager` refines it with `state <- st`.

**StateStore.**  A call takes the lock (`Acquire`), reads the whole file in a
thread and computes its change (`Read`), and starts a second thread that opens and
truncates `cores.part` (`Truncate`), fills it (`Fill`) and renames it (`Rename`).
`Cancel` takes the task away and frees the lock.  A thread that the pool has yet to
start is withdrawn with it; one that has begun to write goes on, its call is "gone",
and only its rename, or the failure of that, frees it.  What the handle of such a
thread is on after somebody has renamed the file is followed in `on`, so that a
thread may write into the real file.  `met` is history: a call has read the file
while the write of a gone one still went on.  `Die` ends everything.

**AtomicStore** is what the core manager takes the store for, and its queue is one
order of these atomic steps.  A call that is cut off does nothing more (`ACutOff`),
or takes effect once, later (`ALate`).

**AccountSync.**  One core, one limiter, and `PUT accounts` requests that overlap.
`sync_accounts()` has two halves, the accounts in memory (`Apply`) and the
publication to the core (`PutDone`, `PutDoneUnsaved`, `PutFails`); the snapshot is
written in the step in which the driver returns.  Drivers differ: `wholesale` ones
make what they are given their whole table, the other one (Xray) adds to it.
`Uninstall` with purge drops the driver first and the snapshot in `Forget`, and
`Restart` may come in between.  `PutLimits` and `Restart` resolve the stored limits
against the accounts the driver has at that moment.  `want` is what the panel was
told, `upset` and `unsaved` say when a failure of the outside has taken it away.

**UsageTelemetry.**  A poll visits the cores in turn: `Sample` is the thread that
reads the counter, `Observe` the tracker on the event loop, `ReadFails` an
exception or a time-out, after which a reading already taken is dropped.  `Save`,
`SaveFails` and `DieInSave` are the write of the cursors, `Deliver` and `LoseReply`
what becomes of the reply.  `CounterReset` restarts a core, `Restart` the agent.  The
cursors are handed back before the accounts are (`app.py:179-180`).  Of the drivers only
WireGuard looks a cursor up by its account, so it keeps none of them (`Restored`, for
the cores in `Keyed`); its counters live in the kernel and outlive the agent unless a
start replaces the interface (`Replaced`).  `exposed` is history: the cores whose counter
went on while their cursor was lost.

**IpBans.**  Time is counted in half seconds, so that the cut to whole seconds
shows.  `PutBegin` reads the clock and asks for the table; `Apply` is the nft
command that acts on that answer; `Terminate` closes the sessions afterwards.
Where two requests met, an element may keep the time-out of either.

**TlsMaterial.**  Pairs are numbered; `Load` finds both files, `Generate` and four
steps make a new pair through two `.part` files, and `Die` ends a process anywhere.

## 3. The runs

| run | properties | what it shows |
|---|---|---|
| `jobs` | `TypeOK` `Serialized` `HistoryWindow` `ReplyTruthful` `CoreFreed` `HandlersAnswered` | a job is live exactly when `_active` names it; the history is the window of the newest jobs; what a handler replied stays true; a core does not stay busy, a waiting handler is answered |
| `replay` | `TypeOK` `AtMostOnce` `OnlyCopiesRefused` | a command goes through at most once, a first copy is never called a replay |
| `identity` | `TypeOK` `DroppedStaysDropped` `PanelKeyOnDisk` `KeyOpens` `NodeIdStable` | while the two processes take turns, and may fail or die at any point of a write: the identity on disk stays complete and keeps its node id, a forgotten key never returns, the key the panel was given stays on disk, and the key on disk can be unsealed |
| `core` | `TypeOK` `Exclusive` `MemoryOnDisk` `StateTellsProcess` `FollowsLifecycle` `OperationsEnd` | no time-outs inside operations, failing calls of driver and store: operations exclude each other, the row at rest is the memory but for what a failed call of the store left behind, the record is true of the process, the state moves as the lifecycle allows, no operation waits for ever |
| `core_timeouts` | `Exclusive` `LifecycleCallsSerialized` `MemoryOnDisk` `StateTellsProcess` `FollowsLifecycle` | operations cut off at any await: exclusion and lifecycle hold throughout; driver calls of operations that do not overlap, and the true record, hold until a driver call is cut off, the row until an operation is, and all three again after a restart |
| `store` | `TypeOK` `ImplementsAtomicStore` `CallsEnd` | calls take effect in one step and cancelled ones at most once, through crashes at any point, until one reads the file beside the write of a cancelled one; no call ever hangs, cancelled ones and their threads included |
| `accounts` | `TypeOK` `ServesWhatWasPushed` `RestartReshapes` | at rest driver and panel agree on the accounts, across restarts, purges and repaired failures; a restart limits again what was limited |
| `usage` | `TypeOK` `NoDoubleCount` `NothingMissed` | over restarts, resets, time-outs and lost replies no byte is reported twice, except of a counter that outlived its lost cursor, and without a loss none is missed |
| `ipbans` | `BanTypeOK` `BansAsAsked` `BannedAreOut` | the kernel blocks what was asked for, to within a second, and no banned client keeps or reopens a session |
| `tls` | `TypeOK` `PairMatches` `PinHolds` | certificate and key on disk are one pair wherever a process dies, and a certificate that was shown stays |

Every property has a mutant in `PROJECT.json`: a changed form of one definition,
as a plausible bug would change it, under which TLC reports that property.

### Disagreements

Two runs end in a violation: the code does something else than a docstring or a
comment of the repository says.

| run | property | what happens |
|---|---|---|
| `usage_restart` | `NoOldBytes` | "a restarted agent must not re-report old bytes": cursors are restored before accounts, WireGuard keeps none of them, and when its interface outlives the agent the next poll reports the whole counter again |
| `accounts_incremental` | `IncrementalKeeps` | `replace=False`, "an incremental user save", never reaches the driver, and a wholesale driver takes every account out of service that is not in the request |

The models contain further behaviours a reader of the code may not expect; none of
them has a run of its own:

* "identical" in `submit` is the name of the action: a request with other settings
  joins the job in flight and is told the success of the first (`SubmitJoin`).
* The history drops by age alone: 200 newer jobs push out the id of a job that is
  still running, and a submission for its core raises `KeyError`.
* Pairing empties the stored hash of the token, and the next start of the agent arms
  the hash of its environment again: a token that was used up works a second time.
* The constructor of the identity does not read `identity.json` when it is given no
  hash, so that a file that cannot be parsed shows only at the first request.
* The stop inside `restart_core` has no handler around it: when it raises, the core stays
  "stopping", which start, stop and restart all refuse.
* A save that fails inside an operation ends it there, and the core stays "starting" or
  "stopping" in memory; start and restart refuse both, stop the latter.  When `remove()`
  fails at the end of an uninstall, the row stays and the core is back after a restart;
  so it is after a crash between the save of "uninstalled" and `remove()`.
* A time-out frees the core while the thread of the driver goes on; the next job
  runs beside it.
* `PUT .../settings` during an install that fails leaves a row behind, and the core
  appears after the next start.  `start_enabled` also starts cores an operator has
  stopped.
* An apply or an import that fails after the driver changed its settings, an identity
  whose persisting was refused, or a save that failed, leaves them in memory only;
  `MemoryOnDisk` excepts exactly these cases through `unsaved`.
* The usage cursor is saved before the reply leaves, although the comment at
  `app.py:654` wants it after: a lost reply loses its bytes, which is why `lossy`
  exempts its cores from `NothingMissed`.
* `PUT accounts` requests that overlap may finish in another order in the driver than
  in the snapshot; limits resolve against accounts only when they are pushed or at
  boot, not when accounts change; Xray's `sync_accounts` removes nobody even with
  `replace=True`.
* `ensure()` never compares certificate and key, so a pair that does not match would
  stay.
* `PUT ip-bans` requests that overlap may leave the bans of both.

### Bounds

* `jobs`: `MaxJobs = 2`, `HistoryLimit = 1` (200 in the code), two cores, three
  requests: the second job pushes the first out of the history while it may still
  run, and a third request meets what is left: joins, conflicts, or finds an id
  without a job.  The theorems cover longer histories.  No symmetry: the run checks
  liveness.
* `replay`: `Window = 1`, `MaxTime = 4`, three nonces: a command can be early, in
  time, late, and pruned while another one is accepted.  Nonces are symmetric.
* `identity`: two tokens, two signing keys, two node ids and two local keys: pairing,
  dropping and pairing again, and a constructor that dies between minting and renaming
  and mints another.  Tokens are symmetric.
* `core`, `core_timeouts`: one document, which differs from the empty settings of an
  install without any and of a row saved without any, so that old and new can be told
  apart.  `core` has `MaxCancels = 0`, which still allows tasks to time out while they wait
  for the lock.  `core_timeouts` has one operation cut off inside during each life of the
  agent; the theorems cover any number.
* `store`: two cores (a call must not lose the row of the other), two tasks, one
  document, `MaxCancels = 2`: a thread outlives its call and meets another on the
  `.part` file, and a call that waits or reads is cut off beside it.
* `accounts`: two accounts, so that a set changes in part, one of which is ever
  limited; two `PUT`s that overlap.
* `usage`: two cores, one of them `Keyed`, two polls, three bytes per counter: a counter
  that was reset can pass the cursor in the file.  The constraint `Claimed` cuts
  behaviours off where polls have overlapped or a write has failed, after which nothing
  is claimed, and where an exposed core has been reported beyond `MaxBytes`, since what
  is reported of it is not bounded.  `usage_restart`: one core, one poll, two bytes.
* `ipbans`: two addresses, two requests, five half seconds, a command at most half a
  second on its way: bans of up to two seconds, renewed or dropped while they hold.
  Addresses and requests are symmetric.
* `tls`: two processes, `MaxPairs = 4`: two generations die before a third succeeds.

Deadlock is checked where the model always has a next step (`replay`, `core`,
`core_timeouts`, `accounts`, `usage`).  In `jobs`, `identity`, `store`, `ipbans` and
`tls` requests, keys, time or pairs run out, or nobody calls, and the model stops
where the system merely waits.

### Fairness

Only the steps the event loop and the operating system take on their own are fair;
nothing obliges a panel or an operator to do anything.

* `JobManager`: `WF` of the task of each job (`wait_for` bounds its action) and of
  each polling handler (its deadline bounds the loop).
* `CoreManager`: `WF` of every step of a task (the loop runs ready tasks; a driver
  call returns or raises) and of the store (a call is served or fails); `SF` of entering an
  operation, because `asyncio.Lock` wakes its waiters in order, so a waiter is not
  overtaken for ever.
* `StateStore`: `SF` of taking the lock for the same reason, `WF` of the steps of a
  call and of its thread, which the thread pool runs to its end.

The other modules state safety properties only and need no fairness.

## 4. The proofs

All theorems hold for every value of the constants that satisfies the named assumption
of the module (`JobAssumption`, `ReplayAssumption`, `IdentityAssumption`,
`CoreAssumption`, `StoreAssumption`, `SyncAssumption`, `UsageAssumption`,
`BanAssumption`, `TlsAssumption`). They say no more than that special values are not
ordinary ones, bounds are natural numbers, there is a core, limitable accounts are
accounts, and keyed cores are cores. Each proof module has a `TypeCorrect`; the others
are named with their argument.

**JobManagerProofs.**  `Serialized` and `HistoryWindow` are inductive together with
the type invariant and the fact that exactly the first `made` jobs exist.
`HistoryWindow` rests on a lemma about cutting a window of consecutive ids;
`ReplyTruthful` needs that a terminal state is never left and that a waiting
handler refers to a job that exists.  Theorems: `JobsSerialized`,
`HistoryIsWindow`, `RepliesTruthful`.

**ReplayGuardProofs.**  `AtMostOnce` is not inductive: a command that went through
must either still be in the cache and in the file, or be outside the window for
good.  The invariant says that of memory and of the file, since either may be what
the next `accept` sees; the step that needs it is the prune, whose bound must meet
the bound of the window test.  The clock of the model does not step back, and the
theorem says nothing about a clock that does.  Theorems: `NoCommandTwice`,
`NoFirstCopyRefused`.

**NodeIdentityProofs.** `Typed` says which kind, stage and content of an operation go
together (`Shaped`), always. `TakingTurns` holds as long as the two processes take
turns: at most one is in an operation; the `.part` file is its own, and what it is about
to write still agrees with the file it has read (`Current`); the agent has the local key
that is on disk (`Loaded`); and the files are whole between two renames, with a signing
key that has not been dropped, is the panel's, and is sealed with that local key
(`Whole`). So a rename changes only what it means to, and a write that stops anywhere
before it changes nothing but the `.part` file. Theorems: `ForgottenForEver`,
`PairingSurvives`, `SigningKeyOpens`, `NodeIdForEver`.

**CoreManagerProofs.**  `IInv` adds five facts to the type invariant and mutual
exclusion: the lifespan is idle while requests are served; a driver is attached
exactly when the core has a state; `PUT .../settings` has one place; the state fits
the place of the operation that holds the lock; a task in a driver call is at one of its
places.  The fourth is what makes each step a move of the abstract lifecycle, and it
depends on mutual exclusion, so both are proved at once, action by action, with any
number of time-outs and crashes.  A call of the store that fails sends its task to the
end of its operation, so two more facts belong to the induction: whoever saves has
exactly one call in the queue and is inside an operation that has begun with it
(`Queued`), and nobody else is about while the agent boots (`BootFits`).  `Safe` is the
conjunction.  Theorems: `Invariance`, `OperationsExclusive`, `ImplementsLifecycle`
(`Spec => FollowsLifecycle`).

Three more depend on what time-outs have cut off since the agent started (`cut`), each
with a strengthening of its own.  `OneCallAtATime`: a thread outlives its task only by
a time-out inside a driver call (`Accompanied`), and whoever is in one holds the lock.
It speaks of the calls of lifecycle operations; an import, or anything else of the list
in section 1, may overlap them.  `RecordTellsProcess`: "running" and "stopped" are true
in the middle of operations as well, whatever saves fail or are cut off, except that a
core which `start_enabled` is about to start may be up already (`ProcessTold`).
`RowIsMemory`: the last call in the queue has the state in memory, and the last one
with settings has those of the driver, except for a core that `start_enabled` is about
to start, for a new driver until the end of its install, and for what `refused` and
`unsaved` say of calls that have failed (`Recorded`); lemmas say what appending a call,
serving one and failing one do to such a queue.

**StateStoreProofs.**  Cancelling a call frees its lock and not its thread, so that a
lock holder may wait, or be about to read, beside a write that nobody waits for any
more.  As long as none has read there (`~met`), at most one thread is at work
(`OneAtWork`), it belongs to the holder of the lock or to a call that is gone, what
it carries is the file with one row changed, and what it renames is what it carries
(`Serial`): a new thread starts only after a read, and by then the others have ended.
So the rename is the atomic step, of a call (`AEffect`) or of one that is gone
(`ALate`), and every other step but a begin, a return and a cancellation is a
stutter.  A lemma (`SerialStep`) says what a step of one task leaves of this for the
others.  Theorem: `StoreIsAtomic` (`Spec => ImplementsAtomicStore`), for any number
of cancellations.

**AccountSyncProofs.**  A request that meets nobody is the only one open and knows
what the driver had before; a difference between driver and panel is owed to a
request that is still to be answered; the snapshot is what the panel was told unless
a write failed.  Theorems: `CoreAndPanelAgree`, `LimitsSurvive`.

**UsageTelemetryProofs.** The ledger bounds, for each core, what was told and what the
next reply, the next poll, or a poll after a crash would add; it rests on the triangle
inequality of `Delta` over a reading that is dropped or a cursor that is older than the
tracker. It leaves out exposed cores, and a restart exposes a core only if more was on
disk than its driver got and its counter went on. Theorems: `NeverTwice`,
`NoneForgotten`.

**HostProofs** speaks of both modules about the host.  *IP bans*: `BansAsAsked` and
`BannedAreOut` are not inductive, because they say nothing of a request on its way.
`BanInv` adds four facts.  A request that is alone (it met no other) is the only one
open, and the table it has found is the table there is.  The clock it has read is at
most `MaxDelay` behind.  What was asked last is in the kernel as it was loaded: each
element ends at most half a second before its expiry, and at most its delay and half
a second after it.  And a session of a blocked address is open only while the request
that blocks it is about to close it.  The first three carry the two roundings of the
code, down to whole seconds and up to one at least, through the two halves of
`apply()`.  Theorems: `KernelBlocksWhatWasAsked`, `NoSessionSurvivesItsBan`, with
`BanInvariance` and `BanTypeCorrect`.  *TLS material*: while processes take turns in
`generate()`, it runs for want of a certificate, leaves its number in each file it
has written, and renames the certificate last.  Theorems: `OnePair`,
`PinNeverBroken`.

Model-checked only: the liveness properties `CoreFreed`, `HandlersAnswered`,
`OperationsEnd` and `CallsEnd`, since fairness is out of the prover's reach.  Every
safety and action property of a passing run, and every refinement, has a theorem.

## 5. Not modelled

* The drivers, about 17,000 lines that write configuration files and run programs:
  only what a call may do to the process, the settings, the accounts and the caller.
  `ManagedProcess` is part of how such a call may end.
* Cryptography: a signature is right or the request does not arrive, a sealed value
  stands for its content, a token for its hash.
* Driver calls that change neither state, settings, accounts nor cursors: status,
  versions, logs and online devices, which the API makes beside any operation.
* The request path as a whole.  `signed_request` reads the key, awaits the body and
  verifies with the key it has read (`app.py:268`): a command in flight is still
  executed after a revoke was answered.  The code states nothing this contradicts.
* A clock that steps back (`security.py:220`), after which a pruned command would be
  acceptable again.
* `enable_core`, `disable_core`, the policy hubs and the health monitor of the
  manager, which the agent never calls.
* `SessionUsageTracker`, sessions, quota and devices: sequential bookkeeping over
  samples, without persistence.
* The tc and nft commands of the limiter one by one, and `managed_ports`, which
  reads the ports that a ban covers.
* Xray TLS material (`app.py:804-892`): the same write and rename as `tls.py`, in one
  step of the event loop, on files that only the next document refers to.
* Logging, the audit log, response bodies, masks, the catalogue, the info server and
  configuration parsing.

## 6. The limits of the claims

Where a property has a condition, it fails without it; each of these was seen as a
counterexample of TLC with the condition removed.

* `DroppedStaysDropped`, `PanelKeyOnDisk`, `KeyOpens` and `NodeIdStable` claim nothing
  once agent and command line have been inside an operation at once (`raced`); the
  `RLock` of the store serializes the threads of one process only.  `zagros-node info`
  reads before a revoke and writes after it, and the key is back; two constructors on an
  empty directory each make a node id, or each make a local key, and what one of them
  seals cannot be unsealed after the next start; and since every write truncates the one
  `identity.part`, one process may rename what the other has just emptied, half written,
  or filled with the content of the other file, so that `identity.json` or
  `identity.key` is unreadable.
* `ImplementsAtomicStore` claims nothing once a call has read the file while the
  write of a cancelled one went on (`met`).  Such a thread may rename an old version
  of the whole file over a newer one, or truncate the `.part` file of the next call.
  `CoreManager` represents a cancelled save by its effect or its absence only, so its
  properties claim nothing about rows once an operation was cut off.
* `LifecycleCallsSerialized` and `StateTellsProcess` hold until a time-out cuts a driver
  call off, whose thread goes on beside the next one and may start or stop the process
  after the record was made; `MemoryOnDisk` until one cuts an operation off at all, since
  the save it waited for may be lost without a word.  A restart of the agent ends both
  conditions, and a time-out of a task that waits for the lock begins neither (`cut`).
* `MemoryOnDisk` lets the state differ while the last call of the store has failed
  (`refused`), and the settings until a call carries them (`unsaved`): a save that fails
  after `_set_state` is neither undone in memory nor tried again.
* `NoDoubleCount` and `NothingMissed` claim nothing once polls have overlapped or the
  file could not be written (`sound`): the older of two readings looks like a reset
  and everything is counted again, and `usage-baselines.json` is written in place, so
  that a crash leaves a file that reads as empty.  `NoDoubleCount` leaves out the counters
  that outlived a restart which lost their cursor (`exposed`); `usage_restart` shows what
  becomes of them.
* `ServesWhatWasPushed` excepts requests that met another `PUT` or an uninstall,
  requests whose `replace` is not what the driver does anyway, and failures, until a
  later request or restart has repaired them (`upset`).  After a crash between an
  uninstall with purge and the removal of the snapshot, a new install serves the purged
  accounts from the next restart on; the property counts them as pushed.
* `BansAsAsked` and `BannedAreOut` speak of a last request that met no other and
  did not fail (`settled`).
* `PairMatches` and `PinHolds` claim nothing once two processes have been in
  `generate()` at once (`raced`): the key of one may stay beside the certificate of
  the other.

## 7. What could follow

1. The request path over `NodeIdentity` and `ReplayGuard`: a revoke, or a pairing
   whose reply is lost, during the await of a body.
2. `ManagedProcess`: spawn, wait, kill and the log pump, as a refinement of the
   outcomes of a driver call.
3. The commands of `reconcile()` one by one: that a second one repairs whatever the
   first has left.
