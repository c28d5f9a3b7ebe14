-------------------------- MODULE UsageTelemetry --------------------------
(***************************************************************************)
(* GET /v1/runtime/usage (node_agent/app.py): the cumulative counters of   *)
(* the cores become deltas for the panel.  A driver keeps the counter it   *)
(* saw last in a DeltaTracker (cores/stats.py); the agent writes these     *)
(* cursors to usage-baselines.json and hands them back to the drivers when *)
(* it starts.                                                              *)
(*                                                                         *)
(* Cores are independent counters: one stands for one account of one core  *)
(* and for one direction.  A handler awaits the thread that reads a        *)
(* counter and goes on from there to the next await in one step.           *)
(***************************************************************************)
EXTENDS Integers

CONSTANTS
    NumCores,      \* cores that account usage, visited in this order
    Keyed,         \* of WireGuard, whose restore() looks accounts up
    Polls,         \* requests for usage that may be open at once
    MaxBytes       \* bound: bytes that cross one counter

ASSUME UsageAssumption ==
    NumCores \in Nat /\ Keyed \subseteq 1..NumCores /\ MaxBytes \in Nat

Cores == 1..NumCores
None  == -1

VARIABLES
    moved,      \* bytes that really crossed the counter of a core
    counter,    \* the cumulative counter, back at 0 when the core restarts
    tracker,    \* DeltaTracker._baseline, 0 without an entry
    disk,       \* usage-baselines.json, 0 without an entry or unreadable
    todo,       \* poll -> cores its handler has yet to visit
    sample,     \* poll -> what the thread of its get_usage() has read, or None
    got,        \* poll -> the deltas in its reply
    base,       \* poll -> the cursors it has collected, None without one
    pc,         \* poll -> "idle", "reading" or "replying"
    delivered,  \* bytes of a core the panel has been told of
    lossy,      \* cores of which a reply, or a counter, has been lost
    exposed,    \* cores whose counter has outlived the cursor of it
    sound       \* no two polls were open at once and no write has failed

reply == <<todo, sample, got, base, pc>>
vars  == <<moved, counter, tracker, disk, reply, delivered, lossy,
          exposed, sound>>

Zero == [c \in Cores |-> 0]
Idle == \A p \in Polls : pc[p] = "idle"

(* The handler of p awaits get_usage() of c.                               *)
Current(p, c) ==
    pc[p] = "reading" /\ c \in todo[p] /\ \A d \in todo[p] : c <= d

Init ==
    /\ moved = Zero /\ counter = Zero /\ tracker = Zero /\ disk = Zero
    /\ delivered = Zero
    /\ todo = [p \in Polls |-> {}]
    /\ sample = [p \in Polls |-> None]
    /\ got = [p \in Polls |-> Zero]
    /\ base = [p \in Polls |-> [c \in Cores |-> None]]
    /\ pc = [p \in Polls |-> "idle"]
    /\ lossy = {} /\ exposed = {} /\ sound = TRUE

---------------------------------------------------------------------------
(* Mutant of Delta: a reset is not recognised.                             *)
DeltaNegative(current, previous) == current - previous

(* DeltaTracker._delta: a smaller value is the growth of a new counter.    *)
Delta(current, previous) ==
    IF current >= previous THEN current - previous ELSE current

(* A byte crosses the counter.                                             *)
Traffic(c) ==
    /\ moved[c] < MaxBytes
    /\ moved' = [moved EXCEPT ![c] = @ + 1]
    /\ counter' = [counter EXCEPT ![c] = @ + 1]
    /\ UNCHANGED <<tracker, disk, reply, delivered, lossy, exposed, sound>>

(* The core restarts: its counter starts again.                            *)
CounterReset(c) ==
    /\ counter[c] > 0
    /\ counter' = [counter EXCEPT ![c] = 0]
    /\ lossy' = lossy \cup {c}
    /\ UNCHANGED <<moved, tracker, disk, reply, delivered, exposed, sound>>

(* A request arrives; _capable_drivers() lists the installed, enabled and  *)
(* capable cores of this moment.                                           *)
PollBegin(p, cores) ==
    /\ pc[p] = "idle"
    /\ pc' = [pc EXCEPT ![p] = "reading"]
    /\ todo' = [todo EXCEPT ![p] = cores]
    /\ sound' = (sound /\ Idle)
    /\ UNCHANGED <<moved, counter, tracker, disk, sample, got, base, delivered,
                   lossy, exposed>>

(* The thread of get_usage() reads the counter of the current core.        *)
Sample(p, c) ==
    /\ Current(p, c) /\ sample[p] = None
    /\ sample' = [sample EXCEPT ![p] = counter[c]]
    /\ UNCHANGED <<moved, counter, tracker, disk, todo, got, base, pc,
                   delivered, lossy, exposed, sound>>

(* Mutant of Observe: the cursor is the counter when the record is built,  *)
(* not the reading that gave the delta.                                    *)
ObserveCursorLater(p, c) ==
    /\ Current(p, c) /\ sample[p] # None
    /\ got' = [got EXCEPT ![p][c] = Delta(sample[p], tracker[c])]
    /\ tracker' = [tracker EXCEPT ![c] = counter[c]]
    /\ base' = [base EXCEPT ![p][c] = counter[c]]
    /\ sample' = [sample EXCEPT ![p] = None]
    /\ todo' = [todo EXCEPT ![p] = @ \ {c}]
    /\ UNCHANGED <<moved, counter, disk, pc, delivered, lossy, exposed, sound>>

(* The handler goes on: observe() turns the reading into a delta, and the  *)
(* cursor is collected for the file.                                       *)
Observe(p, c) ==
    /\ Current(p, c) /\ sample[p] # None
    /\ got' = [got EXCEPT ![p][c] = Delta(sample[p], tracker[c])]
    /\ tracker' = [tracker EXCEPT ![c] = sample[p]]
    /\ base' = [base EXCEPT ![p][c] = sample[p]]
    /\ sample' = [sample EXCEPT ![p] = None]
    /\ todo' = [todo EXCEPT ![p] = @ \ {c}]
    /\ UNCHANGED <<moved, counter, disk, pc, delivered, lossy, exposed, sound>>

(* get_usage() raises or exceeds _TELEMETRY_TIMEOUT: the core is skipped,  *)
(* and what its thread has read is dropped.                                *)
ReadFails(p, c) ==
    /\ Current(p, c)
    /\ sample' = [sample EXCEPT ![p] = None]
    /\ todo' = [todo EXCEPT ![p] = @ \ {c}]
    /\ UNCHANGED <<moved, counter, tracker, disk, got, base, pc, delivered,
                   lossy, exposed, sound>>

(* Mutant of Merged: only the cores of this poll stay in the file.         *)
MergedAnew(p) == [c \in Cores |-> IF base[p][c] = None THEN 0 ELSE base[p][c]]

(* merged.update(baselines) over what the file holds.                      *)
Merged(p) ==
    [c \in Cores |-> IF base[p][c] = None THEN disk[c] ELSE base[p][c]]

(* All cores are visited: the cursors are saved and the reply leaves.      *)
Save(p) ==
    /\ pc[p] = "reading" /\ todo[p] = {}
    /\ disk' = Merged(p)
    /\ pc' = [pc EXCEPT ![p] = "replying"]
    /\ UNCHANGED <<moved, counter, tracker, todo, sample, got, base, delivered,
                   lossy, exposed, sound>>

(* The write raises OSError, which is swallowed: the reply leaves.         *)
SaveFails(p) ==
    /\ pc[p] = "reading" /\ todo[p] = {}
    /\ \E c \in Cores : base[p][c] # None
    /\ pc' = [pc EXCEPT ![p] = "replying"]
    /\ sound' = FALSE
    /\ UNCHANGED <<moved, counter, tracker, disk, todo, sample, got, base,
                   delivered, lossy, exposed>>

(* The handler of p is done.                                               *)
Close(p) ==
    /\ pc' = [pc EXCEPT ![p] = "idle"]
    /\ got' = [got EXCEPT ![p] = Zero]
    /\ base' = [base EXCEPT ![p] = [c \in Cores |-> None]]
    /\ UNCHANGED <<moved, counter, tracker, disk, todo, sample, exposed,
                   sound>>

(* The panel receives the reply and adds the deltas up ...                 *)
Deliver(p) ==
    /\ pc[p] = "replying"
    /\ delivered' = [c \in Cores |-> delivered[c] + got[p][c]]
    /\ Close(p)
    /\ UNCHANGED lossy

(* ... or the reply is lost on its way.                                    *)
LoseReply(p) ==
    /\ pc[p] = "replying"
    /\ lossy' = lossy \cup {c \in Cores : got[p][c] > 0}
    /\ Close(p)
    /\ UNCHANGED delivered

(* What the drivers start from when the file holds the given cursors.  The *)
(* accounts are restored after the cursors: WireGuard, which looks each    *)
(* cursor up by its account, finds none and starts at 0.                   *)
Restored(file) == [c \in Cores |-> IF c \in Keyed THEN 0 ELSE file[c]]

(* WireGuard counts in the interface in the kernel, which outlives the     *)
(* agent; a start replaces it, but not every core is started, and a start  *)
(* may fail before it gets there.                                          *)
Replaced(replaced) == [c \in Cores |-> IF c \in replaced THEN 0 ELSE counter[c]]

(* restore_usage_baselines() has found the given file; open requests end   *)
(* with the process.                                                       *)
Rebooted(file, replaced) ==
    /\ tracker' = Restored(file)
    /\ counter' = Replaced(replaced)
    /\ exposed' = exposed \cup
           {c \in Keyed \ replaced : file[c] > 0 /\ counter[c] > 0}
    /\ disk' = file
    /\ todo' = [p \in Polls |-> {}]
    /\ sample' = [p \in Polls |-> None]
    /\ got' = [p \in Polls |-> Zero]
    /\ base' = [p \in Polls |-> [c \in Cores |-> None]]
    /\ pc' = [p \in Polls |-> "idle"]
    /\ lossy' = Cores
    /\ UNCHANGED <<moved, delivered>>

(* The agent stops or dies and starts again; the cores may have gone on.   *)
Restart(replaced) == Rebooted(disk, replaced) /\ UNCHANGED sound

(* It dies inside write_text(), which truncates the file in place: what is *)
(* left cannot be parsed, and counts as empty from then on.                *)
DieInSave(p, replaced) ==
    /\ pc[p] = "reading" /\ todo[p] = {}
    /\ \E c \in Cores : base[p][c] # None
    /\ Rebooted(Zero, replaced)
    /\ sound' = FALSE

Next ==
    \/ \E c \in Cores : Traffic(c) \/ CounterReset(c)
    \/ \E p \in Polls :
         \/ \E cores \in SUBSET Cores : PollBegin(p, cores)
         \/ \E c \in Cores : Sample(p, c) \/ Observe(p, c) \/ ReadFails(p, c)
         \/ Save(p) \/ SaveFails(p) \/ Deliver(p) \/ LoseReply(p)
         \/ \E replaced \in SUBSET Keyed : DieInSave(p, replaced)
    \/ \E replaced \in SUBSET Keyed : Restart(replaced)

Spec == Init /\ [][Next]_vars

(* Bound of the model checker: once polls have overlapped or a write has   *)
(* failed nothing is claimed, and the behaviour is not followed further;   *)
(* nor is it once an exposed core has been reported beyond the bytes.      *)
Claimed == sound /\ \A c \in Cores : delivered[c] <= MaxBytes

---------------------------------------------------------------------------
(* Every variable has its type.                                            *)
TypeOK ==
    /\ moved \in [Cores -> Nat]
    /\ counter \in [Cores -> Nat]
    /\ tracker \in [Cores -> Nat]
    /\ disk \in [Cores -> Nat]
    /\ delivered \in [Cores -> Nat]
    /\ todo \in [Polls -> SUBSET Cores]
    /\ sample \in [Polls -> Nat \cup {None}]
    /\ got \in [Polls -> [Cores -> Nat]]
    /\ base \in [Polls -> [Cores -> Nat \cup {None}]]
    /\ pc \in [Polls -> {"idle", "reading", "replying"}]
    /\ lossy \subseteq Cores /\ exposed \subseteq Keyed
    /\ sound \in BOOLEAN

(* Whatever restarts, counter resets, time-outs and lost replies do, the   *)
(* panel is never told of more bytes than crossed a counter, provided      *)
(* polls do not overlap, the file can be written, and the counter has not  *)
(* outlived a restart of the agent that lost its cursor.                   *)
NoDoubleCount == sound => \A c \in Cores \ exposed : delivered[c] <= moved[c]

(* restore_usage_baselines(): "Boot-time restore: a restarted agent must   *)
(* not re-report old bytes."  This is said of every driver.                *)
NoOldBytes == sound => \A c \in Cores : delivered[c] <= moved[c]

(* Nothing goes missing either: as long as no reply and no counter is      *)
(* lost, every byte has been delivered, is in the open reply, or is what   *)
(* the next poll will find, however many reads have failed or timed out.   *)
NothingMissed ==
    sound =>
        \A c \in Cores \ lossy :
            LET told == delivered[c] + counter[c] - tracker[c] IN
            /\ Idle => moved[c] = told
            /\ \A p \in Polls : pc[p] # "idle" => moved[c] = told + got[p][c]

===========================================================================
