---------------------------- MODULE ReplayGuard ----------------------------
(***************************************************************************)
(* The nonce cache of the node agent (ReplayGuard in                       *)
(* node_agent/security.py) as signed_request uses it.  The panel signs     *)
(* each command with a nonce and a timestamp of its own clock; the network *)
(* may deliver any copy of it, at any time, any number of times.           *)
(*                                                                         *)
(* accept() runs on the event loop without an await, so a call is one      *)
(* step, except that the process may die, or the write may fail, between   *)
(* the update of the dictionary and the replacement of replay.json.        *)
(***************************************************************************)
EXTENDS Integers

CONSTANTS
    Nonces,     \* the nonces the panel draws, one per command
    Window,     \* window_seconds (300 in the code)
    MaxTime,    \* bound: clocks run over 0..MaxTime
    None        \* "not in the dictionary" / "not sent"

Times == 0..MaxTime

ASSUME ReplayAssumption ==
    /\ Window \in Nat
    /\ MaxTime \in Nat
    /\ None \notin Int

VARIABLES
    clock,    \* int(time.time()) of the node
    sent,     \* nonce -> timestamp of the command that carries it, or None
    seen,     \* ReplayGuard._seen: nonce -> timestamp, or None
    disk,     \* replay.json, with the same content
    up,       \* the agent process is running
    runs,     \* nonce -> how many times its command was let through
    failed    \* nonces whose acceptance ended in a failed write

vars == <<clock, sent, seen, disk, up, runs, failed>>

Cache == [Nonces -> Times \cup {None}]

(* abs(now - timestamp) > self.window                                      *)
Outside(ts) == clock - ts > Window \/ ts - clock > Window

(* Mutant of Pruned: an entry goes one second before its command expires.   *)
PrunedTooEarly ==
    [n \in Nonces |->
        IF seen[n] # None /\ clock - seen[n] < Window THEN seen[n] ELSE None]

(* The dictionary comprehension at the head of the locked section: entries *)
(* older than the window are dropped.                                      *)
Pruned ==
    [n \in Nonces |->
        IF seen[n] # None /\ clock - seen[n] <= Window THEN seen[n] ELSE None]

Init ==
    /\ clock \in Times
    /\ sent = [n \in Nonces |-> None]
    /\ seen = [n \in Nonces |-> None]
    /\ disk = seen
    /\ up = TRUE
    /\ runs = [n \in Nonces |-> 0]
    /\ failed = {}

---------------------------------------------------------------------------
(* The panel signs a new command; its clock need not agree with ours.      *)
Send(n, ts) ==
    /\ sent[n] = None
    /\ sent' = [sent EXCEPT ![n] = ts]
    /\ UNCHANGED <<clock, seen, disk, up, runs, failed>>

(* Mutant of Accept: the entry carries the local time of arrival.           *)
AcceptStampsArrival(n) ==
    /\ up /\ sent[n] # None
    /\ ~Outside(sent[n])
    /\ Pruned[n] = None
    /\ seen' = [Pruned EXCEPT ![n] = clock]
    /\ disk' = seen'
    /\ runs' = [runs EXCEPT ![n] = @ + 1]
    /\ UNCHANGED <<clock, sent, up, failed>>

(* Mutant of Accept: the entry carries the time at which it expires.        *)
AcceptStampsExpiry(n) ==
    /\ up /\ sent[n] # None
    /\ ~Outside(sent[n])
    /\ Pruned[n] = None
    /\ seen' = [Pruned EXCEPT ![n] = sent[n] + Window]
    /\ disk' = seen'
    /\ runs' = [runs EXCEPT ![n] = @ + 1]
    /\ UNCHANGED <<clock, sent, up, failed>>

(* accept() of a copy inside the window with an unknown nonce: remembered, *)
(* persisted, and the command goes on to its handler.                      *)
Accept(n) ==
    /\ up /\ sent[n] # None
    /\ ~Outside(sent[n])
    /\ Pruned[n] = None
    /\ seen' = [Pruned EXCEPT ![n] = sent[n]]
    /\ disk' = seen'
    /\ runs' = [runs EXCEPT ![n] = @ + 1]
    /\ UNCHANGED <<clock, sent, up, failed>>

(* The same call when _write() raises OSError: the entry stays in memory,  *)
(* replay.json keeps its old content and the request ends in an error.     *)
AcceptWriteFails(n) ==
    /\ up /\ sent[n] # None
    /\ ~Outside(sent[n])
    /\ Pruned[n] = None
    /\ seen' = [Pruned EXCEPT ![n] = sent[n]]
    /\ failed' = failed \cup {n}
    /\ UNCHANGED <<clock, sent, disk, up, runs>>

(* accept() of a known nonce: the dictionary has been pruned, nothing is   *)
(* written, the request is refused.                                        *)
RefuseReplay(n) ==
    /\ up /\ sent[n] # None
    /\ ~Outside(sent[n])
    /\ Pruned[n] # None
    /\ seen' = Pruned
    /\ UNCHANGED <<clock, sent, disk, up, runs, failed>>

(* The process ends; a call of accept() that was between the dictionary    *)
(* and the file leaves the file as it was and runs nothing.                *)
Crash ==
    /\ up
    /\ up' = FALSE
    /\ UNCHANGED <<clock, sent, seen, disk, runs, failed>>

(* ReplayGuard.__init__ loads replay.json.                                 *)
Restart ==
    /\ ~up
    /\ up' = TRUE
    /\ seen' = disk
    /\ UNCHANGED <<clock, sent, disk, runs, failed>>

(* Seconds pass, while the agent is up and while it is down.               *)
Tick ==
    /\ clock < MaxTime
    /\ clock' = clock + 1
    /\ UNCHANGED <<sent, seen, disk, up, runs, failed>>

Next ==
    \/ \E n \in Nonces, ts \in Times : Send(n, ts)
    \/ \E n \in Nonces : Accept(n) \/ AcceptWriteFails(n) \/ RefuseReplay(n)
    \/ Crash \/ Restart \/ Tick

Spec == Init /\ [][Next]_vars

---------------------------------------------------------------------------
(* Every variable has its type.                                            *)
TypeOK ==
    /\ clock \in Times
    /\ {sent, seen, disk} \subseteq Cache
    /\ up \in BOOLEAN
    /\ runs \in [Nonces -> Nat]
    /\ failed \subseteq Nonces

(* "nonces are persisted so a restart cannot replay a captured command":   *)
(* however often a signed command is delivered, and across restarts and    *)
(* failed writes, accept() lets it through at most once.                   *)
AtMostOnce == \A n \in Nonces : runs[n] <= 1

(* The cache refuses only what it has let through, or tried to: the first  *)
(* copy of a command is never taken for a replay.  In memory and on disk.  *)
OnlyCopiesRefused ==
    \A n \in Nonces :
        /\ seen[n] # None => seen[n] = sent[n] /\ (runs[n] > 0 \/ n \in failed)
        /\ disk[n] # None => disk[n] = sent[n] /\ (runs[n] > 0 \/ n \in failed)

===========================================================================
