------------------------------ MODULE IpBans ------------------------------
(***************************************************************************)
(* PUT /v1/ip-bans (node_agent/app.py, ip_limits.py): the panel's timed    *)
(* bans become one nftables table, whose elements the kernel drops when    *)
(* their own time-out is over, and the banned sessions are closed.         *)
(*                                                                         *)
(* apply() runs in a thread: it reads the clock, asks whether the table    *)
(* exists, and then runs one nft command, which the kernel executes as a   *)
(* whole.  Two requests may be in apply() at once.  Time is counted in     *)
(* half seconds, so that the rounding to whole seconds shows.  The ports   *)
(* the table covers are read before and are left out.                      *)
(***************************************************************************)
EXTENDS Integers, FiniteSetsExt, TLC

CONSTANTS
    Ips,        \* source addresses
    Puts,       \* requests that may be open at once
    MaxTime,    \* bound: half seconds
    MaxDelay    \* bound: half seconds from the clock to the nft command

ASSUME BanAssumption == MaxTime \in Nat /\ MaxDelay \in Nat

Times == 0..MaxTime
NoBan == -1

VARIABLES
    now,        \* the clock
    table,      \* ip -> when the kernel drops its element, NoBan without one
    exists,     \* the table exists
    put,        \* the requests
    sessions,   \* addresses with an open session
    asked,      \* history: ip -> expiry in the last request that succeeded
    delay,      \* history: how long its nft command was on its way
    settled     \* history: it met no other, and none has come or failed since

Symmetry == Permutations(Ips) \cup Permutations(Puts)

banVars == <<now, table, exists, put, sessions, asked, delay, settled>>

NoBans  == [i \in Ips |-> NoBan]
Closed  == [pc |-> "idle", bans |-> NoBans, ips |-> {}, read |-> 0,
            found |-> FALSE, alone |-> FALSE]
Open    == {r \in Puts : put[r].pc # "idle"}

(* Packets of the address are dropped.                                     *)
Blocked(i) == table[i] > now

BanInit ==
    /\ now = 0
    /\ table = NoBans /\ exists = FALSE
    /\ put = [r \in Puts |-> Closed]
    /\ sessions = Ips
    /\ asked = NoBans /\ delay = 0 /\ settled = TRUE

---------------------------------------------------------------------------
(* Time passes; the kernel drops what is over.                             *)
Tick ==
    /\ now < MaxTime
    /\ \A r \in Puts : put[r].pc = "apply" => now - put[r].read < MaxDelay
    /\ now' = now + 1
    /\ UNCHANGED <<table, exists, put, sessions, asked, delay, settled>>

(* A client that is not dropped opens a session.                           *)
Connect(i) ==
    /\ ~Blocked(i)
    /\ sessions' = sessions \cup {i}
    /\ UNCHANGED <<now, table, exists, put, asked, delay, settled>>

(* The first half of apply(): the clock, the bans that are still active,   *)
(* and whether the table is there.                                         *)
PutBegin(r, bans) ==
    /\ r \notin Open
    /\ put' = [q \in Puts |->
         IF q # r THEN [put[q] EXCEPT !.alone = FALSE]
         ELSE [pc |-> "apply", read |-> now, found |-> exists, alone |-> Open = {},
               bans |-> [i \in Ips |-> IF bans[i] > now THEN bans[i] ELSE NoBan],
               ips |-> {i \in Ips : bans[i] # NoBan}]]
    /\ settled' = (settled /\ Open = {})
    /\ UNCHANGED <<now, table, exists, sessions, asked, delay>>

(* Mutant of Seconds: the absolute expiry is taken for a duration.         *)
SecondsAbsolute(expiry, read) == Max({1, expiry \div 2})

(* The time-out of an element, in whole seconds and at least one.          *)
Seconds(expiry, read) == Max({1, (expiry - read) \div 2})

Elements(r) ==
    [i \in Ips |-> IF put[r].bans[i] = NoBan THEN NoBan
                   ELSE now + 2 * Seconds(put[r].bans[i], put[r].read)]

(* Mutant of Loaded: the old table is not deleted first.                   *)
LoadedOnTop(r) ==
    table' = [i \in Ips |-> IF Elements(r)[i] = NoBan THEN table[i] ELSE Elements(r)[i]]

(* The script replaces the table it has found.  Where apply() found none   *)
(* and another request has made one, the elements join those of the other, *)
(* and one that is there already may keep its time-out.                    *)
Loaded(r) ==
    \/ (put[r].found \/ ~exists) /\ table' = Elements(r)
    \/ /\ ~put[r].found /\ exists
       /\ \E mine \in SUBSET {i \in Ips : Elements(r)[i] # NoBan} :
            table' = [i \in Ips |-> IF i \in mine \/ ~Blocked(i)
                                    THEN Elements(r)[i] ELSE table[i]]

(* nft succeeds: with no active ban the table is deleted, if it was found. *)
Apply(r) ==
    LET none == put[r].bans = NoBans IN
    /\ put[r].pc = "apply"
    /\ put[r].found => exists
    /\ \/ none /\ ~put[r].found /\ UNCHANGED <<table, exists>>
       \/ none /\ put[r].found /\ table' = NoBans /\ exists' = FALSE
       \/ ~none /\ Loaded(r) /\ exists' = TRUE
    /\ put' = [put EXCEPT ![r] = [Closed EXCEPT !.pc = "terminate", !.ips = put[r].ips]]
    /\ asked' = put[r].bans
    /\ delay' = now - put[r].read
    /\ settled' = put[r].alone
    /\ UNCHANGED <<now, sessions>>

(* nft is missing or refuses, as it does when the table it is to delete    *)
(* has gone: nothing changes and the panel is told so.                     *)
ApplyFails(r) ==
    /\ put[r].pc = "apply"
    /\ put' = [put EXCEPT ![r] = Closed]
    /\ settled' = FALSE
    /\ UNCHANGED <<now, table, exists, sessions, asked, delay>>

(* terminate() and drop_conntrack(): the sessions of every address the     *)
(* panel has named, one whose ban is over included.                        *)
Terminate(r) ==
    /\ put[r].pc = "terminate"
    /\ sessions' = sessions \ put[r].ips
    /\ put' = [put EXCEPT ![r] = Closed]
    /\ UNCHANGED <<now, table, exists, asked, delay, settled>>

(* A driver raises in terminate(): the sessions that are left stay.        *)
TerminateFails(r) ==
    /\ put[r].pc = "terminate"
    /\ \E left \in SUBSET sessions :
         sessions' = (sessions \ put[r].ips) \cup left
    /\ put' = [put EXCEPT ![r] = Closed]
    /\ settled' = FALSE
    /\ UNCHANGED <<now, table, exists, asked, delay>>

(* Mutant of Steps: the sessions are closed before the table is loaded.    *)
StepsTerminateFirst(r) ==
    \/ put[r].pc = "apply" /\ sessions' = sessions \ put[r].ips
       /\ put' = [put EXCEPT ![r].pc = "terminate"]
       /\ UNCHANGED <<now, table, exists, asked, delay, settled>>
    \/ put[r].pc = "terminate" /\ put' = [put EXCEPT ![r] = Closed]
       /\ table' = Elements(r) /\ exists' = TRUE
       /\ asked' = put[r].bans /\ delay' = 0
       /\ UNCHANGED <<now, sessions, settled>>

Steps(r) == Apply(r) \/ ApplyFails(r) \/ Terminate(r) \/ TerminateFails(r)

BanNext ==
    \/ Tick
    \/ \E i \in Ips : Connect(i)
    \/ \E r \in Puts :
         \/ \E bans \in [Ips -> Times \cup {NoBan}] : PutBegin(r, bans)
         \/ Steps(r)

BanSpec == BanInit /\ [][BanNext]_banVars

---------------------------------------------------------------------------
(* Every variable has its type.                                            *)
BanTypeOK ==
    /\ now \in Times
    /\ table \in [Ips -> {NoBan} \cup 0..(MaxTime + Max({MaxDelay, 2}))]
    /\ exists \in BOOLEAN
    /\ put \in [Puts -> [pc : {"idle", "apply", "terminate"}, bans : [Ips -> Times \cup {NoBan}],
                         ips : SUBSET Ips, read : Times,
                         found : BOOLEAN, alone : BOOLEAN]]
    /\ sessions \subseteq Ips
    /\ asked \in [Ips -> Times \cup {NoBan}]
    /\ delay \in 0..MaxDelay
    /\ settled \in BOOLEAN
    /\ (\E i \in Ips : table[i] # NoBan) => exists

(* At rest the kernel blocks what the panel asked for and nothing else:    *)
(* each ban of the last request holds to within a second of its expiry,    *)
(* no address stays blocked for longer than the command was on its way and *)
(* a second, and no ban of an earlier request is left.                     *)
BansAsAsked ==
    settled =>
        \A i \in Ips :
            /\ asked[i] # NoBan /\ now < asked[i] - 1 => Blocked(i)
            /\ Blocked(i) => asked[i] # NoBan /\ now < asked[i] + delay + 1

(* When a request has been answered no session of a blocked address is     *)
(* open, and none can be opened: there is no gap between the two steps.    *)
BannedAreOut ==
    settled /\ Open = {} => \A i \in sessions : ~Blocked(i)

===========================================================================
