--------------------------- MODULE NodeIdentity ---------------------------
(***************************************************************************)
(* Pairing of a node with a panel: NodeIdentityStore of                    *)
(* node_agent/security.py, used by two processes that share its files, the *)
(* agent (register and revoke in app.py) and the command line (info and    *)
(* reset-registration in cli.py).                                          *)
(*                                                                         *)
(* The store keeps a local key in identity.key and, in identity.json, the  *)
(* node id, the armed token and the signing key sealed with the local key. *)
(* Both files are written through one identity.part: it is truncated,      *)
(* filled and renamed onto its target.  The RLock of the store serializes  *)
(* the threads of one process only, so the steps of one process may        *)
(* interleave with those of the other, and a file descriptor follows its   *)
(* file through the renames of the other process.  A token stands for its  *)
(* hash; registered_panel and registered_at are written together with the  *)
(* key and are represented by it.                                          *)
(***************************************************************************)
EXTENDS Naturals

CONSTANTS
    Tokens,     \* one-time registration tokens
    NoToken,    \* the empty hash: no token is armed
    Absent,     \* a file that does not exist
    Torn,       \* a file that is empty, half written, or of the other kind
    MaxKeys,    \* bound: signing keys minted
    MaxIds,     \* bound: node ids minted
    MaxLocals   \* bound: local keys minted

(* The content of identity.json: node id, armed token hash, signing key    *)
(* (0: the node is not paired) and the local key it is sealed with.        *)
Identity == [id : 1..MaxIds, token : Tokens \cup {NoToken}, key : 0..MaxKeys,
             seal : 0..MaxLocals]

(* The content of identity.key.                                            *)
LocalKey == [local : 1..MaxLocals]
Local(n) == [local |-> n]

ASSUME IdentityAssumption ==
    /\ NoToken \notin Tokens
    /\ MaxKeys \in Nat /\ MaxIds \in Nat /\ MaxLocals \in Nat
    /\ Absent # Torn
    /\ {Absent, Torn} \cap (Identity \cup LocalKey) = {}

VARIABLES
    file,     \* identity.json
    local,    \* identity.key
    part,     \* identity.part
    env,      \* ZAGROS_NODE_REGISTRATION_HASH of this installation
    agent,    \* "down", "booting" or "up"
    cipher,   \* the local key the agent has loaded, or 0
    op,       \* what each process is doing to the files
    keys,     \* number of signing keys minted
    ids,      \* number of node ids minted
    locals,   \* number of local keys minted
    dropped,  \* history: keys in the file when a revoke or a reset completed
    told,     \* history: the key the panel has got for its last request, or 0
    raced     \* history: both processes have been inside an operation at once

vars == <<file, local, part, env, agent, cipher, op, keys, ids, locals, dropped,
          told, raced>>
files == <<file, local, part>>

Process == {"agent", "cli"}
Hashes  == Tokens \cup {NoToken}

(* An operation: its kind, the content it will write, the stage it is at,  *)
(* where the file it has open for writing is by now ("gone": another file  *)
(* has been renamed onto it), and the token hash it was given.             *)
Operation ==
    [kind : {"idle", "init", "resetinit", "resetready", "reset", "register",
             "revoke"},
     new : Identity \cup LocalKey \cup {Absent},
     at : {"idle", "load", "examine", "ready", "open", "fill", "rename"},
     fd : {"none", "part", "file", "local", "gone"}, arg : Hashes]

Doing(kind, at, new, h) ==
    [kind |-> kind, new |-> new, at |-> at, fd |-> "none", arg |-> h]
Idle == Doing("idle", "idle", Absent, NoToken)

Free(p) == op[p].kind = "idle"

Begin(p, kind, new, h) == op' = [op EXCEPT ![p] = Doing(kind, "open", new, h)]

Init ==
    /\ file = Absent /\ local = Absent /\ part = Absent
    /\ env \in Hashes
    /\ agent = "down" /\ cipher = 0
    /\ op = [p \in Process |-> Idle]
    /\ keys = 0 /\ ids = 0 /\ locals = 0
    /\ dropped = {} /\ told = 0 /\ raced = FALSE

---------------------------------------------------------------------------
(* Mutant of Prepare: every constructor makes a local key of its own.      *)
PrepareAfresh(p, kind, h) ==
    /\ locals < MaxLocals
    /\ locals' = locals + 1
    /\ Begin(p, kind, Local(locals + 1), h)

(* __init__ begins: a missing identity.key is made first.                  *)
Prepare(p, kind, h) ==
    \/ /\ local = Absent /\ locals < MaxLocals
       /\ locals' = locals + 1
       /\ Begin(p, kind, Local(locals + 1), h)
    \/ /\ local # Absent
       /\ op' = [op EXCEPT ![p] = Doing(kind, "load", Absent, h)]
       /\ UNCHANGED locals

(* identity.key is read; it must have 32 bytes.                            *)
Load(p) ==
    /\ op[p].at = "load" /\ local \in LocalKey
    /\ cipher' = IF p = "agent" THEN local.local ELSE cipher
    /\ op' = [op EXCEPT ![p].at = "examine"]
    /\ UNCHANGED <<files, env, agent, keys, ids, locals, dropped, told>>

(* Mutant of Constructed: the hash is stored before the id exists.         *)
ConstructedWithoutId(h) ==
    IF file = Absent THEN [id |-> 0, token |-> h, key |-> 0, seal |-> 0]
    ELSE IF h # NoToken /\ file.token # h THEN [file EXCEPT !.token = h]
    ELSE file

(* Mutant of Constructed: a new hash ends the pairing.                     *)
ConstructedUnpaired(h) ==
    IF file = Absent THEN [id |-> ids + 1, token |-> h, key |-> 0, seal |-> 0]
    ELSE IF h # NoToken /\ file.token # h
    THEN [file EXCEPT !.token = h, !.key = 0, !.seal = 0]
    ELSE file

(* The content __init__ leaves behind when it is given the hash h: a fresh *)
(* identity, the old one with h armed, or the old one.                     *)
Constructed(h) ==
    IF file = Absent THEN [id |-> ids + 1, token |-> h, key |-> 0, seal |-> 0]
    ELSE IF h # NoToken /\ file.token # h THEN [file EXCEPT !.token = h]
    ELSE file

(* What follows the constructor: reset_registration() for the command of   *)
(* that name, nothing for the others.                                      *)
Ready(h) == Doing("resetready", "ready", Absent, h)
After(kind, h) == IF kind = "resetinit" THEN Ready(h) ELSE Idle
Booted(p) == agent' = IF p = "agent" THEN "up" ELSE agent

(* __init__ ends with identity.json: it is written when it is missing or   *)
(* has another hash, and not even read when no hash is given.              *)
Construct(p) ==
    LET h == op[p].arg IN
    /\ op[p].at = "examine"
    /\ file = Absent => ids < MaxIds
    /\ file = Torn => h = NoToken
    /\ ids' = IF file = Absent THEN ids + 1 ELSE ids
    /\ \/ /\ file # Torn /\ Constructed(h) # file
          /\ Begin(p, op[p].kind, Constructed(h), h)
          /\ UNCHANGED agent
       \/ /\ file = Torn \/ Constructed(h) = file
          /\ op' = [op EXCEPT ![p] = After(op[p].kind, h)]
          /\ Booted(p)
    /\ UNCHANGED <<files, env, cipher, keys, locals, dropped, told>>

(* The agent process starts (__main__, import of app.py): it constructs    *)
(* the store with the hash of its environment.                             *)
AgentBoot ==
    /\ agent = "down" /\ Free("agent")
    /\ Prepare("agent", "init", env)
    /\ agent' = "booting"
    /\ UNCHANGED <<files, env, cipher, keys, ids, dropped, told>>

(* The process ends, in the middle of an operation or not; a .part file it *)
(* has begun stays.                                                        *)
AgentStop ==
    /\ agent # "down"
    /\ agent' = "down" /\ cipher' = 0
    /\ op' = [op EXCEPT !["agent"] = Idle]
    /\ UNCHANGED <<files, env, keys, ids, locals, dropped, told>>

(* The installer runs again with a new token and recreates the container.  *)
InstallerRerun(t) ==
    /\ agent = "down"
    /\ t # env
    /\ env' = t
    /\ UNCHANGED <<files, agent, cipher, op, keys, ids, locals, dropped, told>>

(* Mutant of Register: a second pairing gets the key of the first.         *)
RegisterReusesKey(t) ==
    /\ agent = "up" /\ Free("agent")
    /\ file \in Identity /\ file.token = t
    /\ keys < MaxKeys
    /\ keys' = keys + 1
    /\ Begin("agent", "register",
             [file EXCEPT !.token = NoToken, !.key = 1, !.seal = cipher], NoToken)
    /\ UNCHANGED <<files, env, agent, cipher, ids, locals, dropped, told>>

(* POST /v1/register with the armed token: a key is minted and sealed, and *)
(* the token burned, in the content to be written.  Any other token, or a  *)
(* file that cannot be read, is an error.                                  *)
Register(t) ==
    /\ agent = "up" /\ Free("agent")
    /\ file \in Identity /\ file.token = t
    /\ keys < MaxKeys
    /\ keys' = keys + 1
    /\ Begin("agent", "register",
             [file EXCEPT !.token = NoToken, !.key = keys + 1, !.seal = cipher],
             NoToken)
    /\ UNCHANGED <<files, env, agent, cipher, ids, locals, dropped, told>>

(* POST /v1/revoke, signed with the current key, which the agent has to    *)
(* unseal to see that.                                                     *)
Revoke ==
    /\ agent = "up" /\ Free("agent")
    /\ file \in Identity /\ file.key # 0 /\ file.seal = cipher
    /\ Begin("agent", "revoke", [file EXCEPT !.key = 0, !.seal = 0], NoToken)
    /\ UNCHANGED <<files, env, agent, cipher, keys, ids, locals, dropped, told>>

(* zagros-node info constructs a store with the hash of the environment.   *)
(* zagros-node audit constructs one without a hash, as a reset does that   *)
(* is given none and goes no further.                                      *)
CliInfo ==
    /\ Free("cli")
    /\ Prepare("cli", "init", env)
    /\ UNCHANGED <<files, env, agent, cipher, keys, ids, dropped, told>>

(* zagros-node reset-registration [hash]: a store is constructed with the  *)
(* new hash ...                                                            *)
CliReset(h) ==
    /\ Free("cli")
    /\ Prepare("cli", "resetinit", h)
    /\ UNCHANGED <<files, env, agent, cipher, keys, ids, dropped, told>>

(* ... then reset_registration() reads the file and clears the pairing.    *)
ResetRegistration ==
    /\ op["cli"].at = "ready" /\ file \in Identity
    /\ Begin("cli", "reset",
             [file EXCEPT !.token = op["cli"].arg, !.key = 0, !.seal = 0], NoToken)
    /\ UNCHANGED <<files, env, agent, cipher, keys, ids, locals, dropped, told>>

---------------------------------------------------------------------------
(* What a file of that name may hold; anything else in it is Torn.         *)
Legal(name) == CASE name = "part"  -> Identity \cup LocalKey
                 [] name = "file"  -> Identity
                 [] name = "local" -> LocalKey
As(name, c) == IF c \in Legal(name) THEN c ELSE Torn

Target(p) == IF op[p].new \in LocalKey THEN "local" ELSE "file"

(* Mutant of Open: the target itself is opened and written in place.       *)
OpenInPlace(p) ==
    /\ op[p].at = "open"
    /\ part' = op[p].new
    /\ file' = IF Target(p) = "file" THEN Torn ELSE file
    /\ op' = [op EXCEPT ![p].at = "rename"]
    /\ UNCHANGED <<local, env, agent, cipher, keys, ids, locals, dropped, told>>

(* A write begins: write_text (write_bytes for identity.key) opens the     *)
(* shared .part file and truncates it.                                     *)
Open(p) ==
    /\ op[p].at = "open"
    /\ part' = Torn
    /\ op' = [op EXCEPT ![p].at = "fill", ![p].fd = "part"]
    /\ UNCHANGED <<file, local, env, agent, cipher, keys, ids, locals, dropped,
                   told>>

(* The content goes into the open file, wherever that is by now.  If the   *)
(* other process has filled the same file meanwhile, the two contents may  *)
(* be mixed.                                                               *)
Filled(p, name, old) ==
    IF op[p].fd # name THEN {old}
    ELSE {As(name, op[p].new)} \cup (IF old = Torn THEN {} ELSE {Torn})

Fill(p) ==
    /\ op[p].at = "fill"
    /\ part' \in Filled(p, "part", part)
    /\ file' \in Filled(p, "file", file)
    /\ local' \in Filled(p, "local", local)
    /\ op' = [op EXCEPT ![p].at = "rename", ![p].fd = "none"]
    /\ UNCHANGED <<env, agent, cipher, keys, ids, locals, dropped, told>>

(* What becomes of an open file when .part is renamed onto name.           *)
Follow(fd, name) ==
    CASE fd = "part" -> name [] fd = name -> "gone" [] OTHER -> fd

(* os.replace of the .part file, whatever it holds, onto the target.       *)
Rename(p, next) ==
    /\ op[p].at = "rename" /\ part # Absent
    /\ part' = Absent
    /\ op' = [q \in Process |->
                IF q = p THEN next
                ELSE [op[q] EXCEPT !.fd = Follow(@, Target(p))]]

(* A new identity.key is in place and is read next.                        *)
ReplaceKey(p) ==
    /\ Target(p) = "local"
    /\ Rename(p, Doing(op[p].kind, "load", Absent, op[p].arg))
    /\ local' = As("local", part)
    /\ UNCHANGED <<file, env, agent, cipher, keys, ids, locals, dropped, told>>

(* The history of an operation that has replaced identity.json: the key a  *)
(* registration has minted goes to the panel, or its reply is lost and the *)
(* panel is left with a key that is good for nothing.  It is kept as long  *)
(* as the processes take turns.                                            *)
Recorded(p) ==
    LET drops == op[p].kind \in {"revoke", "reset"} IN
    /\ dropped' = IF raced THEN {}
                  ELSE IF drops THEN dropped \cup ({file.key} \ {0}) ELSE dropped
    /\ told' \in IF raced \/ drops THEN {0}
                 ELSE IF op[p].kind = "register" THEN {op[p].new.key, 0} ELSE {told}

(* A new identity.json is in place.                                        *)
Replace(p) ==
    /\ Target(p) = "file"
    /\ Rename(p, After(op[p].kind, op[p].arg))
    /\ file' = As("file", part)
    /\ Booted(p)
    /\ Recorded(p)
    /\ UNCHANGED <<local, env, cipher, keys, ids, locals>>

(* Something raises (the disk, a file that cannot be read, a .part file    *)
(* the other process has renamed away) or the command is interrupted.      *)
(* This ends a command or the start of the agent, and makes an error of a  *)
(* request.                                                                *)
Fails(p) ==
    /\ ~Free(p)
    /\ op' = [op EXCEPT ![p] = Idle]
    /\ LET dies == p = "agent" /\ agent = "booting" IN
       /\ agent' = IF dies THEN "down" ELSE agent
       /\ cipher' = IF dies THEN 0 ELSE cipher
    /\ UNCHANGED <<files, env, keys, ids, locals, dropped, told>>

Next ==
    /\ \/ AgentBoot \/ AgentStop \/ Revoke \/ CliInfo \/ ResetRegistration
       \/ \E t \in Tokens : InstallerRerun(t) \/ Register(t)
       \/ \E h \in Hashes : CliReset(h)
       \/ \E p \in Process : Load(p) \/ Construct(p) \/ Open(p) \/ Fill(p)
                               \/ ReplaceKey(p) \/ Replace(p) \/ Fails(p)
    /\ raced' = (raced \/ \A p \in Process : op'[p].kind # "idle")

Spec == Init /\ [][Next]_vars

---------------------------------------------------------------------------
(* Every variable has its type.                                            *)
TypeOK ==
    /\ file \in Identity \cup {Absent, Torn}
    /\ local \in LocalKey \cup {Absent, Torn}
    /\ part \in Identity \cup LocalKey \cup {Absent, Torn}
    /\ env \in Hashes
    /\ agent \in {"down", "booting", "up"}
    /\ cipher \in 0..MaxLocals
    /\ op \in [Process -> Operation]
    /\ keys \in 0..MaxKeys /\ ids \in 0..MaxIds /\ locals \in 0..MaxLocals
    /\ dropped \subseteq 1..MaxKeys
    /\ told \in 0..MaxKeys
    /\ raced \in BOOLEAN

(* As long as the two processes take turns, an identity that is on disk    *)
(* stays there, complete and with the id of the node: no boot, pairing,    *)
(* revocation, reset, failed write or crash loses it or gives the node     *)
(* another one.                                                            *)
NodeIdStable ==
    [][~raced' /\ file \in Identity
         => file' \in Identity /\ file'.id = file.id]_vars

(* As long as the two processes take turns, the signing key on disk can be *)
(* unsealed: the local key it was sealed with is the one in identity.key,  *)
(* and the one a running agent has loaded, through crashes and failed      *)
(* writes of either file.  Otherwise signing_key() raises "node signing    *)
(* key cannot be unsealed", and no command of the panel is accepted again. *)
KeyOpens ==
    ~raced /\ file \in Identity =>
      (file.key # 0 => /\ local = Local(file.seal)
                       /\ agent = "up" => cipher = file.seal)

(* "forget the panel" is final: as long as the two processes take turns,   *)
(* the key that was in the file when a revoke or a reset-registration      *)
(* completed is never the signing key again.                               *)
DroppedStaysDropped == ~raced /\ file \in Identity => file.key \notin dropped

(* A key the panel has been given is on disk and stays there, through      *)
(* crashes, boots and the arming of another token, until a registration, a *)
(* revoke or a reset replaces it: register() writes before it answers, and *)
(* a new hash leaves "an existing identity or signing key" undisturbed.    *)
PanelKeyOnDisk == ~raced /\ told # 0 => file \in Identity /\ file.key = told

===========================================================================
