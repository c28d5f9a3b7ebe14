---------------------------- MODULE AtomicStore ----------------------------
(***************************************************************************)
(* What NodeCoreStateStore promises to the core manager: one row per core, *)
(* and a call of save_state() or remove() that changes the row it names,   *)
(* and no other, in one step between its beginning and its return, or, if  *)
(* it is cut off, later or never.                                          *)
(***************************************************************************)
CONSTANTS
    Cores, Tasks,
    Settings,    \* settings documents
    Blank,       \* the settings of a row first saved without any
    Keep,        \* save_state(settings=None)
    Missing      \* no row; as an argument: remove()

VARIABLES rows, call
avars == <<rows, call>>

Args == Settings \cup {Keep, Missing}
Rows == [Cores -> Settings \cup {Blank, Missing}]
Free == [core |-> CHOOSE c \in Cores : TRUE, arg |-> Keep, pc |-> "free"]

(* Mutant of Saved: settings=None is stored as it comes.                   *)
SavedLiteral(arg, old) == arg

(* The row a call leaves behind where it found old.                        *)
Saved(arg, old) ==
    CASE arg # Keep                    -> arg
      [] arg = Keep /\ old = Missing   -> Blank
      [] OTHER                         -> old

AInit ==
    /\ rows = [c \in Cores |-> Missing]
    /\ call = [t \in Tasks |-> Free]

ABegin(t, c, arg) ==
    /\ call[t] = Free
    /\ call' = [call EXCEPT ![t] = [core |-> c, arg |-> arg, pc |-> "called"]]
    /\ UNCHANGED rows

AEffect(t) ==
    /\ call[t].pc = "called"
    /\ rows' = [rows EXCEPT ![call[t].core] = Saved(call[t].arg, @)]
    /\ call' = [call EXCEPT ![t].pc = "done"]

AReturn(t) ==
    /\ call[t].pc = "done"
    /\ call' = [call EXCEPT ![t] = Free]
    /\ UNCHANGED rows

(* A call that is cut off: it does nothing more, or is gone and may yet    *)
(* take effect, once.                                                      *)
ACutOff(t) ==
    /\ \/ call[t].pc \in {"called", "done"} /\ call' = [call EXCEPT ![t] = Free]
       \/ call[t].pc = "called" /\ call' = [call EXCEPT ![t].pc = "gone"]
    /\ UNCHANGED rows

ALate(t) ==
    /\ call[t].pc = "gone"
    /\ rows' = [rows EXCEPT ![call[t].core] = Saved(call[t].arg, @)]
    /\ call' = [call EXCEPT ![t] = Free]

(* The agent dies: what took effect stays, what did not never will.        *)
ADie ==
    /\ call' = [t \in Tasks |-> Free]
    /\ UNCHANGED rows

ANext ==
    \/ \E t \in Tasks :
         \/ \E c \in Cores, arg \in Args : ABegin(t, c, arg)
         \/ AEffect(t) \/ AReturn(t) \/ ACutOff(t) \/ ALate(t)
    \/ ADie

ASpec == AInit /\ [][ANext]_avars

===========================================================================
