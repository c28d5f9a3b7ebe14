--------------------------- MODULE CoreLifecycle ---------------------------
(***************************************************************************)
(* What the CoreManager promises about the state of a core, whatever its   *)
(* tasks, time-outs and crashes do: the lifecycle of CoreState             *)
(* (vendor/zagros/app/cores/types.py) with the moves the operations of     *)
(* manager.py may make.  "absent" is a core without an entry.              *)
(***************************************************************************)
VARIABLE state

(* install_core: attach the driver, then succeed or take it back.          *)
Attach    == state = "absent"  /\ state' = "loaded"
Installed == state = "loaded"  /\ state' = "installed"
TakeBack  == state = "loaded"  /\ state' = "absent"

(* start_core, and the second half of restart_core.                        *)
BeginStart == /\ state \in {"installed", "stopped", "error", "stopping"}
              /\ state' = "starting"
Started    == state = "starting" /\ state' = "running"

(* stop_core, the first half of restart_core, and uninstall_core.          *)
BeginStop == /\ state \in {"running", "error", "starting"}
             /\ state' = "stopping"
Stopped   == state = "stopping" /\ state' = "stopped"

Fail == state \in {"starting", "stopping"} /\ state' = "error"

(* apply_studio_document: the record follows the process it has found or   *)
(* started again, or stopped with the last inbound.                        *)
Follow == /\ state \in {"running", "error"}
          /\ state' \in {"running", "error", "starting", "stopped"}

(* uninstall_core never takes a running core away.                         *)
Uninstall == /\ state \notin {"absent", "running"}
             /\ state' = "uninstalled"
Detach    == state = "uninstalled" /\ state' = "absent"

(* The agent ends; a later one takes up what was saved, except that no     *)
(* core is believed to run.                                                *)
Vanish == state' = "absent"
TakeUp == /\ state = "absent"
          /\ state' \in {"loaded", "installed", "stopped", "error",
                         "uninstalled"}

Next == \/ Attach \/ Installed \/ TakeBack \/ BeginStart \/ Started
        \/ BeginStop \/ Stopped \/ Fail \/ Follow \/ Uninstall \/ Detach
        \/ Vanish \/ TakeUp

Spec == state = "absent" /\ [][Next]_state

===========================================================================
