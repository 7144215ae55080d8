--------------------------- MODULE VMStateDiagram ---------------------------
(***************************************************************************)
(* What the core promises the developers of a virtual machine's life: the  *)
(* complete state diagram of the documentation, with its internal state    *)
(* names, as a state machine of its own.  It is the abstract specification *)
(* that VMLifecycle implements.                                            *)
(***************************************************************************)
VARIABLE shown      \* the node of the diagram the VM is in

(* The arrows of the diagram, commands, answers and failures alike, except *)
(* the two that leave ANY state.                                           *)
Arrows ==
  [PENDING         |-> {"PROLOG", "PROLOG_RESUME", "PROLOG_UNDEPLOY", "HOLD"},
   HOLD            |-> {"PENDING"},
   PROLOG          |-> {"BOOT", "FAILURE"},
   PROLOG_RESUME   |-> {"BOOT_STOPPED", "STOPPED"},
   PROLOG_UNDEPLOY |-> {"BOOT_UNDEPLOY", "UNDEPLOYED"},
   PROLOG_MIGRATE  |-> {"BOOT", "FAILURE"},
   BOOT            |-> {"RUNNING", "FAILURE"},
   BOOT_STOPPED    |-> {"RUNNING", "EPILOG_STOP"},
   BOOT_UNDEPLOY   |-> {"RUNNING", "EPILOG_UNDEPLOY"},
   BOOT_SUSPENDED  |-> {"RUNNING", "SUSPENDED"},
   BOOT_POWEROFF   |-> {"RUNNING", "POWEROFF"},
   BOOT_UNKNOWN    |-> {"RUNNING", "UNKNOWN"},
   RUNNING         |-> {"SHUTDOWN", "CANCEL", "SHUTDOWN_POWEROFF",
                        "SHUTDOWN_UNDEPLOY", "MIGRATE", "SAVE_MIGRATE",
                        "SAVE_STOP", "SAVE_SUSPEND", "HOTPLUG", "HOTPLUG_NIC",
                        "HOTPLUG_SNAPSHOT", "HOTPLUG_SAVEAS", "FAILURE",
                        "UNKNOWN"},
   UNKNOWN         |-> {"BOOT_UNKNOWN", "FAILURE", "SAVE_SUSPEND", "RUNNING"},
   SHUTDOWN        |-> {"EPILOG", "RUNNING"},
   CANCEL          |-> {"EPILOG", "RUNNING"},
   SHUTDOWN_POWEROFF |-> {"POWEROFF", "RUNNING"},
   SHUTDOWN_UNDEPLOY |-> {"EPILOG_UNDEPLOY", "RUNNING"},
   MIGRATE         |-> {"RUNNING"},
   SAVE_MIGRATE    |-> {"PROLOG_MIGRATE", "RUNNING"},
   SAVE_STOP       |-> {"EPILOG_STOP", "RUNNING"},
   SAVE_SUSPEND    |-> {"SUSPENDED", "RUNNING"},
   EPILOG          |-> {"DONE", "FAILURE"},
   EPILOG_STOP     |-> {"STOPPED", "FAILURE"},
   EPILOG_UNDEPLOY |-> {"UNDEPLOYED", "FAILURE"},
   STOPPED         |-> {"PENDING"},
   UNDEPLOYED      |-> {"PENDING"},
   SUSPENDED       |-> {"BOOT_SUSPENDED", "HOTPLUG_SAVEAS_SUSPENDED"},
   POWEROFF        |-> {"BOOT_POWEROFF", "HOTPLUG_SAVEAS_POWEROFF"},
   HOTPLUG          |-> {"RUNNING"},
   HOTPLUG_NIC      |-> {"RUNNING"},
   HOTPLUG_SNAPSHOT |-> {"RUNNING"},
   HOTPLUG_SAVEAS   |-> {"RUNNING"},
   HOTPLUG_SAVEAS_POWEROFF  |-> {"POWEROFF"},
   HOTPLUG_SAVEAS_SUSPENDED |-> {"SUSPENDED"},
   FAILURE          |-> {},
   DONE             |-> {}]

Nodes == DOMAIN Arrows

(* delete leads from ANY state to done, delete --recreate from ANY but     *)
(* three to pending.                                                       *)
Delete   == shown' = "DONE"
Recreate == shown \notin {"SUSPENDED", "POWEROFF", "DONE"} /\ shown' = "PENDING"
Follow   == shown' \in Arrows[shown]

Init == shown \in {"PENDING", "HOLD"}
Next == Follow \/ Delete \/ Recreate
Spec == Init /\ [][Next]_shown
=============================================================================
