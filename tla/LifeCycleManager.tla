-------------------------- MODULE LifeCycleManager --------------------------
(***************************************************************************)
(* The LCM thread: it takes one action at a time from its queue, locks the *)
(* VM, and either moves it to its next LCM state (triggering the VMM, the  *)
(* TM or the DM) or, when the state is not one the action expects, only    *)
(* logs an error.  Actions come from the DM (requests of the users) and    *)
(* from the VMM and TM drivers (answers), so an answer can find the VM in  *)
(* any state the actions before it in the queue have left.                 *)
(***************************************************************************)
EXTENDS VMCore

Lcm(a) == Receive("LCM", a)

(* The handler triggers nothing further.                                   *)
Done_LCM == Handled("LCM")

To(m, acts) == HandledTo("LCM", m, acts)

-----------------------------------------------------------------------------
(* Requests that arrive from the dispatch manager *)

(* A new deployment is a prolog, unless the last record was a stop or an   *)
(* undeploy: its files are then brought back instead of created.           *)
deploy_action ==
  /\ Lcm("DEPLOY") /\ vm.state = "ACTIVE"
  /\ LET resume   == hasPreviousHistory /\ vm.prev.action = "STOP"
         undeploy == hasPreviousHistory /\ vm.prev.action = "UNDEPLOY"
     IN  /\ vm' = [vm EXCEPT !.lcm = IF resume THEN "PROLOG_RESUME"
                                     ELSE IF undeploy THEN "PROLOG_UNDEPLOY"
                                     ELSE "PROLOG"]
         /\ To("TM", <<IF resume \/ undeploy THEN "PROLOG_RESUME" ELSE "PROLOG">>)
  /\ add_capacity(vm.hist.hid)

(* The request a leaves RUNNING for lcm, recording the action and asking   *)
(* the driver for cmd.                                                     *)
leave_running(a, lcm, action, cmd) ==
  /\ Lcm(a) /\ is("ACTIVE", "RUNNING")
  /\ vm' = [vm EXCEPT !.lcm = lcm, !.hist.action = action]
  /\ To("VMM", <<cmd>>)
  /\ UNCHANGED capacity

suspend_action  == leave_running("SUSPEND", "SAVE_SUSPEND", "OTHER", "SAVE")
stop_action     == leave_running("STOP", "SAVE_STOP", "STOP", "SAVE")
shutdown_action == leave_running("SHUTDOWN", "SHUTDOWN", "OTHER", "SHUTDOWN")
cancel_action   == leave_running("CANCEL", "CANCEL", "OTHER", "CANCEL")

undeploy_action ==
  \/ leave_running("UNDEPLOY", "SHUTDOWN_UNDEPLOY", "UNDEPLOY", "SHUTDOWN")
  \/ leave_running("UNDEPLOY_HARD", "SHUTDOWN_UNDEPLOY", "UNDEPLOY", "CANCEL")

poweroff_action ==
  \/ leave_running("POWEROFF", "SHUTDOWN_POWEROFF", "OTHER", "SHUTDOWN")
  \/ leave_running("POWEROFF_HARD", "SHUTDOWN_POWEROFF", "OTHER", "CANCEL")

(* The request manager has already added the record of the new host.       *)
leave_host(a, lcm, cmd) ==
  /\ Lcm(a) /\ is("ACTIVE", "RUNNING")
  /\ vm' = [vm EXCEPT !.lcm = lcm, !.prev.action = "OTHER"]
  /\ add_capacity(vm.hist.hid)
  /\ To("VMM", <<cmd>>)

migrate_action      == leave_host("MIGRATE", "SAVE_MIGRATE", "SAVE")
live_migrate_action == leave_host("LIVE_MIGRATE", "MIGRATE", "MIGRATE")

restore_action ==
  /\ Lcm("RESTORE") /\ vm.state = "SUSPENDED"
  /\ vm' = [cp_history(vm) EXCEPT !.state = "ACTIVE", !.lcm = "BOOT_SUSPENDED"]
  /\ To("VMM", <<"RESTORE">>)
  /\ UNCHANGED capacity

CanRestart == \/ vm.state = "ACTIVE" /\ vm.lcm \in BootStates \cup {"UNKNOWN"}
              \/ vm.state = "POWEROFF"

restart_action ==
  /\ Lcm("RESTART") /\ CanRestart
  /\ vm' = CASE vm.state = "POWEROFF" ->
                  [cp_history(vm) EXCEPT !.state = "ACTIVE", !.lcm = "BOOT_POWEROFF"]
             [] is("ACTIVE", "UNKNOWN") -> [vm EXCEPT !.lcm = "BOOT_UNKNOWN"]
             [] OTHER -> vm
  /\ To("VMM", <<"DEPLOY">>)
  /\ UNCHANGED capacity

-----------------------------------------------------------------------------
(* Deletion and resubmission of an active VM *)

(* The states clean_up_vm sends to the TM and to the VMM for cleaning.     *)
CleanedByTM  == (PrologStates \ {"PROLOG_MIGRATE"}) \cup EpilogStates
CleanedByVMM_not_suspending ==                \* mutant
  BootStates \cup HotplugStates \cup {"RUNNING", "UNKNOWN"}
CleanedByVMM == BootStates \cup HotplugStates
                  \cup {"RUNNING", "UNKNOWN", "SHUTDOWN", "SHUTDOWN_POWEROFF",
                        "CANCEL", "SAVE_STOP", "SAVE_SUSPEND"}

(* clean_up_vm, the managers it triggers.  States that no case of its      *)
(* switch names trigger nobody: LCM_INIT, and SHUTDOWN_UNDEPLOY.           *)
clean_up_triggers_uncancelled(q, lcm) ==           \* mutant
  CASE lcm \in CleanedByTM      -> Push(q, "TM", <<"EPILOG_DELETE">>)
    [] lcm = "PROLOG_MIGRATE"   -> Push(q, "TM", <<"EPILOG_DELETE_BOTH">>)
    [] lcm \in CleanedByVMM \cup SaveasStates -> Push(q, "VMM", <<"CLEANUP">>)
    [] lcm = "MIGRATE"          -> Push(q, "VMM", <<"CLEANUP_BOTH">>)
    [] lcm = "SAVE_MIGRATE"     -> Push(q, "VMM", <<"CLEANUP_PREVIOUS">>)
    [] OTHER                    -> q

clean_up_triggers(q, lcm) ==
  CASE lcm \in CleanedByTM ->
         Push(q, "TM", <<"DRIVER_CANCEL", "EPILOG_DELETE">>)
    [] lcm = "PROLOG_MIGRATE" ->
         Push(q, "TM", <<"DRIVER_CANCEL", "EPILOG_DELETE_BOTH">>)
    [] lcm \in CleanedByVMM ->
         Push(q, "VMM", <<"DRIVER_CANCEL", "CLEANUP">>)
    [] lcm \in SaveasStates ->
         Push(Push(q, "TM", <<"DRIVER_CANCEL">>), "VMM", <<"DRIVER_CANCEL", "CLEANUP">>)
    [] lcm = "MIGRATE" ->
         Push(q, "VMM", <<"DRIVER_CANCEL", "CLEANUP_BOTH">>)
    [] lcm = "SAVE_MIGRATE" ->
         Push(q, "VMM", <<"DRIVER_CANCEL", "CLEANUP_PREVIOUS">>)
    [] OTHER -> q

(* clean_up_vm: what it changes in the VM and in its hosts.                *)
TwoHosts == vm.lcm \in {"MIGRATE", "SAVE_MIGRATE"}

clean_up_hosts ==
  capacity' = capacity \ ({vm.hist.hid} \cup IF TwoHosts THEN {vm.prev.hid} ELSE {})

clean_up_vm(lcm) ==
  /\ vm' = [vm EXCEPT !.lcm = lcm,
                      !.hist.action = "OTHER",
                      !.hist.reason = "USER",
                      !.prev.reason = IF TwoHosts THEN "USER" ELSE @]
  /\ clean_up_hosts

(* The VM is handed over to the DM at once: the drivers are still cleaning *)
(* the host when the DM makes it DONE.                                     *)
delete_action ==
  /\ Lcm("DELETE") /\ vm.state = "ACTIVE"
  /\ \/ /\ vm.lcm \in CleanupStates
        /\ vm' = [vm EXCEPT !.lcm = "CLEANUP_DELETE"]
        /\ To("DM", <<"DONE">>)
        /\ UNCHANGED capacity
     \/ /\ vm.lcm = "FAILURE"
        /\ vm' = [vm EXCEPT !.lcm = "CLEANUP_DELETE"]
        /\ queue' = Push(Push(Pop(queue, "LCM"), "TM", <<"EPILOG_DELETE">>),
                         "DM", <<"DONE">>)
        /\ UNCHANGED capacity
     \/ /\ vm.lcm \notin CleanupStates \cup {"FAILURE"}
        /\ clean_up_vm("CLEANUP_DELETE")
        /\ queue' = Push(clean_up_triggers(Pop(queue, "LCM"), vm.lcm), "DM", <<"DONE">>)

(* A resubmission waits for the answer of the cleanup before the DM takes  *)
(* the VM back to PENDING; a second one does not wait.                     *)
clean_action ==
  /\ Lcm("CLEAN") /\ vm.state = "ACTIVE"
  /\ \/ /\ vm.lcm = "CLEANUP_RESUBMIT"
        /\ To("DM", <<"RESUBMIT">>)
        /\ UNCHANGED <<vm, capacity>>
     \/ /\ vm.lcm = "FAILURE"
        /\ vm' = [vm EXCEPT !.lcm = "CLEANUP_RESUBMIT"]
        /\ To("TM", <<"EPILOG_DELETE">>)
        /\ UNCHANGED capacity
     \/ /\ vm.lcm \notin CleanupStates \cup {"FAILURE"}
        /\ clean_up_vm("CLEANUP_RESUBMIT")
        /\ queue' = clean_up_triggers(Pop(queue, "LCM"), vm.lcm)

-----------------------------------------------------------------------------
(* Answers of the hypervisor drivers *)

save_success_action ==
  /\ Lcm("SAVE_SUCCESS")
  /\ \/ /\ vm.lcm = "SAVE_MIGRATE"
        /\ vm' = [vm EXCEPT !.lcm = "PROLOG_MIGRATE", !.prev.reason = "USER"]
        /\ del_capacity(vm.prev.hid)
        /\ To("TM", <<"PROLOG_MIGR">>)
     \/ /\ vm.lcm = "SAVE_SUSPEND"
        /\ vm' = [vm EXCEPT !.hist.reason = "USER"]
        /\ To("DM", <<"SUSPEND_SUCCESS">>)
        /\ UNCHANGED capacity
     \/ /\ vm.lcm = "SAVE_STOP"
        /\ vm' = [vm EXCEPT !.lcm = "EPILOG_STOP", !.hist.reason = "USER"]
        /\ To("TM", <<"EPILOG_STOP">>)
        /\ UNCHANGED capacity

(* A migration that failed: the VM is still on the previous host, and a    *)
(* new record for it goes on top of the failed one.                        *)
back_to_previous_host ==
  /\ vm' = cp_previous_history([vm EXCEPT !.lcm = "RUNNING",
                                          !.hist.reason = "ERROR",
                                          !.prev.reason = "USER"])
  /\ del_capacity(vm.hist.hid)
  /\ To("VMM", <<"POLL">>)

back_to_running_frees_host ==                 \* mutant
  /\ vm' = [vm EXCEPT !.lcm = "RUNNING", !.hist.action = "NONE"]
  /\ To("VMM", <<"POLL">>)
  /\ del_capacity(vm.hist.hid)

(* The command failed, the VM is assumed to be still running.              *)
back_to_running ==
  /\ vm' = [vm EXCEPT !.lcm = "RUNNING", !.hist.action = "NONE"]
  /\ To("VMM", <<"POLL">>)
  /\ UNCHANGED capacity

save_failure_action ==
  /\ Lcm("SAVE_FAILURE")
  /\ \/ vm.lcm = "SAVE_MIGRATE" /\ back_to_previous_host
     \/ vm.lcm \in {"SAVE_SUSPEND", "SAVE_STOP"} /\ back_to_running

deploy_success_action ==
  /\ Lcm("DEPLOY_SUCCESS")
  /\ \/ /\ vm.lcm = "MIGRATE"
        /\ vm' = [vm EXCEPT !.lcm = "RUNNING", !.prev.reason = "USER"]
        /\ del_capacity(vm.prev.hid)
     \/ /\ vm.lcm \in BootStates
        /\ vm' = [vm EXCEPT !.lcm = "RUNNING"]
        /\ UNCHANGED capacity
  /\ Done_LCM

failure_action_keeps_share ==                 \* mutant
  /\ vm' = [vm EXCEPT !.lcm = "FAILURE", !.hist.reason = "ERROR"]
  /\ To("DM", <<"FAILED">>)
  /\ UNCHANGED capacity

failure_action_keeps_lcm ==                   \* mutant
  /\ vm' = [vm EXCEPT !.hist.reason = "ERROR"]
  /\ del_capacity(vm.hist.hid)
  /\ To("DM", <<"FAILED">>)

(* failure_action: the VM leaves its host and the DM is told.              *)
failure_action ==
  /\ vm' = [vm EXCEPT !.lcm = "FAILURE", !.hist.reason = "ERROR"]
  /\ del_capacity(vm.hist.hid)
  /\ To("DM", <<"FAILED">>)

deploy_failure_action ==
  /\ Lcm("DEPLOY_FAILURE")
  /\ \/ vm.lcm = "MIGRATE" /\ back_to_previous_host
     \/ vm.lcm = "BOOT" /\ failure_action
     \/ /\ vm' = CASE vm.lcm = "BOOT_UNKNOWN"   -> [vm EXCEPT !.lcm = "UNKNOWN"]
                   [] vm.lcm = "BOOT_POWEROFF"  ->
                        [vm EXCEPT !.state = "POWEROFF", !.lcm = "LCM_INIT"]
                   [] vm.lcm = "BOOT_SUSPENDED" ->
                        [vm EXCEPT !.state = "SUSPENDED", !.lcm = "LCM_INIT"]
                   [] OTHER -> vm
        /\ vm.lcm \in {"BOOT_UNKNOWN", "BOOT_POWEROFF", "BOOT_SUSPENDED"}
        /\ Done_LCM
        /\ UNCHANGED capacity
     \/ /\ vm.lcm \in {"BOOT_STOPPED", "BOOT_UNDEPLOY"}
        /\ vm' = [vm EXCEPT !.lcm = IF vm.lcm = "BOOT_STOPPED" THEN "EPILOG_STOP"
                                                               ELSE "EPILOG_UNDEPLOY",
                            !.hist.reason = "ERROR"]
        /\ To("TM", <<"EPILOG_STOP">>)
        /\ UNCHANGED capacity

to_epilog_always_final(lcm, cmd) ==           \* mutant
  /\ vm' = [vm EXCEPT !.lcm = "EPILOG", !.hist.reason = "USER"]
  /\ To("TM", <<"EPILOG">>)
  /\ UNCHANGED capacity

(* The guest is down: lcm is where its epilog is, triggered by cmd.        *)
to_epilog(lcm, cmd) ==
  /\ vm' = [vm EXCEPT !.lcm = lcm, !.hist.reason = "USER"]
  /\ To("TM", <<cmd>>)
  /\ UNCHANGED capacity

powered_off_misreported ==                    \* mutant
  /\ vm' = [vm EXCEPT !.hist.reason = "USER"]
  /\ To("DM", <<"SHUTDOWN_SUCCESS">>)
  /\ UNCHANGED capacity

powered_off ==
  /\ vm' = [vm EXCEPT !.hist.reason = "USER"]
  /\ To("DM", <<"POWEROFF_SUCCESS">>)
  /\ UNCHANGED capacity

shutdown_success_action ==
  /\ Lcm("SHUTDOWN_SUCCESS")
  /\ \/ vm.lcm = "SHUTDOWN" /\ to_epilog("EPILOG", "EPILOG")
     \/ vm.lcm = "SHUTDOWN_POWEROFF" /\ powered_off
     \/ vm.lcm = "SHUTDOWN_UNDEPLOY" /\ to_epilog("EPILOG_UNDEPLOY", "EPILOG_STOP")

shutdown_failure_action ==
  Lcm("SHUTDOWN_FAILURE") /\ vm.lcm \in ShutdownStates /\ back_to_running

cancel_success_action ==
  /\ Lcm("CANCEL_SUCCESS")
  /\ \/ vm.lcm = "CANCEL" /\ to_epilog("EPILOG", "EPILOG")
     \/ vm.lcm = "SHUTDOWN_UNDEPLOY" /\ to_epilog("EPILOG_UNDEPLOY", "EPILOG_STOP")
     \/ vm.lcm = "SHUTDOWN_POWEROFF" /\ powered_off

cancel_failure_action ==
  /\ Lcm("CANCEL_FAILURE")
  /\ vm.lcm \in {"CANCEL", "SHUTDOWN_UNDEPLOY", "SHUTDOWN_POWEROFF"}
  /\ back_to_running

(* CLEANUP_SUCCESS and CLEANUP_FAILURE have the same callback.             *)
cleanup_callback_action ==
  /\ Lcm("CLEANUP_DONE") /\ vm.lcm = "CLEANUP_RESUBMIT"
  /\ To("DM", <<"RESUBMIT">>)
  /\ UNCHANGED <<vm, capacity>>

(* The end of an attach, a detach or a snapshot operation, successful or   *)
(* not: the VM goes back to RUNNING (the disk or NIC is not modelled).     *)
hotplug_end(a, lcm) ==
  /\ Lcm(a) /\ vm.lcm = lcm
  /\ vm' = [vm EXCEPT !.lcm = "RUNNING"]
  /\ Done_LCM
  /\ UNCHANGED capacity

attach_end     == hotplug_end("ATTACH_DONE", "HOTPLUG")
attach_nic_end == hotplug_end("ATTACH_NIC_DONE", "HOTPLUG_NIC")
snapshot_end   == hotplug_end("SNAPSHOT_DONE", "HOTPLUG_SNAPSHOT")

-----------------------------------------------------------------------------
(* Answers of the transfer driver *)

prolog_success_action ==
  /\ Lcm("PROLOG_SUCCESS") /\ vm.lcm \in PrologStates
  /\ vm' = [vm EXCEPT !.lcm = CASE vm.lcm = "PROLOG_RESUME"   -> "BOOT_STOPPED"
                                [] vm.lcm = "PROLOG_UNDEPLOY" -> "BOOT_UNDEPLOY"
                                [] OTHER                      -> "BOOT"]
  /\ To("VMM", <<IF vm.lcm \in {"PROLOG", "PROLOG_UNDEPLOY"} THEN "DEPLOY"
                                                             ELSE "RESTORE">>)
  /\ UNCHANGED capacity

prolog_failure_action ==
  /\ Lcm("PROLOG_FAILURE")
  /\ \/ vm.lcm \in {"PROLOG", "PROLOG_MIGRATE"} /\ failure_action
     \/ /\ vm.lcm \in {"PROLOG_RESUME", "PROLOG_UNDEPLOY"}
        /\ vm' = [vm EXCEPT !.hist.reason = "ERROR"]
        /\ del_capacity(vm.hist.hid)
        /\ To("DM", <<IF vm.lcm = "PROLOG_RESUME" THEN "STOP_SUCCESS"
                                                  ELSE "UNDEPLOY_SUCCESS">>)

epilog_success_action ==
  /\ Lcm("EPILOG_SUCCESS")
  /\ \/ /\ vm.lcm \in EpilogStates
        /\ del_capacity(vm.hist.hid)
        /\ To("DM", <<CASE vm.lcm = "EPILOG_STOP"     -> "STOP_SUCCESS"
                        [] vm.lcm = "EPILOG_UNDEPLOY" -> "UNDEPLOY_SUCCESS"
                        [] OTHER                      -> "DONE">>)
     \/ /\ vm.lcm = "CLEANUP_RESUBMIT"
        /\ To("DM", <<"RESUBMIT">>)
        /\ UNCHANGED capacity
  /\ UNCHANGED vm

epilog_failure_action ==
  /\ Lcm("EPILOG_FAILURE")
  /\ \/ /\ vm.lcm = "CLEANUP_RESUBMIT"
        /\ To("DM", <<"RESUBMIT">>)
        /\ UNCHANGED <<vm, capacity>>
     \/ vm.lcm \in EpilogStates /\ failure_action

saveas_hot_end ==
  /\ Lcm("SAVEAS_HOT_DONE") /\ vm.lcm \in SaveasStates
  /\ vm' = clear_saveas_state(vm)
  /\ Done_LCM
  /\ UNCHANGED capacity

-----------------------------------------------------------------------------
(* What monitoring tells *)

monitor_failure_action ==
  Lcm("MONITOR_FAILURE") /\ vm.lcm \in {"RUNNING", "UNKNOWN"} /\ failure_action

monitor_suspend_action ==
  /\ Lcm("MONITOR_SUSPEND") /\ vm.lcm \in {"RUNNING", "UNKNOWN"}
  /\ vm' = [vm EXCEPT !.lcm = "SAVE_SUSPEND", !.hist.reason = "ERROR"]
  /\ To("DM", <<"SUSPEND_SUCCESS">>)
  /\ UNCHANGED capacity

monitor_done_action ==
  /\ Lcm("MONITOR_DONE") /\ vm.lcm = "RUNNING"
  /\ vm' = [vm EXCEPT !.lcm = "UNKNOWN"]
  /\ Done_LCM
  /\ UNCHANGED capacity

-----------------------------------------------------------------------------
(* Every handler locks the VM, and leaves it as it is when the state is    *)
(* not one it expects.                                                     *)
RunningRequests == {"SUSPEND", "STOP", "SHUTDOWN", "CANCEL", "UNDEPLOY",
                    "UNDEPLOY_HARD", "POWEROFF", "POWEROFF_HARD", "MIGRATE",
                    "LIVE_MIGRATE"}

Events == {"SAVE_SUCCESS", "SAVE_FAILURE", "DEPLOY_SUCCESS", "DEPLOY_FAILURE",
           "SHUTDOWN_SUCCESS", "SHUTDOWN_FAILURE", "CANCEL_SUCCESS",
           "CANCEL_FAILURE", "CLEANUP_DONE", "ATTACH_DONE", "ATTACH_NIC_DONE",
           "SNAPSHOT_DONE", "PROLOG_SUCCESS", "PROLOG_FAILURE",
           "EPILOG_SUCCESS", "EPILOG_FAILURE", "SAVEAS_HOT_DONE",
           "MONITOR_FAILURE", "MONITOR_SUSPEND", "MONITOR_DONE"}

LcmActions == {"DEPLOY", "RESTORE", "RESTART", "DELETE", "CLEAN"}
                \cup RunningRequests \cup Events

(* The LCM states in which an event changes something.                     *)
Awaited(e) ==
  CASE e \in {"SAVE_SUCCESS", "SAVE_FAILURE"} -> SaveStates
    [] e \in {"DEPLOY_SUCCESS", "DEPLOY_FAILURE"} -> BootStates \cup {"MIGRATE"}
    [] e \in {"SHUTDOWN_SUCCESS", "SHUTDOWN_FAILURE"} -> ShutdownStates
    [] e \in {"CANCEL_SUCCESS", "CANCEL_FAILURE"} ->
         {"CANCEL", "SHUTDOWN_UNDEPLOY", "SHUTDOWN_POWEROFF"}
    [] e = "CLEANUP_DONE" -> {"CLEANUP_RESUBMIT"}
    [] e = "ATTACH_DONE" -> {"HOTPLUG"}
    [] e = "ATTACH_NIC_DONE" -> {"HOTPLUG_NIC"}
    [] e = "SNAPSHOT_DONE" -> {"HOTPLUG_SNAPSHOT"}
    [] e \in {"PROLOG_SUCCESS", "PROLOG_FAILURE"} -> PrologStates
    [] e \in {"EPILOG_SUCCESS", "EPILOG_FAILURE"} ->
         EpilogStates \cup {"CLEANUP_RESUBMIT"}
    [] e = "SAVEAS_HOT_DONE" -> SaveasStates
    [] e \in {"MONITOR_FAILURE", "MONITOR_SUSPEND"} -> {"RUNNING", "UNKNOWN"}
    [] e = "MONITOR_DONE" -> {"RUNNING"}

Expected(a) ==
  CASE a \in RunningRequests -> is("ACTIVE", "RUNNING")
    [] a = "DEPLOY"  -> vm.state = "ACTIVE"
    [] a = "RESTORE" -> vm.state = "SUSPENDED"
    [] a = "RESTART" -> CanRestart
    [] a = "DELETE"  -> vm.state = "ACTIVE"
    [] a = "CLEAN"   -> vm.state = "ACTIVE" /\ vm.lcm # "CLEANUP_DELETE"
    [] OTHER         -> vm.lcm \in Awaited(a)

wrong_state_LCM ==
  /\ \E a \in LcmActions : Lcm(a) /\ ~Expected(a)
  /\ Done_LCM
  /\ UNCHANGED <<vm, capacity>>

LcmRequest ==
  \/ deploy_action   \/ suspend_action  \/ stop_action
  \/ migrate_action  \/ live_migrate_action
  \/ shutdown_action \/ cancel_action   \/ undeploy_action \/ poweroff_action
  \/ restore_action  \/ restart_action  \/ delete_action   \/ clean_action

LcmAnswer ==
  \/ save_success_action     \/ save_failure_action
  \/ deploy_success_action   \/ deploy_failure_action
  \/ shutdown_success_action \/ shutdown_failure_action
  \/ cancel_success_action   \/ cancel_failure_action
  \/ cleanup_callback_action
  \/ attach_end \/ attach_nic_end \/ snapshot_end \/ saveas_hot_end
  \/ prolog_success_action   \/ prolog_failure_action
  \/ epilog_success_action   \/ epilog_failure_action
  \/ monitor_failure_action  \/ monitor_suspend_action \/ monitor_done_action

LcmNext == /\ LcmRequest \/ LcmAnswer \/ wrong_state_LCM
           /\ UNCHANGED <<driver, rm, locked, released>>
=============================================================================
