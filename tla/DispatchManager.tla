-------------------------- MODULE DispatchManager --------------------------
(***************************************************************************)
(* The dispatch manager has two faces.  Its public methods run in the      *)
(* XML-RPC thread that serves a user's request, check the VM state under   *)
(* the VM lock and usually just trigger an action of the LCM; and its own  *)
(* thread takes the results the LCM reports from the DM queue.             *)
(***************************************************************************)
EXTENDS VMCore

(* A request of this kind arrives and gets the VM lock.                    *)
Request(r) == r \in Requests /\ Pending < MaxPending /\ ~locked

(* A step of the XML-RPC thread that is still to come.                     *)
RmSteps == {"DEPLOY", "MIGRATE", "LIVE_MIGRATE", "ATTACH", "ATTACH_NIC", "DETACH",
            "DETACH_NIC", "SNAPSHOT", "CANCEL", "SAVEAS", "SAVEAS_IMAGE"}
RmStep(s, h) == [step |-> s, hid |-> h]
later(s)     == rm' = rm \cup {RmStep(s, NoHost)}

-----------------------------------------------------------------------------
(* Requests for a running VM that leave the state to the LCM *)

RunningOps == {"SHUTDOWN", "UNDEPLOY", "UNDEPLOY_HARD", "POWEROFF",
               "POWEROFF_HARD", "STOP", "SUSPEND"}

dm_running(op) ==
  /\ Request(op) /\ is("ACTIVE", "RUNNING")
  /\ trigger("LCM", <<op>>)
  /\ UNCHANGED <<vm, capacity, rm, released>>

(* migrate and live_migrate fail, and change nothing, in any other state.  *)
migrate(op) == IF is("ACTIVE", "RUNNING") THEN trigger("LCM", <<op>>)
                                          ELSE UNCHANGED queue

(* cancel, the detaches and the snapshots trigger after they unlock.       *)
cancel ==
  /\ Request("CANCEL") /\ is("ACTIVE", "RUNNING")
  /\ later("CANCEL")
  /\ UNCHANGED <<vm, capacity, queue, released>>

hotplug(op, lcm) ==
  /\ Request(op) /\ is("ACTIVE", "RUNNING")
  /\ vm' = [vm EXCEPT !.lcm = lcm]
  /\ later(op)
  /\ UNCHANGED <<capacity, queue, released>>

attach      == hotplug("ATTACH", "HOTPLUG")
detach      == hotplug("DETACH", "HOTPLUG")
attach_nic  == hotplug("ATTACH_NIC", "HOTPLUG_NIC")
detach_nic  == hotplug("DETACH_NIC", "HOTPLUG_NIC")
snapshot    == hotplug("SNAPSHOT", "HOTPLUG_SNAPSHOT")

(* The second half of an attach: the image (or the lease) has been acquired *)
(* without the lock.  The VM's state is not looked at again; when the disk  *)
(* or NIC could not be set up it is made RUNNING.                           *)
attach_failed ==
  \E r \in rm :
    /\ r.step \in {"ATTACH", "ATTACH_NIC"}
    /\ ~locked
    /\ vm' = [vm EXCEPT !.lcm = "RUNNING"]
    /\ rm' = rm \ {r}
    /\ UNCHANGED <<capacity, queue, released>>

TriggerOf(s) == IF s = "CANCEL" THEN "LCM" ELSE "VMM"

(* The trigger that follows an unlock.                                     *)
late_trigger ==
  \E r \in rm :
    /\ r.step \in {"ATTACH", "ATTACH_NIC", "DETACH", "DETACH_NIC", "SNAPSHOT", "CANCEL"}
    /\ r.step \in {"ATTACH", "ATTACH_NIC"} => ~locked
    /\ trigger(TriggerOf(r.step), <<r.step>>)
    /\ rm' = rm \ {r}
    /\ UNCHANGED <<vm, capacity, released>>

reboot ==
  /\ Request("REBOOT") /\ is("ACTIVE", "RUNNING")
  /\ trigger("VMM", <<"REBOOT">>)
  /\ UNCHANGED <<vm, capacity, rm, released>>

restart ==
  /\ Request("RESTART") /\ vm.state = "ACTIVE"
  /\ vm.lcm \in BootStates \cup {"UNKNOWN"}
  /\ trigger("LCM", <<"RESTART">>)
  /\ UNCHANGED <<vm, capacity, rm, released>>

-----------------------------------------------------------------------------
(* Requests for a VM that is not running *)

hold_release(op, from, to) ==
  /\ Request(op) /\ vm.state = from
  /\ vm' = [vm EXCEPT !.state = to]
  /\ UNCHANGED <<capacity, queue, rm, released>>

hold    == hold_release("HOLD", "PENDING", "HOLD")
release == hold_release("RELEASE", "HOLD", "PENDING")

resume ==
  /\ Request("RESUME")
  /\ \/ /\ vm.state \in {"STOPPED", "UNDEPLOYED"}
        /\ vm' = [vm EXCEPT !.state = "PENDING"]
        /\ UNCHANGED queue
     \/ /\ vm.state = "SUSPENDED"
        /\ trigger("LCM", <<"RESTORE">>)
        /\ UNCHANGED vm
     \/ /\ vm.state = "POWEROFF"
        /\ trigger("LCM", <<"RESTART">>)
        /\ UNCHANGED vm
  /\ UNCHANGED <<capacity, rm, released>>

-----------------------------------------------------------------------------
(* Deletion and resubmission *)

(* finalize_cleanup and done_action: the end of the VM.                    *)
finished(v) == [v EXCEPT !.lcm = "LCM_INIT", !.state = "DONE"]

release_resources == released' = released + 1

finalize_keeps_share ==                       \* mutant
  /\ Request("DELETE")
  /\ \/ /\ vm.state # "ACTIVE" /\ vm.state # "DONE"
        /\ trigger("TM", <<"EPILOG_DELETE">>)
        /\ vm' = finished(vm)
        /\ release_resources
     \/ /\ vm.state = "ACTIVE"
        /\ trigger("LCM", <<"DELETE">>)
        /\ UNCHANGED <<vm, released>>
  /\ UNCHANGED <<capacity, rm>>

finalize_releases_active ==                   \* mutant
  /\ Request("DELETE") /\ vm.state # "DONE"
  /\ IF vm.state = "ACTIVE" THEN trigger("LCM", <<"DELETE">>) /\ UNCHANGED vm
                            ELSE vm' = finished(vm) /\ UNCHANGED queue
  /\ release_resources
  /\ UNCHANGED <<capacity, rm>>

finalize ==
  /\ Request("DELETE")
  /\ \/ /\ vm.state \in {"SUSPENDED", "POWEROFF", "FAILED", "STOPPED", "UNDEPLOYED"}
        /\ IF vm.state \in {"SUSPENDED", "POWEROFF"} THEN del_capacity(vm.hist.hid)
                                                     ELSE UNCHANGED capacity
        /\ trigger("TM", <<IF vm.state \in {"STOPPED", "UNDEPLOYED"}
                             THEN "EPILOG_DELETE_STOP" ELSE "EPILOG_DELETE">>)
        /\ vm' = finished(vm)
        /\ release_resources
     \/ /\ vm.state \in {"INIT", "PENDING", "HOLD"}
        /\ vm' = finished(vm)
        /\ release_resources
        /\ UNCHANGED <<capacity, queue>>
     \/ /\ vm.state = "ACTIVE"
        /\ trigger("LCM", <<"DELETE">>)
        /\ UNCHANGED <<vm, capacity, released>>
  /\ UNCHANGED rm

resubmit ==
  /\ Request("RESUBMIT")
  /\ \/ /\ vm.state = "FAILED"
        /\ vm' = [vm EXCEPT !.state = "ACTIVE", !.lcm = "CLEANUP_RESUBMIT"]
        /\ trigger("TM", <<"EPILOG_DELETE">>)
     \/ /\ vm.state \in {"HOLD", "STOPPED", "UNDEPLOYED"}
        /\ vm' = [vm EXCEPT !.state = "PENDING", !.lcm = "LCM_INIT"]
        /\ UNCHANGED queue
     \/ /\ vm.state = "ACTIVE"
        /\ trigger("LCM", <<"CLEAN">>)
        /\ UNCHANGED vm
  /\ UNCHANGED <<capacity, rm, released>>

-----------------------------------------------------------------------------
(* The DM thread: results reported by the LCM *)

Dm(a) == Receive("DM", a)

Results == {"SUSPEND_SUCCESS", "STOP_SUCCESS", "UNDEPLOY_SUCCESS",
            "POWEROFF_SUCCESS", "DONE", "FAILED", "RESUBMIT"}

ReportedIn_epilog_only(a) ==                  \* mutant
  CASE a = "SUSPEND_SUCCESS"  -> {"SAVE_SUSPEND"}
    [] a = "STOP_SUCCESS"     -> {"EPILOG_STOP"}
    [] a = "UNDEPLOY_SUCCESS" -> {"EPILOG_UNDEPLOY"}
    [] a = "POWEROFF_SUCCESS" -> {"SHUTDOWN_POWEROFF"}
    [] a = "DONE"             -> {"EPILOG", "CANCEL", "CLEANUP_DELETE"}
    [] a = "FAILED"           -> {"FAILURE"}
    [] a = "RESUBMIT"         -> {"CLEANUP_RESUBMIT"}

(* The LCM states in which a result is accepted, and the VM state it sets. *)
ReportedIn(a) ==
  CASE a = "SUSPEND_SUCCESS"  -> {"SAVE_SUSPEND"}
    [] a = "STOP_SUCCESS"     -> {"EPILOG_STOP", "PROLOG_RESUME"}
    [] a = "UNDEPLOY_SUCCESS" -> {"EPILOG_UNDEPLOY", "PROLOG_UNDEPLOY"}
    [] a = "POWEROFF_SUCCESS" -> {"SHUTDOWN_POWEROFF"}
    [] a = "DONE"             -> {"EPILOG", "CANCEL", "CLEANUP_DELETE"}
    [] a = "FAILED"           -> {"FAILURE"}
    [] a = "RESUBMIT"         -> {"CLEANUP_RESUBMIT"}

StateAfter(a) ==
  CASE a = "SUSPEND_SUCCESS"  -> "SUSPENDED"
    [] a = "STOP_SUCCESS"     -> "STOPPED"
    [] a = "UNDEPLOY_SUCCESS" -> "UNDEPLOYED"
    [] a = "POWEROFF_SUCCESS" -> "POWEROFF"
    [] a = "DONE"             -> "DONE"
    [] a = "FAILED"           -> "FAILED"
    [] a = "RESUBMIT"         -> "PENDING"

Accepted_any_resubmit(a) ==                   \* mutant
  a = "RESUBMIT" \/ (vm.lcm \in ReportedIn(a) /\ (a = "FAILED" \/ vm.state = "ACTIVE"))

(* failed_action and resubmit_action look at the LCM state alone.          *)
Accepted(a) == /\ vm.lcm \in ReportedIn(a)
               /\ a \in {"FAILED", "RESUBMIT"} \/ vm.state = "ACTIVE"

result_action ==
  \E a \in Results :
    /\ Dm(a) /\ Accepted(a)
    /\ vm' = [vm EXCEPT !.state = StateAfter(a), !.lcm = "LCM_INIT"]
    /\ released' = IF a = "DONE" THEN released + 1 ELSE released
    /\ Handled("DM")
    /\ UNCHANGED <<capacity, locked>>

(* In a wrong state every callback logs and unlocks, but failed_action and *)
(* resubmit_action unlock only on the other branch.                        *)
LeavesLocked(a) == a \in {"FAILED", "RESUBMIT"}

wrong_state_DM ==
  \E a \in Results :
    /\ Dm(a) /\ ~Accepted(a)
    /\ locked' = LeavesLocked(a)
    /\ Handled("DM")
    /\ UNCHANGED <<vm, capacity, released>>

DmRequest ==
  /\ \/ \E op \in RunningOps : dm_running(op)
     \/ cancel \/ attach \/ detach \/ attach_nic \/ detach_nic \/ snapshot
     \/ attach_failed \/ late_trigger
     \/ reboot \/ restart \/ hold \/ release \/ resume \/ finalize \/ resubmit
  /\ UNCHANGED <<driver, locked>>

DmResult == /\ result_action \/ wrong_state_DM
            /\ UNCHANGED <<driver, rm>>
=============================================================================
