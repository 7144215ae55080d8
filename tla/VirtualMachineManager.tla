------------------------ MODULE VirtualMachineManager ------------------------
(***************************************************************************)
(* The VMM thread turns the actions it is given into commands for the      *)
(* hypervisor driver; the driver's answers are handled by the thread that  *)
(* reads the drivers' pipes, which triggers the LCM.                       *)
(***************************************************************************)
EXTENDS VMCore

Commands == {"DEPLOY", "SAVE", "SHUTDOWN", "CANCEL", "MIGRATE", "RESTORE",
             "REBOOT", "POLL", "CLEANUP", "CLEANUP_BOTH", "CLEANUP_PREVIOUS",
             "ATTACH", "DETACH", "ATTACH_NIC", "DETACH_NIC", "SNAPSHOT"}

VmmActions == Commands \cup {"DRIVER_CANCEL"}

Success == "SUCCESS"
Failure == "FAILURE"
Outcomes == {Success, Failure}

(* The LCM actions that tell the outcome of a command.                     *)
Result(cmd, outcome) ==
  CASE cmd \in {"DEPLOY", "RESTORE", "MIGRATE"} ->
         <<IF outcome = Success THEN "DEPLOY_SUCCESS" ELSE "DEPLOY_FAILURE">>
    [] cmd = "SAVE" -> <<IF outcome = Success THEN "SAVE_SUCCESS" ELSE "SAVE_FAILURE">>
    [] cmd = "SHUTDOWN" ->
         <<IF outcome = Success THEN "SHUTDOWN_SUCCESS" ELSE "SHUTDOWN_FAILURE">>
    [] cmd = "CANCEL" ->
         <<IF outcome = Success THEN "CANCEL_SUCCESS" ELSE "CANCEL_FAILURE">>
    [] cmd \in {"CLEANUP", "CLEANUP_BOTH", "CLEANUP_PREVIOUS"} -> <<"CLEANUP_DONE">>
    [] cmd \in {"ATTACH", "DETACH"} -> <<"ATTACH_DONE">>
    [] cmd \in {"ATTACH_NIC", "DETACH_NIC"} -> <<"ATTACH_NIC_DONE">>
    [] cmd = "SNAPSHOT" -> <<"SNAPSHOT_DONE">>
    [] OTHER -> <<>>

-----------------------------------------------------------------------------
(* The action of the head of the queue is sent to the driver.              *)
vmm_command ==
  \E cmd \in Commands :
    /\ Receive("VMM", cmd)
    /\ Issue("VMM", cmd)
    /\ Handled("VMM")
    /\ UNCHANGED vm

(* The VM has no history, or the driver or a file is not there.            *)
vmm_error ==
  \E cmd \in Commands :
    /\ Receive("VMM", cmd)
    /\ HandledTo("VMM", "LCM", Result(cmd, Failure))
    /\ UNCHANGED <<vm, driver>>

vmm_driver_cancel ==
  /\ Receive("VMM", "DRIVER_CANCEL")
  /\ \E left \in Cancelled(driver["VMM"]) :
       driver' = [driver EXCEPT !["VMM"] = left]
  /\ Handled("VMM")
  /\ UNCHANGED vm

-----------------------------------------------------------------------------
(* Answers: those that find the VM in FAILURE or LCM_INIT are ignored.     *)
Ignored == vm.lcm \in {"FAILURE", "LCM_INIT"}

vmm_answered(i, outcome) ==
  /\ ~locked
  /\ driver["VMM"][i] # "POLL"
  /\ Answer("VMM", i)
  /\ IF Ignored THEN UNCHANGED queue
                ELSE trigger("LCM", Result(driver["VMM"][i], outcome))
  /\ UNCHANGED vm

vmm_answer ==
  \E i \in 1..Len(driver["VMM"]), outcome \in Outcomes : vmm_answered(i, outcome)

(* process_poll: what the hypervisor says of the VM counts only while it   *)
(* is RUNNING or UNKNOWN; a poll that failed counts in any state.          *)
PollAnswer ==
  \/ /\ vm.lcm = "UNKNOWN"
     /\ vm' = [vm EXCEPT !.lcm = "RUNNING"]
     /\ UNCHANGED queue
  \/ /\ vm.lcm \in {"RUNNING", "UNKNOWN"}
     /\ \E e \in {"MONITOR_SUSPEND", "MONITOR_FAILURE"} : trigger("LCM", <<e>>)
     /\ UNCHANGED vm
  \/ trigger("LCM", <<"MONITOR_DONE">>) /\ UNCHANGED vm
  \/ UNCHANGED <<vm, queue>>

vmm_poll_answered(i) ==
  /\ ~locked
  /\ driver["VMM"][i] = "POLL"
  /\ Answer("VMM", i)
  /\ IF Ignored THEN UNCHANGED <<vm, queue>> ELSE PollAnswer

vmm_poll_answer == \E i \in 1..Len(driver["VMM"]) : vmm_poll_answered(i)

(* timer_action: the active VMs that run, or should, are polled.           *)
vmm_timer ==
  /\ Pending < MaxPending /\ ~locked
  /\ vm.state = "ACTIVE" /\ vm.lcm \in {"RUNNING", "UNKNOWN"}
  /\ Issue("VMM", "POLL")
  /\ UNCHANGED <<vm, queue>>

(* The driver process died and is started again: its commands are lost.    *)
vmm_driver_lost ==
  /\ driver["VMM"] # <<>>
  /\ driver' = [driver EXCEPT !["VMM"] = <<>>]
  /\ UNCHANGED <<vm, queue>>

VmmAnswer  == vmm_answer \/ vmm_poll_answer
VmmCommand == vmm_command \/ vmm_driver_cancel

VmmFrame == UNCHANGED <<capacity, rm, locked, released>>
=============================================================================
