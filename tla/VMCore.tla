------------------------------- MODULE VMCore -------------------------------
(***************************************************************************)
(* The state every manager of the OpenNebula core (oned) shares about one  *)
(* virtual machine: the VirtualMachine object with its two history         *)
(* pointers, the hosts whose share counts it, the action queue of each     *)
(* manager thread, the commands the drivers are executing, the requests of *)
(* XML-RPC threads that have released the object and will come back to it, *)
(* and whether the object's mutex was left locked.  The managers are the   *)
(* modules that extend this one.                                           *)
(***************************************************************************)
EXTENDS SequencesExt

CONSTANTS Hosts,      \* the hosts of the host pool
          NoHost,     \* the hid of a VM without history (-1 in the code)
          MaxPending, \* users and timers act while less than this is pending
          Requests    \* the kinds of requests that users make

ASSUME HostsAssumption == Hosts # {} /\ NoHost \notin Hosts
ASSUME BoundsAssumption == MaxPending \in Nat

VARIABLES vm,         \* [state, lcm, hist, prev]
          capacity,   \* the hosts whose vm_collection holds the VM
          queue,      \* one FIFO of pending actions per manager
          driver,     \* commands in execution at the TM and VMM drivers
          rm,         \* XML-RPC threads between two locked sections
          locked,     \* the VM mutex was left locked by a thread that went on
          released    \* times the images and leases of the VM were released

vars == <<vm, capacity, queue, driver, rm, locked, released>>

-----------------------------------------------------------------------------
(* VirtualMachine::VmState and VirtualMachine::LcmState *)

VmState == {"INIT", "PENDING", "HOLD", "ACTIVE", "STOPPED", "SUSPENDED",
            "DONE", "FAILED", "POWEROFF", "UNDEPLOYED"}

PrologStates  == {"PROLOG", "PROLOG_MIGRATE", "PROLOG_RESUME", "PROLOG_UNDEPLOY"}
BootStates    == {"BOOT", "BOOT_UNKNOWN", "BOOT_POWEROFF", "BOOT_SUSPENDED",
                  "BOOT_STOPPED", "BOOT_UNDEPLOY"}
SaveStates    == {"SAVE_STOP", "SAVE_SUSPEND", "SAVE_MIGRATE"}
EpilogStates  == {"EPILOG", "EPILOG_STOP", "EPILOG_UNDEPLOY"}
ShutdownStates == {"SHUTDOWN", "SHUTDOWN_POWEROFF", "SHUTDOWN_UNDEPLOY"}
SaveasStates  == {"HOTPLUG_SAVEAS", "HOTPLUG_SAVEAS_POWEROFF",
                  "HOTPLUG_SAVEAS_SUSPENDED"}
HotplugStates == {"HOTPLUG", "HOTPLUG_NIC", "HOTPLUG_SNAPSHOT"}
CleanupStates == {"CLEANUP_RESUBMIT", "CLEANUP_DELETE"}

LcmState == {"LCM_INIT", "RUNNING", "UNKNOWN", "MIGRATE", "CANCEL", "FAILURE"}
              \cup PrologStates \cup BootStates \cup SaveStates
              \cup EpilogStates \cup ShutdownStates \cup SaveasStates
              \cup HotplugStates \cup CleanupStates

(* History: the host, the last action on the record and why it ended.      *)
(* Only STOP and UNDEPLOY are ever read back, the rest is "OTHER".         *)
HistoryAction == {"NONE", "STOP", "UNDEPLOY", "OTHER"}
EndReason     == {"NONE", "ERROR", "USER"}
History       == [hid : Hosts \cup {NoHost}, action : HistoryAction,
                  reason : EndReason]

NewRecord(h) == [hid |-> h, action |-> "NONE", reason |-> "NONE"]
NoHistory    == NewRecord(NoHost)

VirtualMachine == [state : VmState, lcm : LcmState, hist : History, prev : History]

hasHistory         == vm.hist.hid # NoHost
hasPreviousHistory == vm.prev.hid # NoHost

is(s, l) == vm.state = s /\ vm.lcm = l

(* A new record becomes the current one and the current the previous one.  *)
add_history(v, h) ==
  IF v.hist.hid = NoHost THEN [v EXCEPT !.hist = NewRecord(h)]
                         ELSE [v EXCEPT !.hist = NewRecord(h), !.prev = v.hist]

cp_history(v) ==
  IF v.hist.hid = NoHost THEN v ELSE add_history(v, v.hist.hid)

cp_previous_history(v) ==
  IF v.hist.hid = NoHost \/ v.prev.hid = NoHost THEN v
                                                ELSE add_history(v, v.prev.hid)

clear_saveas_state_keeps_lcm(v) ==            \* mutant
  CASE v.lcm = "HOTPLUG_SAVEAS_POWEROFF"  -> [v EXCEPT !.state = "POWEROFF"]
    [] v.lcm = "HOTPLUG_SAVEAS_SUSPENDED" -> [v EXCEPT !.state = "SUSPENDED"]
    [] OTHER -> [v EXCEPT !.lcm = "RUNNING"]

(* VirtualMachine::set_saveas_state has put the VM in one of SaveasStates, *)
(* clear_saveas_state takes it back to where it was.                       *)
clear_saveas_state(v) ==
  CASE v.lcm = "HOTPLUG_SAVEAS" -> [v EXCEPT !.lcm = "RUNNING"]
    [] v.lcm = "HOTPLUG_SAVEAS_POWEROFF" ->
         [v EXCEPT !.state = "POWEROFF", !.lcm = "LCM_INIT"]
    [] v.lcm = "HOTPLUG_SAVEAS_SUSPENDED" ->
         [v EXCEPT !.state = "SUSPENDED", !.lcm = "LCM_INIT"]
    [] OTHER -> v

-----------------------------------------------------------------------------
(* Host::add_capacity and Host::del_capacity count a VM at most once.      *)
add_capacity(h) == capacity' = capacity \cup {h}
del_capacity(h) == capacity' = capacity \ {h}

-----------------------------------------------------------------------------
(* ActionManager: trigger appends to a manager's queue, its loop takes the *)
(* head.  A manager that blocks on the VM mutex takes nothing any more.    *)
Managers == {"DM", "LCM", "TM", "VMM"}
Drivers  == {"TM", "VMM"}

Push(q, m, acts) == [q EXCEPT ![m] = @ \o acts]
Pop(q, m)        == [q EXCEPT ![m] = Tail(@)]

trigger(m, acts) == queue' = Push(queue, m, acts)

Receive(m, a) == ~locked /\ queue[m] # <<>> /\ Head(queue[m]) = a

(* The manager m has handled the head of its queue, and triggered acts.    *)
Handled(m)               == queue' = Pop(queue, m)
HandledTo(m, to, acts)   == queue' = Push(Pop(queue, m), to, acts)

(* DRIVER_CANCEL kills the command that started last for this VM, unless   *)
(* its answer is already on the way (ActionManager.rb, cancel_action).     *)
Cancelled(cmds) == {cmds} \cup (IF cmds = <<>> THEN {} ELSE {Front(cmds)})

(* Commands for the same VM run in threads of their own, so that any of    *)
(* them may be the next to answer.                                         *)
Answer(d, i) == driver' = [driver EXCEPT ![d] = RemoveAt(@, i)]
Issue(d, cmd) == driver' = [driver EXCEPT ![d] = Append(@, cmd)]

(* All the work that is still to be done for the VM.                       *)
Pending == Len(queue["DM"]) + Len(queue["LCM"]) + Len(queue["TM"])
             + Len(queue["VMM"]) + Len(driver["TM"]) + Len(driver["VMM"])
             + Cardinality(rm)
=============================================================================
