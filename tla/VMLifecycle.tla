----------------------------- MODULE VMLifecycle -----------------------------
(***************************************************************************)
(* The life of one virtual machine: users' requests (XML-RPC threads), the *)
(* DM, LCM, TM and VMM threads, and the driver processes, all acting on    *)
(* the VM of VMCore in any order its lock and the queues allow.            *)
(***************************************************************************)
EXTENDS RequestManager, LifeCycleManager, VirtualMachineManager, TransferManager

CONSTANT DriversDie      \* whether driver processes may crash

Init ==
  /\ \E s \in {"PENDING", "HOLD"} :
       vm = [state |-> s, lcm |-> "LCM_INIT", hist |-> NoHistory, prev |-> NoHistory]
  /\ capacity = {}
  /\ queue = [m \in Managers |-> <<>>]
  /\ driver = [d \in Drivers |-> <<>>]
  /\ rm = {}
  /\ locked = FALSE
  /\ released = 0

VmmStep == (VmmCommand \/ vmm_error \/ VmmAnswer \/ vmm_timer) /\ VmmFrame
TmStep  == (TmCommand \/ tm_error \/ tm_answer) /\ TmFrame

DriverLost == /\ DriversDie
              /\ \/ vmm_driver_lost /\ VmmFrame
                 \/ tm_driver_lost /\ TmFrame

Next == RmNext \/ DmRequest \/ DmResult \/ LcmNext \/ VmmStep \/ TmStep \/ DriverLost

(* Every thread goes on, drivers answer, and a request that is being       *)
(* served is served to its end; users and timers need not do anything.     *)
Fairness ==
  /\ WF_vars(DmResult)
  /\ WF_vars(LcmNext)
  /\ WF_vars(VmmCommand /\ VmmFrame)
  /\ WF_vars(VmmAnswer /\ VmmFrame)
  /\ WF_vars(TmCommand /\ TmFrame)
  /\ WF_vars(tm_answer /\ TmFrame)
  /\ WF_vars((rm_deploy_locked \/ rm_migrate_locked \/ rm_savedisk_undone
                \/ late_trigger) /\ UNCHANGED <<driver, locked, released>>)

Spec     == Init /\ [][Next]_vars
FairSpec == Spec /\ Fairness

-----------------------------------------------------------------------------
(* Every variable keeps its type: each manager finds in its queue only     *)
(* actions it has a handler for, each driver only its own commands, and a  *)
(* request that comes back to add a record or a share has a host for it.   *)
AnyAction  == Results \cup LcmActions \cup TmActions \cup VmmActions
AnyCommand == Scripts \cup Commands

QueuesOK(q)  == /\ q \in [Managers -> Seq(AnyAction)]
                /\ q["DM"]  \in Seq(Results)
                /\ q["LCM"] \in Seq(LcmActions)
                /\ q["TM"]  \in Seq(TmActions)
                /\ q["VMM"] \in Seq(VmmActions)
DriversOK(d) == /\ d \in [Drivers -> Seq(AnyCommand)]
                /\ d["TM"]  \in Seq(Scripts)
                /\ d["VMM"] \in Seq(Commands)

HostSteps == {"DEPLOY", "MIGRATE", "LIVE_MIGRATE"}
RmType    == [step : HostSteps, hid : Hosts] \cup [step : RmSteps \ HostSteps, hid : {NoHost}]

TypeOK ==
  /\ vm \in VirtualMachine
  /\ capacity \subseteq Hosts
  /\ QueuesOK(queue)
  /\ DriversOK(driver)
  /\ rm \subseteq RmType
  /\ locked \in BOOLEAN
  /\ released \in Nat

-----------------------------------------------------------------------------
(* Safety *)

(* A VM without a history record was never given a host: it waits or it    *)
(* was deleted while it waited, and no answer, result or second half of a  *)
(* request can put it in a state whose handlers use the record.            *)
Unplaced == vm.hist.hid = NoHost
AttachSteps == {"ATTACH", "ATTACH_NIC"}
UnplacedWaits ==
  Unplaced => /\ vm.state \in {"PENDING", "HOLD", "DONE"}
              /\ vm.lcm = "LCM_INIT"
              /\ \A r \in rm : r.step \notin AttachSteps

(* The LCM state means something only while the DM state is ACTIVE: each   *)
(* handler checks one of the two alone (failed_action and resubmit_action  *)
(* the LCM state, delete_action and clean_action the DM state), and that   *)
(* is right only because the other follows from it.                        *)
StatesAgree == vm.state # "ACTIVE" => vm.lcm = "LCM_INIT"

(* Before a VM can be deployed again, or never will be, every share it     *)
(* took has been given back: del_capacity comes before the report to the   *)
(* DM in every handler, or else the VM would hold two hosts.               *)
HostsFreed ==
  vm.state \in {"PENDING", "HOLD", "FAILED", "STOPPED", "UNDEPLOYED", "DONE"}
    => capacity = {}

(* When nothing is pending, the VM counts in the share of the host it is   *)
(* on while it is ACTIVE, SUSPENDED or POWEROFF and in none otherwise (the *)
(* rule by which onedb fsck recomputes the shares): whatever the way the   *)
(* handlers of the DM and the LCM took, the adds and deletes match.        *)
OnAHost        == vm.state \in {"ACTIVE", "SUSPENDED", "POWEROFF"}
HostAccounting ==
  /\ HostsFreed
  /\ Pending = 0 => capacity = IF OnAHost THEN {vm.hist.hid} ELSE {}

(* A VM that is RUNNING, and that no migration is about to take away,      *)
(* counts in the share of the host in its current record and in no other:  *)
(* an answer that took it back to RUNNING has also settled its hosts.      *)
LeavingHost == \/ \E i \in 1..Len(queue["LCM"]) :
                    queue["LCM"][i] \in {"MIGRATE", "LIVE_MIGRATE"}
               \/ \E r \in rm : r.step \in {"MIGRATE", "LIVE_MIGRATE"}
RunsOnItsHost == is("ACTIVE", "RUNNING") /\ ~LeavingHost => capacity = {vm.hist.hid}

(* No transient state is left with nobody working for it: as long as the   *)
(* drivers answer, each handler that enters such a state has triggered a   *)
(* manager, and no answer to it has been dropped in the meantime.          *)
Settled    == vm.lcm \in {"LCM_INIT", "RUNNING", "UNKNOWN"} /\ ~is("ACTIVE", "LCM_INIT")
NeverStuck == Pending = 0 /\ ~locked => Settled

(* When drivers die with the commands they were executing, a VM may stay   *)
(* in a transient state, but in each of these recover has something to do. *)
CanRecover ==
  Pending = 0 /\ ~locked /\ ~Settled =>
    \/ RecoverEvent(TRUE) # <<>>
    \/ vm.lcm \in {"FAILURE", "CLEANUP_DELETE", "CLEANUP_RESUBMIT"}

(* No thread leaves a callback with the VM mutex locked.  VirtualMachine-  *)
(* Pool::get waits for it inside the pool lock, so all VMs would freeze.   *)
NeverLeftLocked == ~locked

(* The images and network leases of a VM, and its quotas, are given back   *)
(* once, when it becomes DONE, though both the request (finalize_cleanup)  *)
(* and the LCM's report (done_action) may do so.                           *)
ReleasedOnce == released = IF vm.state = "DONE" THEN 1 ELSE 0

-----------------------------------------------------------------------------
(* Action properties *)

(* A VM that is DONE stays so: no answer, no request and no second half of *)
(* a request changes the state of a VM whose resources are given back.     *)
DoneIsFinal == [][vm.state = "DONE" => vm'.state = "DONE"]_vars

(* The VM moves along the arrows of the documented state diagram.  The     *)
(* diagram has one state for a VM from the deploy request on until the LCM *)
(* takes it, and none for the cleanup on the way to PENDING or to DONE.    *)
Shown == IF vm.state = "FAILED" THEN "FAILURE"
         ELSE IF vm.state # "ACTIVE" THEN vm.state
         ELSE IF vm.lcm \in {"LCM_INIT", "CLEANUP_RESUBMIT"} THEN "PENDING"
         ELSE IF vm.lcm = "CLEANUP_DELETE" THEN "DONE"
         ELSE vm.lcm
Diagram == INSTANCE VMStateDiagram WITH shown <- Shown
FollowsDiagram == Diagram!Spec

-----------------------------------------------------------------------------
(* Liveness *)

(* Every operation ends: a VM does not stay for ever in a transient state  *)
(* while the managers go on and the drivers answer; and a delete that was  *)
(* accepted, by finalize for an active VM, ends its life.                  *)
DeleteRequested == \E i \in 1..Len(queue["LCM"]) : queue["LCM"][i] = "DELETE"
OperationsEnd   == []<>Settled /\ (DeleteRequested ~> (vm.state = "DONE"))

(* A VM that is being cleaned to be resubmitted does not stay in that      *)
(* state: somebody was asked to clean its host, or the DM to take it back. *)
(* (A frozen pool, which NeverLeftLocked is about, ends everything.)       *)
CleanupEnds ==
  (vm.lcm = "CLEANUP_RESUBMIT") ~> (vm.lcm # "CLEANUP_RESUBMIT" \/ locked)
=============================================================================
