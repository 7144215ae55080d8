-------------------------- MODULE VMLifecycleProofs --------------------------
(***************************************************************************)
(* What holds of VMLifecycle whatever the hosts, the requests and the      *)
(* bound on pending work.  The type invariant is not inductive: a handler  *)
(* that adds the VM to the share of the host in its record needs a record, *)
(* and it is only the VM's state that tells it has one.  IInv therefore    *)
(* carries UnplacedWaits along.                                            *)
(***************************************************************************)
EXTENDS VMLifecycle, FiniteSetTheorems, TLAPS

IInv == TypeOK /\ UnplacedWaits

-----------------------------------------------------------------------------
(* Queues of actions and of commands *)

(* A sequence over a set is one over any larger set.                       *)
LEMMA SeqMono == ASSUME NEW S, NEW T, S \subseteq T, NEW s \in Seq(S)
                 PROVE  s \in Seq(T)
OBVIOUS

(* Taking the head of a manager's queue keeps the queues' types.           *)
LEMMA PopOK ==
  ASSUME NEW q, QueuesOK(q), NEW m \in Managers, q[m] # <<>>
  PROVE  QueuesOK(Pop(q, m))
<1>1. q[m] \in Seq(AnyAction) BY DEF QueuesOK
<1>2. Tail(q[m]) \in Seq(AnyAction) BY <1>1
<1>3. Pop(q, m) \in [Managers -> Seq(AnyAction)] BY <1>2 DEF QueuesOK, Pop
<1>4. \A n \in Managers : Pop(q, m)[n] = IF n = m THEN Tail(q[m]) ELSE q[n]
  BY DEF QueuesOK, Pop
<1>5. ASSUME NEW S, q[m] \in Seq(S) PROVE Tail(q[m]) \in Seq(S) BY <1>5
<1>6. QED BY <1>3, <1>4, <1>5 DEF QueuesOK, Managers

(* So does appending actions that the receiving manager has handlers for.  *)
LEMMA PushOK ==
  ASSUME NEW q, QueuesOK(q), NEW m \in Managers, NEW acts,
         \/ m = "DM"  /\ acts \in Seq(Results)
         \/ m = "LCM" /\ acts \in Seq(LcmActions)
         \/ m = "TM"  /\ acts \in Seq(TmActions)
         \/ m = "VMM" /\ acts \in Seq(VmmActions)
  PROVE  QueuesOK(Push(q, m, acts))
<1>1. acts \in Seq(AnyAction) BY SeqMono DEF AnyAction
<1>2. q[m] \o acts \in Seq(AnyAction) BY <1>1 DEF QueuesOK
<1>3. Push(q, m, acts) \in [Managers -> Seq(AnyAction)] BY <1>2 DEF QueuesOK, Push
<1>4. \A n \in Managers : Push(q, m, acts)[n] = IF n = m THEN q[m] \o acts ELSE q[n]
  BY DEF QueuesOK, Push
<1>5. ASSUME NEW S, NEW s \in Seq(S), acts \in Seq(S) PROVE s \o acts \in Seq(S)
  BY <1>5
<1>6. CASE m = "DM"  BY <1>3, <1>4, <1>5, <1>6 DEF QueuesOK, Managers
<1>7. CASE m = "LCM" BY <1>3, <1>4, <1>5, <1>7 DEF QueuesOK, Managers
<1>8. CASE m = "TM"  BY <1>3, <1>4, <1>5, <1>8 DEF QueuesOK, Managers
<1>9. CASE m = "VMM" BY <1>3, <1>4, <1>5, <1>9 DEF QueuesOK, Managers
<1>10. QED BY <1>6, <1>7, <1>8, <1>9

(* A manager that handles the head of its queue, and triggers acts of      *)
(* manager to, keeps the queues' types.                                    *)
LEMMA HandledOK ==
  ASSUME QueuesOK(queue), NEW m \in Managers, NEW a, Receive(m, a)
  PROVE  /\ QueuesOK(Pop(queue, m))
         /\ Handled(m) => QueuesOK(queue')
BY PopOK DEF Receive, Handled

(* So does a manager that handles its head and triggers one action that    *)
(* the receiving manager has a handler for.                                *)
LEMMA HandledToOK ==
  ASSUME QueuesOK(queue), NEW m \in Managers, NEW a, Receive(m, a), NEW x
  PROVE  /\ x \in Results    /\ HandledTo(m, "DM", <<x>>)  => QueuesOK(queue')
         /\ x \in LcmActions /\ HandledTo(m, "LCM", <<x>>) => QueuesOK(queue')
         /\ x \in TmActions  /\ HandledTo(m, "TM", <<x>>)  => QueuesOK(queue')
         /\ x \in VmmActions /\ HandledTo(m, "VMM", <<x>>) => QueuesOK(queue')
<1>1. QueuesOK(Pop(queue, m)) BY HandledOK
<1>2. ASSUME NEW S, x \in S PROVE <<x>> \in Seq(S) BY <1>2
<1>3. {"DM", "LCM", "TM", "VMM"} \subseteq Managers BY DEF Managers
<1>4. QED BY <1>1, <1>2, <1>3, PushOK DEF HandledTo

(* And so does a trigger from outside the managers.                        *)
LEMMA TriggerOK ==
  ASSUME QueuesOK(queue)
  PROVE  /\ \A x \in Results    : trigger("DM", <<x>>)  => QueuesOK(queue')
         /\ \A x \in LcmActions : trigger("LCM", <<x>>) => QueuesOK(queue')
         /\ \A x \in TmActions  : trigger("TM", <<x>>)  => QueuesOK(queue')
         /\ \A x \in VmmActions : trigger("VMM", <<x>>) => QueuesOK(queue')
         /\ \A m \in Managers : trigger(m, <<>>) => QueuesOK(queue')
         /\ \A s \in Seq(LcmActions) : trigger("LCM", s) => QueuesOK(queue')
<1>1. \A S : \A x \in S : <<x>> \in Seq(S) OBVIOUS
<1>2. {"DM", "LCM", "TM", "VMM"} = Managers BY DEF Managers
<1>3. \A S : <<>> \in Seq(S) OBVIOUS
<1>4. QED BY <1>1, <1>2, <1>3, PushOK DEF trigger

(* A command is handed to a driver, answered, killed or lost: the driver   *)
(* is left with commands of its own.                                       *)
LEMMA DriverOK ==
  ASSUME DriversOK(driver), NEW d \in Drivers, NEW cmds,
         \/ d = "TM"  /\ cmds \in Seq(Scripts)
         \/ d = "VMM" /\ cmds \in Seq(Commands)
  PROVE  DriversOK([driver EXCEPT ![d] = cmds])
<1>1. cmds \in Seq(AnyCommand) BY SeqMono DEF AnyCommand
<1>2. [driver EXCEPT ![d] = cmds] \in [Drivers -> Seq(AnyCommand)]
  BY <1>1 DEF DriversOK
<1>3. \A n \in Drivers : [driver EXCEPT ![d] = cmds][n] = IF n = d THEN cmds ELSE driver[n]
  BY DEF DriversOK
<1>4. QED BY <1>2, <1>3 DEF DriversOK, Drivers

(* A command issued to the driver it is meant for keeps their types.       *)
LEMMA IssueOK ==
  ASSUME DriversOK(driver)
  PROVE  /\ \A s \in Scripts  : Issue("TM", s)  => DriversOK(driver')
         /\ \A c \in Commands : Issue("VMM", c) => DriversOK(driver')
<1>1. \A S : \A s \in Seq(S), x \in S : Append(s, x) \in Seq(S) OBVIOUS
<1>2. {"TM", "VMM"} = Drivers BY DEF Drivers
<1>3. driver["TM"] \in Seq(Scripts) /\ driver["VMM"] \in Seq(Commands) BY DEF DriversOK
<1>4. QED BY <1>1, <1>2, <1>3, DriverOK DEF Issue

(* Removing any element, or the last one, leaves a sequence over the set.  *)
LEMMA RemoveOK ==
  ASSUME NEW S, NEW s \in Seq(S)
  PROVE  /\ \A i \in 1..Len(s) : RemoveAt(s, i) \in Seq(S)
         /\ \A t \in Cancelled(s) : t \in Seq(S)
<1>1. ASSUME NEW i \in 1..Len(s) PROVE RemoveAt(s, i) \in Seq(S)
  BY <1>1 DEF RemoveAt
<1>2. s # <<>> => Front(s) \in Seq(S) BY DEF Front
<1>3. QED BY <1>1, <1>2 DEF Cancelled

(* An answer, a cancellation or the death of a driver keeps them too.      *)
LEMMA AnswerOK ==
  ASSUME DriversOK(driver), NEW d \in Drivers
  PROVE  /\ \A i \in 1..Len(driver[d]) : Answer(d, i) => DriversOK(driver')
         /\ \A t \in Cancelled(driver[d]) : DriversOK([driver EXCEPT ![d] = t])
         /\ DriversOK([driver EXCEPT ![d] = <<>>])
<1>1. driver["TM"] \in Seq(Scripts) /\ driver["VMM"] \in Seq(Commands) BY DEF DriversOK
<1>2. d = "TM" \/ d = "VMM" BY DEF Drivers
<1>3. \A S : <<>> \in Seq(S) OBVIOUS
<1>4. QED BY <1>1, <1>2, <1>3, DriverOK, RemoveOK DEF Answer

-----------------------------------------------------------------------------
(* The VM object *)

(* The VM objects whose history has a record.                              *)
PlacedVM == {v \in VirtualMachine : v.hist.hid \in Hosts}

(* Every assignment a handler makes to a field of the VM keeps it so.      *)
LEMMA SetState ==
  ASSUME NEW v \in PlacedVM, NEW s \in VmState
  PROVE  [v EXCEPT !.state = s] \in PlacedVM
BY DEF PlacedVM, VirtualMachine

(* A placed VM stays placed in any other LCM state.                        *)
LEMMA SetLcm ==
  ASSUME NEW v \in PlacedVM, NEW l \in LcmState
  PROVE  [v EXCEPT !.lcm = l] \in PlacedVM
BY DEF PlacedVM, VirtualMachine

(* A placed VM stays placed when an action is recorded.                    *)
LEMMA SetAction ==
  ASSUME NEW v \in PlacedVM, NEW a \in HistoryAction
  PROVE  /\ [v EXCEPT !.hist.action = a] \in PlacedVM
         /\ [v EXCEPT !.prev.action = a] \in PlacedVM
BY DEF PlacedVM, VirtualMachine, History

(* A placed VM stays placed when the reason a record ended is set.         *)
LEMMA SetReason ==
  ASSUME NEW v \in PlacedVM, NEW r \in EndReason
  PROVE  /\ [v EXCEPT !.hist.reason = r] \in PlacedVM
         /\ [v EXCEPT !.prev.reason = r] \in PlacedVM
BY DEF PlacedVM, VirtualMachine, History

(* A VM that is given a record is placed, one that had a record stays so.  *)
LEMMA AddHistory ==
  ASSUME NEW v \in VirtualMachine, NEW h \in Hosts
  PROVE  add_history(v, h) \in PlacedVM
<1>1. /\ NewRecord(h) \in History /\ NewRecord(h).hid = h
      /\ v.hist \in History
  BY DEF NewRecord, History, HistoryAction, EndReason, VirtualMachine
<1>2. [v EXCEPT !.hist = NewRecord(h)] \in PlacedVM
  BY <1>1 DEF PlacedVM, VirtualMachine
<1>3. [[v EXCEPT !.hist = NewRecord(h)] EXCEPT !.prev = v.hist] \in PlacedVM
  BY <1>1, <1>2 DEF PlacedVM, VirtualMachine
<1>4. QED BY <1>2, <1>3 DEF add_history

(* Copying the current or the previous record keeps a VM placed.           *)
LEMMA CpHistory ==
  ASSUME NEW v \in PlacedVM
  PROVE  cp_history(v) \in PlacedVM /\ cp_previous_history(v) \in PlacedVM
<1>1. /\ v \in VirtualMachine /\ v.hist.hid \in Hosts
      /\ v.prev.hid \in Hosts \cup {NoHost}
  BY DEF PlacedVM, VirtualMachine, History
<1>2. QED BY <1>1, AddHistory DEF cp_history, cp_previous_history

(* The names that the handlers assign are of their types.                  *)
LEMMA LcmNames ==
  /\ "LCM_INIT" \in LcmState /\ "RUNNING" \in LcmState /\ "UNKNOWN" \in LcmState
  /\ "MIGRATE" \in LcmState /\ "CANCEL" \in LcmState /\ "FAILURE" \in LcmState
  /\ "PROLOG" \in LcmState /\ "PROLOG_MIGRATE" \in LcmState
  /\ "PROLOG_RESUME" \in LcmState /\ "PROLOG_UNDEPLOY" \in LcmState
  /\ "BOOT" \in LcmState /\ "BOOT_UNKNOWN" \in LcmState
  /\ "BOOT_POWEROFF" \in LcmState /\ "BOOT_SUSPENDED" \in LcmState
  /\ "BOOT_STOPPED" \in LcmState /\ "BOOT_UNDEPLOY" \in LcmState
  /\ "SAVE_STOP" \in LcmState /\ "SAVE_SUSPEND" \in LcmState
  /\ "SAVE_MIGRATE" \in LcmState /\ "EPILOG" \in LcmState
  /\ "EPILOG_STOP" \in LcmState /\ "EPILOG_UNDEPLOY" \in LcmState
  /\ "SHUTDOWN" \in LcmState /\ "SHUTDOWN_POWEROFF" \in LcmState
  /\ "SHUTDOWN_UNDEPLOY" \in LcmState /\ "HOTPLUG_SAVEAS" \in LcmState
  /\ "HOTPLUG_SAVEAS_POWEROFF" \in LcmState
  /\ "HOTPLUG_SAVEAS_SUSPENDED" \in LcmState
  /\ "HOTPLUG" \in LcmState /\ "HOTPLUG_NIC" \in LcmState
  /\ "HOTPLUG_SNAPSHOT" \in LcmState
  /\ "CLEANUP_RESUBMIT" \in LcmState /\ "CLEANUP_DELETE" \in LcmState
BY DEF LcmState, PrologStates, BootStates, SaveStates, EpilogStates,
       ShutdownStates, SaveasStates, HotplugStates, CleanupStates

(* So are the names of VM states, actions and reasons.                     *)
LEMMA OtherNames ==
  /\ "PENDING" \in VmState /\ "HOLD" \in VmState /\ "ACTIVE" \in VmState
  /\ "STOPPED" \in VmState /\ "SUSPENDED" \in VmState /\ "DONE" \in VmState
  /\ "FAILED" \in VmState /\ "POWEROFF" \in VmState /\ "UNDEPLOYED" \in VmState
  /\ "NONE" \in HistoryAction /\ "STOP" \in HistoryAction
  /\ "UNDEPLOY" \in HistoryAction /\ "OTHER" \in HistoryAction
  /\ "NONE" \in EndReason /\ "ERROR" \in EndReason /\ "USER" \in EndReason
BY DEF VmState, HistoryAction, EndReason

(* clear_saveas_state keeps a VM placed.                                   *)
LEMMA ClearSaveas ==
  ASSUME NEW v \in PlacedVM
  PROVE  clear_saveas_state(v) \in PlacedVM
<1>1. /\ [v EXCEPT !.lcm = "RUNNING"] \in PlacedVM
      /\ [v EXCEPT !.state = "POWEROFF", !.lcm = "LCM_INIT"] \in PlacedVM
      /\ [v EXCEPT !.state = "SUSPENDED", !.lcm = "LCM_INIT"] \in PlacedVM
  BY SetState, SetLcm, LcmNames, OtherNames, Zenon
<1>2. QED BY <1>1, Zenon DEF clear_saveas_state

(* A VM that some handler's guard has found in any other state is placed.  *)
LEMMA Placed ==
  ASSUME IInv,
         vm.lcm # "LCM_INIT" \/ vm.state \notin {"PENDING", "HOLD", "DONE"}
  PROVE  vm \in PlacedVM /\ vm.hist.hid \in Hosts
<1>1. vm.hist.hid # NoHost BY DEF IInv, UnplacedWaits, Unplaced
<1>2. vm.hist.hid \in Hosts \cup {NoHost}
  BY DEF IInv, TypeOK, VirtualMachine, History
<1>3. QED BY <1>1, <1>2 DEF PlacedVM, IInv, TypeOK

-----------------------------------------------------------------------------
(* What the drivers' answers and recover ask of the LCM *)

(* A list of one event is a list of LCM actions.                           *)
LEMMA EventLists ==
  /\ <<>> \in Seq(LcmActions)
  /\ \A e \in Events : <<e>> \in Seq(LcmActions)
BY DEF LcmActions

(* Whatever a driver answers, the LCM has handlers for what it is told.    *)
LEMMA AnswerLists ==
  /\ \A cmd, outcome : Result(cmd, outcome) \in Seq(LcmActions)
  /\ \A success : Meaning(success) \in Seq(LcmActions)
  /\ \A success : RecoverEvent(success) \in Seq(LcmActions)
<1>1. Events = {"SAVE_SUCCESS", "SAVE_FAILURE", "DEPLOY_SUCCESS", "DEPLOY_FAILURE",
                "SHUTDOWN_SUCCESS", "SHUTDOWN_FAILURE", "CANCEL_SUCCESS",
                "CANCEL_FAILURE", "CLEANUP_DONE", "ATTACH_DONE", "ATTACH_NIC_DONE",
                "SNAPSHOT_DONE", "PROLOG_SUCCESS", "PROLOG_FAILURE",
                "EPILOG_SUCCESS", "EPILOG_FAILURE", "SAVEAS_HOT_DONE",
                "MONITOR_FAILURE", "MONITOR_SUSPEND", "MONITOR_DONE"}
  BY DEF Events
<1>2. \A cmd, outcome : Result(cmd, outcome) \in Seq(LcmActions)
  BY <1>1, EventLists, Zenon DEF Result
<1>3. \A success : Meaning(success) \in Seq(LcmActions)
  BY <1>1, EventLists, Zenon DEF Meaning
<1>4. \A success : RecoverEvent(success) \in Seq(LcmActions)
  BY <1>1, EventLists, Zenon DEF RecoverEvent
<1>5. QED BY <1>2, <1>3, <1>4

(* A cleanup asks the TM and the VMM for what they can do.                 *)
LEMMA CleanUpTriggers ==
  ASSUME NEW q, QueuesOK(q), NEW lcm
  PROVE  QueuesOK(clean_up_triggers(q, lcm))
<1>1. /\ <<"DRIVER_CANCEL">> \in Seq(TmActions)
      /\ <<"DRIVER_CANCEL", "EPILOG_DELETE">> \in Seq(TmActions)
      /\ <<"DRIVER_CANCEL", "EPILOG_DELETE_BOTH">> \in Seq(TmActions)
  BY DEF TmActions, Scripts, EpilogScripts
<1>2. /\ <<"DRIVER_CANCEL", "CLEANUP">> \in Seq(VmmActions)
      /\ <<"DRIVER_CANCEL", "CLEANUP_BOTH">> \in Seq(VmmActions)
      /\ <<"DRIVER_CANCEL", "CLEANUP_PREVIOUS">> \in Seq(VmmActions)
  BY DEF VmmActions, Commands
<1>3. "TM" \in Managers /\ "VMM" \in Managers BY DEF Managers
<1>4. /\ \A p, s : QueuesOK(p) /\ s \in Seq(TmActions)  => QueuesOK(Push(p, "TM", s))
      /\ \A p, s : QueuesOK(p) /\ s \in Seq(VmmActions) => QueuesOK(Push(p, "VMM", s))
  BY <1>3, PushOK
<1>5. QED BY <1>1, <1>2, <1>4, Zenon DEF clean_up_triggers

-----------------------------------------------------------------------------
(* The handlers of the LCM *)

(* What every handler but the refusing one leaves: a placed VM, shares of  *)
(* known hosts, and actions in the queues that their managers know.        *)
LeavesPlaced == /\ vm' \in PlacedVM
                /\ capacity' \subseteq Hosts
                /\ QueuesOK(queue')

(* The building blocks of the handlers, whatever the LCM was asked.        *)
LEMMA LcmQueue ==
  ASSUME IInv, NEW a, Lcm(a)
  PROVE  /\ Done_LCM => QueuesOK(queue')
         /\ \A x \in Results    : To("DM", <<x>>)  => QueuesOK(queue')
         /\ \A x \in TmActions  : To("TM", <<x>>)  => QueuesOK(queue')
         /\ \A x \in VmmActions : To("VMM", <<x>>) => QueuesOK(queue')
<1>1. "LCM" \in Managers BY DEF Managers
<1>2. QED BY <1>1, HandledOK, HandledToOK DEF IInv, TypeOK, Lcm, Done_LCM, To

(* A request that leaves RUNNING leaves a placed VM.                       *)
LEMMA LeaveRunning ==
  ASSUME IInv, NEW a, NEW lcm \in LcmState, NEW action \in HistoryAction,
         NEW cmd \in VmmActions, leave_running(a, lcm, action, cmd)
  PROVE  LeavesPlaced
<1>1. vm \in PlacedVM BY Placed DEF leave_running, is
<1>2. vm' \in PlacedVM BY <1>1, SetLcm, SetAction, Zenon DEF leave_running
<1>3. QED BY <1>2, LcmQueue DEF leave_running, LeavesPlaced, IInv, TypeOK

(* A migration leaves a placed VM: RUNNING, it had a record.               *)
LEMMA LeaveHost ==
  ASSUME IInv, NEW a, NEW lcm \in LcmState, NEW cmd \in VmmActions,
         leave_host(a, lcm, cmd)
  PROVE  LeavesPlaced
<1>1. vm \in PlacedVM /\ vm.hist.hid \in Hosts BY Placed DEF leave_host, is
<1>2. vm' \in PlacedVM
  BY <1>1, SetLcm, SetAction, OtherNames, Zenon DEF leave_host
<1>3. QED
  BY <1>1, <1>2, LcmQueue DEF leave_host, add_capacity, LeavesPlaced, IInv, TypeOK

(* A failed migration leaves a placed VM.                                  *)
LEMMA BackToPreviousHost ==
  ASSUME IInv, NEW a, Lcm(a), vm \in PlacedVM, back_to_previous_host
  PROVE  LeavesPlaced
<1>1. [vm EXCEPT !.lcm = "RUNNING", !.hist.reason = "ERROR", !.prev.reason = "USER"]
        \in PlacedVM
  BY SetLcm, SetReason, LcmNames, OtherNames, Zenon
<1>2. vm' \in PlacedVM BY <1>1, CpHistory DEF back_to_previous_host
<1>3. "POLL" \in VmmActions BY DEF VmmActions, Commands
<1>4. QED
  BY <1>2, <1>3, LcmQueue
  DEF back_to_previous_host, del_capacity, LeavesPlaced, IInv, TypeOK

(* A failed command leaves a placed VM.                                    *)
LEMMA BackToRunning ==
  ASSUME IInv, NEW a, Lcm(a), vm \in PlacedVM, back_to_running
  PROVE  LeavesPlaced
<1>1. vm' \in PlacedVM
  BY SetLcm, SetAction, LcmNames, OtherNames, Zenon DEF back_to_running
<1>2. "POLL" \in VmmActions BY DEF VmmActions, Commands
<1>3. QED
  BY <1>1, <1>2, LcmQueue DEF back_to_running, LeavesPlaced, IInv, TypeOK

(* failure_action leaves a placed VM and a report the DM knows.            *)
LEMMA FailureAction ==
  ASSUME IInv, NEW a, Lcm(a), vm \in PlacedVM, failure_action
  PROVE  LeavesPlaced
<1>1. vm' \in PlacedVM
  BY SetLcm, SetReason, LcmNames, OtherNames, Zenon DEF failure_action
<1>2. "FAILED" \in Results BY DEF Results
<1>3. QED
  BY <1>1, <1>2, LcmQueue
  DEF failure_action, del_capacity, LeavesPlaced, IInv, TypeOK

(* The beginning of an epilog leaves a placed VM.                          *)
LEMMA ToEpilog ==
  ASSUME IInv, NEW a, Lcm(a), vm \in PlacedVM, NEW lcm \in LcmState,
         NEW cmd \in TmActions, to_epilog(lcm, cmd)
  PROVE  LeavesPlaced
<1>1. vm' \in PlacedVM BY SetLcm, SetReason, OtherNames, Zenon DEF to_epilog
<1>2. QED BY <1>1, LcmQueue DEF to_epilog, LeavesPlaced, IInv, TypeOK

(* The end of a power-off leaves a placed VM.                              *)
LEMMA PoweredOff ==
  ASSUME IInv, NEW a, Lcm(a), vm \in PlacedVM, powered_off
  PROVE  LeavesPlaced
<1>1. vm' \in PlacedVM BY SetReason, OtherNames, Zenon DEF powered_off
<1>2. "POWEROFF_SUCCESS" \in Results BY DEF Results
<1>3. QED BY <1>1, <1>2, LcmQueue DEF powered_off, LeavesPlaced, IInv, TypeOK

(* clean_up_vm leaves a placed VM.                                         *)
LEMMA CleanUpVm ==
  ASSUME IInv, vm \in PlacedVM, NEW lcm \in LcmState, clean_up_vm(lcm)
  PROVE  vm' \in PlacedVM /\ capacity' \subseteq Hosts
<1>. DEFINE w == [vm EXCEPT !.lcm = lcm, !.hist.action = "OTHER", !.hist.reason = "USER"]
            r == IF TwoHosts THEN "USER" ELSE w.prev.reason
<1>1. w \in PlacedVM BY SetLcm, SetAction, SetReason, OtherNames, Zenon
<1>2. r \in EndReason BY <1>1, OtherNames DEF PlacedVM, VirtualMachine, History
<1>3. [w EXCEPT !.prev.reason = r] \in PlacedVM BY <1>1, <1>2, SetReason
<1>4. vm' = [w EXCEPT !.prev.reason = r] BY DEF clean_up_vm
<1>5. QED BY <1>3, <1>4 DEF clean_up_vm, clean_up_hosts, IInv, TypeOK

(* The actions each manager may be asked for by the handlers of the LCM.   *)
LEMMA LcmAsks ==
  /\ {"SAVE", "SHUTDOWN", "CANCEL", "MIGRATE", "RESTORE", "DEPLOY", "POLL"}
       \subseteq VmmActions
  /\ {"PROLOG", "PROLOG_RESUME", "PROLOG_MIGR", "EPILOG", "EPILOG_STOP",
      "EPILOG_DELETE"} \subseteq TmActions
  /\ {"DONE", "FAILED", "RESUBMIT", "SUSPEND_SUCCESS", "STOP_SUCCESS",
      "UNDEPLOY_SUCCESS", "POWEROFF_SUCCESS"} \subseteq Results
BY DEF VmmActions, Commands, TmActions, Scripts, PrologScripts, EpilogScripts, Results

(* Every request the LCM accepts leaves a placed VM.                       *)
LEMMA LcmRequestOK == ASSUME IInv, LcmRequest PROVE LeavesPlaced
<1>. USE DEF LeavesPlaced
<1>1. capacity \subseteq Hosts BY DEF IInv, TypeOK
<1>2. CASE deploy_action
  <2>1. vm \in PlacedVM /\ vm.hist.hid \in Hosts BY <1>2, Placed DEF deploy_action
  <2>2. vm' \in PlacedVM BY <1>2, <2>1, SetLcm, LcmNames DEF deploy_action
  <2>3. QueuesOK(queue') BY <1>2, LcmQueue, LcmAsks DEF deploy_action
  <2>4. QED BY <1>1, <1>2, <2>1, <2>2, <2>3 DEF deploy_action, add_capacity
<1>3. CASE \/ suspend_action \/ stop_action \/ shutdown_action \/ cancel_action
           \/ undeploy_action \/ poweroff_action
  BY <1>3, LeaveRunning, LcmNames, OtherNames, LcmAsks
  DEF suspend_action, stop_action, shutdown_action, cancel_action,
      undeploy_action, poweroff_action
<1>4. CASE migrate_action \/ live_migrate_action
  BY <1>4, LeaveHost, LcmNames, LcmAsks DEF migrate_action, live_migrate_action
<1>5. CASE restore_action
  <2>1. cp_history(vm) \in PlacedVM BY <1>5, Placed, CpHistory DEF restore_action
  <2>2. vm' \in PlacedVM
    BY <1>5, <2>1, SetState, SetLcm, LcmNames, OtherNames, Zenon DEF restore_action
  <2>3. QED BY <1>1, <1>5, <2>2, LcmQueue, LcmAsks DEF restore_action
<1>6. CASE restart_action
  <2>1. vm \in PlacedVM
    BY <1>6, Placed DEF restart_action, CanRestart
  <2>2. /\ [cp_history(vm) EXCEPT !.state = "ACTIVE", !.lcm = "BOOT_POWEROFF"]
             \in PlacedVM
        /\ [vm EXCEPT !.lcm = "BOOT_UNKNOWN"] \in PlacedVM
    BY <2>1, CpHistory, SetState, SetLcm, LcmNames, OtherNames, Zenon
  <2>3. vm' \in PlacedVM BY <1>6, <2>1, <2>2, Zenon DEF restart_action
  <2>4. QED BY <1>1, <1>6, <2>3, LcmQueue, LcmAsks DEF restart_action
<1>7. CASE delete_action
  <2>1. vm \in PlacedVM BY <1>7, Placed DEF delete_action
  <2>2. QueuesOK(Pop(queue, "LCM"))
    BY <1>7, HandledOK DEF delete_action, Lcm, Managers, IInv, TypeOK
  <2>3. \A q : QueuesOK(q) => /\ QueuesOK(Push(q, "DM", <<"DONE">>))
                              /\ QueuesOK(Push(q, "TM", <<"EPILOG_DELETE">>))
    <3>1. <<"DONE">> \in Seq(Results) /\ <<"EPILOG_DELETE">> \in Seq(TmActions)
      BY LcmAsks
    <3>2. QED BY <3>1, PushOK DEF Managers
  <2>4. QueuesOK(queue')
    <3>. DEFINE q == Pop(queue, "LCM")
    <3>1. /\ QueuesOK(Push(q, "DM", <<"DONE">>))
          /\ QueuesOK(Push(Push(q, "TM", <<"EPILOG_DELETE">>), "DM", <<"DONE">>))
          /\ QueuesOK(Push(clean_up_triggers(q, vm.lcm), "DM", <<"DONE">>))
      BY <2>2, <2>3, CleanUpTriggers, Zenon
    <3>2. QED BY <1>7, <3>1, Zenon DEF delete_action, To, HandledTo
  <2>5. vm' \in PlacedVM /\ capacity' \subseteq Hosts
    BY <1>1, <1>7, <2>1, SetLcm, CleanUpVm, LcmNames DEF delete_action
  <2>6. QED BY <2>4, <2>5
<1>8. CASE clean_action
  <2>1. vm \in PlacedVM BY <1>8, Placed DEF clean_action
  <2>2. QueuesOK(Pop(queue, "LCM"))
    BY <1>8, HandledOK DEF clean_action, Lcm, Managers, IInv, TypeOK
  <2>3. QueuesOK(queue')
    BY <1>8, <2>2, LcmQueue, LcmAsks, CleanUpTriggers DEF clean_action
  <2>4. vm' \in PlacedVM /\ capacity' \subseteq Hosts
    BY <1>1, <1>8, <2>1, SetLcm, CleanUpVm, LcmNames DEF clean_action
  <2>5. QED BY <2>3, <2>4
<1>9. QED
  BY <1>2, <1>3, <1>4, <1>5, <1>6, <1>7, <1>8, Zenon DEF LcmRequest

(* The states the answers await are not LCM_INIT: a VM that leaves one of  *)
(* them has a record.                                                      *)
LEMMA AwaitedPlaced ==
  ASSUME IInv, vm.lcm \in PrologStates \cup BootStates \cup SaveStates \cup EpilogStates
                           \cup ShutdownStates \cup SaveasStates \cup HotplugStates
                           \cup CleanupStates \cup {"MIGRATE", "CANCEL", "RUNNING", "UNKNOWN"}
  PROVE  vm \in PlacedVM /\ vm.hist.hid \in Hosts
<1>1. vm.lcm # "LCM_INIT"
  BY DEF PrologStates, BootStates, SaveStates, EpilogStates, ShutdownStates,
         SaveasStates, HotplugStates, CleanupStates
<1>2. QED BY <1>1, Placed

(* Every answer the LCM accepts leaves a placed VM.                        *)
LEMMA LcmAnswerOK == ASSUME IInv, LcmAnswer PROVE LeavesPlaced
<1>. USE DEF LeavesPlaced
<1>1. capacity \subseteq Hosts BY DEF IInv, TypeOK
<1>2. CASE save_success_action
  <2>1. vm \in PlacedVM BY <1>2, AwaitedPlaced DEF save_success_action, SaveStates
  <2>2. /\ [vm EXCEPT !.lcm = "PROLOG_MIGRATE", !.prev.reason = "USER"] \in PlacedVM
        /\ [vm EXCEPT !.hist.reason = "USER"] \in PlacedVM
        /\ [vm EXCEPT !.lcm = "EPILOG_STOP", !.hist.reason = "USER"] \in PlacedVM
    BY <2>1, SetLcm, SetReason, LcmNames, OtherNames, Zenon
  <2>3. QED
    BY <1>1, <1>2, <2>2, LcmQueue, LcmAsks DEF save_success_action, del_capacity
<1>3. CASE save_failure_action
  BY <1>3, AwaitedPlaced, BackToPreviousHost, BackToRunning
  DEF save_failure_action, SaveStates
<1>4. CASE deploy_success_action
  <2>1. vm \in PlacedVM BY <1>4, AwaitedPlaced DEF deploy_success_action
  <2>2. /\ [vm EXCEPT !.lcm = "RUNNING", !.prev.reason = "USER"] \in PlacedVM
        /\ [vm EXCEPT !.lcm = "RUNNING"] \in PlacedVM
    BY <2>1, SetLcm, SetReason, LcmNames, OtherNames, Zenon
  <2>3. QED BY <1>1, <1>4, <2>2, LcmQueue DEF deploy_success_action, del_capacity
<1>5. CASE deploy_failure_action
  <2>1. vm \in PlacedVM BY <1>5, AwaitedPlaced DEF deploy_failure_action, BootStates
  <2>2. /\ [vm EXCEPT !.lcm = "UNKNOWN"] \in PlacedVM
        /\ [vm EXCEPT !.state = "POWEROFF", !.lcm = "LCM_INIT"] \in PlacedVM
        /\ [vm EXCEPT !.state = "SUSPENDED", !.lcm = "LCM_INIT"] \in PlacedVM
        /\ [vm EXCEPT !.lcm = "EPILOG_STOP", !.hist.reason = "ERROR"] \in PlacedVM
        /\ [vm EXCEPT !.lcm = "EPILOG_UNDEPLOY", !.hist.reason = "ERROR"] \in PlacedVM
    BY <2>1, SetState, SetLcm, SetReason, LcmNames, OtherNames, Zenon
  <2>3. CASE vm.lcm = "MIGRATE" \/ vm.lcm = "BOOT"
    BY <1>5, <2>1, <2>3, BackToPreviousHost, FailureAction DEF deploy_failure_action
  <2>4. CASE vm.lcm \in {"BOOT_UNKNOWN", "BOOT_POWEROFF", "BOOT_SUSPENDED"}
    <3>1. vm' \in PlacedVM
      BY <1>5, <2>1, <2>2, <2>4, Zenon DEF deploy_failure_action
    <3>2. QED BY <1>1, <1>5, <2>4, <3>1, LcmQueue, Zenon DEF deploy_failure_action
  <2>5. CASE vm.lcm \in {"BOOT_STOPPED", "BOOT_UNDEPLOY"}
    <3>1. vm' \in PlacedVM BY <1>5, <2>2, <2>5, Zenon DEF deploy_failure_action
    <3>2. "EPILOG_STOP" \in TmActions BY LcmAsks
    <3>3. QED BY <1>1, <1>5, <2>5, <3>1, <3>2, LcmQueue, Zenon DEF deploy_failure_action
  <2>6. QED BY <1>5, <2>3, <2>4, <2>5, Zenon DEF deploy_failure_action
<1>6. CASE shutdown_success_action \/ cancel_success_action
  BY <1>6, AwaitedPlaced, ToEpilog, PoweredOff, LcmNames, LcmAsks
  DEF shutdown_success_action, cancel_success_action, ShutdownStates
<1>7. CASE shutdown_failure_action \/ cancel_failure_action
  BY <1>7, AwaitedPlaced, BackToRunning
  DEF shutdown_failure_action, cancel_failure_action, ShutdownStates
<1>8. CASE cleanup_callback_action
  BY <1>1, <1>8, AwaitedPlaced, LcmQueue, LcmAsks
  DEF cleanup_callback_action, CleanupStates
<1>9. ASSUME NEW a, NEW lcm \in HotplugStates, hotplug_end(a, lcm)
      PROVE  LeavesPlaced
  BY <1>1, <1>9, AwaitedPlaced, SetLcm, LcmNames, LcmQueue DEF hotplug_end
<1>10. CASE attach_end \/ attach_nic_end \/ snapshot_end
  BY <1>9, <1>10 DEF attach_end, attach_nic_end, snapshot_end, HotplugStates
<1>11. CASE saveas_hot_end
  BY <1>1, <1>11, AwaitedPlaced, ClearSaveas, LcmQueue DEF saveas_hot_end
<1>12. CASE prolog_success_action
  <2>1. vm \in PlacedVM BY <1>12, AwaitedPlaced DEF prolog_success_action
  <2>2. vm' \in PlacedVM
    BY <1>12, <2>1, SetLcm, LcmNames, Zenon DEF prolog_success_action
  <2>3. QED BY <1>1, <1>12, <2>2, LcmQueue, LcmAsks DEF prolog_success_action
<1>13. CASE prolog_failure_action
  <2>1. vm \in PlacedVM BY <1>13, AwaitedPlaced DEF prolog_failure_action, PrologStates
  <2>2. CASE failure_action
    BY <1>13, <2>1, <2>2, FailureAction DEF prolog_failure_action
  <2>3. CASE ~failure_action
    BY <1>13, <2>1, <2>3, SetReason, OtherNames, LcmQueue, LcmAsks, <1>1
    DEF prolog_failure_action, del_capacity
  <2>4. QED BY <2>2, <2>3
<1>14. CASE epilog_success_action
  <2>1. vm \in PlacedVM BY <1>14, AwaitedPlaced DEF epilog_success_action, CleanupStates
  <2>2. QED
    BY <1>1, <1>14, <2>1, LcmQueue, LcmAsks DEF epilog_success_action, del_capacity
<1>15. CASE epilog_failure_action
  <2>1. vm \in PlacedVM BY <1>15, AwaitedPlaced DEF epilog_failure_action, CleanupStates
  <2>2. QED
    BY <1>1, <1>15, <2>1, LcmQueue, LcmAsks, FailureAction DEF epilog_failure_action
<1>16. CASE monitor_failure_action
  BY <1>16, AwaitedPlaced, FailureAction DEF monitor_failure_action
<1>17. CASE monitor_suspend_action
  <2>1. vm' \in PlacedVM
    BY <1>17, AwaitedPlaced, SetLcm, SetReason, LcmNames, OtherNames, Zenon
    DEF monitor_suspend_action
  <2>2. QED BY <1>1, <1>17, <2>1, LcmQueue, LcmAsks DEF monitor_suspend_action
<1>18. CASE monitor_done_action
  BY <1>1, <1>18, AwaitedPlaced, SetLcm, LcmNames, LcmQueue DEF monitor_done_action
<1>19. QED
  BY <1>2, <1>3, <1>4, <1>5, <1>6, <1>7, <1>8, <1>10, <1>11, <1>12, <1>13, <1>14,
     <1>15, <1>16, <1>17, <1>18, Zenon
  DEF LcmAnswer

-----------------------------------------------------------------------------
(* The whole step *)

(* A step that leaves a placed VM, and the rest with its types, keeps the  *)
(* invariant: UnplacedWaits says nothing of a VM that has a record.        *)
LEMMA PlacedStep ==
  ASSUME LeavesPlaced, DriversOK(driver'), rm' \subseteq RmType,
         locked' \in BOOLEAN, released' \in Nat
  PROVE  IInv'
<1>1. vm' \in VirtualMachine /\ vm'.hist.hid # NoHost
  BY HostsAssumption DEF LeavesPlaced, PlacedVM
<1>2. TypeOK' BY <1>1 DEF LeavesPlaced, TypeOK
<1>3. UnplacedWaits' BY <1>1 DEF UnplacedWaits, Unplaced
<1>4. QED BY <1>2, <1>3 DEF IInv

(* So does a step that does not touch the VM and its shares, and lets no   *)
(* attach begin.                                                           *)
LEMMA IdleStep ==
  ASSUME IInv, UNCHANGED <<vm, capacity>>, QueuesOK(queue'), DriversOK(driver'),
         rm' \subseteq RmType, \A r \in rm' \ rm : r.step \notin AttachSteps,
         locked' \in BOOLEAN, released' \in Nat
  PROVE  IInv'
<1>1. TypeOK' BY DEF IInv, TypeOK
<1>2. UnplacedWaits' BY DEF IInv, UnplacedWaits, Unplaced
<1>3. QED BY <1>1, <1>2 DEF IInv

(* A step of the LCM keeps the invariant.                                  *)
LEMMA LcmStep == ASSUME IInv, LcmNext PROVE IInv'
<1>1. UNCHANGED <<driver, rm, locked, released>> BY DEF LcmNext
<1>2. CASE LcmRequest \/ LcmAnswer
  BY <1>1, <1>2, LcmRequestOK, LcmAnswerOK, PlacedStep DEF IInv, TypeOK
<1>3. CASE wrong_state_LCM
  <2>1. QueuesOK(queue') BY <1>3, LcmQueue DEF wrong_state_LCM
  <2>2. QED BY <1>1, <1>3, <2>1, IdleStep DEF wrong_state_LCM, IInv, TypeOK
<1>4. QED BY <1>2, <1>3 DEF LcmNext

(* A step of the VMM, or of its driver, keeps the invariant.               *)
LEMMA VmmStepOK == ASSUME IInv, VmmStep \/ (vmm_driver_lost /\ VmmFrame) PROVE IInv'
<1>1. /\ UNCHANGED <<capacity, rm, locked, released>>
      /\ QueuesOK(queue) /\ DriversOK(driver)
  BY DEF VmmStep, VmmFrame, IInv, TypeOK
<1>2. "VMM" \in Managers /\ "VMM" \in Drivers /\ "LCM" \in Managers
  BY DEF Managers, Drivers
<1>3. driver["VMM"] \in Seq(Commands) BY <1>1 DEF DriversOK
<1>4. ASSUME UNCHANGED vm, QueuesOK(queue'), DriversOK(driver') PROVE IInv'
  BY <1>1, <1>4, IdleStep DEF IInv, TypeOK
<1>5. CASE vmm_command
  BY <1>1, <1>2, <1>4, <1>5, IssueOK, HandledOK DEF vmm_command
<1>6. CASE vmm_error
  <2>1. PICK cmd \in Commands : /\ Receive("VMM", cmd)
                                /\ HandledTo("VMM", "LCM", Result(cmd, Failure))
    BY <1>6 DEF vmm_error
  <2>2. QueuesOK(Pop(queue, "VMM")) BY <1>1, <1>2, <2>1, HandledOK
  <2>3. QueuesOK(queue') BY <1>2, <2>1, <2>2, AnswerLists, PushOK DEF HandledTo
  <2>4. QED BY <1>1, <1>4, <1>6, <2>3 DEF vmm_error
<1>7. CASE vmm_driver_cancel
  BY <1>1, <1>2, <1>4, <1>7, HandledOK, AnswerOK DEF vmm_driver_cancel
<1>8. CASE vmm_answer
  <2>1. DriversOK(driver') BY <1>1, <1>2, <1>8, AnswerOK DEF vmm_answer, vmm_answered
  <2>2. QueuesOK(queue')
    BY <1>1, <1>8, AnswerLists, TriggerOK DEF vmm_answer, vmm_answered
  <2>3. QED BY <1>4, <1>8, <2>1, <2>2 DEF vmm_answer, vmm_answered
<1>9. CASE vmm_poll_answer
  <2>1. DriversOK(driver') BY <1>1, <1>2, <1>9, AnswerOK DEF vmm_poll_answer, vmm_poll_answered
  <2>2. {"MONITOR_SUSPEND", "MONITOR_FAILURE", "MONITOR_DONE"} \subseteq LcmActions
    BY DEF LcmActions, Events
  <2>3. QueuesOK(queue')
    BY <1>1, <1>9, <2>2, TriggerOK DEF vmm_poll_answer, vmm_poll_answered, PollAnswer
  <2>4. CASE UNCHANGED vm BY <1>4, <2>1, <2>3, <2>4
  <2>5. CASE ~UNCHANGED vm
    <3>1. vm.lcm = "UNKNOWN" /\ vm' = [vm EXCEPT !.lcm = "RUNNING"]
      BY <1>9, <2>5 DEF vmm_poll_answer, vmm_poll_answered, PollAnswer
    <3>2. vm' \in PlacedVM BY <3>1, Placed, SetLcm, LcmNames
    <3>3. LeavesPlaced BY <1>1, <2>3, <3>2 DEF LeavesPlaced, IInv, TypeOK
    <3>4. QED BY <1>1, <2>1, <3>3, PlacedStep DEF IInv, TypeOK
  <2>6. QED BY <2>4, <2>5
<1>10. CASE vmm_timer
  <2>1. "POLL" \in Commands BY DEF Commands
  <2>2. QED BY <1>1, <1>4, <1>10, <2>1, IssueOK DEF vmm_timer
<1>11. CASE vmm_driver_lost
  BY <1>1, <1>2, <1>4, <1>11, AnswerOK DEF vmm_driver_lost
<1>12. QED
  BY <1>5, <1>6, <1>7, <1>8, <1>9, <1>10, <1>11 DEF VmmStep, VmmCommand, VmmAnswer

(* A step of the TM, or of its driver, keeps the invariant.                *)
LEMMA TmStepOK == ASSUME IInv, TmStep \/ (tm_driver_lost /\ TmFrame) PROVE IInv'
<1>1. /\ UNCHANGED <<vm, capacity, rm, locked, released>>
      /\ QueuesOK(queue) /\ DriversOK(driver)
  BY DEF TmStep, TmFrame, IInv, TypeOK
<1>2. "TM" \in Managers /\ "TM" \in Drivers /\ "LCM" \in Managers
  BY DEF Managers, Drivers
<1>3. ASSUME QueuesOK(queue'), DriversOK(driver') PROVE IInv'
  BY <1>1, <1>3, IdleStep DEF IInv, TypeOK
<1>4. CASE tm_transfer
  BY <1>1, <1>2, <1>3, <1>4, IssueOK, HandledOK DEF tm_transfer
<1>5. CASE tm_error
  <2>1. {"PROLOG_FAILURE", "EPILOG_FAILURE", "SAVEAS_HOT_DONE"} \subseteq LcmActions
    BY DEF LcmActions, Events
  <2>2. QueuesOK(queue')
    BY <1>1, <1>2, <1>5, <2>1, HandledToOK DEF tm_error
  <2>3. QED BY <1>1, <1>3, <1>5, <2>2 DEF tm_error
<1>6. CASE tm_driver_cancel
  BY <1>1, <1>2, <1>3, <1>6, HandledOK, AnswerOK DEF tm_driver_cancel
<1>7. CASE tm_answer
  <2>1. DriversOK(driver') BY <1>1, <1>2, <1>7, AnswerOK DEF tm_answer, tm_answered
  <2>2. QueuesOK(queue') BY <1>1, <1>7, AnswerLists, TriggerOK DEF tm_answer, tm_answered
  <2>3. QED BY <1>3, <2>1, <2>2
<1>8. CASE tm_driver_lost
  BY <1>1, <1>2, <1>3, <1>8, AnswerOK DEF tm_driver_lost
<1>9. QED BY <1>4, <1>5, <1>6, <1>7, <1>8 DEF TmStep, TmCommand

(* A step of a request or of the DM on a VM that may be still waiting for  *)
(* a host: the VM keeps its record, and one that has none goes on waiting. *)
LEMMA WaitingStep ==
  ASSUME IInv, vm' \in VirtualMachine, vm'.hist = vm.hist,
         /\ vm.state \in {"PENDING", "HOLD", "DONE"} /\ vm.lcm = "LCM_INIT"
           => vm'.state \in {"PENDING", "HOLD", "DONE"} /\ vm'.lcm = "LCM_INIT",
         capacity' \subseteq Hosts, QueuesOK(queue'), UNCHANGED driver,
         rm' \subseteq rm, locked' \in BOOLEAN, released' \in Nat
  PROVE  IInv'
<1>1. TypeOK' BY DEF IInv, TypeOK
<1>2. UnplacedWaits' BY DEF IInv, UnplacedWaits, Unplaced
<1>3. QED BY <1>1, <1>2 DEF IInv

(* A callback of the DM keeps the invariant.                               *)
LEMMA DmResultOK == ASSUME IInv, DmResult PROVE IInv'
<1>1. /\ UNCHANGED <<driver, rm>> /\ "DM" \in Managers
      /\ vm \in VirtualMachine /\ capacity \subseteq Hosts /\ QueuesOK(queue)
      /\ locked \in BOOLEAN /\ released \in Nat
  BY DEF DmResult, IInv, TypeOK, Managers
<1>2. CASE result_action
  <2>1. PICK a \in Results :
          /\ Dm(a) /\ Accepted(a) /\ Handled("DM") /\ UNCHANGED <<capacity, locked>>
          /\ vm' = [vm EXCEPT !.state = StateAfter(a), !.lcm = "LCM_INIT"]
          /\ released' = IF a = "DONE" THEN released + 1 ELSE released
    BY <1>2 DEF result_action
  <2>2. StateAfter(a) \in VmState BY Zenon, OtherNames DEF StateAfter, Results
  <2>3. QueuesOK(queue') BY <1>1, <2>1, HandledOK DEF Dm
  <2>4. vm.lcm # "LCM_INIT"
    <3>1. "LCM_INIT" \notin ReportedIn(a) BY Zenon DEF ReportedIn, Results
    <3>2. QED BY <2>1, <3>1 DEF Accepted
  <2>5. vm' \in PlacedVM BY <2>1, <2>2, <2>4, Placed, SetState, SetLcm, LcmNames, Zenon
  <2>6. released' \in Nat BY <1>1, <2>1
  <2>7. LeavesPlaced BY <1>1, <2>1, <2>3, <2>5 DEF LeavesPlaced
  <2>8. QED BY <1>1, <2>1, <2>6, <2>7, PlacedStep DEF IInv, TypeOK
<1>3. CASE wrong_state_DM
  <2>1. QueuesOK(queue') BY <1>1, <1>3, HandledOK DEF wrong_state_DM, Dm
  <2>2. locked' \in BOOLEAN BY <1>3 DEF wrong_state_DM, LeavesLocked
  <2>3. QED BY <1>1, <1>3, <2>1, <2>2, IdleStep DEF wrong_state_DM, IInv, TypeOK
<1>4. QED BY <1>2, <1>3 DEF DmResult

(* What the second halves of requests know of themselves.                  *)
LEMMA SecondHalves ==
  /\ \A r \in RmType : r.step \in HostSteps => r.hid \in Hosts
  /\ \A s \in HostSteps, h \in Hosts : RmStep(s, h) \in RmType /\ RmStep(s, h).step = s
  /\ \A s \in RmSteps \ HostSteps : RmStep(s, NoHost) \in RmType /\ RmStep(s, NoHost).step = s
BY DEF RmType, RmStep, HostSteps, RmSteps

(* A request method of the DM keeps the invariant.                         *)
LEMMA DmRequestOK == ASSUME IInv, DmRequest PROVE IInv'
<1>1. /\ UNCHANGED <<driver, locked>>
      /\ vm \in VirtualMachine /\ capacity \subseteq Hosts /\ QueuesOK(queue)
      /\ DriversOK(driver) /\ rm \subseteq RmType
      /\ locked \in BOOLEAN /\ released \in Nat /\ released + 1 \in Nat
  BY DEF DmRequest, IInv, TypeOK
<1>2. /\ \A op \in RunningOps : op \in LcmActions
      /\ {"CANCEL", "RESTART", "RESTORE", "DELETE", "CLEAN"} \subseteq LcmActions
      /\ {"ATTACH", "ATTACH_NIC", "DETACH", "DETACH_NIC", "SNAPSHOT", "REBOOT"}
           \subseteq VmmActions
      /\ {"EPILOG_DELETE", "EPILOG_DELETE_STOP"} \subseteq TmActions
  BY DEF RunningOps, LcmActions, RunningRequests, VmmActions, Commands, TmActions,
         Scripts, EpilogScripts
<1>3. ASSUME NEW s \in RmSteps \ HostSteps, later(s)
      PROVE  rm' \subseteq RmType /\ \A r \in rm' \ rm : r.step = s
  BY <1>1, <1>3, SecondHalves DEF later
<1>4. ASSUME NEW op \in RunningOps, dm_running(op) PROVE IInv'
  BY <1>1, <1>2, <1>4, TriggerOK, IdleStep DEF dm_running
<1>5. CASE cancel
  <2>1. "CANCEL" \in RmSteps \ HostSteps BY DEF RmSteps, HostSteps
  <2>2. QED
    BY <1>1, <1>3, <1>5, <2>1, IdleStep DEF cancel, AttachSteps
<1>6. ASSUME NEW op \in RmSteps \ HostSteps, NEW lcm \in LcmState, hotplug(op, lcm)
      PROVE  IInv'
  <2>1. vm' \in PlacedVM BY <1>6, Placed, SetLcm DEF hotplug, is
  <2>2. LeavesPlaced BY <1>1, <1>6, <2>1 DEF LeavesPlaced, hotplug
  <2>3. QED BY <1>1, <1>3, <1>6, <2>2, PlacedStep DEF hotplug
<1>7. CASE attach \/ detach \/ attach_nic \/ detach_nic \/ snapshot
  <2>1. {"ATTACH", "DETACH", "ATTACH_NIC", "DETACH_NIC", "SNAPSHOT"}
          \subseteq RmSteps \ HostSteps
    BY DEF RmSteps, HostSteps
  <2>2. QED
    BY <1>6, <1>7, <2>1, LcmNames DEF attach, detach, attach_nic, detach_nic, snapshot
<1>8. CASE attach_failed
  <2>1. PICK r \in rm : /\ r.step \in AttachSteps
                        /\ vm' = [vm EXCEPT !.lcm = "RUNNING"] /\ rm' = rm \ {r}
                        /\ UNCHANGED <<capacity, queue, released>>
    BY <1>8 DEF attach_failed, AttachSteps
  <2>2. vm.hist.hid # NoHost
    BY <2>1 DEF IInv, UnplacedWaits, Unplaced
  <2>3. vm \in PlacedVM BY <1>1, <2>2 DEF PlacedVM, VirtualMachine, History
  <2>4. vm' \in PlacedVM BY <2>1, <2>3, SetLcm, LcmNames
  <2>5. LeavesPlaced BY <1>1, <2>1, <2>4 DEF LeavesPlaced
  <2>6. QED BY <1>1, <2>1, <2>5, PlacedStep
<1>9. CASE late_trigger
  <2>1. PICK r \in rm :
          /\ r.step \in {"ATTACH", "ATTACH_NIC", "DETACH", "DETACH_NIC",
                         "SNAPSHOT", "CANCEL"}
          /\ trigger(TriggerOf(r.step), <<r.step>>) /\ rm' = rm \ {r}
          /\ UNCHANGED <<vm, capacity, released>>
    BY <1>9 DEF late_trigger
  <2>2. QueuesOK(queue') BY <1>1, <1>2, <2>1, TriggerOK DEF TriggerOf
  <2>3. QED BY <1>1, <2>1, <2>2, IdleStep
<1>10. CASE reboot \/ restart
  BY <1>1, <1>2, <1>10, TriggerOK, IdleStep DEF reboot, restart
<1>11. ASSUME NEW s \in {"PENDING", "HOLD"}, vm' = [vm EXCEPT !.state = s],
              UNCHANGED <<capacity, queue, rm, released>>
       PROVE  IInv'
  <2>1. vm' \in VirtualMachine BY <1>1, <1>11, OtherNames DEF VirtualMachine
  <2>2. vm'.hist = vm.hist /\ vm'.state = s /\ vm'.lcm = vm.lcm
    BY <1>1, <1>11 DEF VirtualMachine
  <2>3. QED BY <1>1, <1>11, <2>1, <2>2, WaitingStep
<1>12. CASE hold \/ release BY <1>11, <1>12 DEF hold, release, hold_release
<1>13. CASE resume
  <2>1. CASE vm.state \in {"STOPPED", "UNDEPLOYED"}
    BY <1>11, <1>13, <2>1 DEF resume
  <2>2. CASE vm.state \notin {"STOPPED", "UNDEPLOYED"}
    BY <1>1, <1>2, <1>13, <2>2, TriggerOK, IdleStep DEF resume
  <2>3. QED BY <2>1, <2>2
<1>14. ASSUME NEW s \in {"PENDING", "DONE"},
              vm' = [vm EXCEPT !.lcm = "LCM_INIT", !.state = s],
              capacity' \subseteq Hosts, QueuesOK(queue'), released' \in Nat,
              UNCHANGED rm
       PROVE  IInv'
  <2>1. vm' \in VirtualMachine
    BY <1>1, <1>14, LcmNames, OtherNames DEF VirtualMachine
  <2>2. vm'.hist = vm.hist /\ vm'.state = s /\ vm'.lcm = "LCM_INIT"
    BY <1>1, <1>14 DEF VirtualMachine
  <2>3. QED BY <1>1, <1>14, <2>1, <2>2, WaitingStep
<1>15. CASE finalize
  <2>1. CASE vm.state = "ACTIVE"
    BY <1>1, <1>2, <1>15, <2>1, TriggerOK, IdleStep DEF finalize
  <2>2. CASE vm.state # "ACTIVE"
    <3>1. vm' = [vm EXCEPT !.lcm = "LCM_INIT", !.state = "DONE"] /\ UNCHANGED rm
      BY <1>15, <2>2 DEF finalize, finished
    <3>2. capacity' \subseteq Hosts BY <1>1, <1>15, <2>2 DEF finalize, del_capacity
    <3>3. QueuesOK(queue') BY <1>1, <1>2, <1>15, <2>2, TriggerOK DEF finalize
    <3>4. released' \in Nat BY <1>1, <1>15, <2>2 DEF finalize, release_resources
    <3>5. QED BY <1>14, <3>1, <3>2, <3>3, <3>4
  <2>3. QED BY <2>1, <2>2
<1>16. CASE resubmit
  <2>1. CASE vm.state = "ACTIVE"
    BY <1>1, <1>2, <1>16, <2>1, TriggerOK, IdleStep DEF resubmit
  <2>2. CASE vm.state = "FAILED"
    <3>1. vm' = [vm EXCEPT !.state = "ACTIVE", !.lcm = "CLEANUP_RESUBMIT"]
      BY <1>16, <2>2 DEF resubmit
    <3>2. vm \in PlacedVM BY <2>2, Placed
    <3>3. vm' \in PlacedVM BY <3>1, <3>2, SetState, SetLcm, LcmNames, OtherNames, Zenon
    <3>4. LeavesPlaced BY <1>1, <1>2, <1>16, <2>2, <3>3, TriggerOK DEF resubmit, LeavesPlaced
    <3>5. QED BY <1>1, <1>16, <3>4, PlacedStep DEF resubmit
  <2>3. CASE vm.state \in {"HOLD", "STOPPED", "UNDEPLOYED"}
    <3>1. vm' = [vm EXCEPT !.lcm = "LCM_INIT", !.state = "PENDING"]
      BY <1>1, <1>16, <2>3 DEF resubmit, VirtualMachine
    <3>2. UNCHANGED <<capacity, queue, rm, released>> BY <1>16, <2>3 DEF resubmit
    <3>3. QED BY <1>1, <1>14, <3>1, <3>2
  <2>4. QED BY <1>16, <2>1, <2>2, <2>3 DEF resubmit
<1>17. QED
  BY <1>4, <1>5, <1>7, <1>8, <1>9, <1>10, <1>12, <1>13, <1>15, <1>16 DEF DmRequest

(* A step of an XML-RPC method keeps the invariant.                        *)
LEMMA RmNextOK == ASSUME IInv, RmNext PROVE IInv'
<1>1. /\ UNCHANGED <<driver, locked, released>>
      /\ vm \in VirtualMachine /\ capacity \subseteq Hosts /\ QueuesOK(queue)
      /\ DriversOK(driver) /\ rm \subseteq RmType
      /\ locked \in BOOLEAN /\ released \in Nat
  BY DEF RmNext, IInv, TypeOK
<1>2. ASSUME NEW s \in RmSteps \ HostSteps
      PROVE  \A q : q \subseteq rm /\ rm' = q \cup {RmStep(s, NoHost)}
               => rm' \subseteq RmType /\ \A r \in rm' \ rm : r.step = s
  BY <1>1, <1>2, SecondHalves
<1>3. ASSUME NEW h \in Hosts, add_history_and_deploy(h), rm' \subseteq RmType
      PROVE  IInv'
  <2>1. add_history(vm, h) \in PlacedVM BY <1>1, AddHistory
  <2>2. add_history(vm, h).state = vm.state
    BY <1>1 DEF add_history, VirtualMachine
  <2>3. /\ [add_history(vm, h) EXCEPT !.state = "ACTIVE"] \in PlacedVM
        /\ [add_history(vm, h) EXCEPT !.state = @] \in PlacedVM
    BY <2>1, SetState, OtherNames DEF PlacedVM, VirtualMachine
  <2>4. vm' \in PlacedVM BY <1>3, <2>3 DEF add_history_and_deploy
  <2>5. "DEPLOY" \in LcmActions BY DEF LcmActions
  <2>6. QueuesOK(queue') BY <1>1, <1>3, <2>5, TriggerOK DEF add_history_and_deploy
  <2>7. LeavesPlaced BY <1>1, <1>3, <2>4, <2>6 DEF LeavesPlaced, add_history_and_deploy
  <2>8. QED BY <1>1, <1>3, <2>7, PlacedStep
<1>4. CASE rm_deploy BY <1>1, <1>3, <1>4 DEF rm_deploy
<1>5. ASSUME NEW s \in HostSteps, NEW h \in Hosts, rm' = rm \cup {RmStep(s, h)},
             UNCHANGED <<vm, capacity, queue>>
      PROVE  IInv'
  <2>1. rm' \subseteq RmType /\ \A r \in rm' \ rm : r.step = s
    BY <1>1, <1>5, SecondHalves
  <2>2. s \notin AttachSteps BY DEF HostSteps, AttachSteps
  <2>3. QED BY <1>1, <1>5, <2>1, <2>2, IdleStep
<1>6. CASE rm_deploy_enforce BY <1>5, <1>6 DEF rm_deploy_enforce, HostSteps
<1>7. CASE rm_deploy_locked
  BY <1>1, <1>3, <1>7, SecondHalves DEF rm_deploy_locked, HostSteps
<1>8. CASE rm_migrate BY <1>5, <1>8 DEF rm_migrate, HostSteps
<1>9. CASE rm_migrate_locked
  <2>1. PICK r \in rm :
          /\ r.step \in {"MIGRATE", "LIVE_MIGRATE"} /\ vm' = add_history(vm, r.hid)
          /\ trigger("LCM", <<r.step>>) \/ UNCHANGED queue
          /\ rm' = rm \ {r} /\ UNCHANGED capacity
    BY <1>9 DEF rm_migrate_locked, migrate
  <2>2. r.step \in LcmActions /\ r.hid \in Hosts
    BY <1>1, <2>1, SecondHalves DEF LcmActions, RunningRequests, HostSteps
  <2>3. LeavesPlaced
    BY <1>1, <2>1, <2>2, AddHistory, TriggerOK DEF LeavesPlaced
  <2>4. QED BY <1>1, <2>1, <2>3, PlacedStep
<1>10. CASE rm_savedisk
  <2>1. vm \in PlacedVM BY <1>10, Placed DEF rm_savedisk, Saveable, is
  <2>2. vm' \in PlacedVM
    BY <1>10, <2>1, SetState, SetLcm, LcmNames, OtherNames, Zenon
    DEF rm_savedisk, set_saveas_state
  <2>3. LeavesPlaced BY <1>1, <1>10, <2>2 DEF LeavesPlaced, rm_savedisk
  <2>4. "SAVEAS" \in RmSteps \ HostSteps BY DEF RmSteps, HostSteps
  <2>5. rm' \subseteq RmType BY <1>2, <1>10, <2>4 DEF rm_savedisk, later
  <2>6. QED BY <1>1, <2>3, <2>5, PlacedStep
<1>11. CASE rm_savedisk_allocated
  <2>1. "SAVEAS_IMAGE" \in RmSteps \ HostSteps BY DEF RmSteps, HostSteps
  <2>2. rm' \subseteq RmType /\ \A r \in rm' \ rm : r.step = "SAVEAS_IMAGE"
    BY <1>2, <1>11, <2>1 DEF rm_savedisk_allocated
  <2>3. QED
    BY <1>1, <1>11, <2>2, IdleStep DEF rm_savedisk_allocated, AttachSteps
<1>12. CASE rm_savedisk_undone
  <2>1. vm' = clear_saveas_state(vm) /\ rm' \subseteq rm /\ UNCHANGED <<capacity, queue>>
    BY <1>12 DEF rm_savedisk_undone
  <2>2. CASE vm.lcm = "LCM_INIT"
    <3>1. vm' = vm BY <2>1, <2>2, Zenon DEF clear_saveas_state
    <3>2. QED BY <1>1, <2>1, <3>1, IdleStep
  <2>3. CASE vm.lcm # "LCM_INIT"
    <3>1. LeavesPlaced BY <1>1, <2>1, <2>3, Placed, ClearSaveas DEF LeavesPlaced
    <3>2. QED BY <1>1, <2>1, <3>1, PlacedStep
  <2>4. QED BY <2>2, <2>3
<1>13. CASE rm_savedisk_hot
  <2>1. "SAVEAS_HOT" \in TmActions /\ "TM" \in Managers
    BY DEF TmActions, Scripts, Managers
  <2>2. QueuesOK(queue') BY <1>1, <1>13, <2>1, TriggerOK DEF rm_savedisk_hot
  <2>3. QED BY <1>1, <1>13, <2>2, IdleStep DEF rm_savedisk_hot
<1>14. CASE recover
  <2>1. CASE vm' = [vm EXCEPT !.lcm = "RUNNING"] /\ vm.state = "ACTIVE" /\ UNCHANGED queue
    <3>1. LeavesPlaced
      BY <1>1, <1>14, <2>1, Placed, SetLcm, LcmNames DEF LeavesPlaced, recover
    <3>2. QED BY <1>1, <1>14, <3>1, PlacedStep DEF recover
  <2>2. CASE UNCHANGED vm
    <3>1. {"DONE", "RESUBMIT", "FAILED"} \subseteq Results BY DEF Results
    <3>2. QueuesOK(queue') BY <1>1, <1>14, <2>2, <3>1, TriggerOK, AnswerLists DEF recover
    <3>3. QED BY <1>1, <1>14, <2>2, <3>2, IdleStep DEF recover
  <2>3. QED BY <1>14, <2>1, <2>2 DEF recover
<1>15. QED
  BY <1>4, <1>6, <1>7, <1>8, <1>9, <1>10, <1>11, <1>12, <1>13, <1>14 DEF RmNext

-----------------------------------------------------------------------------
(* The theorems *)

(* The invariant holds of a VM that has just been allocated.               *)
LEMMA InitOK == ASSUME Init PROVE IInv
<1>1. vm \in VirtualMachine /\ vm.state \in {"PENDING", "HOLD"} /\ vm.lcm = "LCM_INIT"
  BY OtherNames, LcmNames
  DEF Init, VirtualMachine, NoHistory, NewRecord, History
<1>2. \A S : <<>> \in Seq(S) OBVIOUS
<1>3. QueuesOK(queue) /\ DriversOK(driver)
  BY <1>2 DEF Init, QueuesOK, DriversOK, Managers, Drivers
<1>4. QED BY <1>1, <1>3 DEF Init, IInv, TypeOK, UnplacedWaits

(* No step breaks the invariant.                                           *)
LEMMA NextOK == ASSUME IInv, [Next]_vars PROVE IInv'
<1>1. CASE UNCHANGED vars
  BY <1>1 DEF vars, IInv, TypeOK, UnplacedWaits, Unplaced
<1>2. CASE Next
  BY <1>2, RmNextOK, DmRequestOK, DmResultOK, LcmStep, VmmStepOK, TmStepOK
  DEF Next, DriverLost
<1>3. QED BY <1>1, <1>2

(* The inductive invariant: the types, and that only a VM that waits, or   *)
(* that is done, has no history record.                                    *)
THEOREM Invariance == Spec => []IInv
BY InitOK, NextOK, PTL DEF Spec

(* Every manager finds in its queue only actions it has a handler for,     *)
(* every driver only its commands, and the shares only known hosts.        *)
THEOREM TypeCorrect == Spec => []TypeOK
<1>1. IInv => TypeOK BY DEF IInv
<1>2. QED BY <1>1, Invariance, PTL

(* No late answer, result or second half of a request puts a VM that was   *)
(* never given a host in a state whose handlers use its history record.    *)
THEOREM NeverUsesMissingRecord == Spec => []UnplacedWaits
<1>1. IInv => UnplacedWaits BY DEF IInv
<1>2. QED BY <1>1, Invariance, PTL

-----------------------------------------------------------------------------
(* What holds of the VM's two states and of the resources it gives back,   *)
(* for every set of requests without the attach operations.  Their second  *)
(* half makes a VM RUNNING without looking at its state, so that with them *)
(* the two states may come to disagree (a VM deleted during an attach that *)
(* fails).                                                                 *)
NoAttach == Requests \cap AttachSteps = {}

(* StatesAgree is what makes the handlers that look at one state alone     *)
(* right; ReleasedOnce needs it where the DM makes a VM DONE.              *)
SInv == /\ IInv
        /\ StatesAgree
        /\ ReleasedOnce
        /\ \A r \in rm : r.step \notin AttachSteps

-----------------------------------------------------------------------------
(* The states of a VM that a handler of the LCM leaves.                    *)
Alive(v) == \/ v.state = "ACTIVE"
            \/ v.state \in {"POWEROFF", "SUSPENDED"} /\ v.lcm = "LCM_INIT"

(* A new history record does not change the two states.                    *)
LEMMA HistoryKeepsStates ==
  ASSUME NEW v \in VirtualMachine
  PROVE  /\ \A h : add_history(v, h) = [v EXCEPT !.hist = NewRecord(h)]
                \/ add_history(v, h) = [v EXCEPT !.hist = NewRecord(h), !.prev = v.hist]
         /\ \A h : add_history(v, h).state = v.state /\ add_history(v, h).lcm = v.lcm
         /\ cp_history(v).state = v.state /\ cp_history(v).lcm = v.lcm
         /\ cp_previous_history(v).state = v.state
         /\ cp_previous_history(v).lcm = v.lcm
<1>1. \A h : \/ add_history(v, h) = [v EXCEPT !.hist = NewRecord(h)]
             \/ add_history(v, h) = [v EXCEPT !.hist = NewRecord(h), !.prev = v.hist]
  BY DEF add_history
<1>2. \A h : add_history(v, h).state = v.state /\ add_history(v, h).lcm = v.lcm
  BY <1>1 DEF VirtualMachine
<1>3. QED BY <1>1, <1>2 DEF cp_history, cp_previous_history

(* While the VM has an LCM state it is ACTIVE.                             *)
LEMMA ActiveStates ==
  ASSUME SInv, vm.lcm # "LCM_INIT"
  PROVE  vm.state = "ACTIVE" /\ vm \in VirtualMachine
BY DEF SInv, StatesAgree, IInv, TypeOK

(* So it is in each of the states that a handler names.                    *)
LEMMA AwaitedActive ==
  ASSUME SInv, vm.lcm \in PrologStates \cup BootStates \cup SaveStates \cup EpilogStates
                            \cup ShutdownStates \cup SaveasStates \cup HotplugStates
                            \cup CleanupStates \cup {"MIGRATE", "CANCEL", "RUNNING", "UNKNOWN"}
  PROVE  vm.state = "ACTIVE" /\ vm \in VirtualMachine
<1>1. vm.lcm # "LCM_INIT"
  BY DEF PrologStates, BootStates, SaveStates, EpilogStates, ShutdownStates,
         SaveasStates, HotplugStates, CleanupStates
<1>2. QED BY <1>1, ActiveStates

(* clear_saveas_state leaves a VM that was ACTIVE in an agreeing state.    *)
LEMMA ClearSaveasAlive ==
  ASSUME NEW v \in VirtualMachine, v.state = "ACTIVE"
  PROVE  Alive(clear_saveas_state(v))
<1>1. /\ Alive([v EXCEPT !.lcm = "RUNNING"])
      /\ Alive([v EXCEPT !.state = "POWEROFF", !.lcm = "LCM_INIT"])
      /\ Alive([v EXCEPT !.state = "SUSPENDED", !.lcm = "LCM_INIT"])
      /\ Alive(v)
  BY DEF Alive, VirtualMachine
<1>2. QED BY <1>1, Zenon DEF clear_saveas_state

(* A request the LCM accepts finds a VM that is not DONE and leaves one.   *)
LEMMA LcmRequestAlive ==
  ASSUME SInv, LcmRequest
  PROVE  vm.state # "DONE" /\ Alive(vm')
<1>. vm \in VirtualMachine BY DEF SInv, IInv, TypeOK
<1>1. CASE deploy_action
  BY <1>1 DEF deploy_action, Alive, VirtualMachine
<1>2. ASSUME NEW a, NEW lcm, NEW action, NEW cmd, leave_running(a, lcm, action, cmd)
      PROVE  vm.state # "DONE" /\ Alive(vm')
  BY <1>2 DEF leave_running, is, Alive, VirtualMachine
<1>3. CASE \/ suspend_action \/ stop_action \/ shutdown_action \/ cancel_action
           \/ undeploy_action \/ poweroff_action
  BY <1>2, <1>3 DEF suspend_action, stop_action, shutdown_action, cancel_action,
                    undeploy_action, poweroff_action
<1>4. CASE migrate_action \/ live_migrate_action
  BY <1>4 DEF migrate_action, live_migrate_action, leave_host, is, Alive, VirtualMachine
<1>5. CASE restore_action
  <2>1. cp_history(vm) \in PlacedVM BY <1>5, Placed, CpHistory DEF restore_action, SInv
  <2>2. QED BY <1>5, <2>1 DEF restore_action, Alive, PlacedVM, VirtualMachine
<1>6. CASE restart_action
  <2>1. cp_history(vm) \in PlacedVM
    BY <1>6, Placed, CpHistory DEF restart_action, CanRestart, SInv
  <2>2. CASE vm.state = "POWEROFF"
    <3>1. vm' = [cp_history(vm) EXCEPT !.state = "ACTIVE", !.lcm = "BOOT_POWEROFF"]
      BY <1>6, <2>2, Zenon DEF restart_action, is
    <3>2. QED BY <2>1, <2>2, <3>1 DEF Alive, PlacedVM, VirtualMachine
  <2>3. CASE vm.state = "ACTIVE"
    <3>1. vm' = [vm EXCEPT !.lcm = "BOOT_UNKNOWN"] \/ vm' = vm
      BY <1>6, <2>3, Zenon DEF restart_action, is
    <3>2. QED BY <2>3, <3>1 DEF Alive, VirtualMachine
  <2>4. QED BY <1>6, <2>2, <2>3 DEF restart_action, CanRestart
<1>7. CASE delete_action \/ clean_action
  BY <1>7 DEF delete_action, clean_action, clean_up_vm, Alive, VirtualMachine
<1>8. QED BY <1>1, <1>3, <1>4, <1>5, <1>6, <1>7, Zenon DEF LcmRequest

(* So does an answer the LCM accepts.                                      *)
LEMMA LcmAnswerAlive ==
  ASSUME SInv, LcmAnswer
  PROVE  vm.state # "DONE" /\ Alive(vm')
<1>1. ASSUME vm.state = "ACTIVE", vm \in VirtualMachine, back_to_previous_host
      PROVE  Alive(vm')
  <2>. DEFINE v == [vm EXCEPT !.lcm = "RUNNING", !.hist.reason = "ERROR",
                              !.prev.reason = "USER"]
  <2>1. /\ [vm EXCEPT !.lcm = "RUNNING"] \in PlacedVM
        /\ [vm EXCEPT !.lcm = "RUNNING"].state = "ACTIVE"
    BY <1>1, Placed, SetLcm, LcmNames DEF SInv, VirtualMachine
  <2>2. v \in VirtualMachine
    BY <2>1, SetReason, OtherNames, Zenon DEF PlacedVM
  <2>3. v.state = "ACTIVE" BY <1>1 DEF VirtualMachine
  <2>4. QED BY <1>1, <2>2, <2>3, HistoryKeepsStates DEF back_to_previous_host, Alive
<1>2. ASSUME vm.state = "ACTIVE", vm \in VirtualMachine,
             \/ back_to_running \/ failure_action \/ powered_off
             \/ \E lcm, cmd : to_epilog(lcm, cmd)
      PROVE  Alive(vm')
  BY <1>2 DEF back_to_running, failure_action, powered_off, to_epilog, Alive,
              VirtualMachine
<1>3. CASE save_success_action
  <2>1. vm.state = "ACTIVE" /\ vm \in VirtualMachine
    BY <1>3, AwaitedActive DEF save_success_action, SaveStates
  <2>2. QED BY <1>3, <2>1 DEF save_success_action, Alive, VirtualMachine
<1>4. CASE save_failure_action
  BY <1>1, <1>2, <1>4, AwaitedActive DEF save_failure_action, SaveStates
<1>5. CASE deploy_success_action
  <2>1. vm.state = "ACTIVE" /\ vm \in VirtualMachine
    BY <1>5, AwaitedActive DEF deploy_success_action
  <2>2. QED BY <1>5, <2>1 DEF deploy_success_action, Alive, VirtualMachine
<1>6. CASE deploy_failure_action
  <2>1. vm.state = "ACTIVE" /\ vm \in VirtualMachine
    BY <1>6, AwaitedActive DEF deploy_failure_action, BootStates
  <2>2. /\ Alive([vm EXCEPT !.lcm = "UNKNOWN"])
        /\ Alive([vm EXCEPT !.state = "POWEROFF", !.lcm = "LCM_INIT"])
        /\ Alive([vm EXCEPT !.state = "SUSPENDED", !.lcm = "LCM_INIT"])
        /\ Alive(vm)
    BY <2>1 DEF Alive, VirtualMachine
  <2>3. CASE back_to_previous_host \/ failure_action BY <1>1, <1>2, <2>1, <2>3
  <2>4. CASE vm.lcm \in {"BOOT_UNKNOWN", "BOOT_POWEROFF", "BOOT_SUSPENDED"}
    BY <1>6, <2>1, <2>2, <2>4, Zenon DEF deploy_failure_action
  <2>5. CASE vm.lcm \in {"BOOT_STOPPED", "BOOT_UNDEPLOY"}
    <3>1. vm' = [vm EXCEPT !.lcm = IF vm.lcm = "BOOT_STOPPED" THEN "EPILOG_STOP"
                                                              ELSE "EPILOG_UNDEPLOY",
                           !.hist.reason = "ERROR"]
      BY <1>6, <2>5, Zenon DEF deploy_failure_action
    <3>2. QED BY <2>1, <3>1 DEF Alive, VirtualMachine
  <2>6. QED BY <1>6, <2>1, <2>3, <2>4, <2>5, Zenon DEF deploy_failure_action
<1>7. CASE shutdown_success_action \/ cancel_success_action
  BY <1>2, <1>7, AwaitedActive
  DEF shutdown_success_action, cancel_success_action, ShutdownStates
<1>8. CASE shutdown_failure_action \/ cancel_failure_action
  BY <1>2, <1>8, AwaitedActive
  DEF shutdown_failure_action, cancel_failure_action, ShutdownStates
<1>9. CASE cleanup_callback_action
  BY <1>9, ActiveStates DEF cleanup_callback_action, Alive
<1>10. ASSUME NEW a, NEW lcm \in HotplugStates, hotplug_end(a, lcm)
       PROVE  vm.state # "DONE" /\ Alive(vm')
  BY <1>10, AwaitedActive DEF hotplug_end, Alive, VirtualMachine
<1>11. CASE attach_end \/ attach_nic_end \/ snapshot_end
  BY <1>10, <1>11 DEF attach_end, attach_nic_end, snapshot_end, HotplugStates
<1>12. CASE saveas_hot_end
  BY <1>12, AwaitedActive, ClearSaveasAlive DEF saveas_hot_end
<1>13. CASE prolog_success_action
  <2>1. vm.state = "ACTIVE" /\ vm \in VirtualMachine
    BY <1>13, AwaitedActive DEF prolog_success_action
  <2>2. \A l : Alive([vm EXCEPT !.lcm = l]) BY <2>1 DEF Alive, VirtualMachine
  <2>3. QED BY <1>13, <2>1, <2>2, Zenon DEF prolog_success_action
<1>14. CASE prolog_failure_action
  <2>1. vm.state = "ACTIVE" /\ vm \in VirtualMachine
    BY <1>14, AwaitedActive DEF prolog_failure_action, PrologStates
  <2>2. Alive([vm EXCEPT !.hist.reason = "ERROR"])
    BY <2>1 DEF Alive, VirtualMachine
  <2>3. QED BY <1>2, <1>14, <2>1, <2>2 DEF prolog_failure_action
<1>15. CASE epilog_success_action
  BY <1>15, AwaitedActive DEF epilog_success_action, CleanupStates, Alive
<1>16. CASE epilog_failure_action
  BY <1>2, <1>16, AwaitedActive DEF epilog_failure_action, CleanupStates, Alive
<1>17. CASE monitor_failure_action
  BY <1>2, <1>17, AwaitedActive DEF monitor_failure_action
<1>18. CASE monitor_suspend_action
  BY <1>18, AwaitedActive DEF monitor_suspend_action, Alive, VirtualMachine
<1>19. CASE monitor_done_action
  BY <1>19, AwaitedActive DEF monitor_done_action, Alive, VirtualMachine
<1>20. QED
  BY <1>3, <1>4, <1>5, <1>6, <1>7, <1>8, <1>9, <1>11, <1>12, <1>13, <1>14, <1>15,
     <1>16, <1>17, <1>18, <1>19, Zenon
  DEF LcmAnswer

-----------------------------------------------------------------------------
(* Whole steps *)

(* A step that neither gives the resources back nor makes or unmakes a VM  *)
(* DONE, and leaves its states in agreement, keeps ReleasedOnce.           *)
LEMMA QuietStep ==
  ASSUME SInv, StatesAgree', released' = released,
         vm'.state = "DONE" <=> vm.state = "DONE",
         \A r \in rm' : r.step \notin AttachSteps, IInv'
  PROVE  SInv' /\ (vm.state = "DONE" => vm'.state = "DONE")
BY DEF SInv, ReleasedOnce

(* A step of the LCM keeps SInv.                                           *)
LEMMA LcmStates ==
  ASSUME SInv, LcmNext, IInv'
  PROVE  SInv' /\ (vm.state = "DONE" => vm'.state = "DONE")
<1>1. released' = released /\ \A r \in rm' : r.step \notin AttachSteps
  BY DEF LcmNext, SInv
<1>2. CASE LcmRequest \/ LcmAnswer
  BY <1>1, <1>2, LcmRequestAlive, LcmAnswerAlive, QuietStep DEF Alive, StatesAgree
<1>3. CASE wrong_state_LCM
  BY <1>1, <1>3, QuietStep DEF wrong_state_LCM, StatesAgree, SInv
<1>4. QED BY <1>2, <1>3 DEF LcmNext

(* The VMM, the TM and the drivers keep SInv.                              *)
LEMMA DriverStates ==
  ASSUME SInv, VmmStep \/ TmStep \/ DriverLost, IInv'
  PROVE  SInv' /\ (vm.state = "DONE" => vm'.state = "DONE")
<1>1. released' = released /\ \A r \in rm' : r.step \notin AttachSteps
  BY DEF VmmStep, TmStep, DriverLost, VmmFrame, TmFrame, SInv
<1>2. CASE UNCHANGED vm BY <1>1, <1>2, QuietStep DEF StatesAgree, SInv
<1>3. CASE ~UNCHANGED vm
  <2>1. vmm_poll_answer
    BY <1>3 DEF VmmStep, TmStep, DriverLost, TmFrame, VmmCommand, VmmAnswer,
                vmm_command, vmm_error, vmm_driver_cancel, vmm_answer, vmm_answered, vmm_timer,
                vmm_driver_lost
  <2>2. vm.lcm = "UNKNOWN" /\ vm' = [vm EXCEPT !.lcm = "RUNNING"]
    BY <1>3, <2>1 DEF vmm_poll_answer, vmm_poll_answered, PollAnswer
  <2>3. vm.state = "ACTIVE" /\ vm'.state = "ACTIVE"
    BY <2>2, ActiveStates DEF VirtualMachine
  <2>4. QED BY <1>1, <2>3, QuietStep DEF StatesAgree
<1>4. QED BY <1>2, <1>3

(* A callback of the DM keeps SInv: done_action alone gives back.          *)
LEMMA DmResultStates ==
  ASSUME SInv, DmResult, IInv'
  PROVE  SInv' /\ (vm.state = "DONE" => vm'.state = "DONE")
<1>1. /\ \A r \in rm' : r.step \notin AttachSteps
      /\ vm \in VirtualMachine
  BY DEF DmResult, SInv, IInv, TypeOK
<1>2. CASE result_action
  <2>1. PICK a \in Results :
          /\ Accepted(a)
          /\ vm' = [vm EXCEPT !.state = StateAfter(a), !.lcm = "LCM_INIT"]
          /\ released' = IF a = "DONE" THEN released + 1 ELSE released
    BY <1>2 DEF result_action
  <2>2. "LCM_INIT" \notin ReportedIn(a) BY Zenon DEF ReportedIn, Results
  <2>3. vm.state = "ACTIVE" BY <2>1, <2>2, ActiveStates DEF Accepted
  <2>4. StateAfter(a) = "DONE" <=> a = "DONE" BY Zenon DEF StateAfter, Results
  <2>5. vm'.state = StateAfter(a) /\ vm'.lcm = "LCM_INIT"
    BY <1>1, <2>1 DEF VirtualMachine
  <2>6. StatesAgree' /\ ReleasedOnce'
    BY <2>1, <2>3, <2>4, <2>5 DEF SInv, StatesAgree, ReleasedOnce
  <2>7. QED BY <1>1, <2>3, <2>6 DEF SInv
<1>3. CASE wrong_state_DM
  BY <1>1, <1>3, QuietStep DEF wrong_state_DM, StatesAgree, SInv
<1>4. QED BY <1>2, <1>3 DEF DmResult

(* A request method of the DM keeps SInv: finalize alone gives back.       *)
LEMMA DmRequestStates ==
  ASSUME SInv, NoAttach, DmRequest, IInv'
  PROVE  SInv' /\ (vm.state = "DONE" => vm'.state = "DONE")
<1>1. vm \in VirtualMachine BY DEF SInv, IInv, TypeOK
<1>2. ASSUME NEW s, later(s), s \notin AttachSteps
      PROVE  \A r \in rm' : r.step \notin AttachSteps
  BY <1>2 DEF later, RmStep, SInv
<1>3. ASSUME UNCHANGED <<vm, released>>, \A r \in rm' : r.step \notin AttachSteps
      PROVE  SInv' /\ (vm.state = "DONE" => vm'.state = "DONE")
  BY <1>3, QuietStep DEF StatesAgree, SInv
<1>4. CASE \/ \E op \in RunningOps : dm_running(op)
           \/ reboot \/ restart \/ late_trigger
  BY <1>3, <1>4 DEF dm_running, reboot, restart, late_trigger, SInv
<1>5. CASE cancel
  BY <1>2, <1>3, <1>5 DEF cancel, AttachSteps
<1>6. ASSUME NEW op, NEW lcm, hotplug(op, lcm)
      PROVE  SInv' /\ (vm.state = "DONE" => vm'.state = "DONE")
  <2>1. op \notin AttachSteps BY <1>6 DEF hotplug, Request, NoAttach
  <2>2. vm.state = "ACTIVE" /\ vm'.state = "ACTIVE"
    BY <1>1, <1>6 DEF hotplug, is, VirtualMachine
  <2>3. QED BY <1>2, <1>6, <2>1, <2>2, QuietStep DEF hotplug, StatesAgree
<1>7. CASE attach \/ detach \/ attach_nic \/ detach_nic \/ snapshot
  BY <1>6, <1>7 DEF attach, detach, attach_nic, detach_nic, snapshot
<1>8. CASE attach_failed
  BY <1>8 DEF attach_failed, SInv, AttachSteps
<1>9. CASE hold \/ release \/ resume \/ resubmit
  <2>1. UNCHANGED <<rm, released>>
    BY <1>9 DEF hold, release, hold_release, resume, resubmit
  <2>2. vm.state # "DONE" /\ vm'.state # "DONE" /\ StatesAgree'
    BY <1>1, <1>9
    DEF hold, release, hold_release, resume, resubmit, SInv, StatesAgree, VirtualMachine
  <2>3. QED BY <2>1, <2>2, QuietStep DEF SInv
<1>10. CASE finalize
  <2>1. CASE vm.state = "ACTIVE" BY <1>3, <1>10, <2>1 DEF finalize, SInv
  <2>2. CASE vm.state # "ACTIVE"
    <3>1. /\ vm.state # "DONE" /\ released' = released + 1 /\ UNCHANGED rm
          /\ vm'.state = "DONE" /\ vm'.lcm = "LCM_INIT"
      BY <1>1, <1>10, <2>2 DEF finalize, finished, release_resources, VirtualMachine
    <3>2. QED BY <3>1 DEF SInv, StatesAgree, ReleasedOnce
  <2>3. QED BY <2>1, <2>2
<1>11. QED BY <1>4, <1>5, <1>7, <1>8, <1>9, <1>10 DEF DmRequest

(* A step of an XML-RPC method keeps SInv.                                 *)
LEMMA RmNextStates ==
  ASSUME SInv, RmNext, IInv'
  PROVE  SInv' /\ (vm.state = "DONE" => vm'.state = "DONE")
<1>1. /\ vm \in VirtualMachine /\ released' = released
      /\ rm \subseteq RmType
  BY DEF SInv, IInv, TypeOK, RmNext
<1>2. \A r \in rm' : r.step \notin AttachSteps
  <2>1. \A s \in {"DEPLOY", "MIGRATE", "LIVE_MIGRATE", "SAVEAS", "SAVEAS_IMAGE"} : \A h :
          RmStep(s, h).step \notin AttachSteps
    BY DEF RmStep, AttachSteps
  <2>2. CASE rm' \subseteq rm BY <2>2 DEF SInv
  <2>3. CASE \E s \in {"DEPLOY", "MIGRATE", "LIVE_MIGRATE", "SAVEAS", "SAVEAS_IMAGE"} : \E h :
                rm' \subseteq rm \cup {RmStep(s, h)}
    BY <2>1, <2>3 DEF SInv
  <2>4. CASE \/ rm_deploy \/ rm_deploy_locked \/ rm_migrate_locked
             \/ rm_savedisk_undone \/ rm_savedisk_hot \/ recover
    BY <2>2, <2>4 DEF rm_deploy, rm_deploy_locked, rm_migrate_locked,
                      rm_savedisk_undone, rm_savedisk_hot, recover
  <2>5. CASE rm_deploy_enforce \/ rm_migrate
    BY <2>3, <2>5 DEF rm_deploy_enforce, rm_migrate
  <2>6. CASE rm_savedisk \/ rm_savedisk_allocated
    BY <2>3, <2>6 DEF rm_savedisk, rm_savedisk_allocated, later
  <2>7. QED BY <2>4, <2>5, <2>6 DEF RmNext
<1>3. ASSUME UNCHANGED vm
      PROVE  SInv' /\ (vm.state = "DONE" => vm'.state = "DONE")
  BY <1>1, <1>2, <1>3, QuietStep DEF StatesAgree, SInv
<1>4. CASE \/ rm_deploy_enforce \/ rm_migrate \/ rm_savedisk_allocated \/ rm_savedisk_hot
  BY <1>3, <1>4 DEF rm_deploy_enforce, rm_migrate, rm_savedisk_allocated, rm_savedisk_hot
<1>5. ASSUME NEW h, add_history_and_deploy(h)
      PROVE  SInv' /\ (vm.state = "DONE" => vm'.state = "DONE")
  <2>1. PICK v : /\ v = add_history(vm, h)
                 /\ v.state = vm.state /\ v.lcm = vm.lcm
                 /\ vm' = [v EXCEPT !.state = IF Deployable THEN "ACTIVE" ELSE @]
    BY <1>1, <1>5, HistoryKeepsStates DEF add_history_and_deploy
  <2>2. vm' \in VirtualMachine BY DEF IInv, TypeOK
  <2>3. vm'.lcm = vm.lcm /\ vm'.state = IF Deployable THEN "ACTIVE" ELSE vm.state
    BY <1>1, <2>1 DEF add_history, VirtualMachine
  <2>4. QED BY <1>1, <1>2, <2>3, QuietStep DEF Deployable, StatesAgree, SInv
<1>6. CASE rm_deploy \/ rm_deploy_locked
  BY <1>5, <1>6 DEF rm_deploy, rm_deploy_locked
<1>7. CASE rm_migrate_locked
  <2>1. vm'.lcm = vm.lcm /\ vm'.state = vm.state
    <3>1. PICK h : vm' = add_history(vm, h) BY <1>7 DEF rm_migrate_locked
    <3>2. QED BY <1>1, <3>1, HistoryKeepsStates
  <2>2. QED BY <1>1, <1>2, <2>1, QuietStep DEF StatesAgree, SInv
<1>8. CASE rm_savedisk
  <2>1. vm.state # "DONE" /\ vm'.state = "ACTIVE"
    BY <1>1, <1>8 DEF rm_savedisk, Saveable, is, set_saveas_state, VirtualMachine
  <2>2. QED BY <1>1, <1>2, <2>1, QuietStep DEF StatesAgree
<1>9. CASE rm_savedisk_undone
  <2>1. vm' = clear_saveas_state(vm) BY <1>9 DEF rm_savedisk_undone
  <2>2. CASE vm.lcm = "LCM_INIT"
    <3>1. vm' = vm BY <2>1, <2>2, Zenon DEF clear_saveas_state
    <3>2. QED BY <1>3, <3>1
  <2>3. CASE vm.lcm # "LCM_INIT"
    BY <1>1, <1>2, <2>1, <2>3, ActiveStates, ClearSaveasAlive, QuietStep
    DEF Alive, StatesAgree
  <2>4. QED BY <2>2, <2>3
<1>10. CASE recover
  <2>1. CASE UNCHANGED vm BY <1>3, <2>1
  <2>2. CASE ~UNCHANGED vm
    <3>1. vm.state = "ACTIVE" /\ vm'.state = "ACTIVE"
      BY <1>1, <1>10, <2>2 DEF recover, VirtualMachine
    <3>2. QED BY <1>1, <1>2, <3>1, QuietStep DEF StatesAgree
  <2>3. QED BY <2>1, <2>2
<1>11. QED BY <1>4, <1>6, <1>7, <1>8, <1>9, <1>10 DEF RmNext

-----------------------------------------------------------------------------
(* The theorems *)

(* SInv holds of a VM that has just been allocated.                        *)
LEMMA InitStates == ASSUME Init PROVE SInv
<1>1. IInv BY InitOK
<1>2. vm.state \in {"PENDING", "HOLD"} /\ vm.lcm = "LCM_INIT"
  BY DEF Init
<1>3. QED BY <1>1, <1>2 DEF Init, SInv, StatesAgree, ReleasedOnce

(* Without attach requests no step breaks SInv.                            *)
LEMMA NextStates ==
  ASSUME SInv, NoAttach, [Next]_vars
  PROVE  SInv' /\ (vm.state = "DONE" => vm'.state = "DONE")
<1>1. IInv' BY NextOK DEF SInv
<1>2. CASE UNCHANGED vars
  BY <1>1, <1>2 DEF vars, SInv, StatesAgree, ReleasedOnce
<1>3. CASE Next
  BY <1>1, <1>3, RmNextStates, DmRequestStates, DmResultStates, LcmStates, DriverStates
  DEF Next
<1>4. QED BY <1>2, <1>3

(* SInv is an invariant.                                                   *)
LEMMA StatesInvariance == ASSUME NoAttach PROVE Spec => []SInv
<1>1. SInv /\ [Next]_vars => SInv' BY NextStates
<1>2. QED BY <1>1, InitStates, PTL DEF Spec

(* The LCM state of a VM that is not ACTIVE is always LCM_INIT, so that    *)
(* handlers may look at one of the two states alone.                       *)
THEOREM StatesAlwaysAgree == ASSUME NoAttach PROVE Spec => []StatesAgree
<1>1. SInv => StatesAgree BY DEF SInv
<1>2. QED BY <1>1, StatesInvariance, PTL

(* The images, leases and quotas of a VM are given back exactly once, when *)
(* it becomes DONE, by whichever of finalize and done_action comes first.  *)
THEOREM ResourcesReleasedOnce == ASSUME NoAttach PROVE Spec => []ReleasedOnce
<1>1. SInv => ReleasedOnce BY DEF SInv
<1>2. QED BY <1>1, StatesInvariance, PTL

(* No late answer, report or request revives a VM that is DONE.            *)
THEOREM DoneStaysDone == ASSUME NoAttach PROVE Spec => DoneIsFinal
<1>1. SInv /\ [Next]_vars => [vm.state = "DONE" => vm'.state = "DONE"]_vars
  BY NextStates
<1>2. QED BY <1>1, StatesInvariance, PTL DEF Spec, DoneIsFinal

-----------------------------------------------------------------------------
(* What holds when requests come one at a time: MaxPending, the work that  *)
(* there may be when a user or a timer acts, is 1, so that each request    *)
(* finds a VM for which nothing is to be done.                             *)
OneAtATime == MaxPending <= 1

(* Where the work is: nowhere, with one manager, with one driver, or with  *)
(* one thread of a request.                                                *)
NoWork    == (\A m \in Managers : queue[m] = <<>>) /\ (\A d \in Drivers : driver[d] = <<>>)
Idle      == NoWork /\ rm = {}
Waiting(r) == NoWork /\ rm = {r}
Queued(m, a) == /\ \A n \in Managers : queue[n] = IF n = m THEN <<a>> ELSE <<>>
                /\ \A d \in Drivers : driver[d] = <<>>
                /\ rm = {}
Executing(d, c) == /\ \A m \in Managers : queue[m] = <<>>
                   /\ \A e \in Drivers : driver[e] = IF e = d THEN <<c>> ELSE <<>>
                   /\ rm = {}

(* An ACTIVE VM in the hands of a driver or of a request counts on its     *)
(* host, and on both hosts of a migration.                                 *)
Shares == capacity = IF TwoHosts THEN {vm.hist.hid, vm.prev.hid}
                     ELSE IF vm.lcm = "CLEANUP_RESUBMIT" THEN {} ELSE {vm.hist.hid}
InHand == /\ vm.state = "ACTIVE" /\ vm.lcm \notin {"LCM_INIT", "FAILURE", "CLEANUP_DELETE"}
          /\ Shares
          /\ TwoHosts => vm.hist.hid # vm.prev.hid
In(lcms) == InHand /\ vm.lcm \in lcms

(* No request is served: the VM rests, or it is ACTIVE and nobody works    *)
(* for it, since it is RUNNING or UNKNOWN or its command was lost.         *)
Off      == {"PENDING", "HOLD", "FAILED", "STOPPED", "UNDEPLOYED", "DONE"}
Resting(states) == /\ vm.state \in states /\ vm.lcm = "LCM_INIT"
                   /\ capacity = IF vm.state \in Off THEN {} ELSE {vm.hist.hid}
Quiet    == In({"RUNNING", "UNKNOWN"}) \/ (InHand /\ DriversDie)
AtRest   == Resting(Off \cup {"SUSPENDED", "POWEROFF"}) \/ Quiet

(* The state in which a request's thread, a command, a script, an action   *)
(* of the LCM and a report to the DM find the VM.                          *)
Begun(r) ==
  CASE r.step = "DEPLOY" -> Resting({"PENDING", "HOLD"})
    [] r.step \in {"MIGRATE", "LIVE_MIGRATE"} -> In({"RUNNING"}) /\ r.hid # vm.hist.hid
    [] r.step = "CANCEL" -> In({"RUNNING"})
    [] r.step \in {"ATTACH", "DETACH"} -> In({"HOTPLUG"})
    [] r.step \in {"ATTACH_NIC", "DETACH_NIC"} -> In({"HOTPLUG_NIC"})
    [] r.step = "SNAPSHOT" -> In({"HOTPLUG_SNAPSHOT"})
    [] r.step \in {"SAVEAS", "SAVEAS_IMAGE"} -> In(SaveasStates)

CleanUps == {"CLEANUP", "CLEANUP_BOTH", "CLEANUP_PREVIOUS"}
Removals == {"EPILOG_DELETE", "EPILOG_DELETE_STOP", "EPILOG_DELETE_BOTH"}

Commanded(c) ==
  CASE c \in {"DEPLOY", "RESTORE", "MIGRATE"} -> In(BootStates \cup {"MIGRATE"})
    [] c = "SAVE"     -> In(SaveStates)
    [] c = "SHUTDOWN" -> In(ShutdownStates)
    [] c = "CANCEL"   -> In({"CANCEL", "SHUTDOWN_UNDEPLOY", "SHUTDOWN_POWEROFF"})
    [] c \in {"ATTACH", "DETACH"} -> In({"HOTPLUG"})
    [] c \in {"ATTACH_NIC", "DETACH_NIC"} -> In({"HOTPLUG_NIC"})
    [] c = "SNAPSHOT" -> In({"HOTPLUG_SNAPSHOT"})
    [] c \in {"POLL", "REBOOT"} -> In({"RUNNING", "UNKNOWN"})
Scripted(s) ==
  CASE s \in PrologScripts -> In(PrologStates)
    [] s = "SAVEAS_HOT"    -> In(SaveasStates)
    [] OTHER               -> In(EpilogStates)

Asked(a) ==
  CASE a \in {"MIGRATE", "LIVE_MIGRATE"} ->
         is("ACTIVE", "RUNNING") /\ capacity = {vm.prev.hid} /\ vm.hist.hid # vm.prev.hid
    [] a \in RunningRequests \ {"MIGRATE", "LIVE_MIGRATE"} -> In({"RUNNING"})
    [] a = "DEPLOY"  -> is("ACTIVE", "LCM_INIT") /\ capacity = {}
    [] a = "RESTORE" -> Resting({"SUSPENDED"})
    [] a = "RESTART" -> Resting({"POWEROFF"}) \/ In(BootStates \cup {"UNKNOWN"})
    [] a \in {"DELETE", "CLEAN"} -> Quiet
    [] a = "MONITOR_DONE" -> In({"RUNNING", "UNKNOWN"})
    [] OTHER -> In(Awaited(a) \ {"CLEANUP_RESUBMIT"})
Reported(a) ==
  /\ vm.state = "ACTIVE" /\ vm.lcm \in ReportedIn(a)
  /\ capacity = IF a \in {"SUSPEND_SUCCESS", "POWEROFF_SUCCESS"} THEN {vm.hist.hid} ELSE {}

(* The cleaning of a deleted or resubmitted VM goes on beside the end of   *)
(* its life: it is one command at one place, and a cancellation before it  *)
(* (or without any command left, for a copy that was under way).           *)
NoneOr(s, t) == s = <<>> \/ s = t
Cancel   == <<"DRIVER_CANCEL">>
CleaningDone ==
  /\ queue["LCM"] = <<>> /\ queue["VMM"] = <<>> /\ NoneOr(queue["TM"], Cancel)
  /\ driver["TM"] = <<>> /\ driver["VMM"] = <<>> /\ rm = {}
CleaningVmm ==
  /\ NoneOr(queue["TM"], Cancel) /\ driver["TM"] = <<>> /\ rm = {}
  /\ \/ \E e \in {"CLEANUP_DONE", "EPILOG_SUCCESS", "EPILOG_FAILURE"} :
          queue["LCM"] = <<e>> /\ queue["VMM"] = <<>> /\ driver["VMM"] = <<>>
     \/ \E c \in CleanUps :
          /\ queue["LCM"] = <<>>
          /\ \/ queue["VMM"] \in {<<c>>, <<"DRIVER_CANCEL", c>>} /\ driver["VMM"] = <<>>
             \/ queue["VMM"] = <<>> /\ driver["VMM"] = <<c>>
CleaningTm ==
  /\ queue["LCM"] = <<>> /\ queue["VMM"] = <<>> /\ driver["VMM"] = <<>> /\ rm = {}
  /\ \E s \in Removals :
       \/ queue["TM"] \in {<<s>>, <<"DRIVER_CANCEL", s>>} /\ driver["TM"] = <<>>
       \/ queue["TM"] = <<>> /\ driver["TM"] = <<s>>
CleaningUp == CleaningVmm \/ CleaningTm

Cleaning ==
  /\ capacity = {}
  /\ \/ /\ is("ACTIVE", "CLEANUP_RESUBMIT")
        /\ \/ queue["DM"] = <<>> /\ (CleaningUp \/ (CleaningDone /\ DriversDie))
           \/ queue["DM"] = <<"RESUBMIT">> /\ CleaningDone
     \/ is("ACTIVE", "CLEANUP_DELETE") /\ queue["DM"] = <<"DONE">> /\ (CleaningUp \/ CleaningDone)
     \/ is("DONE", "LCM_INIT") /\ queue["DM"] = <<>> /\ (CleaningUp \/ CleaningDone)
     \/ is("PENDING", "LCM_INIT") /\ queue["DM"] = <<>> /\ CleaningDone

(* There is never work for two.                                            *)
OneJob ==
  \/ Idle /\ AtRest
  \/ \E r \in rm : Waiting(r) /\ Begun(r)
  \/ \E c \in Commands \ CleanUps : (Queued("VMM", c) \/ Executing("VMM", c)) /\ Commanded(c)
  \/ \E s \in Scripts \ Removals : (Queued("TM", s) \/ Executing("TM", s)) /\ Scripted(s)
  \/ \E a \in LcmActions : Queued("LCM", a) /\ Asked(a)
  \/ \E a \in Results : Queued("DM", a) /\ Reported(a)
  \/ Cleaning

SerialInv == IInv /\ ~locked /\ OneJob

-----------------------------------------------------------------------------
(* Where the work goes *)

(* Taking the head of a queue and appending to one, manager by manager.    *)
LEMMA QueueMoves ==
  ASSUME NEW q, QueuesOK(q), NEW m \in Managers
  PROVE  /\ Pop(q, m)[m] = Tail(q[m])
         /\ \A n \in Managers \ {m} : Pop(q, m)[n] = q[n]
         /\ \A acts : Push(q, m, acts)[m] = q[m] \o acts
         /\ \A acts : \A n \in Managers \ {m} : Push(q, m, acts)[n] = q[n]
         /\ q[m] # <<>> => QueuesOK(Pop(q, m))
BY PopOK DEF QueuesOK, Pop, Push

(* When the only work is taken nothing is queued, and one action that is   *)
(* then triggered is the only work.                                        *)
LEMMA EmptyQueues ==
  ASSUME NEW q, QueuesOK(q), NEW m \in Managers, NEW a,
         \A n \in Managers : q[n] = IF n = m THEN <<a>> ELSE <<>>
  PROVE  QueuesOK(Pop(q, m)) /\ \A n \in Managers : Pop(q, m)[n] = <<>>
<1>1. q[m] = <<a>> /\ Tail(<<a>>) = <<>> /\ <<a>> # <<>> OBVIOUS
<1>2. Pop(q, m)[m] = <<>> /\ QueuesOK(Pop(q, m)) BY <1>1, QueueMoves, Zenon
<1>3. ASSUME NEW n \in Managers, n # m PROVE Pop(q, m)[n] = <<>>
  <2>1. Pop(q, m)[n] = q[n] /\ q[n] = <<>> BY <1>3, QueueMoves
  <2>2. QED BY <2>1
<1>4. QED BY <1>2, <1>3

(* One action triggered on empty queues is the only one.                   *)
LEMMA OneAction ==
  ASSUME NEW q, QueuesOK(q), NEW m \in Managers, \A n \in Managers : q[n] = <<>>
  PROVE  /\ \A n \in Managers : Push(q, m, <<>>)[n] = <<>>
         /\ \A a : \A n \in Managers :
              Push(q, m, <<a>>)[n] = IF n = m THEN <<a>> ELSE <<>>
<1>1. (\A a : <<>> \o <<a>> = <<a>>) /\ <<>> \o <<>> = <<>> OBVIOUS
<1>2. ASSUME NEW n \in Managers, n # m, NEW s PROVE Push(q, m, s)[n] = <<>>
  <2>1. Push(q, m, s)[n] = q[n] /\ q[n] = <<>> BY <1>2, QueueMoves
  <2>2. QED BY <2>1
<1>3. ASSUME NEW a PROVE Push(q, m, <<a>>)[m] = <<a>>
  <2>1. \A acts : Push(q, m, acts)[m] = q[m] \o acts BY QueueMoves
  <2>2. QED BY <1>1, <2>1
<1>4. Push(q, m, <<>>)[m] = <<>>
  <2>1. Push(q, m, <<>>)[m] = q[m] \o <<>> BY QueueMoves
  <2>2. QED BY <1>1, <2>1
<1>5. QED BY <1>2, <1>3, <1>4

(* The work of a manager goes on to another one, or ends.                  *)
LEMMA JobHandled ==
  ASSUME QueuesOK(queue), NEW m \in Managers, NEW a, Queued(m, a),
         UNCHANGED <<driver, rm>>
  PROVE  /\ Handled(m) => Idle'
         /\ \A to \in Managers : \A b : HandledTo(m, to, <<b>>) => Queued(to, b)'
         /\ \A to \in Managers : HandledTo(m, to, <<>>) => Idle'
<1>1. QueuesOK(Pop(queue, m)) /\ \A n \in Managers : Pop(queue, m)[n] = <<>>
  BY EmptyQueues DEF Queued
<1>2. Handled(m) => Idle' BY <1>1 DEF Handled, Idle, NoWork, Queued
<1>3. ASSUME NEW to \in Managers, NEW b, HandledTo(m, to, <<b>>) PROVE Queued(to, b)'
  <2>1. \A n \in Managers : Push(Pop(queue, m), to, <<b>>)[n] = IF n = to THEN <<b>> ELSE <<>>
    BY <1>1, OneAction
  <2>2. QED BY <1>3, <2>1 DEF HandledTo, Queued
<1>4. ASSUME NEW to \in Managers, HandledTo(m, to, <<>>) PROVE Idle'
  <2>1. \A n \in Managers : Push(Pop(queue, m), to, <<>>)[n] = <<>>
    BY <1>1, OneAction
  <2>2. QED BY <1>4, <2>1 DEF HandledTo, Queued, Idle, NoWork
<1>5. QED BY <1>2, <1>3, <1>4

(* A request or a timer gives a manager work, or a thread, or a driver.    *)
LEMMA JobBegins ==
  ASSUME QueuesOK(queue), DriversOK(driver), Idle
  PROVE  /\ \A m \in Managers : \A a :
              trigger(m, <<a>>) /\ UNCHANGED <<driver, rm>> => Queued(m, a)'
         /\ \A r : rm' = rm \cup {r} /\ UNCHANGED <<queue, driver>> => Waiting(r)'
         /\ \A d \in Drivers : \A c :
              Issue(d, c) /\ UNCHANGED <<queue, rm>> => Executing(d, c)'
<1>1. \A b : Append(<<>>, b) = <<b>> OBVIOUS
<1>2. ASSUME NEW m \in Managers, NEW a, trigger(m, <<a>>), UNCHANGED <<driver, rm>>
      PROVE  Queued(m, a)'
  <2>1. \A n \in Managers : Push(queue, m, <<a>>)[n] = IF n = m THEN <<a>> ELSE <<>>
    BY OneAction DEF Idle, NoWork
  <2>2. QED BY <1>2, <2>1 DEF trigger, Queued, Idle, NoWork
<1>3. ASSUME NEW r, rm' = rm \cup {r}, UNCHANGED <<queue, driver>> PROVE Waiting(r)'
  BY <1>3 DEF Waiting, Idle, NoWork
<1>4. ASSUME NEW d \in Drivers, NEW c, Issue(d, c), UNCHANGED <<queue, rm>>
      PROVE  Executing(d, c)'
  <2>1. \A e \in Drivers : driver'[e] = IF e = d THEN <<c>> ELSE <<>>
    BY <1>1, <1>4 DEF Issue, Idle, NoWork, DriversOK
  <2>2. QED BY <1>4, <2>1 DEF Executing, Idle, NoWork
<1>5. QED BY <1>2, <1>3, <1>4

(* A thread that comes back ends, or leaves the work to a manager.         *)
LEMMA JobReturns ==
  ASSUME QueuesOK(queue), NEW r, Waiting(r), rm' = rm \ {r}, UNCHANGED driver
  PROVE  /\ UNCHANGED queue => Idle'
         /\ \A m \in Managers : \A a : trigger(m, <<a>>) => Queued(m, a)'
<1>1. rm' = {} BY DEF Waiting
<1>2. UNCHANGED queue => Idle' BY <1>1 DEF Waiting, Idle, NoWork
<1>3. ASSUME NEW m \in Managers, NEW a, trigger(m, <<a>>) PROVE Queued(m, a)'
  <2>1. \A n \in Managers : Push(queue, m, <<a>>)[n] = IF n = m THEN <<a>> ELSE <<>>
    BY OneAction DEF Waiting, NoWork
  <2>2. QED BY <1>1, <1>3, <2>1 DEF trigger, Queued, Waiting, NoWork
<1>4. QED BY <1>2, <1>3

(* A command goes from the manager to its driver.                          *)
LEMMA JobIssued ==
  ASSUME QueuesOK(queue), DriversOK(driver), NEW d \in Drivers, NEW c,
         Queued(d, c), Issue(d, c), Handled(d), UNCHANGED rm
  PROVE  Executing(d, c)'
<1>1. Append(<<>>, c) = <<c>> OBVIOUS
<1>2. d \in Managers BY DEF Managers, Drivers
<1>3. \A n \in Managers : queue'[n] = <<>>
  BY <1>2, EmptyQueues DEF Handled, Queued
<1>4. \A e \in Drivers : driver'[e] = IF e = d THEN <<c>> ELSE <<>>
  BY <1>1 DEF Issue, Queued, DriversOK
<1>5. QED BY <1>3, <1>4 DEF Executing, Queued

(* A driver with one command answers it: the work ends, or the LCM is told. *)
LEMMA JobAnswered ==
  ASSUME QueuesOK(queue), DriversOK(driver), NEW d \in Drivers, NEW c,
         Executing(d, c), NEW i \in 1..Len(driver[d]), Answer(d, i), UNCHANGED rm
  PROVE  /\ i = 1 /\ driver[d][i] = c
         /\ UNCHANGED queue => Idle'
         /\ trigger("LCM", <<>>) => Idle'
         /\ \A e : trigger("LCM", <<e>>) => Queued("LCM", e)'
<1>1. driver[d] = <<c>> BY DEF Executing
<1>2. i = 1 /\ driver[d][i] = c BY <1>1
<1>3. RemoveAt(<<c>>, 1) = <<>> BY DEF RemoveAt
<1>4. \A e \in Drivers : driver'[e] = <<>>
  BY <1>1, <1>2, <1>3 DEF Answer, Executing, DriversOK
<1>5. rm' = {} /\ \A m \in Managers : queue[m] = <<>> BY DEF Executing
<1>6. "LCM" \in Managers BY DEF Managers
<1>8. UNCHANGED queue => Idle' BY <1>4, <1>5 DEF Idle, NoWork
<1>9. ASSUME trigger("LCM", <<>>) PROVE Idle'
  <2>1. \A n \in Managers : queue'[n] = <<>>
    BY <1>5, <1>6, <1>9, OneAction DEF trigger
  <2>2. QED BY <1>4, <1>5, <2>1 DEF Idle, NoWork
<1>10. ASSUME NEW e, trigger("LCM", <<e>>) PROVE Queued("LCM", e)'
  <2>1. \A n \in Managers : queue'[n] = IF n = "LCM" THEN <<e>> ELSE <<>>
    BY <1>5, <1>6, <1>10, OneAction DEF trigger
  <2>2. QED BY <1>4, <1>5, <2>1 DEF Queued
<1>11. QED BY <1>2, <1>8, <1>9, <1>10

-----------------------------------------------------------------------------
(* Who works, and in what state the VM is then *)

(* In each place where there is work, what is there is the only work, or   *)
(* it is that of a cleaning.                                               *)
LEMMA Busy ==
  ASSUME SerialInv
  PROVE  /\ rm # {} => \E r \in rm : Waiting(r) /\ Begun(r)
         /\ queue["LCM"] # <<>> =>
              (\E a \in LcmActions : Queued("LCM", a) /\ Asked(a)) \/ Cleaning
         /\ queue["DM"] # <<>> =>
              (\E a \in Results : Queued("DM", a) /\ Reported(a)) \/ Cleaning
         /\ queue["VMM"] # <<>> =>
              \/ \E c \in Commands \ CleanUps : Queued("VMM", c) /\ Commanded(c)
              \/ Cleaning
         /\ queue["TM"] # <<>> =>
              \/ \E s \in Scripts \ Removals : Queued("TM", s) /\ Scripted(s)
              \/ Cleaning
         /\ driver["VMM"] # <<>> =>
              \/ \E c \in Commands \ CleanUps : Executing("VMM", c) /\ Commanded(c)
              \/ Cleaning
         /\ driver["TM"] # <<>> =>
              \/ \E s \in Scripts \ Removals : Executing("TM", s) /\ Scripted(s)
              \/ Cleaning
<1>. DEFINE Nowhere(m) == \A n \in Managers : n # m => queue[n] = <<>>
            Quiescent(d) == \A e \in Drivers : e # d => driver[e] = <<>>
<1>1. /\ Idle => Nowhere("") /\ Quiescent("") /\ rm = {}
      /\ \A r : Waiting(r) => Nowhere("") /\ Quiescent("")
      /\ \A m, a : Queued(m, a) => Nowhere(m) /\ Quiescent("") /\ rm = {}
      /\ \A d, c : Executing(d, c) => Nowhere("") /\ Quiescent(d) /\ rm = {}
      /\ Cleaning => rm = {}
  BY DEF Idle, NoWork, Waiting, Queued, Executing, Cleaning, CleaningUp, CleaningVmm,
         CleaningTm, CleaningDone
<1>2. {"LCM", "DM", "VMM", "TM"} = Managers /\ {"VMM", "TM"} = Drivers
  BY DEF Managers, Drivers
<1>3. QED BY <1>1, <1>2 DEF SerialInv, OneJob

(* What the LCM hears of a cleaning.                                       *)
CleaningAnswers == {"CLEANUP_DONE", "EPILOG_SUCCESS", "EPILOG_FAILURE"}

(* What the LCM takes: the only work there is, or the answer of a          *)
(* cleaning.                                                               *)
LEMMA LcmTurn ==
  ASSUME SerialInv, NEW a, Lcm(a)
  PROVE  \/ a \in LcmActions /\ Queued("LCM", a) /\ Asked(a)
         \/ a \in CleaningAnswers /\ Cleaning /\ queue["LCM"] = <<a>>
<1>1. queue["LCM"] # <<>> /\ Head(queue["LCM"]) = a BY DEF Lcm, Receive
<1>2. \A b : Head(<<b>>) = b OBVIOUS
<1>3. CASE \E b \in LcmActions : Queued("LCM", b) /\ Asked(b)
  BY <1>1, <1>2, <1>3 DEF Queued, Managers
<1>4. CASE Cleaning
  <2>1. \E e \in CleaningAnswers : queue["LCM"] = <<e>>
    BY <1>1, <1>4
    DEF Cleaning, CleaningUp, CleaningVmm, CleaningTm, CleaningDone, CleaningAnswers
  <2>2. QED BY <1>1, <1>2, <1>4, <2>1
<1>5. QED BY <1>1, <1>3, <1>4, Busy

(* What the DM takes: the only work there is, or the report of a cleaning. *)
LEMMA DmTurn ==
  ASSUME SerialInv, NEW a, Dm(a)
  PROVE  \/ a \in Results /\ Queued("DM", a) /\ Reported(a)
         \/ Cleaning /\ queue["DM"] = <<a>>
<1>1. queue["DM"] # <<>> /\ Head(queue["DM"]) = a BY DEF Dm, Receive
<1>2. \A b : Head(<<b>>) = b OBVIOUS
<1>3. CASE \E b \in Results : Queued("DM", b) /\ Reported(b)
  BY <1>1, <1>2, <1>3 DEF Queued, Managers
<1>4. CASE Cleaning
  <2>1. \E b : queue["DM"] = <<b>> BY <1>1, <1>4 DEF Cleaning
  <2>2. QED BY <1>1, <1>2, <1>4, <2>1
<1>5. QED BY <1>1, <1>3, <1>4, Busy

(* What the VMM takes: the only work there is, or part of a cleaning.      *)
LEMMA VmmTurn ==
  ASSUME SerialInv, NEW c, Receive("VMM", c)
  PROVE  \/ c \in Commands \ CleanUps /\ Queued("VMM", c) /\ Commanded(c)
         \/ Cleaning /\ CleaningVmm
<1>1. queue["VMM"] # <<>> /\ Head(queue["VMM"]) = c BY DEF Receive
<1>2. \A b : Head(<<b>>) = b OBVIOUS
<1>3. CASE \E b \in Commands \ CleanUps : Queued("VMM", b) /\ Commanded(b)
  BY <1>1, <1>2, <1>3 DEF Queued, Managers
<1>4. CASE Cleaning
  BY <1>1, <1>4 DEF Cleaning, CleaningUp, CleaningTm, CleaningDone
<1>5. QED BY <1>1, <1>3, <1>4, Busy

(* What the TM takes: the only work there is, or part of a cleaning.       *)
LEMMA TmTurn ==
  ASSUME SerialInv, NEW s, Receive("TM", s)
  PROVE  \/ s \in Scripts \ Removals /\ Queued("TM", s) /\ Scripted(s)
         \/ Cleaning
<1>1. queue["TM"] # <<>> /\ Head(queue["TM"]) = s BY DEF Receive
<1>2. \A b : Head(<<b>>) = b OBVIOUS
<1>3. CASE \E b \in Scripts \ Removals : Queued("TM", b) /\ Scripted(b)
  BY <1>1, <1>2, <1>3 DEF Queued, Managers
<1>4. QED BY <1>1, <1>3, Busy

(* The work there is after a step.                                         *)
LEMMA NextJob ==
  /\ Idle' /\ AtRest' => OneJob'
  /\ \A r : Waiting(r)' /\ Begun(r)' => OneJob'
  /\ \A c \in Commands \ CleanUps :
       (Queued("VMM", c)' \/ Executing("VMM", c)') /\ Commanded(c)' => OneJob'
  /\ \A s \in Scripts \ Removals :
       (Queued("TM", s)' \/ Executing("TM", s)') /\ Scripted(s)' => OneJob'
  /\ \A a \in LcmActions : Queued("LCM", a)' /\ Asked(a)' => OneJob'
  /\ \A a \in Results : Queued("DM", a)' /\ Reported(a)' => OneJob'
  /\ Cleaning' => OneJob'
<1>1. \A r : Waiting(r)' => r \in rm' BY DEF Waiting
<1>2. QED BY <1>1 DEF OneJob

-----------------------------------------------------------------------------
(* The VM while it is worked for *)

(* A VM on one host goes to another state in which it is on that host.     *)
TwoHostStates == {"MIGRATE", "SAVE_MIGRATE"}
Nowheres      == {"LCM_INIT", "FAILURE", "CLEANUP_DELETE", "CLEANUP_RESUBMIT"}

(* A VM on its host goes to another state in which it is in hand.          *)
LEMMA StaysOnHost ==
  ASSUME capacity' = {vm'.hist.hid}, vm'.state = "ACTIVE",
         vm'.lcm \notin Nowheres \cup TwoHostStates
  PROVE  InHand'
BY DEF InHand, Shares, TwoHosts, Nowheres, TwoHostStates

(* A VM that does not move counts on its host only.                        *)
LEMMA OnOneHost ==
  ASSUME InHand, vm.lcm \notin Nowheres \cup TwoHostStates
  PROVE  capacity = {vm.hist.hid} /\ vm.state = "ACTIVE"
BY DEF InHand, Shares, TwoHosts, Nowheres, TwoHostStates

(* A VM that moves counts on both hosts.                                   *)
LEMMA OnTwoHosts ==
  ASSUME InHand, vm.lcm \in TwoHostStates
  PROVE  /\ capacity = {vm.hist.hid, vm.prev.hid} /\ vm.state = "ACTIVE"
         /\ vm.hist.hid # vm.prev.hid
BY DEF InHand, Shares, TwoHosts, TwoHostStates

(* The assignments of the handlers, field by field.                        *)
LEMMA Fields ==
  ASSUME NEW v \in VirtualMachine
  PROVE  /\ \A l : LET w == [v EXCEPT !.lcm = l]
                   IN  w.lcm = l /\ w.state = v.state /\ w.hist = v.hist /\ w.prev = v.prev
         /\ \A s : LET w == [v EXCEPT !.state = s]
                   IN  w.lcm = v.lcm /\ w.state = s /\ w.hist = v.hist /\ w.prev = v.prev
         /\ \A r : LET w == [v EXCEPT !.hist.reason = r]
                   IN  /\ w.lcm = v.lcm /\ w.state = v.state /\ w.prev = v.prev
                       /\ w.hist.hid = v.hist.hid
         /\ \A r : LET w == [v EXCEPT !.prev.reason = r]
                   IN  /\ w.lcm = v.lcm /\ w.state = v.state /\ w.hist = v.hist
                       /\ w.prev.hid = v.prev.hid
         /\ \A l, r : LET w == [v EXCEPT !.lcm = l, !.hist.reason = r]
                      IN  /\ w.lcm = l /\ w.state = v.state /\ w.prev = v.prev
                          /\ w.hist.hid = v.hist.hid
         /\ \A l, r : LET w == [v EXCEPT !.lcm = l, !.hist.action = r]
                      IN  /\ w.lcm = l /\ w.state = v.state /\ w.prev = v.prev
                          /\ w.hist.hid = v.hist.hid
         /\ \A l, r : LET w == [v EXCEPT !.lcm = l, !.prev.reason = r]
                      IN  /\ w.lcm = l /\ w.state = v.state /\ w.hist = v.hist
                          /\ w.prev.hid = v.prev.hid
         /\ \A l, r : LET w == [v EXCEPT !.lcm = l, !.prev.action = r]
                      IN  /\ w.lcm = l /\ w.state = v.state /\ w.hist = v.hist
                          /\ w.prev.hid = v.prev.hid
BY DEF VirtualMachine, History

-----------------------------------------------------------------------------
(* The handlers of the LCM *)

(* A request leaves RUNNING, for the VMM to act.                           *)
LEMMA LeaveRunningJob ==
  ASSUME SerialInv, NEW a \in RunningRequests \ {"MIGRATE", "LIVE_MIGRATE"},
         NEW lcm, lcm \notin Nowheres \cup TwoHostStates,
         NEW action, NEW cmd, leave_running(a, lcm, action, cmd), UNCHANGED <<driver, rm>>
  PROVE  Queued("VMM", cmd)' /\ InHand' /\ vm'.lcm = lcm
<1>1. /\ Lcm(a) /\ is("ACTIVE", "RUNNING") /\ To("VMM", <<cmd>>) /\ UNCHANGED capacity
      /\ vm' = [vm EXCEPT !.lcm = lcm, !.hist.action = action]
  BY DEF leave_running
<1>2. a \notin CleaningAnswers BY DEF RunningRequests, CleaningAnswers
<1>3. Queued("LCM", a) /\ Asked(a) BY <1>1, <1>2, LcmTurn
<1>4. InHand BY <1>3, Zenon DEF Asked, In, RunningRequests
<1>5. vm \in VirtualMachine /\ QueuesOK(queue) BY DEF SerialInv, IInv, TypeOK
<1>6. /\ vm'.lcm = lcm /\ vm'.state = "ACTIVE" /\ vm'.hist.hid = vm.hist.hid
      /\ vm.lcm = "RUNNING"
  BY <1>1, <1>5, Fields DEF is
<1>7. InHand'
  BY <1>1, <1>4, <1>6, OnOneHost, StaysOnHost DEF Nowheres, TwoHostStates
<1>8. Queued("VMM", cmd)' BY <1>1, <1>3, <1>5, JobHandled DEF To, Managers
<1>9. QED BY <1>6, <1>7, <1>8

(* A migration, whose record of the new host is there.                     *)
LEMMA LeaveHostJob ==
  ASSUME SerialInv, NEW a \in {"MIGRATE", "LIVE_MIGRATE"},
         NEW lcm \in TwoHostStates, NEW cmd, leave_host(a, lcm, cmd),
         UNCHANGED <<driver, rm>>
  PROVE  Queued("VMM", cmd)' /\ InHand' /\ vm'.lcm = lcm
<1>1. /\ Lcm(a) /\ is("ACTIVE", "RUNNING") /\ To("VMM", <<cmd>>)
      /\ vm' = [vm EXCEPT !.lcm = lcm, !.prev.action = "OTHER"]
      /\ capacity' = capacity \cup {vm.hist.hid}
  BY DEF leave_host, add_capacity
<1>2. a \notin CleaningAnswers BY DEF CleaningAnswers
<1>3. Queued("LCM", a) /\ Asked(a) BY <1>1, <1>2, LcmTurn
<1>4. capacity = {vm.prev.hid} /\ vm.hist.hid # vm.prev.hid BY <1>3, Zenon DEF Asked
<1>5. vm \in VirtualMachine /\ QueuesOK(queue) BY DEF SerialInv, IInv, TypeOK
<1>6. /\ vm'.lcm = lcm /\ vm'.state = "ACTIVE" /\ vm'.hist.hid = vm.hist.hid
      /\ vm'.prev.hid = vm.prev.hid
  BY <1>1, <1>5, Fields DEF is
<1>7. InHand' BY <1>1, <1>4, <1>6 DEF InHand, Shares, TwoHosts, TwoHostStates
<1>8. Queued("VMM", cmd)' BY <1>1, <1>3, <1>5, JobHandled DEF To, Managers
<1>9. QED BY <1>6, <1>7, <1>8

(* Copying a record keeps the host.                                        *)
LEMMA CpHistoryKeepsHost ==
  ASSUME NEW v \in PlacedVM, NEW s, NEW l
  PROVE  LET w == [cp_history(v) EXCEPT !.state = s, !.lcm = l]
         IN  w.state = s /\ w.lcm = l /\ w.hist.hid = v.hist.hid
<1>1. cp_history(v) \in PlacedVM BY CpHistory
<1>2. cp_history(v).hist.hid = v.hist.hid
  BY DEF cp_history, add_history, NewRecord, PlacedVM, VirtualMachine, History
<1>3. QED BY <1>1, <1>2 DEF PlacedVM, VirtualMachine, History

(* A VM that is started where it is.                                       *)
LEMMA RestartJob ==
  ASSUME SerialInv, restore_action \/ restart_action, UNCHANGED <<driver, rm>>
  PROVE  OneJob'
<1>1. vm \in VirtualMachine /\ QueuesOK(queue) BY DEF SerialInv, IInv, TypeOK
<1>2. "RESTORE" \notin CleaningAnswers /\ "RESTART" \notin CleaningAnswers
  BY DEF CleaningAnswers
<1>3. {"RESTORE", "DEPLOY"} \subseteq Commands \ CleanUps BY DEF Commands, CleanUps
<1>4. ASSUME NEW c \in {"RESTORE", "DEPLOY"}, Queued("VMM", c)', InHand',
             vm'.lcm \in BootStates
      PROVE  OneJob'
  <2>1. Commanded(c)' BY <1>4, Zenon DEF Commanded, In
  <2>2. QED BY <1>3, <1>4, <2>1, NextJob
<1>5. CASE restore_action
  <2>1. /\ Lcm("RESTORE") /\ vm.state = "SUSPENDED" /\ To("VMM", <<"RESTORE">>)
        /\ vm' = [cp_history(vm) EXCEPT !.state = "ACTIVE", !.lcm = "BOOT_SUSPENDED"]
        /\ UNCHANGED capacity
    BY <1>5 DEF restore_action
  <2>2. Queued("LCM", "RESTORE") /\ Asked("RESTORE") BY <1>2, <2>1, LcmTurn
  <2>3. Resting({"SUSPENDED"}) BY <2>2, Zenon DEF Asked, RunningRequests
  <2>4. capacity = {vm.hist.hid} BY <2>1, <2>3 DEF Resting, Off
  <2>5. vm \in PlacedVM BY <2>1, Placed DEF SerialInv
  <2>6. vm'.state = "ACTIVE" /\ vm'.lcm = "BOOT_SUSPENDED" /\ vm'.hist.hid = vm.hist.hid
    BY <2>1, <2>5, CpHistoryKeepsHost
  <2>7. InHand' BY <2>1, <2>4, <2>6, StaysOnHost DEF Nowheres, TwoHostStates
  <2>8. Queued("VMM", "RESTORE")'
    BY <1>1, <2>1, <2>2, JobHandled DEF To, Managers
  <2>9. QED BY <1>4, <2>6, <2>7, <2>8 DEF BootStates
<1>6. CASE restart_action
  <2>1. /\ Lcm("RESTART") /\ CanRestart /\ To("VMM", <<"DEPLOY">>) /\ UNCHANGED capacity
        /\ vm' = CASE vm.state = "POWEROFF" ->
                      [cp_history(vm) EXCEPT !.state = "ACTIVE", !.lcm = "BOOT_POWEROFF"]
                 [] is("ACTIVE", "UNKNOWN") -> [vm EXCEPT !.lcm = "BOOT_UNKNOWN"]
                 [] OTHER -> vm
    BY <1>6 DEF restart_action
  <2>2. Queued("LCM", "RESTART") /\ Asked("RESTART") BY <1>2, <2>1, LcmTurn
  <2>3. Resting({"POWEROFF"}) \/ In(BootStates \cup {"UNKNOWN"})
    BY <2>2, Zenon DEF Asked, RunningRequests
  <2>4. capacity = {vm.hist.hid}
    BY <2>3, OnOneHost DEF Resting, Off, In, Nowheres, TwoHostStates, BootStates
  <2>5. Queued("VMM", "DEPLOY")'
    BY <1>1, <2>1, <2>2, JobHandled DEF To, Managers
  <2>6. /\ vm'.state = "ACTIVE" /\ vm'.hist.hid = vm.hist.hid
        /\ vm'.lcm \in BootStates
    <3>1. CASE vm.state = "POWEROFF"
      <4>1. vm' = [cp_history(vm) EXCEPT !.state = "ACTIVE", !.lcm = "BOOT_POWEROFF"]
        BY <2>1, <3>1, Zenon DEF is
      <4>2. vm \in PlacedVM BY <3>1, Placed DEF SerialInv
      <4>3. QED BY <4>1, <4>2, CpHistoryKeepsHost DEF BootStates
    <3>2. CASE vm.state # "POWEROFF"
      <4>1. vm.state = "ACTIVE" /\ vm.lcm \in BootStates \cup {"UNKNOWN"}
        BY <2>1, <3>2 DEF CanRestart
      <4>2. \/ vm' = [vm EXCEPT !.lcm = "BOOT_UNKNOWN"]
            \/ vm' = vm /\ vm.lcm # "UNKNOWN"
        BY <2>1, <3>2, <4>1, Zenon DEF is
      <4>3. CASE vm' = [vm EXCEPT !.lcm = "BOOT_UNKNOWN"]
        <5>1. vm'.lcm = "BOOT_UNKNOWN" /\ vm'.state = vm.state /\ vm'.hist = vm.hist
          BY <1>1, <4>3, Fields
        <5>2. QED BY <4>1, <5>1 DEF BootStates
      <4>4. CASE vm' = vm /\ vm.lcm # "UNKNOWN" BY <4>1, <4>4
      <4>5. QED BY <4>2, <4>3, <4>4
    <3>3. QED BY <3>1, <3>2
  <2>7. InHand'
    BY <2>1, <2>4, <2>6, StaysOnHost DEF Nowheres, TwoHostStates, BootStates
  <2>8. QED BY <1>4, <2>5, <2>6, <2>7
<1>7. QED BY <1>5, <1>6

(* clean_up_vm leaves one command at one place, after a cancellation, and  *)
(* for SHUTDOWN_UNDEPLOY none.                                             *)
LEMMA CleanUpJob ==
  ASSUME NEW q, QueuesOK(q), \A n \in Managers : q[n] = <<>>,
         NEW lcm \in LcmState \ Nowheres
  PROVE  LET p == clean_up_triggers(q, lcm)
         IN  /\ p["DM"] = <<>> /\ p["LCM"] = <<>>
             /\ \/ p["VMM"] = <<>> /\ \E s \in Removals : p["TM"] = <<"DRIVER_CANCEL", s>>
                \/ /\ \E c \in CleanUps : p["VMM"] = <<"DRIVER_CANCEL", c>>
                   /\ NoneOr(p["TM"], Cancel)
                \/ /\ p["VMM"] = <<>> /\ p["TM"] = <<>>
                   /\ lcm = "SHUTDOWN_UNDEPLOY"
<1>. DEFINE p == clean_up_triggers(q, lcm)
<1>1. {"DM", "LCM", "TM", "VMM"} = Managers BY DEF Managers
<1>2. ASSUME NEW m \in Managers, NEW acts \in Seq(AnyAction)
      PROVE  /\ Push(q, m, acts)[m] = acts
             /\ \A n \in Managers \ {m} : Push(q, m, acts)[n] = <<>>
  <2>1. \A s : Push(q, m, s)[m] = q[m] \o s BY QueueMoves
  <2>2. q[m] = <<>> /\ <<>> \o acts = acts OBVIOUS
  <2>3. ASSUME NEW n \in Managers \ {m} PROVE Push(q, m, acts)[n] = <<>>
    <3>1. Push(q, m, acts)[n] = q[n] /\ q[n] = <<>> BY QueueMoves
    <3>2. QED BY <3>1
  <2>4. Push(q, m, acts)[m] = acts
    <3>1. Push(q, m, acts)[m] = q[m] \o acts BY <2>1
    <3>2. QED BY <2>2, <3>1
  <2>5. QED BY <2>3, <2>4
<1>3. /\ {"DRIVER_CANCEL", "EPILOG_DELETE", "EPILOG_DELETE_BOTH", "CLEANUP",
          "CLEANUP_BOTH", "CLEANUP_PREVIOUS"} \subseteq AnyAction
      /\ \A x, y \in AnyAction : <<x, y>> \in Seq(AnyAction)
      /\ \A x \in AnyAction : <<x>> \in Seq(AnyAction)
  BY DEF AnyAction, TmActions, VmmActions, Scripts, EpilogScripts, Commands
<1>4. ASSUME NEW t \in {"EPILOG_DELETE", "EPILOG_DELETE_BOTH"},
             p = Push(q, "TM", <<"DRIVER_CANCEL", t>>)
      PROVE  /\ p["DM"] = <<>> /\ p["LCM"] = <<>> /\ p["VMM"] = <<>>
             /\ p["TM"] = <<"DRIVER_CANCEL", t>> /\ t \in Removals
  <2>1. <<"DRIVER_CANCEL", t>> \in Seq(AnyAction) /\ "TM" \in Managers
    BY <1>1, <1>3
  <2>2. /\ Push(q, "TM", <<"DRIVER_CANCEL", t>>)["TM"] = <<"DRIVER_CANCEL", t>>
        /\ \A n \in Managers \ {"TM"} : Push(q, "TM", <<"DRIVER_CANCEL", t>>)[n] = <<>>
    BY <1>2, <2>1
  <2>3. QED BY <1>1, <1>4, <2>2 DEF Removals
<1>5. ASSUME NEW c \in CleanUps, p = Push(q, "VMM", <<"DRIVER_CANCEL", c>>)
      PROVE  /\ p["DM"] = <<>> /\ p["LCM"] = <<>> /\ p["TM"] = <<>>
             /\ p["VMM"] = <<"DRIVER_CANCEL", c>>
  <2>1. <<"DRIVER_CANCEL", c>> \in Seq(AnyAction) /\ "VMM" \in Managers
    BY <1>1, <1>3 DEF CleanUps
  <2>2. /\ Push(q, "VMM", <<"DRIVER_CANCEL", c>>)["VMM"] = <<"DRIVER_CANCEL", c>>
        /\ \A n \in Managers \ {"VMM"} : Push(q, "VMM", <<"DRIVER_CANCEL", c>>)[n] = <<>>
    BY <1>2, <2>1
  <2>3. QED BY <1>1, <1>5, <2>2
<1>6. /\ lcm \in CleanedByTM => /\ lcm # "PROLOG_MIGRATE" /\ lcm \notin CleanedByVMM
                                /\ lcm \notin SaveasStates
                                /\ lcm # "MIGRATE" /\ lcm # "SAVE_MIGRATE"
      /\ lcm \in CleanedByVMM => /\ lcm # "PROLOG_MIGRATE" /\ lcm \notin SaveasStates
                                 /\ lcm # "MIGRATE" /\ lcm # "SAVE_MIGRATE"
      /\ lcm \in SaveasStates => /\ lcm # "PROLOG_MIGRATE"
                                 /\ lcm # "MIGRATE" /\ lcm # "SAVE_MIGRATE"
      /\ lcm = "SHUTDOWN_UNDEPLOY" => /\ lcm \notin CleanedByTM /\ lcm \notin CleanedByVMM
                                      /\ lcm \notin SaveasStates
  BY DEF CleanedByTM, CleanedByVMM, EpilogStates, PrologStates, BootStates,
         HotplugStates, SaveasStates
<1>7. CASE lcm \in CleanedByTM \/ lcm = "PROLOG_MIGRATE"
  <2>1. \E t \in {"EPILOG_DELETE", "EPILOG_DELETE_BOTH"} :
          p = Push(q, "TM", <<"DRIVER_CANCEL", t>>)
    BY <1>6, <1>7, Zenon DEF clean_up_triggers
  <2>2. QED BY <1>4, <2>1
<1>8. CASE lcm \in CleanedByVMM \/ lcm = "MIGRATE" \/ lcm = "SAVE_MIGRATE"
  <2>1. \E c \in CleanUps : p = Push(q, "VMM", <<"DRIVER_CANCEL", c>>)
    BY <1>6, <1>8, Zenon DEF clean_up_triggers, CleanUps
  <2>2. QED BY <1>5, <2>1 DEF NoneOr
<1>9. CASE lcm \in SaveasStates
  <2>1. p = Push(Push(q, "TM", <<"DRIVER_CANCEL">>), "VMM", <<"DRIVER_CANCEL", "CLEANUP">>)
    BY <1>6, <1>9, Zenon DEF clean_up_triggers
  <2>. DEFINE r == Push(q, "TM", <<"DRIVER_CANCEL">>)
  <2>2. /\ r["TM"] = <<"DRIVER_CANCEL">>
        /\ \A n \in Managers \ {"TM"} : r[n] = <<>>
    <3>1. <<"DRIVER_CANCEL">> \in Seq(AnyAction) /\ "TM" \in Managers BY <1>1, <1>3
    <3>2. QED BY <1>2, <3>1
  <2>3. QueuesOK(r)
    <3>1. <<"DRIVER_CANCEL">> \in Seq(TmActions) BY DEF TmActions
    <3>2. "TM" \in Managers BY <1>1
    <3>3. QED BY <3>1, <3>2, PushOK
  <2>. HIDE DEF r
  <2>4. /\ \A acts : Push(r, "VMM", acts)["VMM"] = r["VMM"] \o acts
        /\ \A acts : \A n \in Managers \ {"VMM"} : Push(r, "VMM", acts)[n] = r[n]
    BY <1>1, <2>3, QueueMoves
  <2>5. <<>> \o <<"DRIVER_CANCEL", "CLEANUP">> = <<"DRIVER_CANCEL", "CLEANUP">> OBVIOUS
  <2>6. p["VMM"] = <<"DRIVER_CANCEL", "CLEANUP">>
    <3>1. p["VMM"] = r["VMM"] \o <<"DRIVER_CANCEL", "CLEANUP">> BY <2>1, <2>4 DEF r
    <3>2. r["VMM"] = <<>> BY <1>1, <2>2
    <3>3. QED BY <2>5, <3>1, <3>2
  <2>7. p["TM"] = r["TM"] /\ p["DM"] = r["DM"] /\ p["LCM"] = r["LCM"]
    BY <1>1, <2>1, <2>4 DEF r
  <2>8. QED BY <1>1, <2>2, <2>6, <2>7 DEF CleanUps, NoneOr, Cancel
<1>10. CASE lcm = "SHUTDOWN_UNDEPLOY"
  <2>1. p = q BY <1>6, <1>10, Zenon DEF clean_up_triggers
  <2>2. QED BY <1>1, <1>10, <2>1
<1>11. \/ lcm \in CleanedByTM \/ lcm = "PROLOG_MIGRATE" \/ lcm \in CleanedByVMM
       \/ lcm \in SaveasStates \/ lcm = "MIGRATE" \/ lcm = "SAVE_MIGRATE"
       \/ lcm = "SHUTDOWN_UNDEPLOY"
  BY DEF LcmState, Nowheres, CleanupStates, CleanedByTM, CleanedByVMM, PrologStates,
         BootStates, SaveStates, EpilogStates, ShutdownStates,
         SaveasStates, HotplugStates
<1>12. QED BY <1>7, <1>8, <1>9, <1>10, <1>11

(* A deletion or a resubmission leaves the VM without a host, its cleaning *)
(* on the way, and a report to the DM where the VM is to be DONE.          *)
LEMMA DeleteJob ==
  ASSUME SerialInv, delete_action \/ clean_action, UNCHANGED <<driver, rm>>
  PROVE  OneJob'
<1>. DEFINE q == Pop(queue, "LCM")
<1>1. vm \in VirtualMachine /\ QueuesOK(queue) /\ vm.lcm \in LcmState
  BY DEF SerialInv, IInv, TypeOK, VirtualMachine
<1>2. PICK b \in {"DELETE", "CLEAN"} : Lcm(b)
  BY DEF delete_action, clean_action
<1>3. Queued("LCM", b) /\ Asked(b) BY <1>2, LcmTurn DEF CleaningAnswers
<1>4. Quiet BY <1>3, Zenon DEF Asked, RunningRequests
<1>5. InHand /\ (vm.lcm \notin {"RUNNING", "UNKNOWN"} => DriversDie)
  BY <1>4 DEF Quiet, In
<1>6. QueuesOK(q) /\ \A n \in Managers : q[n] = <<>>
  BY <1>1, <1>3, EmptyQueues DEF Queued, Managers
<1>7. driver'["TM"] = <<>> /\ driver'["VMM"] = <<>> /\ rm' = {}
  BY <1>3 DEF Queued, Drivers
<1>8. {"DM", "LCM", "TM", "VMM"} = Managers BY DEF Managers
<1>. HIDE DEF q
<1>9. CASE vm.lcm = "CLEANUP_RESUBMIT"
  <2>1. capacity = {} BY <1>5, <1>9 DEF InHand, Shares, TwoHosts
  <2>2. \A x : /\ Push(q, "DM", <<x>>)["DM"] = <<x>>
               /\ \A n \in Managers \ {"DM"} : Push(q, "DM", <<x>>)[n] = <<>>
    BY <1>6, <1>8, OneAction
  <2>3. PICK x \in {"DONE", "RESUBMIT"} :
          /\ queue' = Push(q, "DM", <<x>>) /\ UNCHANGED capacity
          /\ vm' = IF x = "DONE" THEN [vm EXCEPT !.lcm = "CLEANUP_DELETE"] ELSE vm
    BY <1>9 DEF delete_action, clean_action, To, HandledTo, CleanupStates, q
  <2>4. CleaningDone'
    BY <1>7, <1>8, <2>2, <2>3 DEF CleaningDone, NoneOr
  <2>5. vm.state = "ACTIVE" BY <1>5 DEF InHand
  <2>6. vm'.state = "ACTIVE"
        /\ vm'.lcm = IF x = "DONE" THEN "CLEANUP_DELETE" ELSE "CLEANUP_RESUBMIT"
    BY <1>1, <1>9, <2>3, <2>5, Fields
  <2>7. queue'["DM"] = <<x>> BY <2>2, <2>3
  <2>8. Cleaning' BY <2>1, <2>3, <2>4, <2>6, <2>7 DEF Cleaning, is
  <2>9. QED BY <2>8, NextJob
<1>10. CASE vm.lcm # "CLEANUP_RESUBMIT"
  <2>. DEFINE p == clean_up_triggers(q, vm.lcm)
  <2>1. vm.lcm \in LcmState \ Nowheres
    BY <1>1, <1>5, <1>10 DEF InHand, Nowheres
  <2>2. QueuesOK(p) BY <1>6, CleanUpTriggers
  <2>3. /\ p["DM"] = <<>> /\ p["LCM"] = <<>>
        /\ \/ p["VMM"] = <<>> /\ \E s \in Removals : p["TM"] = <<"DRIVER_CANCEL", s>>
           \/ /\ \E c \in CleanUps : p["VMM"] = <<"DRIVER_CANCEL", c>>
              /\ NoneOr(p["TM"], Cancel)
           \/ /\ p["VMM"] = <<>> /\ p["TM"] = <<>>
              /\ vm.lcm = "SHUTDOWN_UNDEPLOY"
    BY <1>6, <2>1, CleanUpJob
  <2>. HIDE DEF p
  <2>4. PICK l \in {"CLEANUP_DELETE", "CLEANUP_RESUBMIT"} :
          /\ clean_up_vm(l)
          /\ queue' = IF l = "CLEANUP_DELETE" THEN Push(p, "DM", <<"DONE">>) ELSE p
    BY <2>1 DEF delete_action, clean_action, Nowheres, CleanupStates, p, q
  <2>5. vm'.lcm = l /\ vm'.state = "ACTIVE"
    BY <1>1, <1>5, <2>4 DEF clean_up_vm, VirtualMachine, History, InHand
  <2>6. capacity' = {}
    <3>1. capacity' = capacity \ ({vm.hist.hid} \cup IF TwoHosts THEN {vm.prev.hid} ELSE {})
      BY <2>4 DEF clean_up_vm, clean_up_hosts
    <3>2. capacity = IF TwoHosts THEN {vm.hist.hid, vm.prev.hid} ELSE {vm.hist.hid}
      BY <1>5, <1>10 DEF InHand, Shares
    <3>3. QED BY <3>1, <3>2
  <2>7. /\ \A acts : Push(p, "DM", acts)["DM"] = p["DM"] \o acts
        /\ \A acts : \A n \in Managers \ {"DM"} : Push(p, "DM", acts)[n] = p[n]
    BY <1>8, <2>2, QueueMoves
  <2>8. <<>> \o <<"DONE">> = <<"DONE">> OBVIOUS
  <2>9. Push(p, "DM", <<"DONE">>)["DM"] = <<"DONE">>
    <3>1. Push(p, "DM", <<"DONE">>)["DM"] = p["DM"] \o <<"DONE">> BY <2>7
    <3>2. QED BY <2>3, <2>8, <3>1
  <2>10. /\ queue'["DM"] = IF l = "CLEANUP_DELETE" THEN <<"DONE">> ELSE <<>>
         /\ queue'["LCM"] = p["LCM"] /\ queue'["VMM"] = p["VMM"] /\ queue'["TM"] = p["TM"]
    BY <1>8, <2>3, <2>4, <2>7, <2>9
  <2>11. \/ CleaningUp'
         \/ CleaningDone' /\ vm.lcm = "SHUTDOWN_UNDEPLOY"
    <3>1. CASE p["VMM"] = <<>> /\ \E s \in Removals : p["TM"] = <<"DRIVER_CANCEL", s>>
      BY <1>7, <2>3, <2>10, <3>1 DEF CleaningUp, CleaningTm
    <3>2. CASE /\ \E c \in CleanUps : p["VMM"] = <<"DRIVER_CANCEL", c>>
               /\ NoneOr(p["TM"], Cancel)
      BY <1>7, <2>3, <2>10, <3>2 DEF CleaningUp, CleaningVmm, NoneOr, Cancel
    <3>3. CASE p["VMM"] = <<>> /\ p["TM"] = <<>> /\ vm.lcm = "SHUTDOWN_UNDEPLOY"
      BY <1>7, <2>3, <2>10, <3>3 DEF CleaningDone, NoneOr
    <3>4. QED BY <2>3, <3>1, <3>2, <3>3
  <2>12. Cleaning'
    BY <1>5, <2>5, <2>6, <2>10, <2>11 DEF Cleaning, is
  <2>13. QED BY <2>12, NextJob
<1>11. QED BY <1>9, <1>10

(* Every request the LCM accepts leaves one piece of work.                 *)
LEMMA LcmRequestJob ==
  ASSUME SerialInv, LcmRequest, UNCHANGED <<driver, rm>>
  PROVE  OneJob'
<1>1. vm \in VirtualMachine /\ QueuesOK(queue) BY DEF SerialInv, IInv, TypeOK
<1>2. CASE deploy_action
  <2>1. /\ Lcm("DEPLOY") /\ vm.state = "ACTIVE" /\ capacity' = capacity \cup {vm.hist.hid}
        /\ \E l \in {"PROLOG_RESUME", "PROLOG_UNDEPLOY", "PROLOG"} : vm' = [vm EXCEPT !.lcm = l]
        /\ \E s \in {"PROLOG_RESUME", "PROLOG"} : To("TM", <<s>>)
    BY <1>2 DEF deploy_action, add_capacity
  <2>2. Queued("LCM", "DEPLOY") /\ Asked("DEPLOY")
    BY <2>1, LcmTurn DEF CleaningAnswers
  <2>3. capacity = {} BY <2>2, Zenon DEF Asked, RunningRequests
  <2>4. vm'.state = "ACTIVE" /\ vm'.hist = vm.hist /\ vm'.lcm \in PrologStates
    BY <1>1, <2>1, Fields DEF PrologStates
  <2>5. InHand'
    BY <2>1, <2>3, <2>4, StaysOnHost DEF PrologStates, Nowheres, TwoHostStates
  <2>6. PICK s \in {"PROLOG_RESUME", "PROLOG"} : Queued("TM", s)'
    BY <1>1, <2>1, <2>2, JobHandled DEF To, Managers
  <2>7. s \in PrologScripts BY DEF PrologScripts
  <2>8. Scripted(s)' BY <2>4, <2>5, <2>7, Zenon DEF Scripted, In
  <2>9. s \in Scripts \ Removals BY <2>7 DEF Scripts, PrologScripts, Removals
  <2>10. QED BY <2>6, <2>8, <2>9, NextJob
<1>3. ASSUME NEW c \in {"SAVE", "SHUTDOWN", "CANCEL", "MIGRATE"}, Queued("VMM", c)', InHand',
             c = "SAVE" => vm'.lcm \in SaveStates,
             c = "SHUTDOWN" => vm'.lcm \in ShutdownStates,
             c = "CANCEL" => vm'.lcm \in {"CANCEL", "SHUTDOWN_UNDEPLOY", "SHUTDOWN_POWEROFF"},
             c = "MIGRATE" => vm'.lcm = "MIGRATE"
      PROVE  OneJob'
  <2>1. Commanded(c)'
    <3>1. CASE c = "SAVE" BY <1>3, <3>1, Zenon DEF Commanded, In
    <3>2. CASE c = "SHUTDOWN" BY <1>3, <3>2, Zenon DEF Commanded, In
    <3>3. CASE c = "CANCEL" BY <1>3, <3>3, Zenon DEF Commanded, In
    <3>4. CASE c = "MIGRATE"
      <4>1. vm'.lcm \in BootStates \cup {"MIGRATE"} BY <1>3, <3>4
      <4>2. QED BY <1>3, <3>4, <4>1, Zenon DEF Commanded, In
    <3>5. QED BY <3>1, <3>2, <3>3, <3>4
  <2>2. c \in Commands \ CleanUps BY DEF Commands, CleanUps
  <2>3. QED BY <1>3, <2>1, <2>2, NextJob
<1>4. CASE suspend_action
  <2>1. Queued("VMM", "SAVE")' /\ InHand' /\ vm'.lcm = "SAVE_SUSPEND"
    BY <1>4, LeaveRunningJob DEF suspend_action, RunningRequests, Nowheres, TwoHostStates
  <2>2. QED BY <1>3, <2>1 DEF SaveStates
<1>5. CASE stop_action
  <2>1. Queued("VMM", "SAVE")' /\ InHand' /\ vm'.lcm = "SAVE_STOP"
    BY <1>5, LeaveRunningJob DEF stop_action, RunningRequests, Nowheres, TwoHostStates
  <2>2. QED BY <1>3, <2>1 DEF SaveStates
<1>6. CASE shutdown_action
  <2>1. Queued("VMM", "SHUTDOWN")' /\ InHand' /\ vm'.lcm = "SHUTDOWN"
    BY <1>6, LeaveRunningJob DEF shutdown_action, RunningRequests, Nowheres, TwoHostStates
  <2>2. QED BY <1>3, <2>1 DEF ShutdownStates
<1>7. CASE cancel_action
  <2>1. Queued("VMM", "CANCEL")' /\ InHand' /\ vm'.lcm = "CANCEL"
    BY <1>7, LeaveRunningJob DEF cancel_action, RunningRequests, Nowheres, TwoHostStates
  <2>2. QED BY <1>3, <2>1
<1>8. CASE undeploy_action
  <2>1. /\ Queued("VMM", "SHUTDOWN")' \/ Queued("VMM", "CANCEL")'
        /\ InHand' /\ vm'.lcm = "SHUTDOWN_UNDEPLOY"
    BY <1>8, LeaveRunningJob DEF undeploy_action, RunningRequests, Nowheres, TwoHostStates
  <2>2. QED BY <1>3, <2>1 DEF ShutdownStates
<1>9. CASE poweroff_action
  <2>1. /\ Queued("VMM", "SHUTDOWN")' \/ Queued("VMM", "CANCEL")'
        /\ InHand' /\ vm'.lcm = "SHUTDOWN_POWEROFF"
    BY <1>9, LeaveRunningJob DEF poweroff_action, RunningRequests, Nowheres, TwoHostStates
  <2>2. QED BY <1>3, <2>1 DEF ShutdownStates
<1>10. CASE migrate_action
  <2>1. Queued("VMM", "SAVE")' /\ InHand' /\ vm'.lcm = "SAVE_MIGRATE"
    BY <1>10, LeaveHostJob DEF migrate_action, TwoHostStates
  <2>2. QED BY <1>3, <2>1 DEF SaveStates
<1>11. CASE live_migrate_action
  <2>1. Queued("VMM", "MIGRATE")' /\ InHand' /\ vm'.lcm = "MIGRATE"
    BY <1>11, LeaveHostJob DEF live_migrate_action, TwoHostStates
  <2>2. QED BY <1>3, <2>1
<1>12. CASE restore_action \/ restart_action BY <1>12, RestartJob
<1>13. CASE delete_action \/ clean_action BY <1>13, DeleteJob
<1>14. QED
  BY <1>2, <1>4, <1>5, <1>6, <1>7, <1>8, <1>9, <1>10, <1>11, <1>12, <1>13, Zenon
  DEF LcmRequest

-----------------------------------------------------------------------------
(* The answers *)

(* An event finds a VM that awaits it.                                     *)
LEMMA AskedEvent ==
  ASSUME NEW e \in Events, Asked(e)
  PROVE  IF e = "MONITOR_DONE" THEN In({"RUNNING", "UNKNOWN"})
                               ELSE In(Awaited(e) \ {"CLEANUP_RESUBMIT"})
<1>1. /\ e \notin RunningRequests
      /\ e \notin {"MIGRATE", "LIVE_MIGRATE", "DEPLOY", "RESTORE", "RESTART", "DELETE", "CLEAN"}
  BY DEF Events, RunningRequests
<1>2. CASE e = "MONITOR_DONE" BY <1>1, <1>2, Zenon DEF Asked
<1>3. CASE e # "MONITOR_DONE" BY <1>1, <1>3, Zenon DEF Asked
<1>4. QED BY <1>2, <1>3

(* An event that finds the VM in anybody's hands is the only work.         *)
LEMMA EventTurn ==
  ASSUME SerialInv, NEW e \in Events, Lcm(e), vm.lcm \notin Nowheres
  PROVE  /\ Queued("LCM", e) /\ InHand /\ vm.state = "ACTIVE"
         /\ vm \in PlacedVM /\ vm \in VirtualMachine /\ vm.hist.hid \in Hosts
         /\ QueuesOK(queue)
<1>1. ~Cleaning BY DEF Cleaning, is, Nowheres
<1>2. Queued("LCM", e) /\ Asked(e) BY <1>1, LcmTurn
<1>3. InHand BY <1>2, AskedEvent DEF In
<1>4. vm \in PlacedVM /\ vm.hist.hid \in Hosts BY Placed DEF SerialInv, Nowheres
<1>5. QED BY <1>2, <1>3, <1>4 DEF InHand, PlacedVM, SerialInv, IInv, TypeOK

(* The work after an answer.                                               *)
LEMMA ReportJob ==
  ASSUME NEW a \in Results, Queued("DM", a)', vm'.state = "ACTIVE", vm'.lcm \in ReportedIn(a),
         capacity' = IF a \in {"SUSPEND_SUCCESS", "POWEROFF_SUCCESS"}
                       THEN {vm'.hist.hid} ELSE {}
  PROVE  OneJob'
<1>1. Reported(a)' BY Zenon DEF Reported
<1>2. QED BY <1>1, NextJob

(* Polling asked of the VMM finds the VM RUNNING or UNKNOWN.               *)
LEMMA PollJob ==
  ASSUME Queued("VMM", "POLL")', InHand', vm'.lcm \in {"RUNNING", "UNKNOWN"}
  PROVE  OneJob'
<1>1. Commanded("POLL")' BY Zenon DEF Commanded, In
<1>2. "POLL" \in Commands \ CleanUps BY DEF Commands, CleanUps
<1>3. QED BY <1>1, <1>2, NextJob

(* An epilog asked of the TM finds the VM in a state of the epilog.        *)
LEMMA EpilogJob ==
  ASSUME NEW s \in {"EPILOG", "EPILOG_STOP"}, Queued("TM", s)', InHand',
         vm'.lcm \in EpilogStates
  PROVE  OneJob'
<1>1. s \notin PrologScripts /\ s # "SAVEAS_HOT" BY DEF PrologScripts
<1>2. Scripted(s)' BY <1>1, Zenon DEF Scripted, In
<1>3. s \in Scripts \ Removals BY DEF Scripts, EpilogScripts, Removals
<1>4. QED BY <1>2, <1>3, NextJob

(* A VM that is RUNNING or UNKNOWN rests when nothing is to be done.       *)
LEMMA RunsIdle ==
  ASSUME Idle', InHand', vm'.lcm \in {"RUNNING", "UNKNOWN"}
  PROVE  OneJob'
<1>1. AtRest' BY DEF AtRest, Quiet, In
<1>2. QED BY <1>1, NextJob

(* So does one that is SUSPENDED or POWEROFF on its host.                  *)
LEMMA RestsIdle ==
  ASSUME Idle', vm'.state \in {"SUSPENDED", "POWEROFF"}, vm'.lcm = "LCM_INIT",
         capacity' = {vm'.hist.hid}
  PROVE  OneJob'
<1>1. AtRest' BY DEF AtRest, Resting, Off
<1>2. QED BY <1>1, NextJob

(* A failed migration takes the VM back, a failed command leaves it.       *)
LEMMA BackToPreviousJob ==
  ASSUME SerialInv, NEW e \in Events, Lcm(e), vm.lcm \in TwoHostStates,
         back_to_previous_host, UNCHANGED <<driver, rm>>
  PROVE  OneJob'
<1>1. vm.lcm \notin Nowheres BY DEF Nowheres, TwoHostStates
<1>2. /\ Queued("LCM", e) /\ InHand /\ vm.state = "ACTIVE"
      /\ vm \in VirtualMachine /\ vm.hist.hid \in Hosts /\ QueuesOK(queue)
  BY <1>1, EventTurn
<1>3. capacity = {vm.hist.hid, vm.prev.hid} /\ vm.hist.hid # vm.prev.hid
  BY <1>2, OnTwoHosts
<1>4. vm.prev.hid \in Hosts BY <1>3 DEF SerialInv, IInv, TypeOK
<1>. DEFINE v == [vm EXCEPT !.lcm = "RUNNING", !.hist.reason = "ERROR",
                            !.prev.reason = "USER"]
<1>5. /\ v.lcm = "RUNNING" /\ v.state = "ACTIVE" /\ v \in VirtualMachine
      /\ v.hist.hid = vm.hist.hid /\ v.prev.hid = vm.prev.hid
  <2>1. v \in PlacedVM
    BY <1>2, SetLcm, SetReason, LcmNames, OtherNames, Zenon DEF PlacedVM
  <2>2. QED BY <1>2, <2>1 DEF PlacedVM, VirtualMachine, History
<1>. HIDE DEF v
<1>6. /\ vm' = cp_previous_history(v) /\ capacity' = capacity \ {vm.hist.hid}
      /\ To("VMM", <<"POLL">>)
  BY DEF back_to_previous_host, del_capacity, v
<1>7. vm' = add_history(v, vm.prev.hid)
  BY <1>2, <1>4, <1>5, <1>6, HostsAssumption DEF cp_previous_history
<1>8. vm'.lcm = "RUNNING" /\ vm'.state = "ACTIVE"
  BY <1>5, <1>7, HistoryKeepsStates
<1>9. vm'.hist.hid = vm.prev.hid
  BY <1>5, <1>7 DEF add_history, NewRecord, VirtualMachine, History
<1>10. capacity' = {vm'.hist.hid} BY <1>3, <1>6, <1>9
<1>11. InHand' BY <1>8, <1>10, StaysOnHost DEF Nowheres, TwoHostStates
<1>12. Queued("VMM", "POLL")' BY <1>2, <1>6, JobHandled DEF To, Managers
<1>13. QED BY <1>8, <1>11, <1>12, PollJob

(* A command that failed takes the VM back to RUNNING.                     *)
LEMMA BackToRunningJob ==
  ASSUME SerialInv, NEW e \in Events, Lcm(e), vm.lcm \notin Nowheres \cup TwoHostStates,
         back_to_running, UNCHANGED <<driver, rm>>
  PROVE  OneJob'
<1>1. /\ Queued("LCM", e) /\ InHand /\ vm.state = "ACTIVE"
      /\ vm \in VirtualMachine /\ QueuesOK(queue)
  BY EventTurn
<1>2. /\ vm' = [vm EXCEPT !.lcm = "RUNNING", !.hist.action = "NONE"]
      /\ To("VMM", <<"POLL">>) /\ UNCHANGED capacity
  BY DEF back_to_running
<1>3. vm'.lcm = "RUNNING" /\ vm'.state = "ACTIVE" /\ vm'.hist.hid = vm.hist.hid
  BY <1>1, <1>2, Fields
<1>4. InHand'
  BY <1>1, <1>2, <1>3, OnOneHost, StaysOnHost DEF Nowheres, TwoHostStates
<1>5. Queued("VMM", "POLL")' BY <1>1, <1>2, JobHandled DEF To, Managers
<1>6. QED BY <1>3, <1>4, <1>5, PollJob

(* A VM that failed has left its host.                                     *)
LEMMA FailureJob ==
  ASSUME SerialInv, NEW e \in Events, Lcm(e), vm.lcm \notin Nowheres \cup TwoHostStates,
         failure_action, UNCHANGED <<driver, rm>>
  PROVE  OneJob'
<1>1. /\ Queued("LCM", e) /\ InHand /\ vm.state = "ACTIVE"
      /\ vm \in VirtualMachine /\ QueuesOK(queue)
  BY EventTurn
<1>2. /\ vm' = [vm EXCEPT !.lcm = "FAILURE", !.hist.reason = "ERROR"]
      /\ To("DM", <<"FAILED">>) /\ capacity' = capacity \ {vm.hist.hid}
  BY DEF failure_action, del_capacity
<1>3. vm'.lcm = "FAILURE" /\ vm'.state = "ACTIVE" BY <1>1, <1>2, Fields
<1>4. capacity' = {} BY <1>1, <1>2, OnOneHost
<1>5. Queued("DM", "FAILED")' BY <1>1, <1>2, JobHandled DEF To, Managers
<1>6. "FAILED" \in Results /\ ReportedIn("FAILED") = {"FAILURE"}
      /\ "FAILED" \notin {"SUSPEND_SUCCESS", "POWEROFF_SUCCESS"}
  BY Zenon DEF Results, ReportedIn
<1>7. QED BY <1>3, <1>4, <1>5, <1>6, ReportJob

(* The guest is down.                                                      *)
LEMMA DownJob ==
  ASSUME SerialInv, NEW e \in Events, Lcm(e), vm.lcm \notin Nowheres \cup TwoHostStates,
         UNCHANGED <<driver, rm>>,
         \/ \E lcm \in EpilogStates, cmd \in {"EPILOG", "EPILOG_STOP"} : to_epilog(lcm, cmd)
         \/ vm.lcm = "SHUTDOWN_POWEROFF" /\ powered_off
  PROVE  OneJob'
<1>1. /\ Queued("LCM", e) /\ InHand /\ vm.state = "ACTIVE"
      /\ vm \in VirtualMachine /\ QueuesOK(queue)
  BY EventTurn
<1>2. capacity = {vm.hist.hid} BY <1>1, OnOneHost
<1>3. ASSUME NEW lcm \in EpilogStates, NEW cmd \in {"EPILOG", "EPILOG_STOP"},
             to_epilog(lcm, cmd)
      PROVE  OneJob'
  <2>1. /\ vm' = [vm EXCEPT !.lcm = lcm, !.hist.reason = "USER"]
        /\ To("TM", <<cmd>>) /\ UNCHANGED capacity
    BY <1>3 DEF to_epilog
  <2>2. vm'.lcm = lcm /\ vm'.state = "ACTIVE" /\ vm'.hist.hid = vm.hist.hid
    BY <1>1, <2>1, Fields
  <2>3. InHand'
    BY <1>2, <2>1, <2>2, StaysOnHost DEF Nowheres, TwoHostStates, EpilogStates
  <2>4. Queued("TM", cmd)' BY <1>1, <2>1, JobHandled DEF To, Managers
  <2>5. QED BY <2>2, <2>3, <2>4, EpilogJob
<1>4. CASE vm.lcm = "SHUTDOWN_POWEROFF" /\ powered_off
  <2>1. /\ vm' = [vm EXCEPT !.hist.reason = "USER"]
        /\ To("DM", <<"POWEROFF_SUCCESS">>) /\ UNCHANGED capacity
    BY <1>4 DEF powered_off
  <2>2. vm'.lcm = "SHUTDOWN_POWEROFF" /\ vm'.state = "ACTIVE" /\ vm'.hist.hid = vm.hist.hid
    BY <1>1, <1>4, <2>1, Fields
  <2>3. Queued("DM", "POWEROFF_SUCCESS")' BY <1>1, <2>1, JobHandled DEF To, Managers
  <2>4. "POWEROFF_SUCCESS" \in Results
        /\ ReportedIn("POWEROFF_SUCCESS") = {"SHUTDOWN_POWEROFF"}
    BY Zenon DEF Results, ReportedIn
  <2>5. QED BY <1>2, <2>1, <2>2, <2>3, <2>4, ReportJob
<1>5. QED BY <1>3, <1>4

(* The end of a cleaning is reported for a VM that is resubmitted.         *)
LEMMA CleanedJob ==
  ASSUME SerialInv, NEW e \in CleaningAnswers, Lcm(e), vm.lcm = "CLEANUP_RESUBMIT",
         To("DM", <<"RESUBMIT">>), UNCHANGED <<vm, capacity, driver, rm>>
  PROVE  OneJob'
<1>1. QueuesOK(queue) BY DEF SerialInv, IInv, TypeOK
<1>2. Cleaning /\ queue["LCM"] = <<e>>
  <2>1. ~(e \in LcmActions /\ Queued("LCM", e) /\ Asked(e))
    <3>1. ASSUME Asked(e) PROVE FALSE
      <4>1. e \in Events /\ e # "MONITOR_DONE" BY DEF CleaningAnswers, Events
      <4>2. vm.lcm \in Awaited(e) \ {"CLEANUP_RESUBMIT"} BY <3>1, <4>1, AskedEvent DEF In
      <4>3. QED BY <4>2
    <3>2. QED BY <3>1
  <2>2. QED BY <2>1, LcmTurn
<1>3. CleaningVmm /\ queue["DM"] = <<>> /\ capacity = {} /\ vm.state = "ACTIVE"
  BY <1>2 DEF Cleaning, CleaningUp, CleaningTm, CleaningDone, is
<1>4. /\ queue["VMM"] = <<>> /\ NoneOr(queue["TM"], Cancel)
      /\ driver["VMM"] = <<>> /\ driver["TM"] = <<>> /\ rm = {}
  BY <1>2, <1>3 DEF CleaningVmm
<1>. DEFINE q == Pop(queue, "LCM")
<1>5. {"DM", "LCM", "TM", "VMM"} = Managers BY DEF Managers
<1>6. /\ q["LCM"] = <<>> /\ \A n \in Managers \ {"LCM"} : q[n] = queue[n]
      /\ QueuesOK(q)
  <2>1. Tail(<<e>>) = <<>> /\ <<e>> # <<>> /\ "LCM" \in Managers
    BY <1>5
  <2>2. q["LCM"] = Tail(queue["LCM"]) /\ (queue["LCM"] # <<>> => QueuesOK(q))
    BY <1>1, <2>1, QueueMoves
  <2>3. \A n \in Managers \ {"LCM"} : q[n] = queue[n] BY <1>1, <2>1, QueueMoves
  <2>4. QED BY <1>2, <2>1, <2>2, <2>3
<1>. HIDE DEF q
<1>7. /\ \A acts : Push(q, "DM", acts)["DM"] = q["DM"] \o acts
      /\ \A acts : \A n \in Managers \ {"DM"} : Push(q, "DM", acts)[n] = q[n]
  BY <1>5, <1>6, QueueMoves
<1>8. queue' = Push(q, "DM", <<"RESUBMIT">>) BY DEF To, HandledTo, q
<1>9. queue'["DM"] = <<"RESUBMIT">>
  <2>1. queue'["DM"] = q["DM"] \o <<"RESUBMIT">> BY <1>7, <1>8
  <2>2. q["DM"] = <<>> BY <1>3, <1>5, <1>6
  <2>3. <<>> \o <<"RESUBMIT">> = <<"RESUBMIT">> OBVIOUS
  <2>4. QED BY <2>1, <2>2, <2>3
<1>10. queue'["LCM"] = <<>> /\ queue'["VMM"] = <<>> /\ NoneOr(queue'["TM"], Cancel)
  BY <1>4, <1>5, <1>6, <1>7, <1>8
<1>11. CleaningDone' BY <1>4, <1>10 DEF CleaningDone, NoneOr, Cancel
<1>12. Cleaning' BY <1>3, <1>9, <1>11 DEF Cleaning, is
<1>13. QED BY <1>12, NextJob

(* Every answer the LCM accepts leaves one piece of work, or none.         *)
LEMMA LcmAnswerJob ==
  ASSUME SerialInv, LcmAnswer, UNCHANGED <<driver, rm>>
  PROVE  OneJob'
<1>1. /\ {"SAVE_SUCCESS", "SAVE_FAILURE", "DEPLOY_SUCCESS", "DEPLOY_FAILURE",
          "SHUTDOWN_SUCCESS", "SHUTDOWN_FAILURE", "CANCEL_SUCCESS",
          "CANCEL_FAILURE", "ATTACH_DONE", "ATTACH_NIC_DONE",
          "SNAPSHOT_DONE", "PROLOG_SUCCESS", "PROLOG_FAILURE",
          "EPILOG_SUCCESS", "EPILOG_FAILURE", "SAVEAS_HOT_DONE",
          "MONITOR_FAILURE", "MONITOR_SUSPEND", "MONITOR_DONE"} \subseteq Events
      /\ {"CLEANUP_DONE", "EPILOG_SUCCESS", "EPILOG_FAILURE"} \subseteq CleaningAnswers
  BY DEF Events, CleaningAnswers
<1>2. \A l \in PrologStates \cup BootStates \cup EpilogStates \cup ShutdownStates
                 \cup SaveasStates \cup HotplugStates
                 \cup {"CANCEL", "RUNNING", "UNKNOWN", "SAVE_SUSPEND", "SAVE_STOP"} :
        l \notin Nowheres \cup TwoHostStates
  BY DEF Nowheres, TwoHostStates, PrologStates, BootStates, EpilogStates,
         ShutdownStates, SaveasStates, HotplugStates
<1>3. ASSUME NEW e \in Events, Lcm(e), vm.lcm \notin Nowheres \cup TwoHostStates
      PROVE  /\ Queued("LCM", e) /\ vm.state = "ACTIVE" /\ capacity = {vm.hist.hid}
             /\ vm \in VirtualMachine /\ QueuesOK(queue)
  BY <1>3, EventTurn, OnOneHost
<1>4. \A m \in {"DM", "TM", "VMM"} : m \in Managers BY DEF Managers
<1>5. "LCM" \in Managers BY DEF Managers
<1>6. ASSUME vm'.lcm \notin Nowheres \cup TwoHostStates, vm'.state = "ACTIVE",
             capacity = {vm.hist.hid}, vm'.hist.hid = vm.hist.hid, UNCHANGED capacity
      PROVE  InHand'
  BY <1>6, StaysOnHost
<1>7. /\ ReportedIn("SUSPEND_SUCCESS") = {"SAVE_SUSPEND"}
      /\ ReportedIn("STOP_SUCCESS") = {"EPILOG_STOP", "PROLOG_RESUME"}
      /\ ReportedIn("UNDEPLOY_SUCCESS") = {"EPILOG_UNDEPLOY", "PROLOG_UNDEPLOY"}
      /\ ReportedIn("DONE") = {"EPILOG", "CANCEL", "CLEANUP_DELETE"}
      /\ {"SUSPEND_SUCCESS", "STOP_SUCCESS", "UNDEPLOY_SUCCESS", "DONE"} \subseteq Results
  BY Zenon DEF ReportedIn, Results
<1>10. CASE save_success_action
  <2>1. Lcm("SAVE_SUCCESS") BY <1>10 DEF save_success_action
  <2>2. CASE vm.lcm = "SAVE_MIGRATE"
    <3>1. /\ vm' = [vm EXCEPT !.lcm = "PROLOG_MIGRATE", !.prev.reason = "USER"]
          /\ capacity' = capacity \ {vm.prev.hid} /\ To("TM", <<"PROLOG_MIGR">>)
      BY <1>10, <2>2 DEF save_success_action, del_capacity
    <3>2. vm.lcm \notin Nowheres /\ vm.lcm \in TwoHostStates
      BY <2>2 DEF Nowheres, TwoHostStates
    <3>3. /\ Queued("LCM", "SAVE_SUCCESS") /\ InHand /\ vm \in VirtualMachine
          /\ QueuesOK(queue)
      BY <1>1, <2>1, <3>2, EventTurn
    <3>4. /\ capacity = {vm.hist.hid, vm.prev.hid} /\ vm.state = "ACTIVE"
          /\ vm.hist.hid # vm.prev.hid
      BY <3>2, <3>3, OnTwoHosts
    <3>5. vm'.lcm = "PROLOG_MIGRATE" /\ vm'.state = "ACTIVE" /\ vm'.hist = vm.hist
      BY <3>1, <3>3, <3>4, Fields
    <3>6. InHand' BY <3>1, <3>4, <3>5, StaysOnHost DEF Nowheres, TwoHostStates
    <3>7. Queued("TM", "PROLOG_MIGR")' BY <1>4, <1>5, <3>1, <3>3, JobHandled DEF To
    <3>8. "PROLOG_MIGR" \in PrologScripts /\ vm'.lcm \in PrologStates
      BY <3>5 DEF PrologScripts, PrologStates
    <3>9. Scripted("PROLOG_MIGR")' BY <3>6, <3>8, Zenon DEF Scripted, In
    <3>10. "PROLOG_MIGR" \in Scripts \ Removals BY <3>8 DEF Scripts, Removals
    <3>11. QED BY <3>7, <3>9, <3>10, NextJob
  <2>3. CASE vm.lcm = "SAVE_SUSPEND"
    <3>1. /\ vm' = [vm EXCEPT !.hist.reason = "USER"] /\ UNCHANGED capacity
          /\ To("DM", <<"SUSPEND_SUCCESS">>)
      BY <1>10, <2>3 DEF save_success_action
    <3>2. /\ Queued("LCM", "SAVE_SUCCESS") /\ vm.state = "ACTIVE" /\ capacity = {vm.hist.hid}
          /\ vm \in VirtualMachine /\ QueuesOK(queue)
      BY <1>1, <1>2, <1>3, <2>1, <2>3
    <3>3. vm'.lcm = "SAVE_SUSPEND" /\ vm'.state = "ACTIVE" /\ vm'.hist.hid = vm.hist.hid
      BY <2>3, <3>1, <3>2, Fields
    <3>4. Queued("DM", "SUSPEND_SUCCESS")' BY <1>4, <1>5, <3>1, <3>2, JobHandled DEF To
    <3>5. QED BY <1>7, <3>1, <3>2, <3>3, <3>4, ReportJob
  <2>4. CASE vm.lcm = "SAVE_STOP"
    <3>1. /\ vm' = [vm EXCEPT !.lcm = "EPILOG_STOP", !.hist.reason = "USER"]
          /\ UNCHANGED capacity /\ To("TM", <<"EPILOG_STOP">>)
      BY <1>10, <2>4 DEF save_success_action
    <3>2. /\ Queued("LCM", "SAVE_SUCCESS") /\ vm.state = "ACTIVE" /\ capacity = {vm.hist.hid}
          /\ vm \in VirtualMachine /\ QueuesOK(queue)
      BY <1>1, <1>2, <1>3, <2>1, <2>4
    <3>3. vm'.lcm = "EPILOG_STOP" /\ vm'.state = "ACTIVE" /\ vm'.hist.hid = vm.hist.hid
      BY <3>1, <3>2, Fields
    <3>4. Queued("TM", "EPILOG_STOP")' BY <1>4, <1>5, <3>1, <3>2, JobHandled DEF To
    <3>5. vm'.lcm \in EpilogStates BY <3>3 DEF EpilogStates
    <3>6. InHand' BY <1>2, <1>6, <3>1, <3>2, <3>3, <3>5
    <3>7. QED BY <3>4, <3>5, <3>6, EpilogJob
  <2>5. QED BY <1>10, <2>2, <2>3, <2>4 DEF save_success_action
<1>11. CASE save_failure_action
  <2>1. Lcm("SAVE_FAILURE") BY <1>11 DEF save_failure_action
  <2>2. CASE vm.lcm = "SAVE_MIGRATE" /\ back_to_previous_host
    BY <1>1, <2>1, <2>2, BackToPreviousJob DEF TwoHostStates
  <2>3. CASE vm.lcm \in {"SAVE_SUSPEND", "SAVE_STOP"} /\ back_to_running
    BY <1>1, <1>2, <2>1, <2>3, BackToRunningJob
  <2>4. QED BY <1>11, <2>2, <2>3 DEF save_failure_action
<1>12. CASE deploy_success_action
  <2>1. Lcm("DEPLOY_SUCCESS") /\ Done_LCM BY <1>12 DEF deploy_success_action
  <2>2. CASE vm.lcm = "MIGRATE"
    <3>1. /\ vm' = [vm EXCEPT !.lcm = "RUNNING", !.prev.reason = "USER"]
          /\ capacity' = capacity \ {vm.prev.hid}
      BY <1>12, <2>2 DEF deploy_success_action, del_capacity, BootStates
    <3>2. vm.lcm \notin Nowheres /\ vm.lcm \in TwoHostStates
      BY <2>2 DEF Nowheres, TwoHostStates
    <3>3. /\ Queued("LCM", "DEPLOY_SUCCESS") /\ InHand /\ vm \in VirtualMachine
          /\ QueuesOK(queue)
      BY <1>1, <2>1, <3>2, EventTurn
    <3>4. /\ capacity = {vm.hist.hid, vm.prev.hid} /\ vm.state = "ACTIVE"
          /\ vm.hist.hid # vm.prev.hid
      BY <3>2, <3>3, OnTwoHosts
    <3>5. vm'.lcm = "RUNNING" /\ vm'.state = "ACTIVE" /\ vm'.hist = vm.hist
      BY <3>1, <3>3, <3>4, Fields
    <3>6. InHand' BY <3>1, <3>4, <3>5, StaysOnHost DEF Nowheres, TwoHostStates
    <3>7. Idle' BY <1>5, <2>1, <3>3, JobHandled DEF Done_LCM
    <3>8. QED BY <3>5, <3>6, <3>7, RunsIdle
  <2>3. CASE vm.lcm \in BootStates
    <3>1. vm' = [vm EXCEPT !.lcm = "RUNNING"] /\ UNCHANGED capacity
      BY <1>12, <2>3 DEF deploy_success_action, BootStates
    <3>2. /\ Queued("LCM", "DEPLOY_SUCCESS") /\ vm.state = "ACTIVE"
          /\ capacity = {vm.hist.hid} /\ vm \in VirtualMachine /\ QueuesOK(queue)
      BY <1>1, <1>2, <1>3, <2>1, <2>3
    <3>3. vm'.lcm = "RUNNING" /\ vm'.state = "ACTIVE" /\ vm'.hist.hid = vm.hist.hid
      BY <3>1, <3>2, Fields
    <3>4. InHand' BY <1>2, <1>6, <3>1, <3>2, <3>3
    <3>5. Idle' BY <1>5, <2>1, <3>2, JobHandled DEF Done_LCM
    <3>6. QED BY <3>3, <3>4, <3>5, RunsIdle
  <2>4. QED BY <1>12, <2>2, <2>3 DEF deploy_success_action
<1>13. ASSUME NEW e \in Events, Lcm(e), vm.lcm \notin Nowheres \cup TwoHostStates,
              NEW lcm, vm' = [vm EXCEPT !.lcm = lcm], UNCHANGED capacity, Done_LCM,
              lcm \in {"RUNNING", "UNKNOWN"}
       PROVE  OneJob'
  <2>1. /\ Queued("LCM", e) /\ vm.state = "ACTIVE" /\ capacity = {vm.hist.hid}
        /\ vm \in VirtualMachine /\ QueuesOK(queue)
    BY <1>3, <1>13
  <2>2. vm'.lcm = lcm /\ vm'.state = "ACTIVE" /\ vm'.hist.hid = vm.hist.hid
    BY <1>13, <2>1, Fields
  <2>3. InHand' BY <1>2, <1>6, <1>13, <2>1, <2>2
  <2>4. Idle' BY <1>5, <1>13, <2>1, JobHandled DEF Done_LCM
  <2>5. QED BY <1>13, <2>2, <2>3, <2>4, RunsIdle
<1>14. ASSUME NEW e \in Events, Lcm(e), vm.lcm \notin Nowheres \cup TwoHostStates,
              NEW s \in {"SUSPENDED", "POWEROFF"}, UNCHANGED capacity, Done_LCM,
              vm' = [vm EXCEPT !.state = s, !.lcm = "LCM_INIT"]
       PROVE  OneJob'
  <2>1. /\ Queued("LCM", e) /\ vm.state = "ACTIVE" /\ capacity = {vm.hist.hid}
        /\ vm \in VirtualMachine /\ QueuesOK(queue)
    BY <1>3, <1>14
  <2>2. vm'.lcm = "LCM_INIT" /\ vm'.state = s /\ vm'.hist.hid = vm.hist.hid
    BY <1>14, <2>1 DEF VirtualMachine, History
  <2>3. Idle' BY <1>5, <1>14, <2>1, JobHandled DEF Done_LCM
  <2>4. QED BY <1>14, <2>1, <2>2, <2>3, RestsIdle
<1>15. CASE deploy_failure_action
  <2>1. Lcm("DEPLOY_FAILURE") BY <1>15 DEF deploy_failure_action
  <2>2. CASE vm.lcm = "MIGRATE" /\ back_to_previous_host
    BY <1>1, <2>1, <2>2, BackToPreviousJob DEF TwoHostStates
  <2>3. CASE vm.lcm = "BOOT" /\ failure_action
    BY <1>1, <1>2, <2>1, <2>3, FailureJob DEF BootStates
  <2>4. CASE /\ vm.lcm \in {"BOOT_UNKNOWN", "BOOT_POWEROFF", "BOOT_SUSPENDED"}
             /\ Done_LCM /\ UNCHANGED capacity
             /\ vm' = CASE vm.lcm = "BOOT_UNKNOWN"   -> [vm EXCEPT !.lcm = "UNKNOWN"]
                        [] vm.lcm = "BOOT_POWEROFF"  ->
                             [vm EXCEPT !.state = "POWEROFF", !.lcm = "LCM_INIT"]
                        [] vm.lcm = "BOOT_SUSPENDED" ->
                             [vm EXCEPT !.state = "SUSPENDED", !.lcm = "LCM_INIT"]
                        [] OTHER -> vm
    <3>1. vm.lcm \notin Nowheres \cup TwoHostStates BY <1>2, <2>4 DEF BootStates
    <3>2. \/ vm' = [vm EXCEPT !.lcm = "UNKNOWN"]
          \/ vm' = [vm EXCEPT !.state = "POWEROFF", !.lcm = "LCM_INIT"]
          \/ vm' = [vm EXCEPT !.state = "SUSPENDED", !.lcm = "LCM_INIT"]
      BY <2>4
    <3>3. QED BY <1>1, <1>13, <1>14, <2>1, <2>4, <3>1, <3>2
  <2>5. CASE /\ vm.lcm \in {"BOOT_STOPPED", "BOOT_UNDEPLOY"}
             /\ vm' = [vm EXCEPT !.lcm = IF vm.lcm = "BOOT_STOPPED" THEN "EPILOG_STOP"
                                                                    ELSE "EPILOG_UNDEPLOY",
                                 !.hist.reason = "ERROR"]
             /\ To("TM", <<"EPILOG_STOP">>) /\ UNCHANGED capacity
    <3>1. vm.lcm \notin Nowheres \cup TwoHostStates BY <1>2, <2>5 DEF BootStates
    <3>2. /\ Queued("LCM", "DEPLOY_FAILURE") /\ vm.state = "ACTIVE"
          /\ capacity = {vm.hist.hid} /\ vm \in VirtualMachine /\ QueuesOK(queue)
      BY <1>1, <1>3, <2>1, <3>1
    <3>3. /\ vm'.lcm = IF vm.lcm = "BOOT_STOPPED" THEN "EPILOG_STOP" ELSE "EPILOG_UNDEPLOY"
          /\ vm'.state = "ACTIVE" /\ vm'.hist.hid = vm.hist.hid
      BY <2>5, <3>2, Fields
    <3>4. vm'.lcm \in EpilogStates BY <3>3 DEF EpilogStates
    <3>5. Queued("TM", "EPILOG_STOP")' BY <1>4, <1>5, <2>5, <3>2, JobHandled DEF To
    <3>6. InHand' BY <1>2, <1>6, <2>5, <3>2, <3>3, <3>4
    <3>7. QED BY <3>4, <3>5, <3>6, EpilogJob
  <2>6. QED BY <1>15, <2>2, <2>3, <2>4, <2>5, Zenon DEF deploy_failure_action
<1>16. CASE shutdown_success_action \/ cancel_success_action
  <2>1. PICK e \in {"SHUTDOWN_SUCCESS", "CANCEL_SUCCESS"} :
          /\ Lcm(e)
          /\ vm.lcm \in ShutdownStates \cup {"CANCEL"}
          /\ \/ \E lcm \in EpilogStates, cmd \in {"EPILOG", "EPILOG_STOP"} : to_epilog(lcm, cmd)
             \/ vm.lcm = "SHUTDOWN_POWEROFF" /\ powered_off
    BY <1>16 DEF shutdown_success_action, cancel_success_action, EpilogStates, ShutdownStates
  <2>2. vm.lcm \notin Nowheres \cup TwoHostStates /\ e \in Events BY <1>1, <1>2, <2>1
  <2>3. QED BY <2>1, <2>2, DownJob
<1>17. CASE shutdown_failure_action \/ cancel_failure_action
  <2>1. PICK e \in {"SHUTDOWN_FAILURE", "CANCEL_FAILURE"} :
          Lcm(e) /\ vm.lcm \in ShutdownStates \cup {"CANCEL"} /\ back_to_running
    BY <1>17 DEF shutdown_failure_action, cancel_failure_action, ShutdownStates
  <2>2. vm.lcm \notin Nowheres \cup TwoHostStates /\ e \in Events BY <1>1, <1>2, <2>1
  <2>3. QED BY <2>1, <2>2, BackToRunningJob
<1>18. CASE cleanup_callback_action
  BY <1>1, <1>18, CleanedJob DEF cleanup_callback_action
<1>19. CASE attach_end \/ attach_nic_end \/ snapshot_end
  <2>1. PICK e \in {"ATTACH_DONE", "ATTACH_NIC_DONE", "SNAPSHOT_DONE"} :
          /\ Lcm(e) /\ vm.lcm \in HotplugStates /\ Done_LCM /\ UNCHANGED capacity
          /\ vm' = [vm EXCEPT !.lcm = "RUNNING"]
    BY <1>19 DEF attach_end, attach_nic_end, snapshot_end, hotplug_end, HotplugStates
  <2>2. vm.lcm \notin Nowheres \cup TwoHostStates /\ e \in Events BY <1>1, <1>2, <2>1
  <2>3. QED BY <1>13, <2>1, <2>2
<1>20. CASE saveas_hot_end
  <2>1. /\ Lcm("SAVEAS_HOT_DONE") /\ vm.lcm \in SaveasStates /\ Done_LCM
        /\ UNCHANGED capacity /\ vm' = clear_saveas_state(vm)
    BY <1>20 DEF saveas_hot_end
  <2>2. vm.lcm \notin Nowheres \cup TwoHostStates BY <1>2, <2>1
  <2>3. \/ vm' = [vm EXCEPT !.lcm = "RUNNING"]
        \/ vm' = [vm EXCEPT !.state = "POWEROFF", !.lcm = "LCM_INIT"]
        \/ vm' = [vm EXCEPT !.state = "SUSPENDED", !.lcm = "LCM_INIT"]
    BY <2>1 DEF clear_saveas_state, SaveasStates
  <2>4. QED BY <1>1, <1>13, <1>14, <2>1, <2>2, <2>3
<1>21. CASE prolog_success_action
  <2>1. /\ Lcm("PROLOG_SUCCESS") /\ vm.lcm \in PrologStates /\ UNCHANGED capacity
        /\ \E l \in BootStates : vm' = [vm EXCEPT !.lcm = l]
        /\ \E c \in {"DEPLOY", "RESTORE"} : To("VMM", <<c>>)
    BY <1>21 DEF prolog_success_action, BootStates
  <2>2. vm.lcm \notin Nowheres \cup TwoHostStates BY <1>2, <2>1
  <2>3. /\ Queued("LCM", "PROLOG_SUCCESS") /\ vm.state = "ACTIVE"
        /\ capacity = {vm.hist.hid} /\ vm \in VirtualMachine /\ QueuesOK(queue)
    BY <1>1, <1>3, <2>1, <2>2
  <2>4. vm'.lcm \in BootStates /\ vm'.state = "ACTIVE" /\ vm'.hist.hid = vm.hist.hid
    BY <2>1, <2>3, Fields
  <2>5. InHand' BY <1>2, <1>6, <2>1, <2>3, <2>4
  <2>6. PICK c \in {"DEPLOY", "RESTORE"} : Queued("VMM", c)'
    BY <1>4, <1>5, <2>1, <2>3, JobHandled DEF To
  <2>7. Commanded(c)'
    <3>1. vm'.lcm \in BootStates \cup {"MIGRATE"} BY <2>4
    <3>2. QED BY <2>5, <3>1, Zenon DEF Commanded, In
  <2>8. c \in Commands \ CleanUps BY DEF Commands, CleanUps
  <2>9. QED BY <2>6, <2>7, <2>8, NextJob
<1>22. CASE prolog_failure_action
  <2>1. Lcm("PROLOG_FAILURE") BY <1>22 DEF prolog_failure_action
  <2>2. CASE vm.lcm \in {"PROLOG", "PROLOG_MIGRATE"} /\ failure_action
    BY <1>1, <1>2, <2>1, <2>2, FailureJob DEF PrologStates
  <2>3. CASE /\ vm.lcm \in {"PROLOG_RESUME", "PROLOG_UNDEPLOY"}
             /\ vm' = [vm EXCEPT !.hist.reason = "ERROR"]
             /\ del_capacity(vm.hist.hid)
             /\ To("DM", <<IF vm.lcm = "PROLOG_RESUME" THEN "STOP_SUCCESS"
                                                       ELSE "UNDEPLOY_SUCCESS">>)
    <3>1. vm.lcm \notin Nowheres \cup TwoHostStates BY <1>2, <2>3 DEF PrologStates
    <3>2. /\ Queued("LCM", "PROLOG_FAILURE") /\ vm.state = "ACTIVE"
          /\ capacity = {vm.hist.hid} /\ vm \in VirtualMachine /\ QueuesOK(queue)
      BY <1>1, <1>3, <2>1, <3>1
    <3>3. vm'.lcm = vm.lcm /\ vm'.state = "ACTIVE" BY <2>3, <3>2, Fields
    <3>4. PICK a \in {"STOP_SUCCESS", "UNDEPLOY_SUCCESS"} :
            /\ To("DM", <<a>>)
            /\ a = IF vm.lcm = "PROLOG_RESUME" THEN "STOP_SUCCESS" ELSE "UNDEPLOY_SUCCESS"
      BY <2>3
    <3>5. Queued("DM", a)' BY <1>4, <1>5, <3>2, <3>4, JobHandled DEF To
    <3>6. vm'.lcm \in ReportedIn(a) /\ a \in Results
          /\ a \notin {"SUSPEND_SUCCESS", "POWEROFF_SUCCESS"}
      BY <1>7, <2>3, <3>3, <3>4
    <3>7. capacity' = {} BY <2>3, <3>2 DEF del_capacity
    <3>8. QED BY <3>3, <3>5, <3>6, <3>7, ReportJob
  <2>4. QED BY <1>22, <2>2, <2>3 DEF prolog_failure_action
<1>23. CASE epilog_success_action
  <2>1. Lcm("EPILOG_SUCCESS") /\ UNCHANGED vm BY <1>23 DEF epilog_success_action
  <2>2. CASE /\ vm.lcm \in EpilogStates
             /\ del_capacity(vm.hist.hid)
             /\ To("DM", <<CASE vm.lcm = "EPILOG_STOP"     -> "STOP_SUCCESS"
                             [] vm.lcm = "EPILOG_UNDEPLOY" -> "UNDEPLOY_SUCCESS"
                             [] OTHER                      -> "DONE">>)
    <3>1. vm.lcm \notin Nowheres \cup TwoHostStates BY <1>2, <2>2
    <3>2. /\ Queued("LCM", "EPILOG_SUCCESS") /\ vm.state = "ACTIVE"
          /\ capacity = {vm.hist.hid} /\ vm \in VirtualMachine /\ QueuesOK(queue)
      BY <1>1, <1>3, <2>1, <3>1
    <3>4. PICK a \in {"STOP_SUCCESS", "UNDEPLOY_SUCCESS", "DONE"} :
            /\ To("DM", <<a>>)
            /\ a = CASE vm.lcm = "EPILOG_STOP"     -> "STOP_SUCCESS"
                     [] vm.lcm = "EPILOG_UNDEPLOY" -> "UNDEPLOY_SUCCESS"
                     [] OTHER                      -> "DONE"
      BY <2>2
    <3>5. Queued("DM", a)' BY <1>4, <1>5, <3>2, <3>4, JobHandled DEF To
    <3>6. vm.lcm \in ReportedIn(a) /\ a \in Results
          /\ a \notin {"SUSPEND_SUCCESS", "POWEROFF_SUCCESS"}
      BY <1>7, <2>2, <3>4 DEF EpilogStates
    <3>7. capacity' = {} BY <2>2, <3>2 DEF del_capacity
    <3>8. QED BY <2>1, <3>2, <3>5, <3>6, <3>7, ReportJob
  <2>3. CASE vm.lcm = "CLEANUP_RESUBMIT" /\ To("DM", <<"RESUBMIT">>) /\ UNCHANGED capacity
    BY <1>1, <2>1, <2>3, CleanedJob
  <2>4. QED BY <1>23, <2>2, <2>3 DEF epilog_success_action
<1>24. CASE epilog_failure_action
  <2>1. Lcm("EPILOG_FAILURE") BY <1>24 DEF epilog_failure_action
  <2>2. CASE vm.lcm \in EpilogStates /\ failure_action
    BY <1>1, <1>2, <2>1, <2>2, FailureJob
  <2>3. CASE /\ vm.lcm = "CLEANUP_RESUBMIT" /\ To("DM", <<"RESUBMIT">>)
             /\ UNCHANGED <<vm, capacity>>
    BY <1>1, <2>1, <2>3, CleanedJob
  <2>4. QED BY <1>24, <2>2, <2>3 DEF epilog_failure_action
<1>25. CASE monitor_failure_action
  BY <1>1, <1>2, <1>25, FailureJob DEF monitor_failure_action
<1>26. CASE monitor_suspend_action
  <2>1. /\ Lcm("MONITOR_SUSPEND") /\ vm.lcm \in {"RUNNING", "UNKNOWN"} /\ UNCHANGED capacity
        /\ vm' = [vm EXCEPT !.lcm = "SAVE_SUSPEND", !.hist.reason = "ERROR"]
        /\ To("DM", <<"SUSPEND_SUCCESS">>)
    BY <1>26 DEF monitor_suspend_action
  <2>2. vm.lcm \notin Nowheres \cup TwoHostStates BY <1>2, <2>1
  <2>3. /\ Queued("LCM", "MONITOR_SUSPEND") /\ vm.state = "ACTIVE"
        /\ capacity = {vm.hist.hid} /\ vm \in VirtualMachine /\ QueuesOK(queue)
    BY <1>1, <1>3, <2>1, <2>2
  <2>4. vm'.lcm = "SAVE_SUSPEND" /\ vm'.state = "ACTIVE" /\ vm'.hist.hid = vm.hist.hid
    BY <2>1, <2>3, Fields
  <2>5. Queued("DM", "SUSPEND_SUCCESS")' BY <1>4, <1>5, <2>1, <2>3, JobHandled DEF To
  <2>6. QED BY <1>7, <2>1, <2>3, <2>4, <2>5, ReportJob
<1>27. CASE monitor_done_action
  BY <1>1, <1>2, <1>13, <1>27 DEF monitor_done_action
<1>28. QED
  BY <1>10, <1>11, <1>12, <1>15, <1>16, <1>17, <1>18, <1>19, <1>20, <1>21, <1>22, <1>23,
     <1>24, <1>25, <1>26, <1>27, Zenon DEF LcmAnswer

-----------------------------------------------------------------------------
(* The cleaning *)

(* A cleaning goes on as long as only its own work moves, and it may end   *)
(* before the DM knows of it only where no answer is waited for.           *)
LEMMA CleaningGoesOn ==
  ASSUME Cleaning, UNCHANGED <<vm, capacity>>, queue'["DM"] = queue["DM"],
         \/ CleaningUp /\ CleaningUp'
         \/ CleaningUp /\ CleaningDone' /\ (DriversDie \/ vm.lcm # "CLEANUP_RESUBMIT")
         \/ CleaningDone /\ CleaningDone'
  PROVE  OneJob'
<1>1. ~(CleaningUp /\ CleaningDone)
  <2>1. \A s : <<s>> # <<>> /\ <<"DRIVER_CANCEL", s>> # <<>> OBVIOUS
  <2>2. \A s \in Removals : <<s>> # Cancel /\ <<"DRIVER_CANCEL", s>> # Cancel
    BY DEF Removals, Cancel
  <2>3. QED BY <2>1, <2>2 DEF CleaningUp, CleaningVmm, CleaningTm, CleaningDone, NoneOr
<1>2. Cleaning' BY <1>1 DEF Cleaning, is
<1>3. QED BY <1>2, NextJob

(* What the LCM does with an answer to a cleaning nobody waits for.        *)
LEMMA CleaningUnheard ==
  ASSUME SerialInv, Cleaning, NEW a, queue["LCM"] = <<a>>, vm.lcm # "CLEANUP_RESUBMIT",
         Handled("LCM"), UNCHANGED <<vm, capacity, driver, rm>>
  PROVE  OneJob'
<1>1. QueuesOK(queue) BY DEF SerialInv, IInv, TypeOK
<1>2. <<a>> # <<>> /\ Tail(<<a>>) = <<>> /\ "LCM" \in Managers BY DEF Managers
<1>3. queue'["LCM"] = <<>> /\ \A n \in Managers \ {"LCM"} : queue'[n] = queue[n]
  <2>1. Pop(queue, "LCM")["LCM"] = Tail(queue["LCM"]) BY <1>1, <1>2, QueueMoves
  <2>2. \A n \in Managers \ {"LCM"} : Pop(queue, "LCM")[n] = queue[n]
    BY <1>1, <1>2, QueueMoves
  <2>3. QED BY <1>2, <2>1, <2>2 DEF Handled
<1>4. {"DM", "TM", "VMM"} \subseteq Managers \ {"LCM"} BY DEF Managers
<1>5. CleaningVmm BY <1>2 DEF Cleaning, CleaningUp, CleaningTm, CleaningDone
<1>6. CleaningDone' BY <1>2, <1>3, <1>4, <1>5 DEF CleaningVmm, CleaningDone
<1>7. QED BY <1>3, <1>4, <1>5, <1>6, CleaningGoesOn DEF CleaningUp

(* What is asked of the LCM is what the VM's state lets it do, but for the *)
(* report that an UNKNOWN VM cannot be reached.                            *)
LEMMA AskedExpected ==
  ASSUME NEW a \in LcmActions, Asked(a)
  PROVE  Expected(a) \/ (a = "MONITOR_DONE" /\ Quiet)
<1>1. CASE a \in RunningRequests
  <2>1. is("ACTIVE", "RUNNING") => Expected(a)
    <3>1. /\ a \notin {"DEPLOY", "RESTORE", "RESTART"} /\ a # "DELETE" /\ a # "CLEAN"
          /\ a # "DEPLOY" /\ a # "RESTORE" /\ a # "RESTART"
      BY <1>1 DEF RunningRequests
    <3>2. QED BY <1>1, <3>1 DEF Expected
  <2>2. CASE a \in {"MIGRATE", "LIVE_MIGRATE"}
    <3>1. is("ACTIVE", "RUNNING") BY <2>2, Zenon DEF Asked
    <3>2. QED BY <2>1, <3>1
  <2>3. CASE a \notin {"MIGRATE", "LIVE_MIGRATE"}
    <3>1. a \in RunningRequests \ {"MIGRATE", "LIVE_MIGRATE"} BY <1>1, <2>3
    <3>2. InHand /\ vm.lcm = "RUNNING" BY <3>1, Zenon DEF Asked, In, RunningRequests
    <3>3. QED BY <2>1, <3>2 DEF InHand, is
  <2>4. QED BY <2>2, <2>3
<1>2. CASE a \in Events
  <2>1. a \notin RunningRequests \cup {"DEPLOY", "RESTORE", "RESTART", "DELETE", "CLEAN"}
    BY <1>2 DEF RunningRequests, Events
  <2>2. CASE a = "MONITOR_DONE" BY <1>2, <2>2, AskedEvent DEF Quiet
  <2>3. CASE a # "MONITOR_DONE"
    <3>1. vm.lcm \in Awaited(a) BY <1>2, <2>3, AskedEvent DEF In
    <3>2. QED BY <2>1, <3>1, Zenon DEF Expected
  <2>4. QED BY <2>2, <2>3
<1>3. CASE a \in {"DEPLOY", "RESTORE", "RESTART", "DELETE", "CLEAN"}
  <2>1. a \notin RunningRequests BY <1>3 DEF RunningRequests
  <2>2. CASE a = "DEPLOY"
    <3>1. is("ACTIVE", "LCM_INIT") BY <2>1, <2>2, Zenon DEF Asked
    <3>2. QED BY <2>1, <2>2, <3>1, Zenon DEF Expected, is
  <2>3. CASE a = "RESTORE"
    <3>1. Resting({"SUSPENDED"}) BY <2>1, <2>3, Zenon DEF Asked
    <3>2. vm.state = "SUSPENDED" BY <3>1 DEF Resting
    <3>3. QED BY <2>1, <2>3, <3>2, Zenon DEF Expected
  <2>4. CASE a = "RESTART"
    <3>1. Resting({"POWEROFF"}) \/ In(BootStates \cup {"UNKNOWN"})
      BY <2>1, <2>4, Zenon DEF Asked
    <3>2. CanRestart BY <3>1 DEF Resting, In, InHand, CanRestart
    <3>3. QED BY <2>1, <2>4, <3>2, Zenon DEF Expected
  <2>5. CASE a \in {"DELETE", "CLEAN"}
    <3>1. Quiet BY <2>1, <2>5, Zenon DEF Asked
    <3>2. vm.state = "ACTIVE" /\ vm.lcm # "CLEANUP_DELETE" BY <3>1 DEF Quiet, In, InHand
    <3>3. CASE a = "DELETE" BY <2>1, <3>2, <3>3, Zenon DEF Expected
    <3>4. CASE a = "CLEAN" BY <2>1, <3>2, <3>4, Zenon DEF Expected
    <3>5. QED BY <2>5, <3>3, <3>4
  <2>6. QED BY <1>3, <2>2, <2>3, <2>4, <2>5
<1>4. QED BY <1>1, <1>2, <1>3 DEF LcmActions

(* The LCM leaves one piece of work, or none.                              *)
LEMMA LcmNextJob == ASSUME SerialInv, LcmNext PROVE OneJob'
<1>1. UNCHANGED <<driver, rm>> BY DEF LcmNext
<1>2. CASE LcmRequest BY <1>1, <1>2, LcmRequestJob
<1>3. CASE LcmAnswer BY <1>1, <1>3, LcmAnswerJob
<1>4. CASE wrong_state_LCM
  <2>1. PICK a \in LcmActions :
          Lcm(a) /\ ~Expected(a) /\ Handled("LCM") /\ UNCHANGED <<vm, capacity>>
    BY <1>4 DEF wrong_state_LCM, Done_LCM
  <2>2. CASE Queued("LCM", a) /\ Asked(a)
    <3>1. Quiet BY <2>1, <2>2, AskedExpected
    <3>2. Quiet' BY <2>1, <3>1 DEF Quiet, In, InHand, Shares, TwoHosts
    <3>3. Idle' BY <1>1, <2>1, <2>2, JobHandled DEF SerialInv, IInv, TypeOK, Managers
    <3>4. QED BY <3>2, <3>3, NextJob DEF AtRest
  <2>3. CASE a \in CleaningAnswers /\ Cleaning /\ queue["LCM"] = <<a>>
    <3>1. a \notin RunningRequests \cup {"DEPLOY", "RESTORE", "RESTART", "DELETE", "CLEAN"}
      BY <2>3 DEF CleaningAnswers, RunningRequests
    <3>2. vm.lcm \notin Awaited(a) BY <2>1, <3>1, Zenon DEF Expected
    <3>3. "CLEANUP_RESUBMIT" \in Awaited(a) BY <2>3 DEF Awaited, CleaningAnswers
    <3>4. vm.lcm # "CLEANUP_RESUBMIT" BY <3>2, <3>3
    <3>5. QED BY <1>1, <2>1, <2>3, <3>4, CleaningUnheard
  <2>4. QED BY <2>1, <2>2, <2>3, LcmTurn
<1>5. QED BY <1>2, <1>3, <1>4 DEF LcmNext

-----------------------------------------------------------------------------
(* The DM takes the results *)

(* A result is reported once, to a VM in the state it is for: it ends the  *)
(* work for the VM, or the wait of a cleaning, and no callback is left on  *)
(* the branch that forgets to unlock.                                      *)
LEMMA DmResultJob == ASSUME SerialInv, DmResult PROVE OneJob' /\ ~locked'
<1>1. vm \in VirtualMachine /\ QueuesOK(queue) BY DEF SerialInv, IInv, TypeOK
<1>2. UNCHANGED <<driver, rm, capacity>> /\ Handled("DM") /\ "DM" \in Managers
  BY DEF DmResult, result_action, wrong_state_DM, Managers
<1>3. PICK a \in Results :
        /\ Dm(a)
        /\ \/ /\ Accepted(a) /\ UNCHANGED locked
              /\ vm' = [vm EXCEPT !.state = StateAfter(a), !.lcm = "LCM_INIT"]
           \/ /\ ~Accepted(a)
              /\ UNCHANGED vm
              /\ locked' = LeavesLocked(a)
  BY DEF DmResult, result_action, wrong_state_DM
<1>4. ASSUME Accepted(a)
      PROVE  /\ vm'.state = StateAfter(a) /\ vm'.lcm = "LCM_INIT" /\ vm'.hist.hid = vm.hist.hid
             /\ ~locked'
  <2>1. vm' = [vm EXCEPT !.state = StateAfter(a), !.lcm = "LCM_INIT"] /\ UNCHANGED locked
    BY <1>3, <1>4
  <2>2. vm'.state = StateAfter(a) /\ vm'.lcm = "LCM_INIT" /\ vm'.hist = vm.hist
    BY <1>1, <2>1 DEF VirtualMachine
  <2>3. ~locked' BY <2>1, Zenon DEF SerialInv
  <2>4. QED BY <2>2, <2>3
<1>5. CASE Queued("DM", a) /\ Reported(a)
  <2>1. Accepted(a) BY <1>5 DEF Reported, Accepted
  <2>2. Idle' BY <1>1, <1>2, <1>5, JobHandled
  <2>3. capacity' = IF a \in {"SUSPEND_SUCCESS", "POWEROFF_SUCCESS"} THEN {vm.hist.hid} ELSE {}
    BY <1>2, <1>5 DEF Reported
  <2>4. /\ vm'.state \in Off \cup {"SUSPENDED", "POWEROFF"}
        /\ (vm'.state \in Off) <=> (a \notin {"SUSPEND_SUCCESS", "POWEROFF_SUCCESS"})
    <3>1. vm'.state = StateAfter(a) BY <1>4, <2>1
    <3>2. QED BY <3>1 DEF StateAfter, Results, Off
  <2>5. AtRest' BY <1>4, <2>1, <2>3, <2>4 DEF AtRest, Resting
  <2>6. QED BY <1>4, <2>1, <2>2, <2>5, NextJob
<1>6. CASE Cleaning /\ queue["DM"] = <<a>>
  <2>1. <<a>> # <<>> /\ Tail(<<a>>) = <<>> /\ \A x : <<x>> = <<a>> => x = a OBVIOUS
  <2>2. queue'["DM"] = <<>> /\ \A n \in Managers \ {"DM"} : queue'[n] = queue[n]
    <3>1. Pop(queue, "DM")["DM"] = Tail(queue["DM"]) BY <1>1, <1>2, QueueMoves
    <3>2. \A n \in Managers \ {"DM"} : Pop(queue, "DM")[n] = queue[n]
      BY <1>1, <1>2, QueueMoves
    <3>3. QED BY <1>2, <1>6, <2>1, <3>1, <3>2 DEF Handled
  <2>3. {"LCM", "TM", "VMM"} \subseteq Managers \ {"DM"} BY DEF Managers
  <2>4. (CleaningUp => CleaningUp') /\ (CleaningDone => CleaningDone')
    BY <1>2, <2>2, <2>3 DEF CleaningUp, CleaningVmm, CleaningTm, CleaningDone
  <2>5. /\ capacity = {} /\ vm.state = "ACTIVE"
        /\ \/ a = "RESUBMIT" /\ vm.lcm = "CLEANUP_RESUBMIT" /\ CleaningDone
           \/ a = "DONE" /\ vm.lcm = "CLEANUP_DELETE" /\ (CleaningUp \/ CleaningDone)
    BY <1>6, <2>1 DEF Cleaning, is
  <2>6. Accepted(a)
    <3>1. vm.lcm \in ReportedIn(a) BY <2>5 DEF ReportedIn
    <3>2. QED BY <2>5, <3>1 DEF Accepted
  <2>7. vm'.state = IF a = "DONE" THEN "DONE" ELSE "PENDING"
    <3>1. vm'.state = StateAfter(a) BY <1>4, <2>6
    <3>2. QED BY <2>5, <3>1 DEF StateAfter
  <2>8. Cleaning' BY <1>2, <1>4, <2>2, <2>4, <2>5, <2>6, <2>7 DEF Cleaning, is
  <2>9. QED BY <1>4, <2>6, <2>8, NextJob
<1>7. QED BY <1>3, <1>5, <1>6, DmTurn

-----------------------------------------------------------------------------
(* The managers of the drivers, and the drivers *)

(* An event for a VM that awaits it is asked of the LCM.                   *)
LEMMA AwaitedAsked ==
  ASSUME NEW e \in Events,
         IF e = "MONITOR_DONE" THEN In({"RUNNING", "UNKNOWN"})
                               ELSE In(Awaited(e) \ {"CLEANUP_RESUBMIT"})
  PROVE  e \in LcmActions /\ Asked(e)
<1>1. /\ e \notin RunningRequests
      /\ e \notin {"MIGRATE", "LIVE_MIGRATE", "DEPLOY", "RESTORE", "RESTART", "DELETE", "CLEAN"}
  BY DEF Events, RunningRequests
<1>2. e \in LcmActions BY DEF LcmActions
<1>3. CASE e = "MONITOR_DONE" BY <1>1, <1>2, <1>3, Zenon DEF Asked
<1>4. CASE e # "MONITOR_DONE" BY <1>1, <1>2, <1>4, Zenon DEF Asked
<1>5. QED BY <1>3, <1>4

(* What does not touch the VM leaves what was true of it.                  *)
LEMMA SameVM ==
  ASSUME UNCHANGED <<vm, capacity>>
  PROVE  /\ InHand => InHand'
         /\ \A S : In(S) => In(S)'
         /\ Quiet => Quiet'
         /\ AtRest => AtRest'
<1>1. InHand => InHand' BY DEF InHand, Shares, TwoHosts
<1>2. \A S : In(S) => In(S)' BY <1>1 DEF In
<1>3. Quiet => Quiet' BY <1>1, <1>2 DEF Quiet
<1>4. AtRest => AtRest' BY <1>3 DEF AtRest, Resting
<1>5. QED BY <1>1, <1>2, <1>3, <1>4

(* The same for what was asked of the VMM.                                 *)
LEMMA SameCommand ==
  ASSUME UNCHANGED <<vm, capacity>>, NEW c \in Commands \ CleanUps, Commanded(c)
  PROVE  Commanded(c)'
<1>1. \A S : In(S) => In(S)' BY SameVM
<1>2. QED BY <1>1 DEF Commanded, Commands, CleanUps

(* The same for what was asked of the TM.                                  *)
LEMMA SameScript ==
  ASSUME UNCHANGED <<vm, capacity>>, NEW s, Scripted(s)
  PROVE  Scripted(s)'
<1>1. \A S : In(S) => In(S)' BY SameVM
<1>2. QED BY <1>1 DEF Scripted

(* The same for what was asked of the LCM.                                 *)
LEMMA SameAsked ==
  ASSUME UNCHANGED <<vm, capacity>>, NEW a, Asked(a)
  PROVE  Asked(a)'
<1>1. (\A S : In(S) => In(S)') /\ (Quiet => Quiet') BY SameVM
<1>2. QED BY <1>1 DEF Asked, Resting, is

(* A command is answered by an event that its state awaits, or, when it    *)
(* asks for no answer, it leaves the VM RUNNING or UNKNOWN.                *)
LEMMA CommandAnswered ==
  ASSUME NEW c \in Commands \ CleanUps, Commanded(c), NEW o \in Outcomes
  PROVE  /\ InHand
         /\ \/ Result(c, o) = <<>> /\ In({"RUNNING", "UNKNOWN"})
            \/ \E e \in Events \ {"MONITOR_DONE"} :
                 Result(c, o) = <<e>> /\ In(Awaited(e) \ {"CLEANUP_RESUBMIT"})
         /\ c = "POLL" => In({"RUNNING", "UNKNOWN"})
<1>1. /\ {"DEPLOY_SUCCESS", "DEPLOY_FAILURE", "SAVE_SUCCESS", "SAVE_FAILURE",
          "SHUTDOWN_SUCCESS", "SHUTDOWN_FAILURE", "CANCEL_SUCCESS", "CANCEL_FAILURE",
          "ATTACH_DONE", "ATTACH_NIC_DONE", "SNAPSHOT_DONE"} \subseteq Events \ {"MONITOR_DONE"}
  BY DEF Events
<1>2. ASSUME NEW S, NEW e \in Events \ {"MONITOR_DONE"}, In(S), S = Awaited(e),
             "CLEANUP_RESUBMIT" \notin S, Result(c, o) = <<e>>, c # "POLL"
      PROVE  /\ InHand /\ c # "POLL"
             /\ \E f \in Events \ {"MONITOR_DONE"} :
                  Result(c, o) = <<f>> /\ In(Awaited(f) \ {"CLEANUP_RESUBMIT"})
  BY <1>2 DEF In
<1>3. CASE c \in {"DEPLOY", "RESTORE", "MIGRATE"}
  <2>1. In(BootStates \cup {"MIGRATE"}) BY <1>3, Zenon DEF Commanded
  <2>2. PICK e \in {"DEPLOY_SUCCESS", "DEPLOY_FAILURE"} : Result(c, o) = <<e>>
    BY <1>3 DEF Result
  <2>3. Awaited(e) = BootStates \cup {"MIGRATE"} /\ "CLEANUP_RESUBMIT" \notin Awaited(e)
    BY DEF Awaited, BootStates
  <2>4. QED BY <1>1, <1>2, <1>3, <2>1, <2>2, <2>3
<1>4. CASE c = "SAVE"
  <2>1. In(SaveStates) BY <1>4, Zenon DEF Commanded
  <2>2. PICK e \in {"SAVE_SUCCESS", "SAVE_FAILURE"} : Result(c, o) = <<e>>
    BY <1>4 DEF Result
  <2>3. Awaited(e) = SaveStates /\ "CLEANUP_RESUBMIT" \notin Awaited(e)
    BY DEF Awaited, SaveStates
  <2>4. QED BY <1>1, <1>2, <1>4, <2>1, <2>2, <2>3
<1>5. CASE c = "SHUTDOWN"
  <2>1. In(ShutdownStates) BY <1>5, Zenon DEF Commanded
  <2>2. PICK e \in {"SHUTDOWN_SUCCESS", "SHUTDOWN_FAILURE"} : Result(c, o) = <<e>>
    BY <1>5 DEF Result
  <2>3. Awaited(e) = ShutdownStates /\ "CLEANUP_RESUBMIT" \notin Awaited(e)
    BY DEF Awaited, ShutdownStates
  <2>4. QED BY <1>1, <1>2, <1>5, <2>1, <2>2, <2>3
<1>6. CASE c = "CANCEL"
  <2>1. In({"CANCEL", "SHUTDOWN_UNDEPLOY", "SHUTDOWN_POWEROFF"})
    BY <1>6, Zenon DEF Commanded
  <2>2. PICK e \in {"CANCEL_SUCCESS", "CANCEL_FAILURE"} : Result(c, o) = <<e>>
    BY <1>6 DEF Result
  <2>3. /\ Awaited(e) = {"CANCEL", "SHUTDOWN_UNDEPLOY", "SHUTDOWN_POWEROFF"}
        /\ "CLEANUP_RESUBMIT" \notin Awaited(e)
    BY DEF Awaited
  <2>4. QED BY <1>1, <1>2, <1>6, <2>1, <2>2, <2>3
<1>7. CASE c \in {"ATTACH", "DETACH"}
  <2>1. In({"HOTPLUG"}) BY <1>7, Zenon DEF Commanded
  <2>2. Result(c, o) = <<"ATTACH_DONE">> BY <1>7 DEF Result
  <2>3. Awaited("ATTACH_DONE") = {"HOTPLUG"} BY Zenon DEF Awaited
  <2>4. QED BY <1>1, <1>2, <1>7, <2>1, <2>2, <2>3
<1>8. CASE c \in {"ATTACH_NIC", "DETACH_NIC"}
  <2>1. In({"HOTPLUG_NIC"}) BY <1>8, Zenon DEF Commanded
  <2>2. Result(c, o) = <<"ATTACH_NIC_DONE">> BY <1>8 DEF Result
  <2>3. Awaited("ATTACH_NIC_DONE") = {"HOTPLUG_NIC"} BY Zenon DEF Awaited
  <2>4. QED BY <1>1, <1>2, <1>8, <2>1, <2>2, <2>3
<1>9. CASE c = "SNAPSHOT"
  <2>1. In({"HOTPLUG_SNAPSHOT"}) BY <1>9, Zenon DEF Commanded
  <2>2. Result(c, o) = <<"SNAPSHOT_DONE">> BY <1>9 DEF Result
  <2>3. Awaited("SNAPSHOT_DONE") = {"HOTPLUG_SNAPSHOT"} BY Zenon DEF Awaited
  <2>4. QED BY <1>1, <1>2, <1>9, <2>1, <2>2, <2>3
<1>10. CASE c \in {"POLL", "REBOOT"}
  <2>1. In({"RUNNING", "UNKNOWN"}) BY <1>10, Zenon DEF Commanded
  <2>2. Result(c, o) = <<>> BY <1>10 DEF Result
  <2>3. QED BY <1>10, <2>1, <2>2 DEF In
<1>11. QED
  BY <1>3, <1>4, <1>5, <1>6, <1>7, <1>8, <1>9, <1>10 DEF Commands, CleanUps

(* A script is answered by an event that the VM's state awaits.            *)
LEMMA ScriptAnswered ==
  ASSUME NEW s \in Scripts \ Removals, Scripted(s)
  PROVE  /\ InHand
         /\ \A success \in BOOLEAN : \E e \in Events \ {"MONITOR_DONE"} :
              Meaning(success) = <<e>> /\ In(Awaited(e) \ {"CLEANUP_RESUBMIT"})
         /\ \E e \in Events \ {"MONITOR_DONE"} :
              /\ e = CASE s \in PrologScripts -> "PROLOG_FAILURE"
                       [] s \in EpilogScripts -> "EPILOG_FAILURE"
                       [] OTHER -> "SAVEAS_HOT_DONE"
              /\ In(Awaited(e) \ {"CLEANUP_RESUBMIT"})
<1>1. {"PROLOG_SUCCESS", "PROLOG_FAILURE", "EPILOG_SUCCESS", "EPILOG_FAILURE",
       "SAVEAS_HOT_DONE"} \subseteq Events \ {"MONITOR_DONE"}
  BY DEF Events
<1>2. PrologScripts \cap EpilogScripts = {} /\ "SAVEAS_HOT" \notin PrologScripts \cup EpilogScripts
  BY DEF PrologScripts, EpilogScripts
<1>3. CASE s \in PrologScripts
  <2>1. In(PrologStates) BY <1>2, <1>3, Zenon DEF Scripted
  <2>2. \A e \in {"PROLOG_SUCCESS", "PROLOG_FAILURE"} : Awaited(e) = PrologStates
    BY DEF Awaited
  <2>3. "CLEANUP_RESUBMIT" \notin PrologStates BY DEF PrologStates
  <2>4. ASSUME NEW success \in BOOLEAN
        PROVE  Meaning(success) = <<IF success THEN "PROLOG_SUCCESS" ELSE "PROLOG_FAILURE">>
    BY <2>1 DEF Meaning, In, PrologStates, EpilogStates, SaveasStates
  <2>5. QED BY <1>1, <1>2, <1>3, <2>1, <2>2, <2>3, <2>4 DEF In
<1>4. CASE s = "SAVEAS_HOT"
  <2>1. In(SaveasStates) BY <1>2, <1>4, Zenon DEF Scripted
  <2>2. Awaited("SAVEAS_HOT_DONE") = SaveasStates BY DEF Awaited
  <2>3. "CLEANUP_RESUBMIT" \notin SaveasStates BY DEF SaveasStates
  <2>4. ASSUME NEW success \in BOOLEAN PROVE Meaning(success) = <<"SAVEAS_HOT_DONE">>
    BY <2>1 DEF Meaning, In, PrologStates, EpilogStates, SaveasStates
  <2>5. QED BY <1>1, <1>2, <1>4, <2>1, <2>2, <2>3, <2>4 DEF In
<1>5. CASE s \in EpilogScripts
  <2>1. In(EpilogStates) BY <1>2, <1>5, Zenon DEF Scripted
  <2>2. \A e \in {"EPILOG_SUCCESS", "EPILOG_FAILURE"} :
          Awaited(e) = EpilogStates \cup {"CLEANUP_RESUBMIT"}
    BY DEF Awaited
  <2>3. "CLEANUP_RESUBMIT" \notin EpilogStates BY DEF EpilogStates
  <2>4. ASSUME NEW success \in BOOLEAN
        PROVE  Meaning(success) = <<IF success THEN "EPILOG_SUCCESS" ELSE "EPILOG_FAILURE">>
    BY <2>1 DEF Meaning, In, PrologStates, EpilogStates, SaveasStates
  <2>5. QED BY <1>1, <1>2, <1>5, <2>1, <2>2, <2>3, <2>4 DEF In
<1>6. QED BY <1>3, <1>4, <1>5 DEF Scripts

(* The moves of a queue, with the place of each manager's queue.           *)
LEMMA QueuePlaces ==
  ASSUME QueuesOK(queue), NEW m \in {"VMM", "TM"}, queue[m] # <<>>
  PROVE  /\ Handled(m) => /\ queue'[m] = Tail(queue[m])
                          /\ \A n \in Managers \ {m} : queue'[n] = queue[n]
         /\ \A e : HandledTo(m, "LCM", <<e>>) /\ queue["LCM"] = <<>> =>
              /\ queue'[m] = Tail(queue[m]) /\ queue'["LCM"] = <<e>>
              /\ \A n \in Managers \ {m, "LCM"} : queue'[n] = queue[n]
<1>. DEFINE q == Pop(queue, m)
<1>1. m \in Managers /\ "LCM" \in Managers \ {m} BY DEF Managers
<1>2. q[m] = Tail(queue[m]) /\ (\A n \in Managers \ {m} : q[n] = queue[n]) /\ QueuesOK(q)
  <2>1. Pop(queue, m)[m] = Tail(queue[m]) BY <1>1, QueueMoves
  <2>2. \A n \in Managers \ {m} : Pop(queue, m)[n] = queue[n] BY <1>1, QueueMoves
  <2>3. QueuesOK(Pop(queue, m)) BY <1>1, QueueMoves
  <2>4. QED BY <2>1, <2>2, <2>3
<1>3. Handled(m) => queue' = q BY DEF Handled
<1>4. \A e : HandledTo(m, "LCM", <<e>>) => queue' = Push(q, "LCM", <<e>>)
  BY DEF HandledTo
<1>. HIDE DEF q
<1>5. ASSUME NEW e, HandledTo(m, "LCM", <<e>>), queue["LCM"] = <<>>
      PROVE  /\ queue'[m] = Tail(queue[m]) /\ queue'["LCM"] = <<e>>
             /\ \A n \in Managers \ {m, "LCM"} : queue'[n] = queue[n]
  <2>1. \A acts : Push(q, "LCM", acts)["LCM"] = q["LCM"] \o acts BY <1>1, <1>2, QueueMoves
  <2>2. \A acts : \A n \in Managers \ {"LCM"} : Push(q, "LCM", acts)[n] = q[n]
    BY <1>1, <1>2, QueueMoves
  <2>3. <<>> \o <<e>> = <<e>> OBVIOUS
  <2>4. q["LCM"] = <<>> BY <1>1, <1>2, <1>5
  <2>5. queue'["LCM"] = <<e>>
    <3>1. queue' = Push(q, "LCM", <<e>>) BY <1>4, <1>5
    <3>2. queue'["LCM"] = q["LCM"] \o <<e>> BY <2>1, <3>1
    <3>3. QED BY <2>3, <2>4, <3>2
  <2>6. \A n \in Managers \ {"LCM"} : queue'[n] = q[n] BY <1>4, <1>5, <2>2
  <2>7. QED BY <1>1, <1>2, <2>5, <2>6
<1>6. QED BY <1>2, <1>3, <1>5

(* The command of a cleaning goes to the hypervisor's driver, or the LCM   *)
(* hears at once that it could not be sent.                                *)
LEMMA VmmCleans ==
  ASSUME SerialInv, Cleaning, NEW c, Receive("VMM", c), UNCHANGED <<vm, capacity, rm>>
  PROVE  /\ c \in CleanUps \cup {"DRIVER_CANCEL"} /\ driver["VMM"] = <<>>
         /\ c \in CleanUps /\ Issue("VMM", c) /\ Handled("VMM") => OneJob'
         /\ (/\ c \in CleanUps
             /\ HandledTo("VMM", "LCM", <<"CLEANUP_DONE">>) /\ UNCHANGED driver) => OneJob'
         /\ (/\ c = "DRIVER_CANCEL" /\ Handled("VMM")
             /\ driver' = [driver EXCEPT !["VMM"] = <<>>]) => OneJob'
<1>1. queue["VMM"] # <<>> /\ Head(queue["VMM"]) = c BY DEF Receive
<1>2. QueuesOK(queue) /\ driver \in [Drivers -> Seq(AnyCommand)]
  BY DEF SerialInv, IInv, TypeOK, DriversOK
<1>3. CleaningVmm BY <1>1 DEF Cleaning, CleaningUp, CleaningTm, CleaningDone
<1>4. PICK k \in CleanUps :
        /\ queue["VMM"] \in {<<k>>, <<"DRIVER_CANCEL", k>>} /\ driver["VMM"] = <<>>
        /\ queue["LCM"] = <<>> /\ NoneOr(queue["TM"], Cancel) /\ driver["TM"] = <<>> /\ rm = {}
  BY <1>1, <1>3 DEF CleaningVmm
<1>5. /\ Head(<<k>>) = k /\ Tail(<<k>>) = <<>>
      /\ Head(<<"DRIVER_CANCEL", k>>) = "DRIVER_CANCEL" /\ Tail(<<"DRIVER_CANCEL", k>>) = <<k>>
      /\ Append(<<>>, k) = <<k>>
  OBVIOUS
<1>6. "DRIVER_CANCEL" \notin CleanUps BY DEF CleanUps
<1>7. \/ c = k /\ Tail(queue["VMM"]) = <<>> /\ queue["VMM"] = <<k>>
      \/ c = "DRIVER_CANCEL" /\ Tail(queue["VMM"]) = <<k>>
  BY <1>1, <1>4, <1>5
<1>8. {"DM", "LCM", "TM", "VMM"} = Managers /\ {"TM", "VMM"} = Drivers
  BY DEF Managers, Drivers
<1>9. CleaningUp BY <1>3 DEF CleaningUp
<1>10. ASSUME c \in CleanUps, Issue("VMM", c), Handled("VMM") PROVE OneJob'
  <2>1. queue'["VMM"] = <<>> /\ \A n \in Managers \ {"VMM"} : queue'[n] = queue[n]
    BY <1>1, <1>2, <1>6, <1>7, <1>10, QueuePlaces
  <2>2. driver'["VMM"] = <<k>> /\ driver'["TM"] = <<>>
    BY <1>2, <1>4, <1>5, <1>6, <1>7, <1>8, <1>10 DEF Issue
  <2>3. CleaningVmm' BY <1>4, <1>8, <2>1, <2>2 DEF CleaningVmm
  <2>4. QED BY <1>8, <1>9, <2>1, <2>3, CleaningGoesOn DEF CleaningUp
<1>11. ASSUME c \in CleanUps, HandledTo("VMM", "LCM", <<"CLEANUP_DONE">>), UNCHANGED driver
       PROVE  OneJob'
  <2>1. /\ queue'["VMM"] = <<>> /\ queue'["LCM"] = <<"CLEANUP_DONE">>
        /\ \A n \in Managers \ {"VMM", "LCM"} : queue'[n] = queue[n]
    BY <1>1, <1>2, <1>4, <1>6, <1>7, <1>11, QueuePlaces
  <2>2. CleaningVmm' BY <1>4, <1>8, <1>11, <2>1 DEF CleaningVmm
  <2>3. QED BY <1>8, <1>9, <2>1, <2>2, CleaningGoesOn DEF CleaningUp
<1>12. ASSUME c = "DRIVER_CANCEL", Handled("VMM"), driver' = [driver EXCEPT !["VMM"] = <<>>]
       PROVE  OneJob'
  <2>1. queue'["VMM"] = <<k>> /\ \A n \in Managers \ {"VMM"} : queue'[n] = queue[n]
    BY <1>1, <1>2, <1>6, <1>7, <1>12, QueuePlaces
  <2>2. driver'["VMM"] = <<>> /\ driver'["TM"] = <<>>
    BY <1>2, <1>4, <1>8, <1>12
  <2>3. CleaningVmm' BY <1>4, <1>8, <2>1, <2>2 DEF CleaningVmm
  <2>4. QED BY <1>8, <1>9, <2>1, <2>3, CleaningGoesOn DEF CleaningUp
<1>13. QED BY <1>4, <1>6, <1>7, <1>10, <1>11, <1>12

(* The same for the script that removes the files of the VM, which a       *)
(* cancellation without any script may also precede.                       *)
LEMMA TmCleans ==
  ASSUME SerialInv, Cleaning, NEW s, Receive("TM", s), UNCHANGED <<vm, capacity, rm>>
  PROVE  /\ s \in Removals \cup {"DRIVER_CANCEL"} /\ driver["TM"] = <<>>
         /\ s \in Removals /\ Issue("TM", s) /\ Handled("TM") => OneJob'
         /\ (/\ s \in Removals
             /\ HandledTo("TM", "LCM", <<"EPILOG_FAILURE">>) /\ UNCHANGED driver) => OneJob'
         /\ (/\ s = "DRIVER_CANCEL" /\ Handled("TM")
             /\ driver' = [driver EXCEPT !["TM"] = <<>>]) => OneJob'
<1>1. queue["TM"] # <<>> /\ Head(queue["TM"]) = s BY DEF Receive
<1>2. QueuesOK(queue) /\ driver \in [Drivers -> Seq(AnyCommand)]
  BY DEF SerialInv, IInv, TypeOK, DriversOK
<1>3. CleaningUp \/ CleaningDone BY DEF Cleaning
<1>4. {"DM", "LCM", "TM", "VMM"} = Managers /\ {"TM", "VMM"} = Drivers
  BY DEF Managers, Drivers
<1>5. "DRIVER_CANCEL" \notin Removals /\ rm' = {}
  BY <1>3 DEF Removals, CleaningUp, CleaningVmm, CleaningTm, CleaningDone
<1>6. CASE CleaningTm
  <2>1. PICK k \in Removals :
          /\ queue["TM"] \in {<<k>>, <<"DRIVER_CANCEL", k>>} /\ driver["TM"] = <<>>
          /\ queue["LCM"] = <<>> /\ queue["VMM"] = <<>> /\ driver["VMM"] = <<>>
    BY <1>1, <1>6 DEF CleaningTm
  <2>2. /\ Head(<<k>>) = k /\ Tail(<<k>>) = <<>>
        /\ Head(<<"DRIVER_CANCEL", k>>) = "DRIVER_CANCEL"
        /\ Tail(<<"DRIVER_CANCEL", k>>) = <<k>>
        /\ Append(<<>>, k) = <<k>>
    OBVIOUS
  <2>3. \/ s = k /\ Tail(queue["TM"]) = <<>>
        \/ s = "DRIVER_CANCEL" /\ Tail(queue["TM"]) = <<k>>
    BY <1>1, <2>1, <2>2
  <2>4. ASSUME s \in Removals, Issue("TM", s), Handled("TM") PROVE OneJob'
    <3>1. queue'["TM"] = <<>> /\ \A n \in Managers \ {"TM"} : queue'[n] = queue[n]
      BY <1>1, <1>2, <1>5, <2>3, <2>4, QueuePlaces
    <3>2. driver'["TM"] = <<k>> /\ driver'["VMM"] = <<>>
      BY <1>2, <1>4, <1>5, <2>1, <2>2, <2>3, <2>4 DEF Issue
    <3>3. CleaningTm' BY <1>4, <1>5, <2>1, <3>1, <3>2 DEF CleaningTm
    <3>4. QED BY <1>4, <1>6, <3>1, <3>3, CleaningGoesOn DEF CleaningUp
  <2>5. ASSUME s \in Removals, HandledTo("TM", "LCM", <<"EPILOG_FAILURE">>), UNCHANGED driver
        PROVE  OneJob'
    <3>1. /\ queue'["TM"] = <<>> /\ queue'["LCM"] = <<"EPILOG_FAILURE">>
          /\ \A n \in Managers \ {"TM", "LCM"} : queue'[n] = queue[n]
      BY <1>1, <1>2, <1>5, <2>1, <2>3, <2>5, QueuePlaces
    <3>2. CleaningVmm' BY <1>4, <1>5, <2>1, <2>5, <3>1 DEF CleaningVmm, NoneOr
    <3>3. QED BY <1>4, <1>6, <3>1, <3>2, CleaningGoesOn DEF CleaningUp
  <2>6. ASSUME s = "DRIVER_CANCEL", Handled("TM"), driver' = [driver EXCEPT !["TM"] = <<>>]
        PROVE  OneJob'
    <3>1. queue'["TM"] = <<k>> /\ \A n \in Managers \ {"TM"} : queue'[n] = queue[n]
      BY <1>1, <1>2, <1>5, <2>3, <2>6, QueuePlaces
    <3>2. driver'["TM"] = <<>> /\ driver'["VMM"] = <<>> BY <1>2, <1>4, <2>1, <2>6
    <3>3. CleaningTm' BY <1>4, <1>5, <2>1, <3>1, <3>2 DEF CleaningTm
    <3>4. QED BY <1>4, <1>6, <3>1, <3>3, CleaningGoesOn DEF CleaningUp
  <2>7. QED BY <1>5, <2>1, <2>3, <2>4, <2>5, <2>6
<1>7. CASE CleaningVmm \/ CleaningDone
  <2>1. queue["TM"] = Cancel /\ driver["TM"] = <<>>
    BY <1>1, <1>7 DEF CleaningVmm, CleaningDone, NoneOr
  <2>2. Head(Cancel) = "DRIVER_CANCEL" /\ Tail(Cancel) = <<>> BY DEF Cancel
  <2>3. s = "DRIVER_CANCEL" BY <1>1, <2>1, <2>2
  <2>4. ASSUME Handled("TM"), driver' = [driver EXCEPT !["TM"] = <<>>] PROVE OneJob'
    <3>1. queue'["TM"] = <<>> /\ \A n \in Managers \ {"TM"} : queue'[n] = queue[n]
      BY <1>1, <1>2, <2>1, <2>2, <2>4, QueuePlaces
    <3>2. driver'["TM"] = <<>> /\ driver'["VMM"] = driver["VMM"]
      BY <1>2, <1>4, <2>4
    <3>3. CASE CleaningVmm
      <4>1. CleaningVmm'
        BY <1>4, <1>5, <3>1, <3>2, <3>3 DEF CleaningVmm, NoneOr
      <4>2. QED BY <1>4, <3>1, <3>3, <4>1, CleaningGoesOn DEF CleaningUp
    <3>4. CASE CleaningDone
      <4>1. CleaningDone'
        BY <1>4, <1>5, <3>1, <3>2, <3>4 DEF CleaningDone, NoneOr
      <4>2. QED BY <1>4, <3>1, <3>4, <4>1, CleaningGoesOn
    <3>5. QED BY <1>7, <3>3, <3>4
  <2>5. QED BY <1>5, <2>1, <2>3, <2>4
<1>8. QED BY <1>3, <1>6, <1>7 DEF CleaningUp

(* A driver that has the command of a cleaning: its answer is for the LCM, *)
(* or, once the VM is DONE or about to be, for nobody.                     *)
LEMMA DriverCleans ==
  ASSUME SerialInv, Cleaning, NEW d \in Drivers, driver[d] # <<>>,
         UNCHANGED <<vm, capacity, rm>>, driver' = [driver EXCEPT ![d] = <<>>]
  PROVE  /\ d = "VMM" => \E c \in CleanUps : driver[d] = <<c>>
         /\ d = "TM" => \E s \in Removals : driver[d] = <<s>>
         /\ UNCHANGED queue /\ (DriversDie \/ vm.lcm # "CLEANUP_RESUBMIT") => OneJob'
         /\ trigger("LCM", <<>>) /\ vm.lcm # "CLEANUP_RESUBMIT" => OneJob'
         /\ \A e \in CleaningAnswers : trigger("LCM", <<e>>) => OneJob'
<1>1. QueuesOK(queue) /\ driver \in [Drivers -> Seq(AnyCommand)]
  BY DEF SerialInv, IInv, TypeOK, DriversOK
<1>2. {"DM", "LCM", "TM", "VMM"} = Managers /\ {"TM", "VMM"} = Drivers
  BY DEF Managers, Drivers
<1>3. /\ CleaningUp
      /\ d = "VMM" => \E c \in CleanUps : driver[d] = <<c>>
      /\ d = "TM" => \E s \in Removals : driver[d] = <<s>>
      /\ queue["LCM"] = <<>> /\ queue["VMM"] = <<>> /\ NoneOr(queue["TM"], Cancel)
      /\ \A e \in Drivers : e # d => driver[e] = <<>>
      /\ rm = {}
  BY <1>2 DEF Cleaning, CleaningUp, CleaningVmm, CleaningTm, CleaningDone, NoneOr
<1>4. driver'["VMM"] = <<>> /\ driver'["TM"] = <<>> BY <1>1, <1>2, <1>3
<1>5. ASSUME \A n \in Managers : queue'[n] = queue[n],
             DriversDie \/ vm.lcm # "CLEANUP_RESUBMIT"
      PROVE  OneJob'
  <2>1. CleaningDone' BY <1>2, <1>3, <1>4, <1>5 DEF CleaningDone
  <2>2. QED BY <1>2, <1>3, <1>5, <2>1, CleaningGoesOn
<1>6. ASSUME NEW acts, trigger("LCM", acts)
      PROVE  queue'["LCM"] = <<>> \o acts /\ \A n \in Managers \ {"LCM"} : queue'[n] = queue[n]
  <2>1. \A a : Push(queue, "LCM", a)["LCM"] = queue["LCM"] \o a BY <1>1, <1>2, QueueMoves
  <2>2. \A a : \A n \in Managers \ {"LCM"} : Push(queue, "LCM", a)[n] = queue[n]
    BY <1>1, <1>2, QueueMoves
  <2>3. QED BY <1>3, <1>6, <2>1, <2>2 DEF trigger
<1>7. ASSUME trigger("LCM", <<>>), vm.lcm # "CLEANUP_RESUBMIT" PROVE OneJob'
  <2>1. <<>> \o <<>> = <<>> OBVIOUS
  <2>2. QED BY <1>3, <1>5, <1>6, <1>7, <2>1
<1>8. ASSUME NEW e \in CleaningAnswers, trigger("LCM", <<e>>) PROVE OneJob'
  <2>1. <<>> \o <<e>> = <<e>> OBVIOUS
  <2>2. queue'["LCM"] = <<e>> /\ \A n \in Managers \ {"LCM"} : queue'[n] = queue[n]
    BY <1>6, <1>8, <2>1
  <2>3. CleaningVmm'
    BY <1>2, <1>3, <1>4, <1>8, <2>2 DEF CleaningVmm, CleaningAnswers
  <2>4. QED BY <1>2, <1>3, <2>2, <2>3, CleaningGoesOn DEF CleaningUp
<1>9. QED BY <1>3, <1>5, <1>7, <1>8

(* The VMM sends a command, or reports that it could not; the driver       *)
(* answers; a poll tells what it found, and polls are sent to VMs at rest. *)
LEMMA VmmStepJob ==
  ASSUME SerialInv, VmmCommand \/ vmm_error \/ VmmAnswer, VmmFrame
  PROVE  OneJob'
<1>1. QueuesOK(queue) /\ DriversOK(driver) /\ vm \in VirtualMachine
  BY DEF SerialInv, IInv, TypeOK
<1>2. UNCHANGED <<capacity, rm>> BY DEF VmmFrame
<1>3. "VMM" \in Managers /\ "LCM" \in Managers /\ "VMM" \in Drivers BY DEF Managers, Drivers
<1>4. \A c \in CleanUps : Result(c, Failure) = <<"CLEANUP_DONE">> /\ c # "POLL"
                          /\ \A o \in Outcomes : Result(c, o) = <<"CLEANUP_DONE">>
  BY DEF Result, CleanUps
<1>5. CleanUps \subseteq Commands /\ "DRIVER_CANCEL" \notin Commands /\ Failure \in Outcomes
      /\ "CLEANUP_DONE" \in CleaningAnswers
  BY DEF Commands, CleanUps, Outcomes, CleaningAnswers
<1>6. CASE vmm_command
  <2>1. PICK c \in Commands : Receive("VMM", c) /\ Issue("VMM", c) /\ Handled("VMM")
                              /\ UNCHANGED vm
    BY <1>6 DEF vmm_command
  <2>2. CASE c \in Commands \ CleanUps /\ Queued("VMM", c) /\ Commanded(c)
    <3>1. Executing("VMM", c)' BY <1>1, <1>2, <1>3, <2>1, <2>2, JobIssued
    <3>2. Commanded(c)' BY <1>2, <2>1, <2>2, SameCommand
    <3>3. QED BY <2>2, <3>1, <3>2, NextJob
  <2>3. CASE Cleaning
    <3>1. c \in CleanUps BY <1>2, <1>5, <2>1, <2>3, VmmCleans
    <3>2. QED BY <1>2, <2>1, <2>3, <3>1, VmmCleans
  <2>4. QED BY <2>1, <2>2, <2>3, VmmTurn
<1>7. CASE vmm_error
  <2>1. PICK c \in Commands : /\ Receive("VMM", c)
                              /\ HandledTo("VMM", "LCM", Result(c, Failure))
                              /\ UNCHANGED <<vm, driver>>
    BY <1>7 DEF vmm_error
  <2>2. CASE c \in Commands \ CleanUps /\ Queued("VMM", c) /\ Commanded(c)
    <3>1. CASE Result(c, Failure) = <<>> /\ In({"RUNNING", "UNKNOWN"})
      <4>1. Idle' BY <1>1, <1>2, <1>3, <2>1, <2>2, <3>1, JobHandled
      <4>2. AtRest' BY <1>2, <2>1, <3>1, SameVM DEF AtRest, Quiet
      <4>3. QED BY <4>1, <4>2, NextJob
    <3>2. CASE \E e \in Events \ {"MONITOR_DONE"} :
                 Result(c, Failure) = <<e>> /\ In(Awaited(e) \ {"CLEANUP_RESUBMIT"})
      <4>1. PICK e \in Events \ {"MONITOR_DONE"} :
              Result(c, Failure) = <<e>> /\ In(Awaited(e) \ {"CLEANUP_RESUBMIT"})
        BY <3>2
      <4>2. Queued("LCM", e)' BY <1>1, <1>2, <1>3, <2>1, <2>2, <4>1, JobHandled
      <4>3. e \in LcmActions /\ Asked(e) BY <4>1, AwaitedAsked
      <4>4. Asked(e)' BY <1>2, <2>1, <4>3, SameAsked
      <4>5. QED BY <4>2, <4>3, <4>4, NextJob
    <3>3. QED BY <1>5, <2>2, <3>1, <3>2, CommandAnswered
  <2>3. CASE Cleaning
    <3>1. c \in CleanUps BY <1>2, <1>5, <2>1, <2>3, VmmCleans
    <3>2. QED BY <1>2, <1>4, <2>1, <2>3, <3>1, VmmCleans
  <2>4. QED BY <2>1, <2>2, <2>3, VmmTurn
<1>8. CASE vmm_driver_cancel
  <2>1. PICK left \in Cancelled(driver["VMM"]) :
          /\ Receive("VMM", "DRIVER_CANCEL") /\ Handled("VMM") /\ UNCHANGED vm
          /\ driver' = [driver EXCEPT !["VMM"] = left]
    BY <1>8 DEF vmm_driver_cancel
  <2>2. Cleaning BY <1>5, <2>1, VmmTurn
  <2>3. driver["VMM"] = <<>> BY <1>2, <2>1, <2>2, VmmCleans
  <2>4. left = <<>> BY <2>1, <2>3 DEF Cancelled
  <2>5. QED BY <1>2, <2>1, <2>2, <2>4, VmmCleans
<1>9. ASSUME NEW i \in 1..Len(driver["VMM"]), Answer("VMM", i)
      PROVE  \/ \E c \in Commands \ CleanUps :
                  Executing("VMM", c) /\ Commanded(c) /\ driver["VMM"][i] = c
             \/ /\ Cleaning /\ driver["VMM"] # <<>>
                /\ \E c \in CleanUps : driver["VMM"][i] = c
                /\ driver' = [driver EXCEPT !["VMM"] = <<>>]
  <2>1. driver["VMM"] # <<>> BY <1>9
  <2>2. CASE \E c \in Commands \ CleanUps : Executing("VMM", c) /\ Commanded(c)
    <3>1. PICK c \in Commands \ CleanUps : Executing("VMM", c) /\ Commanded(c) BY <2>2
    <3>2. driver["VMM"] = <<c>> BY <1>3, <3>1 DEF Executing
    <3>3. driver["VMM"][i] = c BY <1>9, <3>2
    <3>4. QED BY <3>1, <3>3
  <2>3. CASE Cleaning
    <3>1. PICK c \in CleanUps : driver["VMM"] = <<c>>
      BY <2>1, <2>3 DEF Cleaning, CleaningUp, CleaningVmm, CleaningTm, CleaningDone
    <3>2. i = 1 /\ driver["VMM"][i] = c BY <1>9, <3>1
    <3>3. RemoveAt(<<c>>, 1) = <<>> BY DEF RemoveAt
    <3>4. QED BY <1>9, <2>1, <2>3, <3>1, <3>2, <3>3 DEF Answer
  <2>4. QED BY <2>1, <2>2, <2>3, Busy
<1>10. CASE vmm_answer
  <2>1. PICK i \in 1..Len(driver["VMM"]), o \in Outcomes :
          /\ driver["VMM"][i] # "POLL" /\ Answer("VMM", i) /\ UNCHANGED vm
          /\ IF Ignored THEN UNCHANGED queue
                        ELSE trigger("LCM", Result(driver["VMM"][i], o))
    BY <1>10 DEF vmm_answer, vmm_answered
  <2>2. CASE \E c \in Commands \ CleanUps :
               Executing("VMM", c) /\ Commanded(c) /\ driver["VMM"][i] = c
    <3>1. PICK c \in Commands \ CleanUps :
            Executing("VMM", c) /\ Commanded(c) /\ driver["VMM"][i] = c
      BY <2>2
    <3>2. InHand BY <2>1, <3>1, CommandAnswered
    <3>3. trigger("LCM", Result(c, o)) BY <2>1, <3>1, <3>2 DEF Ignored, InHand
    <3>4. CASE Result(c, o) = <<>> /\ In({"RUNNING", "UNKNOWN"})
      <4>1. Idle' BY <1>1, <1>2, <1>3, <2>1, <3>1, <3>3, <3>4, JobAnswered
      <4>2. AtRest' BY <1>2, <2>1, <3>4, SameVM DEF AtRest, Quiet
      <4>3. QED BY <4>1, <4>2, NextJob
    <3>5. CASE \E e \in Events \ {"MONITOR_DONE"} :
                 Result(c, o) = <<e>> /\ In(Awaited(e) \ {"CLEANUP_RESUBMIT"})
      <4>1. PICK e \in Events \ {"MONITOR_DONE"} :
              Result(c, o) = <<e>> /\ In(Awaited(e) \ {"CLEANUP_RESUBMIT"})
        BY <3>5
      <4>2. Queued("LCM", e)' BY <1>1, <1>2, <1>3, <2>1, <3>1, <3>3, <4>1, JobAnswered
      <4>3. e \in LcmActions /\ Asked(e) BY <4>1, AwaitedAsked
      <4>4. Asked(e)' BY <1>2, <2>1, <4>3, SameAsked
      <4>5. QED BY <4>2, <4>3, <4>4, NextJob
    <3>6. QED BY <3>1, <3>4, <3>5, CommandAnswered
  <2>3. CASE /\ Cleaning /\ driver["VMM"] # <<>>
             /\ \E c \in CleanUps : driver["VMM"][i] = c
             /\ driver' = [driver EXCEPT !["VMM"] = <<>>]
    <3>1. Ignored => vm.lcm # "CLEANUP_RESUBMIT" BY DEF Ignored
    <3>2. IF Ignored THEN UNCHANGED queue ELSE trigger("LCM", <<"CLEANUP_DONE">>)
      BY <1>4, <2>1, <2>3
    <3>3. QED BY <1>2, <1>3, <1>5, <2>1, <2>3, <3>1, <3>2, DriverCleans
  <2>4. QED BY <1>9, <2>1, <2>2, <2>3
<1>11. CASE vmm_poll_answer
  <2>1. PICK i \in 1..Len(driver["VMM"]) :
          /\ driver["VMM"][i] = "POLL" /\ Answer("VMM", i)
          /\ IF Ignored THEN UNCHANGED <<vm, queue>> ELSE PollAnswer
    BY <1>11 DEF vmm_poll_answer, vmm_poll_answered
  <2>2. PICK c \in Commands \ CleanUps :
          Executing("VMM", c) /\ Commanded(c) /\ c = "POLL"
    BY <1>4, <1>9, <2>1
  <2>3. In({"RUNNING", "UNKNOWN"}) BY <1>5, <2>2, CommandAnswered
  <2>4. PollAnswer BY <2>1, <2>3 DEF Ignored, In
  <2>5. {"MONITOR_SUSPEND", "MONITOR_FAILURE", "MONITOR_DONE"} \subseteq Events
        /\ \A e \in {"MONITOR_SUSPEND", "MONITOR_FAILURE"} : Awaited(e) = {"RUNNING", "UNKNOWN"}
    BY DEF Events, Awaited
  <2>6. ASSUME NEW e \in {"MONITOR_SUSPEND", "MONITOR_FAILURE", "MONITOR_DONE"},
               trigger("LCM", <<e>>), UNCHANGED vm
        PROVE  OneJob'
    <3>1. Queued("LCM", e)' BY <1>1, <1>2, <1>3, <2>1, <2>2, <2>6, JobAnswered
    <3>2. e \in Events BY <2>5
    <3>3. {"RUNNING", "UNKNOWN"} \ {"CLEANUP_RESUBMIT"} = {"RUNNING", "UNKNOWN"} OBVIOUS
    <3>4. e \in LcmActions /\ Asked(e) BY <2>3, <2>5, <3>2, <3>3, AwaitedAsked
    <3>5. Asked(e)' BY <1>2, <2>6, <3>4, SameAsked
    <3>6. QED BY <3>1, <3>4, <3>5, NextJob
  <2>7. CASE vm' = [vm EXCEPT !.lcm = "RUNNING"] /\ UNCHANGED queue
    <3>1. vm'.lcm = "RUNNING" /\ vm'.state = vm.state /\ vm'.hist = vm.hist
      BY <1>1, <2>7, Fields
    <3>2. InHand'
      BY <1>2, <2>3, <3>1, OnOneHost, StaysOnHost DEF In, Nowheres, TwoHostStates
    <3>3. Idle' BY <1>1, <1>2, <1>3, <2>1, <2>2, <2>7, JobAnswered
    <3>4. QED BY <3>1, <3>2, <3>3, RunsIdle
  <2>8. CASE UNCHANGED <<vm, queue>>
    <3>1. Idle' BY <1>1, <1>2, <1>3, <2>1, <2>2, <2>8, JobAnswered
    <3>2. AtRest' BY <1>2, <2>3, <2>8, SameVM DEF AtRest, Quiet
    <3>3. QED BY <3>1, <3>2, NextJob
  <2>9. QED BY <2>4, <2>6, <2>7, <2>8 DEF PollAnswer
<1>12. QED BY <1>6, <1>7, <1>8, <1>10, <1>11 DEF VmmCommand, VmmAnswer

(* The TM hands a script to its driver, or reports that it could not, and  *)
(* the driver answers.                                                     *)
LEMMA TmStepJob == ASSUME SerialInv, TmStep PROVE OneJob'
<1>1. QueuesOK(queue) /\ DriversOK(driver) BY DEF SerialInv, IInv, TypeOK
<1>2. UNCHANGED <<vm, capacity, rm>> BY DEF TmStep, TmFrame
<1>3. "TM" \in Managers /\ "LCM" \in Managers /\ "TM" \in Drivers BY DEF Managers, Drivers
<1>4. /\ Removals \subseteq Scripts /\ "DRIVER_CANCEL" \notin Scripts
      /\ Removals \subseteq EpilogScripts
      /\ \A s \in Removals : s \notin PrologScripts
      /\ {"EPILOG_SUCCESS", "EPILOG_FAILURE"} \subseteq CleaningAnswers
  BY DEF Scripts, PrologScripts, EpilogScripts, Removals, CleaningAnswers
<1>5. ASSUME NEW s \in Scripts \ Removals, Scripted(s),
             NEW e \in Events \ {"MONITOR_DONE"},
             In(Awaited(e) \ {"CLEANUP_RESUBMIT"}), Queued("LCM", e)'
      PROVE  OneJob'
  <2>1. e \in LcmActions /\ Asked(e) BY <1>5, AwaitedAsked
  <2>2. Asked(e)' BY <1>2, <2>1, SameAsked
  <2>3. QED BY <1>5, <2>1, <2>2, NextJob
<1>6. CASE tm_transfer
  <2>1. PICK s \in Scripts : Receive("TM", s) /\ Issue("TM", s) /\ Handled("TM")
    BY <1>6 DEF tm_transfer
  <2>2. CASE s \in Scripts \ Removals /\ Queued("TM", s) /\ Scripted(s)
    <3>1. Executing("TM", s)' BY <1>1, <1>2, <1>3, <2>1, <2>2, JobIssued
    <3>2. Scripted(s)' BY <1>2, <2>2, SameScript
    <3>3. QED BY <2>2, <3>1, <3>2, NextJob
  <2>3. CASE Cleaning
    <3>1. s \in Removals BY <1>2, <1>4, <2>1, <2>3, TmCleans
    <3>2. QED BY <1>2, <2>1, <2>3, <3>1, TmCleans
  <2>4. QED BY <2>1, <2>2, <2>3, TmTurn
<1>7. CASE tm_error
  <2>1. PICK s \in Scripts :
          /\ Receive("TM", s) /\ UNCHANGED driver
          /\ HandledTo("TM", "LCM", <<CASE s \in PrologScripts -> "PROLOG_FAILURE"
                                        [] s \in EpilogScripts -> "EPILOG_FAILURE"
                                        [] OTHER -> "SAVEAS_HOT_DONE">>)
    BY <1>7 DEF tm_error
  <2>2. CASE s \in Scripts \ Removals /\ Queued("TM", s) /\ Scripted(s)
    <3>1. PICK e \in Events \ {"MONITOR_DONE"} :
            /\ e = CASE s \in PrologScripts -> "PROLOG_FAILURE"
                     [] s \in EpilogScripts -> "EPILOG_FAILURE"
                     [] OTHER -> "SAVEAS_HOT_DONE"
            /\ In(Awaited(e) \ {"CLEANUP_RESUBMIT"})
      BY <2>2, ScriptAnswered
    <3>2. Queued("LCM", e)' BY <1>1, <1>2, <1>3, <2>1, <2>2, <3>1, JobHandled
    <3>3. QED BY <1>5, <2>2, <3>1, <3>2
  <2>3. CASE Cleaning
    <3>1. s \in Removals BY <1>2, <1>4, <2>1, <2>3, TmCleans
    <3>2. HandledTo("TM", "LCM", <<"EPILOG_FAILURE">>) BY <1>4, <2>1, <3>1
    <3>3. QED BY <1>2, <2>1, <2>3, <3>1, <3>2, TmCleans
  <2>4. QED BY <2>1, <2>2, <2>3, TmTurn
<1>8. CASE tm_driver_cancel
  <2>1. PICK left \in Cancelled(driver["TM"]) :
          /\ Receive("TM", "DRIVER_CANCEL") /\ Handled("TM")
          /\ driver' = [driver EXCEPT !["TM"] = left]
    BY <1>8 DEF tm_driver_cancel
  <2>2. Cleaning BY <1>4, <2>1, TmTurn
  <2>3. driver["TM"] = <<>> BY <1>2, <2>1, <2>2, TmCleans
  <2>4. left = <<>> BY <2>1, <2>3 DEF Cancelled
  <2>5. QED BY <1>2, <2>1, <2>2, <2>4, TmCleans
<1>9. CASE tm_answer
  <2>1. PICK i \in 1..Len(driver["TM"]), success \in BOOLEAN :
          Answer("TM", i) /\ trigger("LCM", Meaning(success))
    BY <1>9 DEF tm_answer, tm_answered
  <2>2. driver["TM"] # <<>> BY <2>1
  <2>3. CASE \E s \in Scripts \ Removals : Executing("TM", s) /\ Scripted(s)
    <3>1. PICK s \in Scripts \ Removals : Executing("TM", s) /\ Scripted(s) BY <2>3
    <3>2. PICK e \in Events \ {"MONITOR_DONE"} :
            Meaning(success) = <<e>> /\ In(Awaited(e) \ {"CLEANUP_RESUBMIT"})
      BY <3>1, ScriptAnswered
    <3>3. Queued("LCM", e)' BY <1>1, <1>2, <1>3, <2>1, <3>1, <3>2, JobAnswered
    <3>4. QED BY <1>5, <3>1, <3>2, <3>3
  <2>4. CASE Cleaning
    <3>1. PICK s \in Removals : driver["TM"] = <<s>>
      BY <2>2, <2>4 DEF Cleaning, CleaningUp, CleaningVmm, CleaningTm, CleaningDone
    <3>2. i = 1 BY <2>1, <3>1
    <3>3. RemoveAt(<<s>>, 1) = <<>> BY DEF RemoveAt
    <3>4. driver' = [driver EXCEPT !["TM"] = <<>>] BY <2>1, <3>1, <3>2, <3>3 DEF Answer
    <3>5. CASE vm.lcm = "CLEANUP_RESUBMIT"
      <4>1. Meaning(success) = <<IF success THEN "EPILOG_SUCCESS" ELSE "EPILOG_FAILURE">>
        BY <3>5 DEF Meaning, PrologStates, SaveasStates
      <4>2. QED BY <1>2, <1>3, <1>4, <2>1, <2>2, <2>4, <3>4, <4>1, DriverCleans
    <3>6. CASE vm.lcm # "CLEANUP_RESUBMIT"
      <4>1. vm.lcm \in {"CLEANUP_DELETE", "LCM_INIT"} BY <2>4, <3>6 DEF Cleaning, is
      <4>2. Meaning(success) = <<>>
        BY <4>1 DEF Meaning, PrologStates, EpilogStates, SaveasStates
      <4>3. QED BY <1>2, <1>3, <2>1, <2>2, <2>4, <3>4, <3>6, <4>2, DriverCleans
    <3>7. QED BY <3>5, <3>6
  <2>5. QED BY <2>2, <2>3, <2>4, Busy
<1>10. QED BY <1>6, <1>7, <1>8, <1>9 DEF TmStep, TmCommand

(* A driver that dies leaves an ACTIVE VM without work, which is where a   *)
(* VM may rest when drivers die.                                           *)
LEMMA DriverLostJob == ASSUME SerialInv, DriverLost PROVE OneJob'
<1>1. QueuesOK(queue) /\ driver \in [Drivers -> Seq(AnyCommand)]
  BY DEF SerialInv, IInv, TypeOK, DriversOK
<1>2. DriversDie /\ UNCHANGED <<vm, capacity, rm, queue>>
  BY DEF DriverLost, vmm_driver_lost, tm_driver_lost, VmmFrame, TmFrame
<1>3. PICK d \in Drivers : driver[d] # <<>> /\ driver' = [driver EXCEPT ![d] = <<>>]
  BY DEF DriverLost, vmm_driver_lost, tm_driver_lost, Drivers
<1>4. CASE Cleaning BY <1>2, <1>3, <1>4, DriverCleans
<1>5. ASSUME NEW c, Executing(d, c), InHand PROVE OneJob'
  <2>1. Idle' BY <1>1, <1>2, <1>3, <1>5 DEF Executing, Idle, NoWork
  <2>2. Quiet BY <1>2, <1>5 DEF Quiet
  <2>3. AtRest' BY <1>2, <2>2, SameVM DEF AtRest
  <2>4. QED BY <2>1, <2>3, NextJob
<1>6. CASE d = "VMM"
  <2>1. (\E c \in Commands \ CleanUps : Executing("VMM", c) /\ Commanded(c)) \/ Cleaning
    BY <1>3, <1>6, Busy
  <2>2. Success \in Outcomes BY DEF Outcomes
  <2>3. QED BY <1>4, <1>5, <1>6, <2>1, <2>2, CommandAnswered
<1>7. CASE d = "TM"
  <2>1. (\E s \in Scripts \ Removals : Executing("TM", s) /\ Scripted(s)) \/ Cleaning
    BY <1>3, <1>7, Busy
  <2>2. QED BY <1>4, <1>5, <1>7, <2>1, ScriptAnswered
<1>8. QED BY <1>6, <1>7 DEF Drivers

-----------------------------------------------------------------------------
(* Requests *)

(* What is pending is counted by natural numbers.                          *)
LEMMA PendingParts ==
  ASSUME SerialInv
  PROVE  /\ IsFiniteSet(rm) /\ Cardinality(rm) \in Nat
         /\ Len(queue["DM"]) \in Nat /\ Len(queue["LCM"]) \in Nat /\ Len(queue["TM"]) \in Nat
         /\ Len(queue["VMM"]) \in Nat /\ Len(driver["TM"]) \in Nat /\ Len(driver["VMM"]) \in Nat
<1>1. IsFiniteSet(rm)
  <2>1. IsFiniteSet({}) /\ \A r : IsFiniteSet({r}) BY FS_EmptySet, FS_Singleton
  <2>2. rm = {} \/ \E r : rm = {r}
    BY DEF SerialInv, OneJob, Idle, Waiting, Queued, Executing, Cleaning, CleaningUp,
           CleaningVmm, CleaningTm, CleaningDone
  <2>3. QED BY <2>1, <2>2
<1>2. Cardinality(rm) \in Nat BY <1>1, FS_CardinalityType
<1>3. /\ \A m \in Managers : queue[m] \in Seq(AnyAction)
      /\ \A d \in Drivers : driver[d] \in Seq(AnyCommand)
  BY DEF SerialInv, IInv, TypeOK, QueuesOK, DriversOK
<1>4. QED BY <1>1, <1>2, <1>3 DEF Managers, Drivers

(* When nothing is pending there is no work at all, and the VM rests.      *)
LEMMA NothingPending ==
  ASSUME SerialInv, Pending < 1
  PROVE  Idle /\ AtRest
<1>3. /\ \A m \in Managers : queue[m] \in Seq(AnyAction)
      /\ \A d \in Drivers : driver[d] \in Seq(AnyCommand)
  BY DEF SerialInv, IInv, TypeOK, QueuesOK, DriversOK
<1>4. {"DM", "LCM", "TM", "VMM"} = Managers /\ {"TM", "VMM"} = Drivers
  BY DEF Managers, Drivers
<1>6. /\ Len(queue["DM"]) = 0 /\ Len(queue["LCM"]) = 0 /\ Len(queue["TM"]) = 0
      /\ Len(queue["VMM"]) = 0 /\ Len(driver["TM"]) = 0 /\ Len(driver["VMM"]) = 0
      /\ Cardinality(rm) = 0
  <2>. DEFINE a == Len(queue["DM"])    b == Len(queue["LCM"])  c == Len(queue["TM"])
              d == Len(queue["VMM"])   e == Len(driver["TM"])  f == Len(driver["VMM"])
              g == Cardinality(rm)
  <2>1. a + b + c + d + e + f + g < 1 BY DEF Pending
  <2>2. /\ a \in Nat /\ b \in Nat /\ c \in Nat /\ d \in Nat /\ e \in Nat /\ f \in Nat
        /\ g \in Nat
    BY PendingParts
  <2>. HIDE DEF a, b, c, d, e, f, g
  <2>3. a = 0 /\ b = 0 /\ c = 0 /\ d = 0 /\ e = 0 /\ f = 0 /\ g = 0 BY <2>1, <2>2
  <2>4. QED BY <2>3 DEF a, b, c, d, e, f, g
<1>7. NoWork BY <1>3, <1>4, <1>6 DEF NoWork
<1>8. rm = {} BY <1>6, PendingParts, FS_EmptySet
<1>9. Idle BY <1>7, <1>8 DEF Idle
<1>10. \A x : <<x>> # <<>> OBVIOUS
<1>11. /\ ~\E r \in rm : Waiting(r)
       /\ \A m \in Managers : \A a : ~Queued(m, a)
       /\ \A d \in Drivers : \A c : ~Executing(d, c)
  BY <1>7, <1>8, <1>10 DEF NoWork, Queued, Executing
<1>12. CASE Cleaning
  <2>1. ~CleaningUp
    <3>1. \A s : <<"DRIVER_CANCEL", s>> # <<>> OBVIOUS
    <3>2. QED BY <1>4, <1>7, <1>10, <3>1 DEF NoWork, CleaningUp, CleaningVmm, CleaningTm
  <2>2. queue["DM"] = <<>> BY <1>4, <1>7 DEF NoWork
  <2>3. \/ is("ACTIVE", "CLEANUP_RESUBMIT") /\ DriversDie
        \/ is("DONE", "LCM_INIT")
        \/ is("PENDING", "LCM_INIT")
    BY <1>10, <1>12, <2>1, <2>2 DEF Cleaning
  <2>4. capacity = {} BY <1>12 DEF Cleaning
  <2>5. AtRest
    BY <2>3, <2>4 DEF is, AtRest, Resting, Off, Quiet, InHand, Shares, TwoHosts
  <2>6. QED BY <1>9, <2>5
<1>13. CASE ~Cleaning BY <1>4, <1>9, <1>11, <1>13 DEF SerialInv, OneJob
<1>14. QED BY <1>12, <1>13

(* So it is when a user asks for something or a timer fires.               *)
LEMMA RequestsWait ==
  ASSUME SerialInv, OneAtATime, Pending < MaxPending
  PROVE  Idle /\ AtRest
<1>1. MaxPending \in Nat BY BoundsAssumption
<1>2. MaxPending = 1 \/ MaxPending = 0 BY <1>1 DEF OneAtATime
<1>3. ~(Pending < 0)
  <2>1. ASSUME NEW a \in Nat, NEW b \in Nat, NEW c \in Nat, NEW d \in Nat, NEW e \in Nat,
               NEW f \in Nat, NEW g \in Nat
        PROVE  ~(a + b + c + d + e + f + g < 0)
    OBVIOUS
  <2>2. QED BY <2>1, PendingParts DEF Pending
<1>4. Pending < 1 BY <1>2, <1>3
<1>5. QED BY <1>4, NothingPending

(* Where a VM rests.                                                       *)
LEMMA RestingPlaces ==
  ASSUME AtRest
  PROVE  /\ vm.state = "ACTIVE" => Quiet /\ InHand
         /\ is("ACTIVE", "RUNNING") => In({"RUNNING"}) /\ capacity = {vm.hist.hid}
         /\ vm.state # "ACTIVE" =>
              /\ vm.state \in Off \cup {"SUSPENDED", "POWEROFF"} /\ vm.lcm = "LCM_INIT"
              /\ capacity = IF vm.state \in Off THEN {} ELSE {vm.hist.hid}
<1>1. vm.state = "ACTIVE" => Quiet /\ InHand BY DEF AtRest, Resting, Off, Quiet, In
<1>2. is("ACTIVE", "RUNNING") => In({"RUNNING"}) /\ capacity = {vm.hist.hid}
  BY <1>1, OnOneHost DEF is, In, Nowheres, TwoHostStates
<1>3. vm.state # "ACTIVE" => Resting(Off \cup {"SUSPENDED", "POWEROFF"})
  BY DEF AtRest, Quiet, In, InHand
<1>4. QED BY <1>1, <1>2, <1>3 DEF Resting

(* Polling starts with a VM that rests.                                    *)
LEMMA TimerJob ==
  ASSUME SerialInv, OneAtATime, vmm_timer, VmmFrame
  PROVE  OneJob'
<1>1. /\ Pending < MaxPending /\ vm.state = "ACTIVE" /\ vm.lcm \in {"RUNNING", "UNKNOWN"}
      /\ Issue("VMM", "POLL") /\ UNCHANGED <<vm, queue, capacity, rm>>
  BY DEF vmm_timer, VmmFrame
<1>2. Idle /\ AtRest BY <1>1, RequestsWait
<1>3. In({"RUNNING", "UNKNOWN"}) BY <1>1, <1>2, RestingPlaces DEF In
<1>4. Executing("VMM", "POLL")'
  BY <1>1, <1>2, JobBegins DEF SerialInv, IInv, TypeOK, Drivers
<1>5. In({"RUNNING", "UNKNOWN"})' BY <1>1, <1>3, SameVM
<1>6. Commanded("POLL")' BY <1>5, Zenon DEF Commanded
<1>7. "POLL" \in Commands \ CleanUps BY DEF Commands, CleanUps
<1>8. QED BY <1>4, <1>6, <1>7, NextJob

(* A request that the LCM is asked to serve finds the VM as it should be.  *)
LEMMA AskJob ==
  ASSUME SerialInv, Idle, NEW a \in LcmActions, Asked(a)', trigger("LCM", <<a>>),
         UNCHANGED <<driver, rm>>
  PROVE  OneJob'
<1>1. Queued("LCM", a)' BY JobBegins DEF SerialInv, IInv, TypeOK, Managers
<1>2. QED BY <1>1, NextJob

(* A request whose thread is to come back has left the VM as that thread   *)
(* expects it.                                                             *)
LEMMA ThreadJob ==
  ASSUME SerialInv, Idle, NEW r, Begun(r)', rm' = rm \cup {r}, UNCHANGED <<queue, driver>>
  PROVE  OneJob'
<1>1. Waiting(r)' BY JobBegins DEF SerialInv, IInv, TypeOK
<1>2. QED BY <1>1, NextJob

(* A VM that is not ACTIVE stays so, in a state in which nobody need know. *)
LEMMA MoveJob ==
  ASSUME Idle, UNCHANGED <<queue, driver, rm>>, vm'.state \in Off, vm'.lcm = "LCM_INIT",
         capacity' = {}
  PROVE  OneJob'
<1>1. Idle' BY DEF Idle, NoWork
<1>2. AtRest' BY DEF AtRest, Resting
<1>3. QED BY <1>1, <1>2, NextJob

(* The files of a VM that has no host any more are removed beside the end  *)
(* of its life, or before it is taken back.                                *)
LEMMA RemovalJob ==
  ASSUME SerialInv, Idle, NEW s \in Removals, trigger("TM", <<s>>),
         UNCHANGED <<driver, rm>>, capacity' = {},
         is("DONE", "LCM_INIT")' \/ is("ACTIVE", "CLEANUP_RESUBMIT")'
  PROVE  OneJob'
<1>1. Queued("TM", s)' BY JobBegins DEF SerialInv, IInv, TypeOK, Managers
<1>2. CleaningTm' /\ queue'["DM"] = <<>>
  BY <1>1 DEF Queued, CleaningTm, Managers, Drivers
<1>3. Cleaning' BY <1>2 DEF Cleaning, CleaningUp, is
<1>4. QED BY <1>3, NextJob

(* Requests through the dispatch manager.                                  *)
LEMMA DmRequestJob ==
  ASSUME SerialInv, OneAtATime, DmRequest
  PROVE  OneJob'
<1>1. vm \in VirtualMachine /\ QueuesOK(queue) /\ UNCHANGED driver
  BY DEF SerialInv, IInv, TypeOK, DmRequest
<1>2. \A r : Request(r) => Idle /\ AtRest BY RequestsWait DEF Request
<1>3. "LCM" \in Managers /\ "VMM" \in Managers BY DEF Managers
<1>4. CASE \E op \in RunningOps : dm_running(op)
  <2>1. PICK op \in RunningOps :
          /\ Request(op) /\ is("ACTIVE", "RUNNING") /\ trigger("LCM", <<op>>)
          /\ UNCHANGED <<vm, capacity, rm>>
    BY <1>4 DEF dm_running
  <2>2. Idle /\ In({"RUNNING"}) BY <1>2, <2>1, RestingPlaces
  <2>3. op \in RunningRequests \ {"MIGRATE", "LIVE_MIGRATE"} /\ op \in LcmActions
    BY DEF RunningOps, RunningRequests, LcmActions
  <2>4. Asked(op)
    <3>1. InHand /\ vm.lcm \in {"RUNNING"} BY <2>2 DEF In
    <3>2. op \notin {"DEPLOY", "RESTORE", "RESTART", "DELETE", "CLEAN", "MONITOR_DONE"}
      BY DEF RunningOps
    <3>3. QED BY <2>3, <3>1, <3>2 DEF Asked, In
  <2>5. Asked(op)' BY <2>1, <2>4, SameAsked
  <2>6. QED BY <1>1, <2>1, <2>2, <2>3, <2>5, AskJob
<1>5. CASE cancel
  <2>1. /\ Request("CANCEL") /\ is("ACTIVE", "RUNNING") /\ UNCHANGED <<vm, capacity, queue>>
        /\ rm' = rm \cup {RmStep("CANCEL", NoHost)}
    BY <1>5 DEF cancel, later
  <2>2. Idle /\ In({"RUNNING"}) BY <1>2, <2>1, RestingPlaces
  <2>3. In({"RUNNING"})' BY <2>1, <2>2, SameVM
  <2>4. RmStep("CANCEL", NoHost).step = "CANCEL" BY DEF RmStep
  <2>5. Begun(RmStep("CANCEL", NoHost))' BY <2>3, <2>4, Zenon DEF Begun
  <2>6. QED BY <1>1, <2>1, <2>2, <2>5, ThreadJob
<1>6. ASSUME NEW op \in {"ATTACH", "DETACH", "ATTACH_NIC", "DETACH_NIC", "SNAPSHOT"},
             NEW lcm \in HotplugStates, hotplug(op, lcm),
             op \in {"ATTACH", "DETACH"} => lcm = "HOTPLUG",
             op \in {"ATTACH_NIC", "DETACH_NIC"} => lcm = "HOTPLUG_NIC",
             op = "SNAPSHOT" => lcm = "HOTPLUG_SNAPSHOT"
      PROVE  OneJob'
  <2>1. /\ Request(op) /\ is("ACTIVE", "RUNNING") /\ vm' = [vm EXCEPT !.lcm = lcm]
        /\ UNCHANGED <<capacity, queue>> /\ rm' = rm \cup {RmStep(op, NoHost)}
    BY <1>6 DEF hotplug, later
  <2>2. Idle /\ capacity = {vm.hist.hid} BY <1>2, <2>1, RestingPlaces
  <2>3. vm'.lcm = lcm /\ vm'.state = "ACTIVE" /\ vm'.hist = vm.hist
    BY <1>1, <2>1, Fields DEF is
  <2>4. InHand'
    BY <2>1, <2>2, <2>3, StaysOnHost DEF HotplugStates, Nowheres, TwoHostStates
  <2>5. RmStep(op, NoHost).step = op BY DEF RmStep
  <2>6. Begun(RmStep(op, NoHost))'
    <3>1. CASE op \in {"ATTACH", "DETACH"}
      BY <1>6, <2>3, <2>4, <2>5, <3>1, Zenon DEF Begun, In
    <3>2. CASE op \in {"ATTACH_NIC", "DETACH_NIC"}
      BY <1>6, <2>3, <2>4, <2>5, <3>2, Zenon DEF Begun, In
    <3>3. CASE op = "SNAPSHOT"
      BY <1>6, <2>3, <2>4, <2>5, <3>3, Zenon DEF Begun, In
    <3>4. QED BY <3>1, <3>2, <3>3
  <2>7. QED BY <1>1, <2>1, <2>2, <2>6, ThreadJob
<1>7. CASE attach \/ detach \/ attach_nic \/ detach_nic \/ snapshot
  BY <1>6, <1>7 DEF attach, detach, attach_nic, detach_nic, snapshot, HotplugStates
<1>8. CASE attach_failed
  <2>1. PICK r \in rm : /\ r.step \in {"ATTACH", "ATTACH_NIC"} /\ rm' = rm \ {r}
                        /\ vm' = [vm EXCEPT !.lcm = "RUNNING"] /\ UNCHANGED <<capacity, queue>>
    BY <1>8 DEF attach_failed
  <2>2. Waiting(r) /\ Begun(r) BY <2>1, Busy DEF Waiting
  <2>3. In({"HOTPLUG"}) \/ In({"HOTPLUG_NIC"})
    <3>1. CASE r.step = "ATTACH"
      <4>1. r.step \in {"ATTACH", "DETACH"} BY <3>1
      <4>2. QED BY <2>2, <3>1, <4>1, Zenon DEF Begun
    <3>2. CASE r.step = "ATTACH_NIC"
      <4>1. r.step \in {"ATTACH_NIC", "DETACH_NIC"} BY <3>2
      <4>2. QED BY <2>2, <3>2, <4>1, Zenon DEF Begun
    <3>3. QED BY <2>1, <3>1, <3>2
  <2>4. capacity = {vm.hist.hid} /\ vm.state = "ACTIVE"
    BY <2>3, OnOneHost DEF In, Nowheres, TwoHostStates
  <2>5. vm'.lcm = "RUNNING" /\ vm'.state = "ACTIVE" /\ vm'.hist = vm.hist
    BY <1>1, <2>1, <2>4, Fields
  <2>6. InHand' BY <2>1, <2>4, <2>5, StaysOnHost DEF Nowheres, TwoHostStates
  <2>7. Idle' BY <1>1, <2>1, <2>2, JobReturns
  <2>8. QED BY <2>5, <2>6, <2>7, RunsIdle
<1>9. CASE late_trigger
  <2>1. PICK r \in rm :
          /\ r.step \in {"ATTACH", "ATTACH_NIC", "DETACH", "DETACH_NIC", "SNAPSHOT", "CANCEL"}
          /\ trigger(TriggerOf(r.step), <<r.step>>) /\ rm' = rm \ {r}
          /\ UNCHANGED <<vm, capacity>>
    BY <1>9 DEF late_trigger
  <2>2. Waiting(r) /\ Begun(r) BY <2>1, Busy DEF Waiting
  <2>3. CASE r.step = "CANCEL"
    <3>1. In({"RUNNING"}) BY <2>2, <2>3, Zenon DEF Begun
    <3>2. "CANCEL" \in RunningRequests \ {"MIGRATE", "LIVE_MIGRATE"} /\ "CANCEL" \in LcmActions
      BY DEF RunningRequests, LcmActions
    <3>3. Asked("CANCEL")
      <4>1. InHand /\ vm.lcm \in {"RUNNING"} BY <3>1 DEF In
      <4>2. QED BY <3>2, <4>1, Zenon DEF Asked, In
    <3>4. Asked("CANCEL")' BY <2>1, <3>3, SameAsked
    <3>5. trigger("LCM", <<"CANCEL">>) BY <2>1, <2>3 DEF TriggerOf
    <3>6. Queued("LCM", "CANCEL")' BY <1>1, <1>3, <2>1, <2>2, <3>5, JobReturns
    <3>7. QED BY <3>2, <3>4, <3>6, NextJob
  <2>4. ASSUME r.step # "CANCEL", Commanded(r.step) PROVE OneJob'
    <3>1. r.step \in Commands \ CleanUps BY <2>1, <2>4 DEF Commands, CleanUps
    <3>2. Commanded(r.step)' BY <2>1, <2>4, <3>1, SameCommand
    <3>3. trigger("VMM", <<r.step>>) BY <2>1, <2>4 DEF TriggerOf
    <3>4. Queued("VMM", r.step)' BY <1>1, <1>3, <2>1, <2>2, <3>3, JobReturns
    <3>5. QED BY <3>1, <3>2, <3>4, NextJob
  <2>5. CASE r.step \in {"ATTACH", "DETACH"}
    <3>1. In({"HOTPLUG"}) BY <2>2, <2>5, Zenon DEF Begun
    <3>2. Commanded(r.step) BY <2>5, <3>1, Zenon DEF Commanded
    <3>3. QED BY <2>4, <2>5, <3>2
  <2>6. CASE r.step \in {"ATTACH_NIC", "DETACH_NIC"}
    <3>1. In({"HOTPLUG_NIC"}) BY <2>2, <2>6, Zenon DEF Begun
    <3>2. Commanded(r.step) BY <2>6, <3>1, Zenon DEF Commanded
    <3>3. QED BY <2>4, <2>6, <3>2
  <2>7. CASE r.step = "SNAPSHOT"
    <3>1. In({"HOTPLUG_SNAPSHOT"}) BY <2>2, <2>7, Zenon DEF Begun
    <3>2. Commanded(r.step) BY <2>7, <3>1, Zenon DEF Commanded
    <3>3. QED BY <2>4, <2>7, <3>2
  <2>8. QED BY <2>1, <2>3, <2>5, <2>6, <2>7
<1>10. CASE reboot
  <2>1. /\ Request("REBOOT") /\ is("ACTIVE", "RUNNING") /\ trigger("VMM", <<"REBOOT">>)
        /\ UNCHANGED <<vm, capacity, rm>>
    BY <1>10 DEF reboot
  <2>2. Idle /\ In({"RUNNING"}) BY <1>2, <2>1, RestingPlaces
  <2>3. In({"RUNNING", "UNKNOWN"}) BY <2>2 DEF In
  <2>4. Commanded("REBOOT") BY <2>3, Zenon DEF Commanded
  <2>5. "REBOOT" \in Commands \ CleanUps BY DEF Commands, CleanUps
  <2>6. Commanded("REBOOT")' BY <2>1, <2>4, <2>5, SameCommand
  <2>7. Queued("VMM", "REBOOT")'
    BY <1>1, <1>3, <2>1, <2>2, JobBegins DEF SerialInv, IInv, TypeOK
  <2>8. QED BY <2>5, <2>6, <2>7, NextJob
<1>11. ASSUME NEW a \in {"RESTART", "RESTORE", "DELETE", "CLEAN"}, Idle, trigger("LCM", <<a>>),
              UNCHANGED <<vm, capacity, rm>>,
              a = "RESTART" => Resting({"POWEROFF"}) \/ In(BootStates \cup {"UNKNOWN"}),
              a = "RESTORE" => Resting({"SUSPENDED"}),
              a \in {"DELETE", "CLEAN"} => Quiet
       PROVE  OneJob'
  <2>1. a \in LcmActions /\ a \notin RunningRequests BY DEF LcmActions, RunningRequests
  <2>2. Asked(a)
    <3>1. CASE a = "RESTART" BY <1>11, <2>1, <3>1, Zenon DEF Asked
    <3>2. CASE a = "RESTORE" BY <1>11, <2>1, <3>2, Zenon DEF Asked
    <3>3. CASE a \in {"DELETE", "CLEAN"} BY <1>11, <2>1, <3>3, Zenon DEF Asked
    <3>4. QED BY <3>1, <3>2, <3>3
  <2>3. Asked(a)' BY <1>11, <2>2, SameAsked
  <2>4. QED BY <1>1, <1>11, <2>1, <2>3, AskJob
<1>12. CASE restart
  <2>1. /\ Request("RESTART") /\ vm.state = "ACTIVE" /\ vm.lcm \in BootStates \cup {"UNKNOWN"}
        /\ trigger("LCM", <<"RESTART">>) /\ UNCHANGED <<vm, capacity, rm>>
    BY <1>12 DEF restart
  <2>2. Idle /\ InHand BY <1>2, <2>1, RestingPlaces
  <2>3. QED BY <1>11, <2>1, <2>2 DEF In
<1>13. CASE hold \/ release
  <2>1. PICK op \in {"HOLD", "RELEASE"}, from \in {"PENDING", "HOLD"}, to \in {"PENDING", "HOLD"} :
          /\ Request(op) /\ vm.state = from /\ vm' = [vm EXCEPT !.state = to]
          /\ UNCHANGED <<capacity, queue, rm>>
    BY <1>13 DEF hold, release, hold_release
  <2>2. Idle /\ vm.lcm = "LCM_INIT" /\ capacity = {} BY <1>2, <2>1, RestingPlaces DEF Off
  <2>3. vm'.state = to /\ vm'.lcm = "LCM_INIT" BY <1>1, <2>1, <2>2, Fields
  <2>4. QED BY <1>1, <2>1, <2>2, <2>3, MoveJob DEF Off
<1>14. CASE resume
  <2>1. Request("RESUME") /\ UNCHANGED <<capacity, rm>> BY <1>14 DEF resume
  <2>2. Idle /\ AtRest BY <1>2, <2>1
  <2>3. CASE /\ vm.state \in {"STOPPED", "UNDEPLOYED"} /\ vm' = [vm EXCEPT !.state = "PENDING"]
             /\ UNCHANGED queue
    <3>1. vm.lcm = "LCM_INIT" /\ capacity = {} BY <2>2, <2>3, RestingPlaces DEF Off
    <3>2. vm'.state = "PENDING" /\ vm'.lcm = "LCM_INIT" BY <1>1, <2>3, <3>1, Fields
    <3>3. QED BY <1>1, <2>1, <2>2, <2>3, <3>1, <3>2, MoveJob DEF Off
  <2>4. CASE vm.state = "SUSPENDED" /\ trigger("LCM", <<"RESTORE">>) /\ UNCHANGED vm
    <3>1. Resting({"SUSPENDED"}) BY <2>2, <2>4, RestingPlaces DEF Resting, Off
    <3>2. QED BY <1>11, <2>1, <2>2, <2>4, <3>1
  <2>5. CASE vm.state = "POWEROFF" /\ trigger("LCM", <<"RESTART">>) /\ UNCHANGED vm
    <3>1. Resting({"POWEROFF"}) BY <2>2, <2>5, RestingPlaces DEF Resting, Off
    <3>2. QED BY <1>11, <2>1, <2>2, <2>5, <3>1
  <2>6. QED BY <1>14, <2>3, <2>4, <2>5 DEF resume
<1>15. CASE finalize
  <2>1. Request("DELETE") /\ UNCHANGED rm BY <1>15 DEF finalize
  <2>2. Idle /\ AtRest BY <1>2, <2>1
  <2>3. finished(vm).state = "DONE" /\ finished(vm).lcm = "LCM_INIT"
    BY <1>1 DEF finished, VirtualMachine
  <2>4. CASE vm.state \in {"SUSPENDED", "POWEROFF", "FAILED", "STOPPED", "UNDEPLOYED"}
    <3>1. /\ vm' = finished(vm)
          /\ capacity' = IF vm.state \in {"SUSPENDED", "POWEROFF"}
                           THEN capacity \ {vm.hist.hid} ELSE capacity
          /\ \E s \in Removals : trigger("TM", <<s>>)
      BY <1>15, <2>4 DEF finalize, del_capacity, Removals
    <3>2. capacity' = {} BY <2>2, <2>4, <3>1, RestingPlaces DEF Off
    <3>3. is("DONE", "LCM_INIT")' BY <2>3, <3>1 DEF is
    <3>4. QED BY <1>1, <2>1, <2>2, <3>1, <3>2, <3>3, RemovalJob
  <2>5. CASE vm.state \in {"INIT", "PENDING", "HOLD"}
    <3>1. vm' = finished(vm) /\ UNCHANGED <<capacity, queue>> BY <1>15, <2>5 DEF finalize
    <3>2. capacity = {} BY <2>2, <2>5, RestingPlaces DEF Off
    <3>3. QED BY <1>1, <2>1, <2>2, <2>3, <3>1, <3>2, MoveJob DEF Off
  <2>6. CASE vm.state = "ACTIVE"
    <3>1. trigger("LCM", <<"DELETE">>) /\ UNCHANGED <<vm, capacity>>
      BY <1>15, <2>6 DEF finalize
    <3>2. QED BY <1>11, <2>1, <2>2, <2>6, <3>1, RestingPlaces
  <2>7. QED BY <1>15, <2>4, <2>5, <2>6 DEF finalize
<1>16. CASE resubmit
  <2>1. Request("RESUBMIT") /\ UNCHANGED <<capacity, rm>> BY <1>16 DEF resubmit
  <2>2. Idle /\ AtRest BY <1>2, <2>1
  <2>3. CASE /\ vm.state = "FAILED" /\ trigger("TM", <<"EPILOG_DELETE">>)
             /\ vm' = [vm EXCEPT !.state = "ACTIVE", !.lcm = "CLEANUP_RESUBMIT"]
    <3>1. capacity = {} BY <2>2, <2>3, RestingPlaces DEF Off
    <3>2. is("ACTIVE", "CLEANUP_RESUBMIT")' BY <1>1, <2>3 DEF is, VirtualMachine
    <3>3. QED BY <1>1, <2>1, <2>2, <2>3, <3>1, <3>2, RemovalJob DEF Removals
  <2>4. CASE /\ vm.state \in {"HOLD", "STOPPED", "UNDEPLOYED"} /\ UNCHANGED queue
             /\ vm' = [vm EXCEPT !.state = "PENDING", !.lcm = "LCM_INIT"]
    <3>1. capacity = {} BY <2>2, <2>4, RestingPlaces DEF Off
    <3>2. vm'.state = "PENDING" /\ vm'.lcm = "LCM_INIT" BY <1>1, <2>4 DEF VirtualMachine
    <3>3. QED BY <1>1, <2>1, <2>2, <2>4, <3>1, <3>2, MoveJob DEF Off
  <2>5. CASE vm.state = "ACTIVE" /\ trigger("LCM", <<"CLEAN">>) /\ UNCHANGED vm
    BY <1>11, <2>1, <2>2, <2>5, RestingPlaces
  <2>6. QED BY <1>16, <2>3, <2>4, <2>5 DEF resubmit
<1>17. QED
  BY <1>4, <1>5, <1>7, <1>8, <1>9, <1>10, <1>12, <1>13, <1>14, <1>15, <1>16, Zenon
  DEF DmRequest

(* A deployment: the record of the host is there and the LCM is told.      *)
LEMMA DeployJob ==
  ASSUME SerialInv, NEW h \in Hosts, add_history_and_deploy(h), Resting({"PENDING", "HOLD"})
  PROVE  trigger("LCM", <<"DEPLOY">>) /\ Asked("DEPLOY")' /\ "DEPLOY" \in LcmActions
<1>1. vm \in VirtualMachine BY DEF SerialInv, IInv, TypeOK
<1>2. /\ vm.state \in {"PENDING", "HOLD"} /\ vm.lcm = "LCM_INIT" /\ capacity = {}
  BY DEF Resting, Off
<1>3. /\ vm' = [add_history(vm, h) EXCEPT !.state = "ACTIVE"] /\ UNCHANGED capacity
      /\ trigger("LCM", <<"DEPLOY">>)
  BY <1>2 DEF add_history_and_deploy, Deployable
<1>4. add_history(vm, h) \in PlacedVM /\ add_history(vm, h).lcm = vm.lcm
  BY <1>1, AddHistory, HistoryKeepsStates
<1>5. vm'.state = "ACTIVE" /\ vm'.lcm = "LCM_INIT"
  BY <1>2, <1>3, <1>4 DEF PlacedVM, VirtualMachine
<1>6. is("ACTIVE", "LCM_INIT")' /\ capacity' = {} BY <1>2, <1>3, <1>5 DEF is
<1>7. "DEPLOY" \notin RunningRequests /\ "DEPLOY" \in LcmActions
  BY DEF RunningRequests, LcmActions
<1>8. Asked("DEPLOY")' BY <1>6, <1>7, Zenon DEF Asked
<1>9. QED BY <1>3, <1>7, <1>8

(* The disk of a VM is being saved: a thread waits for its image.          *)
LEMMA SaveBegun ==
  ASSUME NEW r, r.step \in {"SAVEAS", "SAVEAS_IMAGE"}
  PROVE  (Begun(r) => In(SaveasStates)) /\ (In(SaveasStates)' => Begun(r)')
BY Zenon DEF Begun

(* A migration is asked for a RUNNING VM whose new host has a record.      *)
LEMMA MigrateJob ==
  ASSUME SerialInv, NEW r, r.step \in {"MIGRATE", "LIVE_MIGRATE"}, r.hid \in Hosts, Begun(r),
         vm' = add_history(vm, r.hid), migrate(r.step), UNCHANGED capacity
  PROVE  trigger("LCM", <<r.step>>) /\ Asked(r.step)' /\ r.step \in LcmActions
<1>1. vm \in VirtualMachine BY DEF SerialInv, IInv, TypeOK
<1>2. In({"RUNNING"}) /\ r.hid # vm.hist.hid BY Zenon DEF Begun
<1>3. is("ACTIVE", "RUNNING") /\ capacity = {vm.hist.hid}
  BY <1>2, OnOneHost DEF In, InHand, is, Nowheres, TwoHostStates
<1>4. vm.hist.hid # NoHost BY <1>3, HostsAssumption, Placed DEF is, SerialInv
<1>5. vm' = [vm EXCEPT !.hist = NewRecord(r.hid), !.prev = vm.hist]
  BY <1>4 DEF add_history
<1>6. /\ vm'.state = vm.state /\ vm'.lcm = vm.lcm /\ vm'.prev = vm.hist
      /\ vm'.hist.hid = r.hid
  BY <1>1, <1>5 DEF VirtualMachine, NewRecord
<1>7. /\ is("ACTIVE", "RUNNING")' /\ capacity' = {vm'.prev.hid}
      /\ vm'.hist.hid # vm'.prev.hid
  BY <1>2, <1>3, <1>6 DEF is
<1>8. Asked(r.step)' BY <1>7, Zenon DEF Asked
<1>9. trigger("LCM", <<r.step>>) BY <1>3 DEF migrate
<1>10. r.step \in LcmActions BY DEF LcmActions, RunningRequests
<1>11. QED BY <1>8, <1>9, <1>10

(* What a user reports with recover is what the state of the VM awaits.    *)
LEMMA RecoverAsked ==
  ASSUME InHand, NEW success \in BOOLEAN, RecoverEvent(success) # <<>>
  PROVE  \E e \in Events \ {"MONITOR_DONE"} :
           RecoverEvent(success) = <<e>> /\ vm.lcm \in Awaited(e) \ {"CLEANUP_RESUBMIT"}
<1>1. ASSUME NEW S, NEW yes \in Events \ {"MONITOR_DONE"}, NEW no \in Events \ {"MONITOR_DONE"},
             vm.lcm \in S, S \subseteq Awaited(yes), S \subseteq Awaited(no),
             "CLEANUP_RESUBMIT" \notin S,
             RecoverEvent(success) = <<IF success THEN yes ELSE no>>
      PROVE  \E e \in Events \ {"MONITOR_DONE"} :
               RecoverEvent(success) = <<e>> /\ vm.lcm \in Awaited(e) \ {"CLEANUP_RESUBMIT"}
  BY <1>1
<1>2. /\ {"SAVE_SUCCESS", "SAVE_FAILURE", "DEPLOY_SUCCESS", "DEPLOY_FAILURE",
          "SHUTDOWN_SUCCESS", "SHUTDOWN_FAILURE", "CANCEL_SUCCESS", "CANCEL_FAILURE",
          "ATTACH_DONE", "ATTACH_NIC_DONE", "SNAPSHOT_DONE", "PROLOG_SUCCESS",
          "PROLOG_FAILURE", "EPILOG_SUCCESS", "EPILOG_FAILURE", "SAVEAS_HOT_DONE"}
            \subseteq Events \ {"MONITOR_DONE"}
  BY DEF Events
<1>3. /\ \A e \in {"SAVE_SUCCESS", "SAVE_FAILURE"} : Awaited(e) = SaveStates
      /\ \A e \in {"DEPLOY_SUCCESS", "DEPLOY_FAILURE"} : Awaited(e) = BootStates \cup {"MIGRATE"}
      /\ \A e \in {"SHUTDOWN_SUCCESS", "SHUTDOWN_FAILURE"} : Awaited(e) = ShutdownStates
      /\ \A e \in {"CANCEL_SUCCESS", "CANCEL_FAILURE"} : "CANCEL" \in Awaited(e)
      /\ \A e \in {"PROLOG_SUCCESS", "PROLOG_FAILURE"} : Awaited(e) = PrologStates
      /\ \A e \in {"EPILOG_SUCCESS", "EPILOG_FAILURE"} : EpilogStates \subseteq Awaited(e)
      /\ Awaited("SAVEAS_HOT_DONE") = SaveasStates
      /\ Awaited("ATTACH_DONE") = {"HOTPLUG"} /\ Awaited("ATTACH_NIC_DONE") = {"HOTPLUG_NIC"}
      /\ Awaited("SNAPSHOT_DONE") = {"HOTPLUG_SNAPSHOT"}
  BY DEF Awaited
<1>4. "CLEANUP_RESUBMIT" \notin PrologStates \cup EpilogStates \cup SaveasStates \cup BootStates
                                  \cup ShutdownStates \cup SaveStates
  BY DEF PrologStates, EpilogStates, SaveasStates, BootStates, ShutdownStates, SaveStates
<1>. USE DEF RecoverEvent, PrologStates, EpilogStates, SaveasStates, BootStates,
             ShutdownStates, SaveStates
<1>5. CASE vm.lcm \in PrologStates
  <2>1. RecoverEvent(success) = <<IF success THEN "PROLOG_SUCCESS" ELSE "PROLOG_FAILURE">>
    BY <1>5
  <2>2. QED BY <1>1, <1>2, <1>3, <1>4, <1>5, <2>1
<1>6. CASE vm.lcm \in EpilogStates
  <2>1. RecoverEvent(success) = <<IF success THEN "EPILOG_SUCCESS" ELSE "EPILOG_FAILURE">>
    BY <1>6
  <2>2. QED BY <1>1, <1>2, <1>3, <1>4, <1>6, <2>1
<1>7. CASE vm.lcm \in SaveasStates
  <2>1. RecoverEvent(success) = <<"SAVEAS_HOT_DONE">> BY <1>7
  <2>2. QED BY <1>1, <1>2, <1>3, <1>4, <1>7, <2>1
<1>8. CASE vm.lcm \in BootStates \cup {"MIGRATE"}
  <2>1. RecoverEvent(success) = <<IF success THEN "DEPLOY_SUCCESS" ELSE "DEPLOY_FAILURE">>
    BY <1>8
  <2>2. QED BY <1>1, <1>2, <1>3, <1>4, <1>8, <2>1
<1>9. CASE vm.lcm \in ShutdownStates
  <2>1. RecoverEvent(success) = <<IF success THEN "SHUTDOWN_SUCCESS" ELSE "SHUTDOWN_FAILURE">>
    BY <1>9
  <2>2. QED BY <1>1, <1>2, <1>3, <1>4, <1>9, <2>1
<1>10. CASE vm.lcm = "CANCEL"
  <2>1. RecoverEvent(success) = <<IF success THEN "CANCEL_SUCCESS" ELSE "CANCEL_FAILURE">>
    BY <1>10
  <2>2. {"CANCEL"} \subseteq Awaited("CANCEL_SUCCESS") /\ {"CANCEL"} \subseteq Awaited("CANCEL_FAILURE")
    BY <1>3
  <2>3. QED BY <1>2, <1>10, <2>1, <2>2
<1>11. CASE vm.lcm \in SaveStates
  <2>1. RecoverEvent(success) = <<IF success THEN "SAVE_SUCCESS" ELSE "SAVE_FAILURE">>
    BY <1>11
  <2>2. QED BY <1>1, <1>2, <1>3, <1>4, <1>11, <2>1
<1>12. CASE vm.lcm \in {"HOTPLUG", "HOTPLUG_NIC", "HOTPLUG_SNAPSHOT"}
  <2>1. RecoverEvent(success) = <<IF vm.lcm = "HOTPLUG" THEN "ATTACH_DONE"
                                  ELSE IF vm.lcm = "HOTPLUG_NIC" THEN "ATTACH_NIC_DONE"
                                  ELSE "SNAPSHOT_DONE">>
    BY <1>12
  <2>2. QED BY <1>2, <1>3, <1>12, <2>1
<1>13. QED BY <1>5, <1>6, <1>7, <1>8, <1>9, <1>10, <1>11, <1>12

(* Requests through the other methods of the request manager.              *)
LEMMA RmNextJob ==
  ASSUME SerialInv, OneAtATime, RmNext
  PROVE  OneJob'
<1>1. vm \in VirtualMachine /\ QueuesOK(queue) /\ UNCHANGED driver
  BY DEF SerialInv, IInv, TypeOK, RmNext
<1>2. \A r : Request(r) => Idle /\ AtRest BY RequestsWait DEF Request
<1>3. "LCM" \in Managers /\ "DM" \in Managers /\ "TM" \in Managers BY DEF Managers
<1>4. rm \subseteq RmType BY DEF SerialInv, IInv, TypeOK
<1>5. AtRest /\ Deployable => Resting({"PENDING", "HOLD"})
  BY RestingPlaces DEF Deployable, Resting, Off
<1>6. CASE rm_deploy
  <2>1. PICK h \in Hosts : Request("DEPLOY") /\ Deployable /\ add_history_and_deploy(h)
                           /\ UNCHANGED rm
    BY <1>6 DEF rm_deploy
  <2>2. Idle /\ Resting({"PENDING", "HOLD"}) BY <1>2, <1>5, <2>1
  <2>3. trigger("LCM", <<"DEPLOY">>) /\ Asked("DEPLOY")' /\ "DEPLOY" \in LcmActions
    BY <2>1, <2>2, DeployJob
  <2>4. QED BY <1>1, <2>1, <2>2, <2>3, AskJob
<1>7. CASE rm_deploy_enforce
  <2>1. PICK h \in Hosts : /\ Request("DEPLOY_ENFORCE") /\ Deployable
                           /\ rm' = rm \cup {RmStep("DEPLOY", h)}
                           /\ UNCHANGED <<vm, capacity, queue>>
    BY <1>7 DEF rm_deploy_enforce
  <2>2. Idle /\ Resting({"PENDING", "HOLD"}) BY <1>2, <1>5, <2>1
  <2>3. Resting({"PENDING", "HOLD"})' BY <2>1, <2>2 DEF Resting
  <2>4. RmStep("DEPLOY", h).step = "DEPLOY" BY DEF RmStep
  <2>5. Begun(RmStep("DEPLOY", h))' BY <2>3, <2>4, Zenon DEF Begun
  <2>6. QED BY <1>1, <2>1, <2>2, <2>5, ThreadJob
<1>8. CASE rm_deploy_locked
  <2>1. PICK r \in rm : r.step = "DEPLOY" /\ add_history_and_deploy(r.hid) /\ rm' = rm \ {r}
    BY <1>8 DEF rm_deploy_locked
  <2>2. Waiting(r) /\ Begun(r) BY <2>1, Busy DEF Waiting
  <2>3. Resting({"PENDING", "HOLD"}) BY <2>1, <2>2, Zenon DEF Begun
  <2>4. r.hid \in Hosts BY <1>4, <2>1 DEF RmType, HostSteps
  <2>5. trigger("LCM", <<"DEPLOY">>) /\ Asked("DEPLOY")' /\ "DEPLOY" \in LcmActions
    BY <2>1, <2>3, <2>4, DeployJob
  <2>6. Queued("LCM", "DEPLOY")' BY <1>1, <1>3, <2>1, <2>2, <2>5, JobReturns
  <2>7. QED BY <2>5, <2>6, NextJob
<1>9. CASE rm_migrate
  <2>1. PICK m \in {"MIGRATE", "LIVE_MIGRATE"}, h \in Hosts \ {vm.hist.hid} :
          /\ Request(m) /\ is("ACTIVE", "RUNNING") /\ rm' = rm \cup {RmStep(m, h)}
          /\ UNCHANGED <<vm, capacity, queue>>
    BY <1>9 DEF rm_migrate, CanMigrate
  <2>2. Idle /\ In({"RUNNING"}) BY <1>2, <2>1, RestingPlaces
  <2>3. In({"RUNNING"})' /\ h # vm'.hist.hid BY <2>1, <2>2, SameVM
  <2>4. RmStep(m, h).step = m /\ RmStep(m, h).hid = h BY DEF RmStep
  <2>5. Begun(RmStep(m, h))'
    <3>1. RmStep(m, h).step \in {"MIGRATE", "LIVE_MIGRATE"} /\ RmStep(m, h).hid # vm'.hist.hid
      BY <2>3, <2>4
    <3>2. QED BY <2>3, <3>1, Zenon DEF Begun
  <2>6. QED BY <1>1, <2>1, <2>2, <2>5, ThreadJob
<1>10. CASE rm_migrate_locked
  <2>1. PICK r \in rm : /\ r.step \in {"MIGRATE", "LIVE_MIGRATE"} /\ vm' = add_history(vm, r.hid)
                        /\ migrate(r.step) /\ rm' = rm \ {r} /\ UNCHANGED capacity
    BY <1>10 DEF rm_migrate_locked
  <2>2. Waiting(r) /\ Begun(r) BY <2>1, Busy DEF Waiting
  <2>3. r.hid \in Hosts BY <1>4, <2>1 DEF RmType, HostSteps
  <2>4. trigger("LCM", <<r.step>>) /\ Asked(r.step)' /\ r.step \in LcmActions
    BY <2>1, <2>2, <2>3, MigrateJob
  <2>5. Queued("LCM", r.step)' BY <1>1, <1>3, <2>1, <2>2, <2>4, JobReturns
  <2>6. QED BY <2>4, <2>5, NextJob
<1>11. CASE rm_savedisk
  <2>1. /\ Request("SAVEAS") /\ Saveable /\ vm' = set_saveas_state(vm)
        /\ rm' = rm \cup {RmStep("SAVEAS", NoHost)} /\ UNCHANGED <<capacity, queue>>
    BY <1>11 DEF rm_savedisk, later
  <2>2. Idle /\ capacity = {vm.hist.hid}
    BY <1>2, <2>1, RestingPlaces DEF Saveable, Off, is
  <2>3. vm'.state = "ACTIVE" /\ vm'.lcm \in SaveasStates /\ vm'.hist = vm.hist
    BY <1>1, <2>1 DEF set_saveas_state, SaveasStates, VirtualMachine
  <2>4. In(SaveasStates)'
    BY <2>1, <2>2, <2>3, StaysOnHost DEF In, SaveasStates, Nowheres, TwoHostStates
  <2>5. RmStep("SAVEAS", NoHost).step = "SAVEAS" BY DEF RmStep
  <2>6. Begun(RmStep("SAVEAS", NoHost))' BY <2>4, <2>5, SaveBegun
  <2>7. QED BY <1>1, <2>1, <2>2, <2>6, ThreadJob
<1>12. CASE rm_savedisk_allocated
  <2>. DEFINE n == RmStep("SAVEAS_IMAGE", NoHost)
  <2>1. PICK r \in rm : /\ r.step = "SAVEAS" /\ rm' = (rm \ {r}) \cup {n}
                        /\ UNCHANGED <<vm, capacity, queue>>
    BY <1>12 DEF rm_savedisk_allocated
  <2>2. Waiting(r) /\ Begun(r) BY <2>1, Busy DEF Waiting
  <2>3. n.step = "SAVEAS_IMAGE" BY DEF RmStep
  <2>. HIDE DEF n
  <2>4. In(SaveasStates) BY <2>1, <2>2, SaveBegun
  <2>5. In(SaveasStates)' BY <2>1, <2>4, SameVM
  <2>6. Begun(n)' BY <2>3, <2>5, SaveBegun
  <2>7. Waiting(n)' BY <1>1, <2>1, <2>2 DEF Waiting, NoWork
  <2>8. QED BY <2>6, <2>7, NextJob
<1>13. CASE rm_savedisk_undone
  <2>1. PICK r \in rm : /\ r.step \in {"SAVEAS", "SAVEAS_IMAGE"} /\ rm' = rm \ {r}
                        /\ vm' = clear_saveas_state(vm) /\ UNCHANGED <<capacity, queue>>
    BY <1>13 DEF rm_savedisk_undone
  <2>2. Waiting(r) /\ Begun(r) BY <2>1, Busy DEF Waiting
  <2>3. In(SaveasStates) BY <2>1, <2>2, SaveBegun
  <2>4. capacity = {vm.hist.hid} /\ vm.state = "ACTIVE" /\ vm.lcm \in SaveasStates
    BY <2>3, OnOneHost DEF In, SaveasStates, Nowheres, TwoHostStates
  <2>5. Idle' BY <1>1, <2>1, <2>2, JobReturns
  <2>6. \/ vm' = [vm EXCEPT !.lcm = "RUNNING"]
        \/ vm' = [vm EXCEPT !.state = "POWEROFF", !.lcm = "LCM_INIT"]
        \/ vm' = [vm EXCEPT !.state = "SUSPENDED", !.lcm = "LCM_INIT"]
    BY <2>1, <2>4 DEF clear_saveas_state, SaveasStates
  <2>7. CASE vm' = [vm EXCEPT !.lcm = "RUNNING"]
    <3>1. vm'.lcm = "RUNNING" /\ vm'.state = "ACTIVE" /\ vm'.hist = vm.hist
      BY <1>1, <2>4, <2>7, Fields
    <3>2. InHand' BY <2>1, <2>4, <3>1, StaysOnHost DEF Nowheres, TwoHostStates
    <3>3. QED BY <2>5, <3>1, <3>2, RunsIdle
  <2>8. CASE \E s \in {"POWEROFF", "SUSPENDED"} :
               vm' = [vm EXCEPT !.state = s, !.lcm = "LCM_INIT"]
    <3>1. vm'.state \in {"SUSPENDED", "POWEROFF"} /\ vm'.lcm = "LCM_INIT" /\ vm'.hist = vm.hist
      BY <1>1, <2>8 DEF VirtualMachine
    <3>2. QED BY <2>1, <2>4, <2>5, <3>1, RestsIdle
  <2>9. QED BY <2>6, <2>7, <2>8
<1>14. CASE rm_savedisk_hot
  <2>1. PICK r \in rm : /\ r.step = "SAVEAS_IMAGE" /\ rm' = rm \ {r}
                        /\ trigger("TM", <<"SAVEAS_HOT">>) /\ UNCHANGED <<vm, capacity>>
    BY <1>14 DEF rm_savedisk_hot
  <2>2. Waiting(r) /\ Begun(r) BY <2>1, Busy DEF Waiting
  <2>3. In(SaveasStates)' BY <2>1, <2>2, SaveBegun, SameVM
  <2>4. "SAVEAS_HOT" \notin PrologScripts /\ "SAVEAS_HOT" \in Scripts \ Removals
    BY DEF PrologScripts, Scripts, Removals
  <2>5. Scripted("SAVEAS_HOT")' BY <2>3, <2>4, Zenon DEF Scripted
  <2>6. Queued("TM", "SAVEAS_HOT")' BY <1>1, <1>3, <2>1, <2>2, JobReturns
  <2>7. QED BY <2>4, <2>5, <2>6, NextJob
<1>15. CASE recover
  <2>1. Request("RECOVER") /\ vm.state = "ACTIVE" /\ UNCHANGED <<capacity, rm>>
    BY <1>15 DEF recover
  <2>2. Idle /\ Quiet /\ InHand BY <1>2, <2>1, RestingPlaces
  <2>3. CASE vm.lcm = "UNKNOWN" /\ vm' = [vm EXCEPT !.lcm = "RUNNING"] /\ UNCHANGED queue
    <3>1. vm'.lcm = "RUNNING" /\ vm'.state = "ACTIVE" /\ vm'.hist = vm.hist
      BY <1>1, <2>1, <2>3, Fields
    <3>2. InHand'
      BY <2>1, <2>2, <2>3, <3>1, OnOneHost, StaysOnHost DEF Nowheres, TwoHostStates
    <3>3. Idle' BY <1>1, <2>1, <2>2, <2>3 DEF Idle, NoWork
    <3>4. QED BY <3>1, <3>2, <3>3, RunsIdle
  <2>4. CASE vm.lcm = "CLEANUP_RESUBMIT" /\ trigger("DM", <<"RESUBMIT">>) /\ UNCHANGED vm
    <3>1. capacity = {} BY <2>2, <2>4 DEF InHand, Shares, TwoHosts
    <3>2. Queued("DM", "RESUBMIT")'
      BY <1>1, <1>3, <2>1, <2>2, <2>4, JobBegins DEF SerialInv, IInv, TypeOK
    <3>3. CleaningDone' /\ queue'["DM"] = <<"RESUBMIT">>
      BY <3>2 DEF Queued, CleaningDone, NoneOr, Managers, Drivers
    <3>4. Cleaning' BY <2>1, <2>4, <3>1, <3>3 DEF Cleaning, is
    <3>5. QED BY <3>4, NextJob
  <2>5. CASE /\ \E success \in BOOLEAN : /\ RecoverEvent(success) # <<>>
                                         /\ trigger("LCM", RecoverEvent(success))
             /\ UNCHANGED vm
    <3>1. PICK success \in BOOLEAN :
            RecoverEvent(success) # <<>> /\ trigger("LCM", RecoverEvent(success))
      BY <2>5
    <3>2. PICK e \in Events \ {"MONITOR_DONE"} :
            RecoverEvent(success) = <<e>> /\ vm.lcm \in Awaited(e) \ {"CLEANUP_RESUBMIT"}
      BY <2>2, <3>1, RecoverAsked
    <3>3. In(Awaited(e) \ {"CLEANUP_RESUBMIT"}) BY <2>2, <3>2 DEF In
    <3>4. e \in LcmActions /\ Asked(e) BY <3>3, AwaitedAsked
    <3>5. Asked(e)' BY <2>1, <2>5, <3>4, SameAsked
    <3>6. trigger("LCM", <<e>>) BY <3>1, <3>2
    <3>7. QED BY <1>1, <2>1, <2>2, <3>4, <3>5, <3>6, AskJob
  <2>6. QED BY <1>15, <2>2, <2>3, <2>4, <2>5 DEF recover, InHand
<1>16. QED
  BY <1>6, <1>7, <1>8, <1>9, <1>10, <1>11, <1>12, <1>13, <1>14, <1>15, Zenon DEF RmNext

-----------------------------------------------------------------------------
(* The invariant *)

(* At the start the VM rests.                                              *)
LEMMA InitSerial == ASSUME Init PROVE SerialInv
<1>1. IInv BY InitOK
<1>2. PICK s \in {"PENDING", "HOLD"} :
        vm = [state |-> s, lcm |-> "LCM_INIT", hist |-> NoHistory, prev |-> NoHistory]
  BY DEF Init
<1>3. vm.state \in Off /\ vm.lcm = "LCM_INIT" BY <1>2 DEF Off
<1>4. AtRest BY <1>3 DEF Init, AtRest, Resting
<1>5. Idle BY DEF Init, Idle, NoWork
<1>6. ~locked BY Zenon DEF Init
<1>7. QED BY <1>1, <1>4, <1>5, <1>6 DEF SerialInv, OneJob

(* A step that changes nothing.                                            *)
LEMMA StutterJob == ASSUME SerialInv, UNCHANGED vars PROVE OneJob'
<1>1. UNCHANGED <<vm, capacity, queue, driver, rm>> BY DEF vars
<1>2. /\ Idle => Idle'
      /\ \A r : Waiting(r) => Waiting(r)'
      /\ \A m, a : Queued(m, a) => Queued(m, a)'
      /\ \A d, c : Executing(d, c) => Executing(d, c)'
  BY <1>1 DEF Idle, Waiting, Queued, Executing, NoWork
<1>3. /\ AtRest => AtRest'
      /\ \A S : In(S) => In(S)'
  BY <1>1, SameVM
<1>4. ASSUME NEW r \in rm, Begun(r) PROVE Begun(r)'
  <2>1. r.step \in RmSteps
    BY DEF SerialInv, IInv, TypeOK, RmType, HostSteps, RmSteps
  <2>2. \A S : Resting(S) => Resting(S)' BY <1>1 DEF Resting
  <2>3. QED BY <1>1, <1>3, <1>4, <2>1, <2>2 DEF Begun, RmSteps
<1>5. /\ \A c \in Commands \ CleanUps : Commanded(c) => Commanded(c)'
      /\ \A s : Scripted(s) => Scripted(s)'
      /\ \A a : Asked(a) => Asked(a)'
  BY <1>1, SameCommand, SameScript, SameAsked
<1>6. \A a : Reported(a) => Reported(a)' BY <1>1 DEF Reported
<1>7. Cleaning => Cleaning'
  BY <1>1 DEF Cleaning, CleaningUp, CleaningVmm, CleaningTm, CleaningDone, is
<1>8. QED BY <1>2, <1>3, <1>4, <1>5, <1>6, <1>7, NextJob DEF SerialInv, OneJob

(* No step gives work to two, and none leaves the VM locked.               *)
LEMMA NextSerial ==
  ASSUME SerialInv, OneAtATime, [Next]_vars
  PROVE  SerialInv'
<1>1. IInv' BY NextOK DEF SerialInv
<1>2. CASE UNCHANGED vars
  <2>1. ~locked' BY <1>2, Zenon DEF SerialInv, vars
  <2>2. QED BY <1>1, <1>2, <2>1, StutterJob DEF SerialInv
<1>3. CASE UNCHANGED locked /\ OneJob'
  <2>1. ~locked' BY <1>3, Zenon DEF SerialInv
  <2>2. QED BY <1>1, <1>3, <2>1 DEF SerialInv
<1>4. CASE RmNext BY <1>3, <1>4, RmNextJob, Zenon DEF RmNext
<1>5. CASE DmRequest BY <1>3, <1>5, DmRequestJob, Zenon DEF DmRequest
<1>6. CASE DmResult BY <1>1, <1>6, DmResultJob DEF SerialInv
<1>7. CASE LcmNext BY <1>3, <1>7, LcmNextJob, Zenon DEF LcmNext
<1>8. CASE VmmStep
  BY <1>3, <1>8, VmmStepJob, TimerJob, Zenon DEF VmmStep, VmmFrame
<1>9. CASE TmStep BY <1>3, <1>9, TmStepJob, Zenon DEF TmStep, TmFrame
<1>10. CASE DriverLost
  <2>1. UNCHANGED locked BY <1>10 DEF DriverLost, VmmFrame, TmFrame
  <2>2. QED BY <1>3, <1>10, <2>1, DriverLostJob
<1>11. QED
  BY <1>2, <1>4, <1>5, <1>6, <1>7, <1>8, <1>9, <1>10, Zenon DEF Next

(* SerialInv is an invariant.                                              *)
LEMMA SerialInvariance == ASSUME OneAtATime PROVE Spec => []SerialInv
<1>1. SerialInv /\ [Next]_vars => SerialInv' BY NextSerial
<1>2. QED BY <1>1, InitSerial, PTL DEF Spec

(* Where the VM is, whatever is being done for it.                         *)
LEMMA Whereabouts ==
  ASSUME SerialInv
  PROVE  \/ AtRest \/ InHand
         \/ is("ACTIVE", "RUNNING") /\ LeavingHost
         \/ vm.state = "ACTIVE" /\ vm.lcm # "RUNNING"
         \/ vm.state # "ACTIVE" /\ vm.lcm = "LCM_INIT" /\ capacity = {}
<1>1. \A S : In(S) => InHand BY DEF In
<1>2. \A S : S \subseteq Off \cup {"SUSPENDED", "POWEROFF"} /\ Resting(S) => AtRest
  BY DEF Resting, AtRest
<1>3. ASSUME NEW r \in rm, Begun(r) PROVE AtRest \/ InHand
  <2>1. r.step \in RmSteps
    BY DEF SerialInv, IInv, TypeOK, RmType, HostSteps, RmSteps
  <2>2. {"PENDING", "HOLD"} \subseteq Off \cup {"SUSPENDED", "POWEROFF"} BY DEF Off
  <2>3. QED BY <1>1, <1>2, <1>3, <2>1, <2>2 DEF Begun, RmSteps
<1>4. ASSUME NEW c \in Commands \ CleanUps, Commanded(c) PROVE InHand
  BY <1>1, <1>4 DEF Commanded, Commands, CleanUps
<1>5. ASSUME NEW s \in Scripts, Scripted(s) PROVE InHand
  BY <1>1, <1>5 DEF Scripted
<1>6. ASSUME NEW a \in LcmActions, Queued("LCM", a), Asked(a)
      PROVE  \/ AtRest \/ InHand
             \/ is("ACTIVE", "RUNNING") /\ LeavingHost
             \/ vm.state = "ACTIVE" /\ vm.lcm # "RUNNING"
  <2>1. CASE a \in {"MIGRATE", "LIVE_MIGRATE"}
    <3>1. is("ACTIVE", "RUNNING") BY <1>6, <2>1, Zenon DEF Asked
    <3>2. queue["LCM"] = <<a>> BY <1>6 DEF Queued, Managers
    <3>3. 1 \in 1..Len(queue["LCM"]) /\ queue["LCM"][1] = a BY <3>2
    <3>4. QED BY <2>1, <3>1, <3>3 DEF LeavingHost
  <2>2. CASE a \notin {"MIGRATE", "LIVE_MIGRATE"}
    <3>1. {"SUSPENDED"} \subseteq Off \cup {"SUSPENDED", "POWEROFF"}
          /\ {"POWEROFF"} \subseteq Off \cup {"SUSPENDED", "POWEROFF"}
      OBVIOUS
    <3>2. is("ACTIVE", "LCM_INIT") \/ Quiet \/ Resting({"SUSPENDED"}) \/ Resting({"POWEROFF"})
            \/ InHand
      BY <1>1, <1>6, <2>2 DEF Asked
    <3>3. QED BY <1>2, <3>1, <3>2 DEF is, AtRest
  <2>3. QED BY <2>1, <2>2
<1>7. ASSUME NEW a \in Results, Reported(a) PROVE vm.state = "ACTIVE" /\ vm.lcm # "RUNNING"
  BY <1>7 DEF Reported, ReportedIn, Results, EpilogStates
<1>8. ASSUME Cleaning
      PROVE  \/ vm.state = "ACTIVE" /\ vm.lcm # "RUNNING"
             \/ vm.state # "ACTIVE" /\ vm.lcm = "LCM_INIT" /\ capacity = {}
  BY <1>8 DEF Cleaning, is
<1>9. QED BY <1>3, <1>4, <1>5, <1>6, <1>7, <1>8 DEF SerialInv, OneJob

(* A VM that is off counts on no host.                                     *)
LEMMA FreedHosts == ASSUME SerialInv PROVE HostsFreed
<1>1. SUFFICES ASSUME vm.state \in Off PROVE capacity = {} BY DEF HostsFreed, Off
<1>2. vm.state # "ACTIVE" BY <1>1 DEF Off
<1>3. ~InHand /\ ~is("ACTIVE", "RUNNING") BY <1>2 DEF InHand, is
<1>4. QED BY <1>1, <1>2, <1>3, Whereabouts, RestingPlaces

-----------------------------------------------------------------------------
(* The theorems *)

(* When requests come one at a time, no thread of oned leaves a VM's mutex *)
(* locked (the returns without unlock of attach_success_action and of the  *)
(* like need a VM that somebody else has moved meanwhile), even when the   *)
(* drivers die.                                                            *)
THEOREM NeverFrozen == ASSUME OneAtATime PROVE Spec => []NeverLeftLocked
<1>1. SerialInv => NeverLeftLocked BY DEF SerialInv, NeverLeftLocked
<1>2. QED BY <1>1, SerialInvariance, PTL

(* When requests come one at a time, a VM that is RUNNING counts in the    *)
(* share of its host and in no other: each handler of the LCM that takes   *)
(* it back to RUNNING has settled both hosts of a migration.               *)
THEOREM RunsWhereItCounts == ASSUME OneAtATime PROVE Spec => []RunsOnItsHost
<1>1. ASSUME SerialInv PROVE RunsOnItsHost
  <2>1. CASE AtRest BY <2>1, RestingPlaces DEF RunsOnItsHost
  <2>2. CASE InHand
    BY <2>2, OnOneHost DEF RunsOnItsHost, is, Nowheres, TwoHostStates
  <2>3. CASE ~AtRest /\ ~InHand BY <1>1, <2>3, Whereabouts DEF RunsOnItsHost, is
  <2>4. QED BY <2>1, <2>2, <2>3
<1>2. QED BY <1>1, SerialInvariance, PTL

(* When requests come one at a time and drivers may die at any moment, a   *)
(* VM that is left in a transient state with nobody working for it is in   *)
(* one for which recover has something to do.                              *)
THEOREM AlwaysRecoverable == ASSUME OneAtATime PROVE Spec => []CanRecover
<1>1. ASSUME SerialInv PROVE CanRecover
  <2>1. SUFFICES ASSUME Pending = 0, ~Settled
                 PROVE  RecoverEvent(TRUE) # <<>> \/ vm.lcm = "CLEANUP_RESUBMIT"
    BY DEF CanRecover
  <2>2. Pending < 1 BY <2>1
  <2>3. AtRest BY <1>1, <2>2, NothingPending
  <2>4. InHand /\ vm.lcm \notin {"RUNNING", "UNKNOWN", "LCM_INIT"}
    BY <2>1, <2>3, RestingPlaces DEF Settled, is, InHand
  <2>5. vm.lcm \in LcmState BY <1>1 DEF SerialInv, IInv, TypeOK, VirtualMachine
  <2>6. SUFFICES ASSUME vm.lcm # "CLEANUP_RESUBMIT"
                 PROVE  RecoverEvent(TRUE) # <<>>
    OBVIOUS
  <2>7. \/ vm.lcm \in PrologStates \/ vm.lcm \in EpilogStates \/ vm.lcm \in SaveasStates
        \/ vm.lcm \in BootStates \cup {"MIGRATE"} \/ vm.lcm \in ShutdownStates
        \/ vm.lcm = "CANCEL" \/ vm.lcm \in SaveStates
        \/ vm.lcm \in HotplugStates
    BY <2>4, <2>5, <2>6 DEF InHand, LcmState, CleanupStates
  <2>8. \A e : <<e>> # <<>> OBVIOUS
  <2>9. QED BY <2>7, <2>8 DEF RecoverEvent, HotplugStates
<1>2. QED BY <1>1, SerialInvariance, PTL

(* When requests come one at a time, even if drivers die, a VM that waits  *)
(* to be deployed, or that never will be again, counts on no host: every   *)
(* handler that reports to the DM has called del_capacity before.          *)
THEOREM HostsAreFreed == ASSUME OneAtATime PROVE Spec => []HostsFreed
<1>1. ASSUME SerialInv PROVE HostsFreed BY <1>1, FreedHosts
<1>2. QED BY <1>1, SerialInvariance, PTL

(* When requests come one at a time and the drivers live, the adds and     *)
(* deletes of the handlers of the DM and of the LCM match: at rest the VM  *)
(* counts on the host it is on, or nowhere when it is on none.             *)
THEOREM AccountsMatch ==
  ASSUME OneAtATime, ~DriversDie PROVE Spec => []HostAccounting
<1>1. ASSUME SerialInv PROVE HostAccounting
  <2>1. HostsFreed BY <1>1, FreedHosts
  <2>2. ASSUME Pending = 0 PROVE capacity = IF OnAHost THEN {vm.hist.hid} ELSE {}
    <3>1. Pending < 1 BY <2>2
    <3>2. AtRest BY <1>1, <3>1, NothingPending
    <3>3. CASE vm.state = "ACTIVE"
      <4>1. In({"RUNNING", "UNKNOWN"}) BY <3>2, <3>3, RestingPlaces DEF Quiet
      <4>2. capacity = {vm.hist.hid}
        BY <4>1, OnOneHost DEF In, Nowheres, TwoHostStates
      <4>3. QED BY <3>3, <4>2 DEF OnAHost
    <3>4. CASE vm.state # "ACTIVE"
      BY <3>2, <3>4, RestingPlaces DEF OnAHost, Off
    <3>5. QED BY <3>3, <3>4
  <2>3. QED BY <2>1, <2>2 DEF HostAccounting
<1>2. QED BY <1>1, SerialInvariance, PTL

(* When requests come one at a time and the drivers live, somebody works   *)
(* for every VM in a transient state: each handler that enters such a      *)
(* state has triggered a manager, and no answer to it is dropped.          *)
THEOREM SomebodyWorks ==
  ASSUME OneAtATime, ~DriversDie PROVE Spec => []NeverStuck
<1>1. ASSUME SerialInv PROVE NeverStuck
  <2>1. SUFFICES ASSUME Pending = 0 PROVE Settled BY DEF NeverStuck
  <2>2. Pending < 1 BY <2>1
  <2>3. AtRest BY <1>1, <2>2, NothingPending
  <2>4. Resting(Off \cup {"SUSPENDED", "POWEROFF"}) \/ In({"RUNNING", "UNKNOWN"})
    BY <2>3 DEF AtRest, Quiet
  <2>5. QED BY <2>4 DEF Resting, In, InHand, Off, Settled, is
<1>2. QED BY <1>1, SerialInvariance, PTL

-----------------------------------------------------------------------------
(* The documented state diagram *)

(* What a step may do to the node of the diagram that the VM is shown in.  *)
Drawn == Diagram!Next \/ UNCHANGED Shown

Undrawn == {"LCM_INIT", "CLEANUP_RESUBMIT", "CLEANUP_DELETE"}

(* The node of a VM, from its two states.                                  *)
LEMMA Node ==
  /\ vm.state \notin {"ACTIVE", "FAILED"} => Shown = vm.state
  /\ vm.state = "FAILED" => Shown = "FAILURE"
  /\ vm.state = "ACTIVE" /\ vm.lcm \in {"LCM_INIT", "CLEANUP_RESUBMIT"} => Shown = "PENDING"
  /\ vm.state = "ACTIVE" /\ vm.lcm = "CLEANUP_DELETE" => Shown = "DONE"
  /\ vm.state = "ACTIVE" /\ vm.lcm \notin Undrawn => Shown = vm.lcm
BY DEF Shown, Undrawn

(* The same after the step.                                                *)
LEMMA NextNode ==
  /\ vm'.state \notin {"ACTIVE", "FAILED"} => Shown' = vm'.state
  /\ vm'.state = "FAILED" => Shown' = "FAILURE"
  /\ vm'.state = "ACTIVE" /\ vm'.lcm \in {"LCM_INIT", "CLEANUP_RESUBMIT"} => Shown' = "PENDING"
  /\ vm'.state = "ACTIVE" /\ vm'.lcm = "CLEANUP_DELETE" => Shown' = "DONE"
  /\ vm'.state = "ACTIVE" /\ vm'.lcm \notin Undrawn => Shown' = vm'.lcm
BY DEF Shown, Undrawn

(* The ways to follow the diagram.                                         *)
LEMMA Ways ==
  /\ Shown' = Shown => Drawn
  /\ vm'.state = vm.state /\ vm'.lcm = vm.lcm => Drawn
  /\ Shown' \in Diagram!Arrows[Shown] => Drawn
  /\ Shown' = "DONE" => Drawn
  /\ Shown \notin {"SUSPENDED", "POWEROFF", "DONE"} /\ Shown' = "PENDING" => Drawn
<1>1. vm'.state = vm.state /\ vm'.lcm = vm.lcm => Shown' = Shown BY DEF Shown
<1>2. QED BY <1>1
  DEF Drawn, Diagram!Next, Diagram!Follow, Diagram!Delete, Diagram!Recreate

(* Those that the handlers take.                                           *)
LEMMA ArrowsTaken ==
  /\ {"PROLOG", "PROLOG_RESUME", "PROLOG_UNDEPLOY", "HOLD"} \subseteq Diagram!Arrows["PENDING"]
  /\ "PENDING" \in Diagram!Arrows["HOLD"]
  /\ {"BOOT", "FAILURE"} \subseteq Diagram!Arrows["PROLOG"]
  /\ {"BOOT", "FAILURE"} \subseteq Diagram!Arrows["PROLOG_MIGRATE"]
  /\ {"BOOT_STOPPED", "STOPPED"} \subseteq Diagram!Arrows["PROLOG_RESUME"]
  /\ {"BOOT_UNDEPLOY", "UNDEPLOYED"} \subseteq Diagram!Arrows["PROLOG_UNDEPLOY"]
  /\ \A l \in BootStates : "RUNNING" \in Diagram!Arrows[l]
  /\ "FAILURE" \in Diagram!Arrows["BOOT"]
  /\ "EPILOG_STOP" \in Diagram!Arrows["BOOT_STOPPED"]
  /\ "EPILOG_UNDEPLOY" \in Diagram!Arrows["BOOT_UNDEPLOY"]
  /\ "SUSPENDED" \in Diagram!Arrows["BOOT_SUSPENDED"]
  /\ "POWEROFF" \in Diagram!Arrows["BOOT_POWEROFF"]
  /\ "UNKNOWN" \in Diagram!Arrows["BOOT_UNKNOWN"]
  /\ ShutdownStates \cup SaveStates \cup HotplugStates
       \cup {"CANCEL", "MIGRATE", "HOTPLUG_SAVEAS", "FAILURE", "UNKNOWN"}
         \subseteq Diagram!Arrows["RUNNING"]
  /\ {"BOOT_UNKNOWN", "FAILURE", "SAVE_SUSPEND", "RUNNING"} \subseteq Diagram!Arrows["UNKNOWN"]
  /\ \A l \in ShutdownStates \cup SaveStates \cup HotplugStates
                \cup {"CANCEL", "MIGRATE", "HOTPLUG_SAVEAS"} : "RUNNING" \in Diagram!Arrows[l]
  /\ "EPILOG" \in Diagram!Arrows["SHUTDOWN"] /\ "EPILOG" \in Diagram!Arrows["CANCEL"]
  /\ "POWEROFF" \in Diagram!Arrows["SHUTDOWN_POWEROFF"]
  /\ "EPILOG_UNDEPLOY" \in Diagram!Arrows["SHUTDOWN_UNDEPLOY"]
  /\ "PROLOG_MIGRATE" \in Diagram!Arrows["SAVE_MIGRATE"]
  /\ "EPILOG_STOP" \in Diagram!Arrows["SAVE_STOP"]
  /\ "SUSPENDED" \in Diagram!Arrows["SAVE_SUSPEND"]
  /\ \A l \in EpilogStates : "FAILURE" \in Diagram!Arrows[l]
  /\ "STOPPED" \in Diagram!Arrows["EPILOG_STOP"]
  /\ "UNDEPLOYED" \in Diagram!Arrows["EPILOG_UNDEPLOY"]
  /\ "PENDING" \in Diagram!Arrows["STOPPED"] /\ "PENDING" \in Diagram!Arrows["UNDEPLOYED"]
  /\ {"BOOT_SUSPENDED", "HOTPLUG_SAVEAS_SUSPENDED"} \subseteq Diagram!Arrows["SUSPENDED"]
  /\ {"BOOT_POWEROFF", "HOTPLUG_SAVEAS_POWEROFF"} \subseteq Diagram!Arrows["POWEROFF"]
  /\ "POWEROFF" \in Diagram!Arrows["HOTPLUG_SAVEAS_POWEROFF"]
  /\ "SUSPENDED" \in Diagram!Arrows["HOTPLUG_SAVEAS_SUSPENDED"]
BY DEF Diagram!Arrows, BootStates, ShutdownStates, SaveStates, HotplugStates, EpilogStates

(* A VM that stays ACTIVE goes from one drawn LCM state to another.        *)
LEMMA ActiveArrow ==
  ASSUME vm.state = "ACTIVE", vm.lcm \notin Undrawn, vm'.state = "ACTIVE",
         vm'.lcm \notin Undrawn, vm'.lcm \in Diagram!Arrows[vm.lcm]
  PROVE  Drawn
BY Node, NextNode, Ways

(* What an invariant of requests one at a time says of the two states.     *)
LEMMA AgreeAlways == ASSUME SerialInv PROVE StatesAgree
<1>1. CASE AtRest BY <1>1, RestingPlaces DEF StatesAgree
<1>2. CASE InHand BY <1>2 DEF StatesAgree, InHand
<1>3. CASE ~AtRest /\ ~InHand BY <1>3, Whereabouts DEF StatesAgree, is
<1>4. QED BY <1>1, <1>2, <1>3

(* While the VM has an LCM state that a handler names it is ACTIVE.        *)
LEMMA NamedActive ==
  ASSUME SerialInv, vm.lcm # "LCM_INIT"
  PROVE  vm.state = "ACTIVE" /\ vm \in VirtualMachine
BY AgreeAlways DEF StatesAgree, SerialInv, IInv, TypeOK

-----------------------------------------------------------------------------
(* The LCM follows the diagram *)

(* What a request does to a VM that the LCM accepts it for.                *)
LEMMA LcmRequestDrawn == ASSUME SerialInv, LcmRequest PROVE Drawn
<1>. vm \in VirtualMachine BY DEF SerialInv, IInv, TypeOK
<1>1. CASE deploy_action
  <2>1. Lcm("DEPLOY") /\ vm.state = "ACTIVE" BY <1>1 DEF deploy_action
  <2>2. "DEPLOY" \notin CleaningAnswers BY DEF CleaningAnswers
  <2>3. Asked("DEPLOY") BY <2>1, <2>2, LcmTurn
  <2>4. vm.lcm = "LCM_INIT" BY <2>3, Zenon DEF Asked, is, RunningRequests
  <2>5. PICK l \in {"PROLOG", "PROLOG_RESUME", "PROLOG_UNDEPLOY"} : vm' = [vm EXCEPT !.lcm = l]
    BY <1>1 DEF deploy_action
  <2>6. vm'.state = "ACTIVE" /\ vm'.lcm = l BY <2>1, <2>5, Fields
  <2>7. QED BY <2>1, <2>4, <2>6, Node, NextNode, Ways, ArrowsTaken DEF Undrawn
<1>2. ASSUME NEW a, NEW lcm \in ShutdownStates \cup SaveStates \cup {"CANCEL"}, NEW action, NEW cmd,
             leave_running(a, lcm, action, cmd)
      PROVE  Drawn
  <2>1. /\ vm.state = "ACTIVE" /\ vm.lcm = "RUNNING"
        /\ vm'.state = "ACTIVE" /\ vm'.lcm = lcm
    BY <1>2, Fields DEF leave_running, is
  <2>2. lcm \notin Undrawn BY DEF ShutdownStates, SaveStates, Undrawn
  <2>3. QED BY <2>1, <2>2, ActiveArrow, ArrowsTaken DEF Undrawn
<1>3. CASE \/ suspend_action \/ stop_action \/ shutdown_action \/ cancel_action
           \/ undeploy_action \/ poweroff_action
  BY <1>2, <1>3 DEF suspend_action, stop_action, shutdown_action, cancel_action,
                    undeploy_action, poweroff_action, ShutdownStates, SaveStates
<1>4. CASE migrate_action \/ live_migrate_action
  <2>1. PICK lcm \in {"SAVE_MIGRATE", "MIGRATE"} :
          /\ is("ACTIVE", "RUNNING")
          /\ vm' = [vm EXCEPT !.lcm = lcm, !.prev.action = "OTHER"]
    BY <1>4 DEF migrate_action, live_migrate_action, leave_host
  <2>2. vm'.state = "ACTIVE" /\ vm'.lcm = lcm BY <2>1, Fields DEF is
  <2>3. QED BY <2>1, <2>2, ActiveArrow, ArrowsTaken DEF Undrawn, SaveStates, is
<1>5. ASSUME NEW l \in LcmState, vm' = [cp_history(vm) EXCEPT !.state = "ACTIVE", !.lcm = l]
      PROVE  vm'.state = "ACTIVE" /\ vm'.lcm = l
  <2>1. \/ cp_history(vm) = vm
        \/ cp_history(vm) = [vm EXCEPT !.hist = NewRecord(vm.hist.hid)]
        \/ cp_history(vm) = [vm EXCEPT !.hist = NewRecord(vm.hist.hid), !.prev = vm.hist]
    BY HistoryKeepsStates DEF cp_history
  <2>2. QED BY <1>5, <2>1 DEF VirtualMachine
<1>6. CASE restore_action
  <2>1. /\ vm.state = "SUSPENDED"
        /\ vm' = [cp_history(vm) EXCEPT !.state = "ACTIVE", !.lcm = "BOOT_SUSPENDED"]
    BY <1>6 DEF restore_action
  <2>2. vm'.state = "ACTIVE" /\ vm'.lcm = "BOOT_SUSPENDED" BY <1>5, <2>1, LcmNames
  <2>3. QED BY <2>1, <2>2, Node, NextNode, Ways, ArrowsTaken DEF Undrawn
<1>7. CASE restart_action
  <2>1. CASE vm.state = "POWEROFF"
    <3>1. vm' = [cp_history(vm) EXCEPT !.state = "ACTIVE", !.lcm = "BOOT_POWEROFF"]
      BY <1>7, <2>1, Zenon DEF restart_action, is
    <3>2. vm'.state = "ACTIVE" /\ vm'.lcm = "BOOT_POWEROFF" BY <1>5, <3>1, LcmNames
    <3>3. QED BY <2>1, <3>2, Node, NextNode, Ways, ArrowsTaken DEF Undrawn
  <2>2. CASE is("ACTIVE", "UNKNOWN")
    <3>1. vm' = [vm EXCEPT !.lcm = "BOOT_UNKNOWN"]
      BY <1>7, <2>2, Zenon DEF restart_action, is
    <3>2. vm'.state = "ACTIVE" /\ vm'.lcm = "BOOT_UNKNOWN" BY <2>2, <3>1, Fields DEF is
    <3>3. QED BY <2>2, <3>2, ActiveArrow, ArrowsTaken DEF Undrawn, is
  <2>3. CASE vm.state # "POWEROFF" /\ ~is("ACTIVE", "UNKNOWN")
    <3>1. vm' = vm BY <1>7, <2>3, Zenon DEF restart_action
    <3>2. QED BY <3>1, Ways
  <2>4. QED BY <2>1, <2>2, <2>3
<1>8. CASE delete_action
  <2>1. vm.state = "ACTIVE" /\ vm'.state = vm.state /\ vm'.lcm = "CLEANUP_DELETE"
    BY <1>8 DEF delete_action, clean_up_vm, VirtualMachine
  <2>2. QED BY <2>1, NextNode, Ways
<1>9. CASE clean_action
  <2>1. CASE vm' = vm BY <2>1, Ways
  <2>2. CASE vm' # vm
    <3>1. /\ vm.state = "ACTIVE" /\ vm'.state = vm.state /\ vm'.lcm = "CLEANUP_RESUBMIT"
          /\ vm.lcm # "CLEANUP_DELETE"
      BY <1>9, <2>2 DEF clean_action, clean_up_vm, VirtualMachine, CleanupStates
    <3>2. vm.lcm \in LcmState BY DEF VirtualMachine
    <3>3. Shown \notin {"SUSPENDED", "POWEROFF", "DONE"}
      BY <3>1, <3>2, Node
      DEF Undrawn, LcmState, PrologStates, BootStates, SaveStates, EpilogStates,
          ShutdownStates, SaveasStates, HotplugStates, CleanupStates
    <3>4. QED BY <3>1, <3>3, NextNode, Ways
  <2>3. QED BY <2>1, <2>2
<1>10. QED
  BY <1>1, <1>3, <1>4, <1>6, <1>7, <1>8, <1>9, Zenon DEF LcmRequest

(* The step of a handler that changes the LCM state alone.                 *)
LEMMA LcmArrow ==
  ASSUME SerialInv, NEW l, vm'.state = vm.state, vm'.lcm = l,
         vm.lcm \notin Undrawn, l \notin Undrawn, l \in Diagram!Arrows[vm.lcm]
  PROVE  Drawn
BY NamedActive, ActiveArrow DEF Undrawn

(* The step of a handler that takes the VM out of ACTIVE.                  *)
LEMMA LeavesActive ==
  ASSUME SerialInv, vm.lcm \notin Undrawn, vm'.state \notin {"ACTIVE", "FAILED"},
         vm'.state \in Diagram!Arrows[vm.lcm]
  PROVE  Drawn
BY NamedActive, Node, NextNode, Ways DEF Undrawn

(* The end of a save-as takes the VM back to where it was.                 *)
LEMMA ClearSaveasDrawn ==
  ASSUME SerialInv, vm' = clear_saveas_state(vm)
  PROVE  Drawn
<1>. vm \in VirtualMachine BY DEF SerialInv, IInv, TypeOK
<1>1. CASE vm.lcm = "HOTPLUG_SAVEAS"
  <2>1. vm' = [vm EXCEPT !.lcm = "RUNNING"] BY <1>1, Zenon DEF clear_saveas_state
  <2>2. vm'.state = vm.state /\ vm'.lcm = "RUNNING" BY <2>1, Fields
  <2>3. QED BY <1>1, <2>2, LcmArrow, ArrowsTaken DEF Undrawn
<1>2. CASE vm.lcm = "HOTPLUG_SAVEAS_POWEROFF"
  <2>1. vm' = [vm EXCEPT !.state = "POWEROFF", !.lcm = "LCM_INIT"]
    BY <1>2, Zenon DEF clear_saveas_state
  <2>2. vm'.state = "POWEROFF" BY <2>1 DEF VirtualMachine
  <2>3. QED BY <1>2, <2>2, LeavesActive, ArrowsTaken DEF Undrawn
<1>3. CASE vm.lcm = "HOTPLUG_SAVEAS_SUSPENDED"
  <2>1. vm' = [vm EXCEPT !.state = "SUSPENDED", !.lcm = "LCM_INIT"]
    BY <1>3, Zenon DEF clear_saveas_state
  <2>2. vm'.state = "SUSPENDED" BY <2>1 DEF VirtualMachine
  <2>3. QED BY <1>3, <2>2, LeavesActive, ArrowsTaken DEF Undrawn
<1>4. CASE vm.lcm \notin SaveasStates
  <2>1. vm' = vm BY <1>4, Zenon DEF clear_saveas_state, SaveasStates
  <2>2. QED BY <2>1, Ways
<1>5. QED BY <1>1, <1>2, <1>3, <1>4 DEF SaveasStates

(* The endings that several answers share: a migration that failed.        *)
LEMMA BackToPreviousDrawn ==
  ASSUME SerialInv, vm.lcm \in TwoHostStates, back_to_previous_host
  PROVE  Drawn
<1>1. vm \in PlacedVM /\ vm \in VirtualMachine
  BY Placed DEF TwoHostStates, SerialInv, IInv, TypeOK
<1>. DEFINE v == [vm EXCEPT !.lcm = "RUNNING", !.hist.reason = "ERROR",
                            !.prev.reason = "USER"]
<1>2. v \in VirtualMachine
  <2>1. [vm EXCEPT !.lcm = "RUNNING"] \in PlacedVM BY <1>1, SetLcm, LcmNames
  <2>2. QED BY <2>1, SetReason, OtherNames, Zenon DEF PlacedVM
<1>3. v.state = vm.state /\ v.lcm = "RUNNING" BY <1>1 DEF VirtualMachine
<1>4. vm' = cp_previous_history(v) BY DEF back_to_previous_host
<1>5. vm'.state = vm.state /\ vm'.lcm = "RUNNING" BY <1>2, <1>3, <1>4, HistoryKeepsStates
<1>6. vm.lcm \in SaveStates \cup {"MIGRATE"} BY DEF TwoHostStates, SaveStates
<1>7. QED BY <1>5, <1>6, LcmArrow, ArrowsTaken DEF Undrawn, TwoHostStates

(* A command that failed.                                                  *)
LEMMA BackToRunningDrawn ==
  ASSUME SerialInv, vm.lcm \in ShutdownStates \cup SaveStates \cup {"CANCEL"}, back_to_running
  PROVE  Drawn
<1>1. vm.lcm \notin Undrawn BY DEF Undrawn, ShutdownStates, SaveStates
<1>2. vm'.state = vm.state /\ vm'.lcm = "RUNNING"
  BY Fields DEF back_to_running, SerialInv, IInv, TypeOK
<1>3. QED BY <1>1, <1>2, LcmArrow, ArrowsTaken DEF Undrawn

(* An operation that fails the VM.                                         *)
LEMMA FailureDrawn ==
  ASSUME SerialInv, failure_action,
         vm.lcm \in {"PROLOG", "PROLOG_MIGRATE", "BOOT", "RUNNING", "UNKNOWN"} \cup EpilogStates
  PROVE  Drawn
<1>1. vm.lcm \notin Undrawn BY DEF Undrawn, EpilogStates
<1>2. vm'.state = vm.state /\ vm'.lcm = "FAILURE"
  BY Fields DEF failure_action, SerialInv, IInv, TypeOK
<1>3. QED BY <1>1, <1>2, LcmArrow, ArrowsTaken DEF Undrawn

(* A guest that is down.                                                   *)
LEMMA ToEpilogDrawn ==
  ASSUME SerialInv, NEW l \in EpilogStates, NEW cmd, to_epilog(l, cmd),
         vm.lcm \notin Undrawn, l \in Diagram!Arrows[vm.lcm]
  PROVE  Drawn
<1>1. l \notin Undrawn BY DEF Undrawn, EpilogStates
<1>2. vm'.state = vm.state /\ vm'.lcm = l
  BY Fields DEF to_epilog, SerialInv, IInv, TypeOK
<1>3. QED BY <1>1, <1>2, LcmArrow

(* What an answer does to a VM that awaits it.                             *)
LEMMA LcmAnswerDrawn == ASSUME SerialInv, LcmAnswer PROVE Drawn
<1>. vm \in VirtualMachine BY DEF SerialInv, IInv, TypeOK
<1>1. ASSUME vm'.state = vm.state, vm'.lcm = vm.lcm PROVE Drawn BY <1>1, Ways
<1>2. ASSUME powered_off PROVE Drawn BY <1>1, <1>2, Fields DEF powered_off
<1>3. CASE save_success_action
  <2>1. CASE vm.lcm = "SAVE_MIGRATE"
    <3>1. vm' = [vm EXCEPT !.lcm = "PROLOG_MIGRATE", !.prev.reason = "USER"]
      BY <1>3, <2>1 DEF save_success_action
    <3>2. vm'.state = vm.state /\ vm'.lcm = "PROLOG_MIGRATE" BY <3>1, Fields
    <3>3. QED BY <2>1, <3>2, LcmArrow, ArrowsTaken DEF Undrawn
  <2>2. CASE vm.lcm = "SAVE_SUSPEND"
    <3>1. vm' = [vm EXCEPT !.hist.reason = "USER"] BY <1>3, <2>2 DEF save_success_action
    <3>2. QED BY <1>1, <3>1, Fields
  <2>3. CASE vm.lcm = "SAVE_STOP"
    <3>1. vm' = [vm EXCEPT !.lcm = "EPILOG_STOP", !.hist.reason = "USER"]
      BY <1>3, <2>3 DEF save_success_action
    <3>2. vm'.state = vm.state /\ vm'.lcm = "EPILOG_STOP" BY <3>1, Fields
    <3>3. QED BY <2>3, <3>2, LcmArrow, ArrowsTaken DEF Undrawn
  <2>4. QED BY <1>3, <2>1, <2>2, <2>3 DEF save_success_action
<1>4. CASE save_failure_action
  BY <1>4, BackToPreviousDrawn, BackToRunningDrawn
  DEF save_failure_action, SaveStates, TwoHostStates
<1>5. CASE deploy_success_action
  <2>1. vm'.state = vm.state /\ vm'.lcm = "RUNNING"
    <3>1. \/ vm' = [vm EXCEPT !.lcm = "RUNNING", !.prev.reason = "USER"]
          \/ vm' = [vm EXCEPT !.lcm = "RUNNING"]
      BY <1>5 DEF deploy_success_action
    <3>2. \A x : LET w == [vm EXCEPT !.lcm = "RUNNING", !.prev.reason = x]
                 IN  w.lcm = "RUNNING" /\ w.state = vm.state
      BY Fields
    <3>3. LET w == [vm EXCEPT !.lcm = "RUNNING"] IN w.lcm = "RUNNING" /\ w.state = vm.state
      BY Fields
    <3>4. QED BY <3>1, <3>2, <3>3
  <2>2. vm.lcm \in BootStates \cup {"MIGRATE"} BY <1>5 DEF deploy_success_action
  <2>3. vm.lcm \notin Undrawn BY <2>2 DEF Undrawn, BootStates
  <2>4. QED BY <2>1, <2>2, <2>3, LcmArrow, ArrowsTaken DEF Undrawn
<1>6. CASE deploy_failure_action
  <2>1. CASE vm.lcm = "MIGRATE" /\ back_to_previous_host
    BY <2>1, BackToPreviousDrawn DEF TwoHostStates
  <2>2. CASE vm.lcm = "BOOT" /\ failure_action BY <2>2, FailureDrawn
  <2>3. CASE vm.lcm = "BOOT_UNKNOWN"
    <3>1. vm' = [vm EXCEPT !.lcm = "UNKNOWN"]
      BY <1>6, <2>3, Zenon DEF deploy_failure_action
    <3>2. vm'.state = vm.state /\ vm'.lcm = "UNKNOWN" BY <3>1, Fields
    <3>3. QED BY <2>3, <3>2, LcmArrow, ArrowsTaken DEF Undrawn
  <2>4. CASE vm.lcm = "BOOT_POWEROFF"
    <3>1. vm' = [vm EXCEPT !.state = "POWEROFF", !.lcm = "LCM_INIT"]
      BY <1>6, <2>4, Zenon DEF deploy_failure_action
    <3>2. vm'.state = "POWEROFF" BY <3>1 DEF VirtualMachine
    <3>3. QED BY <2>4, <3>2, LeavesActive, ArrowsTaken DEF Undrawn
  <2>5. CASE vm.lcm = "BOOT_SUSPENDED"
    <3>1. vm' = [vm EXCEPT !.state = "SUSPENDED", !.lcm = "LCM_INIT"]
      BY <1>6, <2>5, Zenon DEF deploy_failure_action
    <3>2. vm'.state = "SUSPENDED" BY <3>1 DEF VirtualMachine
    <3>3. QED BY <2>5, <3>2, LeavesActive, ArrowsTaken DEF Undrawn
  <2>6. CASE vm.lcm \in {"BOOT_STOPPED", "BOOT_UNDEPLOY"}
    <3>1. PICK l \in {"EPILOG_STOP", "EPILOG_UNDEPLOY"} :
            /\ l = IF vm.lcm = "BOOT_STOPPED" THEN "EPILOG_STOP" ELSE "EPILOG_UNDEPLOY"
            /\ vm' = [vm EXCEPT !.lcm = l, !.hist.reason = "ERROR"]
      BY <1>6, <2>6, Zenon DEF deploy_failure_action
    <3>2. vm'.state = vm.state /\ vm'.lcm = l BY <3>1, Fields
    <3>3. QED BY <2>6, <3>1, <3>2, LcmArrow, ArrowsTaken DEF Undrawn
  <2>7. QED BY <1>6, <2>1, <2>2, <2>3, <2>4, <2>5, <2>6, Zenon DEF deploy_failure_action
<1>7. CASE shutdown_success_action \/ cancel_success_action
  BY <1>2, <1>7, ToEpilogDrawn, ArrowsTaken
  DEF shutdown_success_action, cancel_success_action, EpilogStates, Undrawn
<1>8. CASE shutdown_failure_action \/ cancel_failure_action
  BY <1>8, BackToRunningDrawn
  DEF shutdown_failure_action, cancel_failure_action, ShutdownStates
<1>9. CASE cleanup_callback_action BY <1>1, <1>9 DEF cleanup_callback_action
<1>10. ASSUME NEW a, NEW lcm \in HotplugStates, hotplug_end(a, lcm)
       PROVE  Drawn
  <2>1. vm'.state = vm.state /\ vm'.lcm = "RUNNING" /\ vm.lcm = lcm
    BY <1>10, Fields DEF hotplug_end
  <2>2. lcm \notin Undrawn BY DEF Undrawn, HotplugStates
  <2>3. QED BY <2>1, <2>2, LcmArrow, ArrowsTaken DEF Undrawn
<1>11. CASE attach_end \/ attach_nic_end \/ snapshot_end
  BY <1>10, <1>11 DEF attach_end, attach_nic_end, snapshot_end, HotplugStates
<1>12. CASE saveas_hot_end BY <1>12, ClearSaveasDrawn DEF saveas_hot_end
<1>13. CASE prolog_success_action
  <2>1. PICK l \in {"BOOT_STOPPED", "BOOT_UNDEPLOY", "BOOT"} :
          /\ vm' = [vm EXCEPT !.lcm = l]
          /\ vm.lcm = "PROLOG_RESUME" => l = "BOOT_STOPPED"
          /\ vm.lcm = "PROLOG_UNDEPLOY" => l = "BOOT_UNDEPLOY"
          /\ vm.lcm \notin {"PROLOG_RESUME", "PROLOG_UNDEPLOY"} => l = "BOOT"
    BY <1>13 DEF prolog_success_action
  <2>2. vm.lcm \in PrologStates BY <1>13 DEF prolog_success_action
  <2>3. vm'.state = vm.state /\ vm'.lcm = l BY <2>1, Fields
  <2>4. l \in Diagram!Arrows[vm.lcm] BY <2>1, <2>2, ArrowsTaken DEF PrologStates
  <2>5. QED BY <2>2, <2>3, <2>4, LcmArrow DEF Undrawn, PrologStates
<1>14. CASE prolog_failure_action
  <2>1. CASE vm.lcm \in {"PROLOG", "PROLOG_MIGRATE"} /\ failure_action BY <2>1, FailureDrawn
  <2>2. CASE vm' = [vm EXCEPT !.hist.reason = "ERROR"] BY <1>1, <2>2, Fields
  <2>3. QED BY <1>14, <2>1, <2>2 DEF prolog_failure_action
<1>15. CASE epilog_success_action BY <1>1, <1>15 DEF epilog_success_action
<1>16. CASE epilog_failure_action BY <1>1, <1>16, FailureDrawn DEF epilog_failure_action
<1>17. CASE monitor_failure_action BY <1>17, FailureDrawn DEF monitor_failure_action
<1>18. CASE monitor_suspend_action
  <2>1. /\ vm.lcm \in {"RUNNING", "UNKNOWN"}
        /\ vm' = [vm EXCEPT !.lcm = "SAVE_SUSPEND", !.hist.reason = "ERROR"]
    BY <1>18 DEF monitor_suspend_action
  <2>2. vm'.state = vm.state /\ vm'.lcm = "SAVE_SUSPEND" BY <2>1, Fields
  <2>3. QED BY <2>1, <2>2, LcmArrow, ArrowsTaken DEF Undrawn, SaveStates
<1>19. CASE monitor_done_action
  <2>1. vm.lcm = "RUNNING" /\ vm' = [vm EXCEPT !.lcm = "UNKNOWN"]
    BY <1>19 DEF monitor_done_action
  <2>2. vm'.state = vm.state /\ vm'.lcm = "UNKNOWN" BY <2>1, Fields
  <2>3. QED BY <2>1, <2>2, LcmArrow, ArrowsTaken DEF Undrawn
<1>20. QED
  BY <1>3, <1>4, <1>5, <1>6, <1>7, <1>8, <1>9, <1>11, <1>12, <1>13, <1>14, <1>15,
     <1>16, <1>17, <1>18, <1>19, Zenon
  DEF LcmAnswer

(* The LCM follows the diagram.                                            *)
LEMMA LcmDrawn == ASSUME SerialInv, LcmNext PROVE Drawn
BY LcmRequestDrawn, LcmAnswerDrawn, Ways DEF LcmNext, wrong_state_LCM

-----------------------------------------------------------------------------
(* The DM, the requests and the drivers follow it *)

(* A report to the DM.                                                     *)
LEMMA DmResultDrawn == ASSUME SerialInv, DmResult PROVE Drawn
<1>. vm \in VirtualMachine BY DEF SerialInv, IInv, TypeOK
<1>1. CASE wrong_state_DM BY <1>1, Ways DEF wrong_state_DM
<1>2. CASE result_action
  <2>1. PICK a \in Results :
          /\ Accepted(a)
          /\ vm' = [vm EXCEPT !.state = StateAfter(a), !.lcm = "LCM_INIT"]
    BY <1>2 DEF result_action
  <2>2. vm'.state = StateAfter(a) BY <2>1 DEF VirtualMachine
  <2>3. vm.lcm \in ReportedIn(a) /\ vm.lcm # "LCM_INIT"
    BY <2>1 DEF Accepted, ReportedIn, Results
  <2>4. vm.state = "ACTIVE" BY <2>3, NamedActive
  <2>5. CASE a = "SUSPEND_SUCCESS"
    BY <2>2, <2>3, <2>5, LeavesActive, ArrowsTaken DEF ReportedIn, StateAfter, Undrawn
  <2>6. CASE a = "STOP_SUCCESS"
    BY <2>2, <2>3, <2>6, LeavesActive, ArrowsTaken DEF ReportedIn, StateAfter, Undrawn
  <2>7. CASE a = "UNDEPLOY_SUCCESS"
    BY <2>2, <2>3, <2>7, LeavesActive, ArrowsTaken DEF ReportedIn, StateAfter, Undrawn
  <2>8. CASE a = "POWEROFF_SUCCESS"
    BY <2>2, <2>3, <2>8, LeavesActive, ArrowsTaken DEF ReportedIn, StateAfter, Undrawn
  <2>9. CASE a = "DONE" BY <2>2, <2>9, NextNode, Ways DEF StateAfter
  <2>10. CASE a = "FAILED"
    BY <2>2, <2>3, <2>4, <2>10, Node, NextNode, Ways DEF ReportedIn, StateAfter, Undrawn
  <2>11. CASE a = "RESUBMIT"
    BY <2>2, <2>3, <2>4, <2>11, Node, NextNode, Ways DEF ReportedIn, StateAfter, Undrawn
  <2>12. QED BY <2>5, <2>6, <2>7, <2>8, <2>9, <2>10, <2>11 DEF Results
<1>3. QED BY <1>1, <1>2 DEF DmResult

(* A request that goes through a method of the dispatch manager.           *)
LEMMA DmRequestDrawn ==
  ASSUME SerialInv, DmRequest
  PROVE  Drawn
<1>. vm \in VirtualMachine BY DEF SerialInv, IInv, TypeOK
<1>1. ASSUME UNCHANGED vm PROVE Drawn BY <1>1, Ways
<1>2. ASSUME NEW op, NEW lcm \in HotplugStates, hotplug(op, lcm) PROVE Drawn
  <2>1. vm.lcm = "RUNNING" /\ vm'.state = vm.state /\ vm'.lcm = lcm
    BY <1>2, Fields DEF hotplug, is
  <2>2. lcm \notin Undrawn BY DEF Undrawn, HotplugStates
  <2>3. QED BY <2>1, <2>2, LcmArrow, ArrowsTaken DEF Undrawn
<1>3. CASE attach \/ detach \/ attach_nic \/ detach_nic \/ snapshot
  BY <1>2, <1>3 DEF attach, detach, attach_nic, detach_nic, snapshot, HotplugStates
<1>4. CASE attach_failed
  <2>1. PICK r \in rm : /\ r.step \in {"ATTACH", "ATTACH_NIC"}
                         /\ vm' = [vm EXCEPT !.lcm = "RUNNING"]
    BY <1>4 DEF attach_failed
  <2>2. Begun(r) BY <2>1, Busy DEF Waiting
  <2>3. vm.lcm \in {"HOTPLUG", "HOTPLUG_NIC"} BY <2>1, <2>2 DEF Begun, In
  <2>4. vm'.state = vm.state /\ vm'.lcm = "RUNNING" BY <2>1, Fields
  <2>5. QED BY <2>3, <2>4, LcmArrow, ArrowsTaken DEF Undrawn, HotplugStates
<1>5. CASE hold
  <2>1. vm.state = "PENDING" /\ vm'.state = "HOLD"
    BY <1>5, Fields DEF hold, hold_release
  <2>2. QED BY <2>1, Node, NextNode, Ways, ArrowsTaken
<1>6. CASE release
  <2>1. vm.state = "HOLD" /\ vm'.state = "PENDING"
    BY <1>6, Fields DEF release, hold_release
  <2>2. QED BY <2>1, Node, NextNode, Ways
<1>7. CASE resume
  <2>1. CASE vm.state \in {"STOPPED", "UNDEPLOYED"}
    <3>1. vm' = [vm EXCEPT !.state = "PENDING"] BY <1>7, <2>1 DEF resume
    <3>2. vm'.state = "PENDING" BY <3>1, Fields
    <3>3. QED BY <2>1, <3>2, Node, NextNode, Ways
  <2>2. CASE UNCHANGED vm BY <1>1, <2>2
  <2>3. QED BY <1>7, <2>1, <2>2 DEF resume
<1>8. CASE finalize
  <2>1. CASE vm' = finished(vm)
    <3>1. vm'.state = "DONE" BY <2>1 DEF finished, VirtualMachine
    <3>2. QED BY <3>1, NextNode, Ways
  <2>2. QED BY <1>1, <1>8, <2>1 DEF finalize
<1>9. CASE resubmit
  <2>1. CASE vm.state = "FAILED"
    <3>1. vm'.state = "ACTIVE" /\ vm'.lcm = "CLEANUP_RESUBMIT"
      BY <1>9, <2>1 DEF resubmit, VirtualMachine
    <3>2. QED BY <2>1, <3>1, Node, NextNode, Ways
  <2>2. CASE vm.state \in {"HOLD", "STOPPED", "UNDEPLOYED"}
    <3>1. vm'.state = "PENDING" BY <1>9, <2>2 DEF resubmit, VirtualMachine
    <3>2. QED BY <2>2, <3>1, Node, NextNode, Ways
  <2>3. CASE UNCHANGED vm BY <1>1, <2>3
  <2>4. QED BY <1>9, <2>1, <2>2, <2>3 DEF resubmit
<1>10. CASE \/ \E op \in RunningOps : dm_running(op)
            \/ cancel \/ late_trigger \/ reboot \/ restart
  BY <1>1, <1>10 DEF dm_running, cancel, late_trigger, reboot, restart
<1>11. QED
  BY <1>3, <1>4, <1>5, <1>6, <1>7, <1>8, <1>9, <1>10, Zenon DEF DmRequest

(* One of the request manager's other methods.                             *)
LEMMA RmNextDrawn == ASSUME SerialInv, RmNext PROVE Drawn
<1>. vm \in VirtualMachine BY DEF SerialInv, IInv, TypeOK
<1>1. ASSUME UNCHANGED vm PROVE Drawn BY <1>1, Ways
<1>2. ASSUME NEW h, add_history_and_deploy(h) PROVE Drawn
  <2>1. vm'.state = (IF Deployable THEN "ACTIVE" ELSE vm.state) /\ vm'.lcm = vm.lcm
    <3>1. \/ add_history(vm, h) = [vm EXCEPT !.hist = NewRecord(h)]
          \/ add_history(vm, h) = [vm EXCEPT !.hist = NewRecord(h), !.prev = vm.hist]
      BY HistoryKeepsStates
    <3>2. vm' = [add_history(vm, h) EXCEPT !.state = IF Deployable THEN "ACTIVE" ELSE @]
      BY <1>2 DEF add_history_and_deploy
    <3>3. QED BY <3>1, <3>2 DEF VirtualMachine
  <2>2. CASE ~Deployable BY <2>1, <2>2, Ways
  <2>3. CASE Deployable
    <3>1. vm.state \in {"PENDING", "HOLD"} /\ vm.lcm = "LCM_INIT"
      BY <2>3, AgreeAlways DEF Deployable, StatesAgree
    <3>2. Shown' = "PENDING" /\ Shown \in {"PENDING", "HOLD"}
      BY <2>1, <2>3, <3>1, Node, NextNode
    <3>3. QED BY <3>2, Ways
  <2>4. QED BY <2>2, <2>3
<1>3. CASE rm_deploy \/ rm_deploy_locked
  BY <1>2, <1>3 DEF rm_deploy, rm_deploy_locked
<1>4. CASE rm_migrate_locked
  <2>1. PICK h : vm' = add_history(vm, h) BY <1>4 DEF rm_migrate_locked
  <2>2. vm'.state = vm.state /\ vm'.lcm = vm.lcm BY <2>1, HistoryKeepsStates
  <2>3. QED BY <2>2, Ways
<1>5. CASE rm_savedisk
  <2>1. Saveable /\ vm' = set_saveas_state(vm) BY <1>5 DEF rm_savedisk
  <2>2. CASE vm.state = "POWEROFF"
    <3>1. vm' = [vm EXCEPT !.state = "ACTIVE", !.lcm = "HOTPLUG_SAVEAS_POWEROFF"]
      BY <2>1, <2>2, Zenon DEF set_saveas_state
    <3>2. vm'.state = "ACTIVE" /\ vm'.lcm = "HOTPLUG_SAVEAS_POWEROFF" BY <3>1 DEF VirtualMachine
    <3>3. QED BY <2>2, <3>2, Node, NextNode, Ways, ArrowsTaken DEF Undrawn
  <2>3. CASE vm.state = "SUSPENDED"
    <3>1. vm' = [vm EXCEPT !.state = "ACTIVE", !.lcm = "HOTPLUG_SAVEAS_SUSPENDED"]
      BY <2>1, <2>3, Zenon DEF set_saveas_state
    <3>2. vm'.state = "ACTIVE" /\ vm'.lcm = "HOTPLUG_SAVEAS_SUSPENDED" BY <3>1 DEF VirtualMachine
    <3>3. QED BY <2>3, <3>2, Node, NextNode, Ways, ArrowsTaken DEF Undrawn
  <2>4. CASE is("ACTIVE", "RUNNING")
    <3>1. vm' = [vm EXCEPT !.state = "ACTIVE", !.lcm = "HOTPLUG_SAVEAS"]
      BY <2>1, <2>4, Zenon DEF set_saveas_state, is
    <3>2. vm'.state = "ACTIVE" /\ vm'.lcm = "HOTPLUG_SAVEAS" BY <3>1 DEF VirtualMachine
    <3>3. QED BY <2>4, <3>2, ActiveArrow, ArrowsTaken DEF Undrawn, is
  <2>5. QED BY <2>1, <2>2, <2>3, <2>4 DEF Saveable
<1>6. CASE rm_savedisk_undone BY <1>6, ClearSaveasDrawn DEF rm_savedisk_undone
<1>7. CASE recover
  <2>1. CASE vm.lcm = "UNKNOWN" /\ vm' = [vm EXCEPT !.lcm = "RUNNING"]
    <3>1. vm'.state = vm.state /\ vm'.lcm = "RUNNING" BY <2>1, Fields
    <3>2. QED BY <2>1, <3>1, LcmArrow, ArrowsTaken DEF Undrawn
  <2>2. QED BY <1>1, <1>7, <2>1 DEF recover
<1>8. CASE rm_deploy_enforce \/ rm_migrate \/ rm_savedisk_allocated \/ rm_savedisk_hot
  BY <1>1, <1>8 DEF rm_deploy_enforce, rm_migrate, rm_savedisk_allocated, rm_savedisk_hot
<1>9. QED BY <1>3, <1>4, <1>5, <1>6, <1>7, <1>8, Zenon DEF RmNext

(* The drivers and their managers change the VM only when a poll finds one *)
(* that was UNKNOWN.                                                       *)
LEMMA DriverDrawn ==
  ASSUME SerialInv, VmmStep \/ TmStep \/ DriverLost
  PROVE  Drawn
<1>1. ASSUME UNCHANGED vm PROVE Drawn BY <1>1, Ways
<1>2. ASSUME vm.lcm = "UNKNOWN", vm' = [vm EXCEPT !.lcm = "RUNNING"] PROVE Drawn
  <2>1. vm'.state = vm.state /\ vm'.lcm = "RUNNING"
    BY <1>2, Fields DEF SerialInv, IInv, TypeOK
  <2>2. QED BY <1>2, <2>1, LcmArrow, ArrowsTaken DEF Undrawn
<1>3. CASE vmm_poll_answer
  BY <1>1, <1>2, <1>3 DEF vmm_poll_answer, vmm_poll_answered, PollAnswer
<1>4. CASE VmmCommand \/ vmm_error \/ vmm_answer \/ vmm_timer
  BY <1>1, <1>4 DEF VmmCommand, vmm_command, vmm_driver_cancel, vmm_error, vmm_answer,
                    vmm_answered, vmm_timer
<1>5. CASE TmStep \/ DriverLost
  BY <1>1, <1>5 DEF TmStep, TmFrame, DriverLost, vmm_driver_lost
<1>6. QED BY <1>3, <1>4, <1>5 DEF VmmStep, VmmAnswer

(* Every step of the VM follows an arrow of the diagram, or none.          *)
LEMMA NextDrawn == ASSUME SerialInv, [Next]_vars PROVE [Diagram!Next]_Shown
<1>1. CASE UNCHANGED vars BY <1>1 DEF vars, Shown
<1>2. CASE Next
  BY <1>2, RmNextDrawn, DmRequestDrawn, DmResultDrawn, LcmDrawn, DriverDrawn, Zenon
  DEF Next, Drawn
<1>3. QED BY <1>1, <1>2

(* When requests come one at a time, even if drivers die, the managers     *)
(* implement the documented state diagram: every step of a VM goes along   *)
(* one of its arrows, or is one of the two that leave any state, or leaves *)
(* the VM where it is shown.                                               *)
THEOREM ImplementsDiagram == ASSUME OneAtATime PROVE Spec => FollowsDiagram
<1>1. Init => Diagram!Init
  <2>1. SUFFICES ASSUME Init PROVE Shown \in {"PENDING", "HOLD"} BY DEF Diagram!Init
  <2>2. PICK s \in {"PENDING", "HOLD"} :
          vm = [state |-> s, lcm |-> "LCM_INIT", hist |-> NoHistory, prev |-> NoHistory]
    BY <2>1 DEF Init
  <2>3. vm.state \in {"PENDING", "HOLD"} BY <2>2
  <2>4. QED BY <2>3, Node
<1>2. SerialInv /\ [Next]_vars => [Diagram!Next]_Shown BY NextDrawn
<1>3. QED BY <1>1, <1>2, SerialInvariance, PTL DEF Spec, FollowsDiagram, Diagram!Spec
=============================================================================
