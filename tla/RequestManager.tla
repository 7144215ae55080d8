--------------------------- MODULE RequestManager ---------------------------
(***************************************************************************)
(* The XML-RPC methods on virtual machines that do more than call one      *)
(* method of the dispatch manager.  Each request runs in a thread of its   *)
(* own, and several of them release the VM and take it again: what they    *)
(* checked before may no longer hold after.  A request refused in between, *)
(* for its host or for its owner, has left no trace: it is not modelled.   *)
(***************************************************************************)
EXTENDS DispatchManager

Deployable == vm.state \in {"PENDING", "HOLD"}

add_history_and_deploy_unrecorded(h) ==       \* mutant
  /\ vm' = [vm EXCEPT !.state = IF Deployable THEN "ACTIVE" ELSE @]
  /\ IF Deployable THEN trigger("LCM", <<"DEPLOY">>) ELSE UNCHANGED queue
  /\ UNCHANGED capacity

(* The record of the host is added before DispatchManager::deploy makes    *)
(* its own check of the state.                                             *)
add_history_and_deploy(h) ==
  /\ vm' = [add_history(vm, h) EXCEPT !.state = IF Deployable THEN "ACTIVE" ELSE @]
  /\ IF Deployable THEN trigger("LCM", <<"DEPLOY">>) ELSE UNCHANGED queue
  /\ UNCHANGED capacity

(* Deploy, without the check of the host's capacity: under one lock.       *)
rm_deploy ==
  /\ Request("DEPLOY") /\ Deployable
  /\ \E h \in Hosts : add_history_and_deploy(h)
  /\ UNCHANGED rm

(* Deploy with enforce: the VM is released while check_host runs, and its  *)
(* state is not checked again when it is back.                             *)
rm_deploy_enforce ==
  /\ Request("DEPLOY_ENFORCE") /\ Deployable
  /\ \E h \in Hosts : rm' = rm \cup {RmStep("DEPLOY", h)}
  /\ UNCHANGED <<vm, capacity, queue>>

rm_deploy_locked ==
  \E r \in rm :
    /\ r.step = "DEPLOY" /\ ~locked
    /\ add_history_and_deploy(r.hid)
    /\ rm' = rm \ {r}

(* Migrate: refused while the previous record is not closed, that is,      *)
(* while another migration is on its way.                                  *)
CanMigrate == /\ is("ACTIVE", "RUNNING")
              /\ ~(hasPreviousHistory /\ vm.prev.reason = "NONE")

rm_migrate ==
  /\ \E m \in {"MIGRATE", "LIVE_MIGRATE"}, h \in Hosts \ {vm.hist.hid} :
       /\ Request(m)
       /\ rm' = rm \cup {RmStep(m, h)}
  /\ CanMigrate
  /\ UNCHANGED <<vm, capacity, queue>>

(* The second half: the record of the new host is added whatever the VM    *)
(* does by now, and the result of migrate (or live_migrate) is ignored.    *)
rm_migrate_locked ==
  \E r \in rm :
    /\ r.step \in {"MIGRATE", "LIVE_MIGRATE"} /\ ~locked
    /\ vm' = add_history(vm, r.hid)
    /\ migrate(r.step)
    /\ rm' = rm \ {r}
    /\ UNCHANGED capacity

(* SaveDisk: the VM is set aside, and an image is created by the image     *)
(* driver.  When the thread fails before that the VM is taken back.        *)
Saveable == \/ is("ACTIVE", "RUNNING")
            \/ vm.state \in {"POWEROFF", "SUSPENDED"}

set_saveas_state(v) ==
  [v EXCEPT !.state = "ACTIVE",
            !.lcm = CASE v.state = "POWEROFF"  -> "HOTPLUG_SAVEAS_POWEROFF"
                      [] v.state = "SUSPENDED" -> "HOTPLUG_SAVEAS_SUSPENDED"
                      [] OTHER                 -> "HOTPLUG_SAVEAS"]

rm_savedisk ==
  /\ Request("SAVEAS") /\ Saveable
  /\ vm' = set_saveas_state(vm)
  /\ later("SAVEAS")
  /\ UNCHANGED <<capacity, queue>>

rm_savedisk_allocated ==
  \E r \in rm :
    /\ r.step = "SAVEAS"
    /\ rm' = (rm \ {r}) \cup {RmStep("SAVEAS_IMAGE", NoHost)}
    /\ UNCHANGED <<vm, capacity, queue>>

(* The thread failed, or the image driver did, or the image was not to be  *)
(* saved while the VM runs, or the VM did not wait for the image any more. *)
rm_savedisk_undone ==
  \E r \in rm :
    /\ r.step \in {"SAVEAS", "SAVEAS_IMAGE"} /\ ~locked
    /\ vm' = clear_saveas_state(vm)
    /\ rm' = rm \ {r}
    /\ UNCHANGED <<capacity, queue>>

(* The image is there and the VM still waits: the TM copies the disk.      *)
rm_savedisk_hot ==
  \E r \in rm :
    /\ r.step = "SAVEAS_IMAGE" /\ ~locked
    /\ vm.lcm \in SaveasStates
    /\ trigger("TM", <<"SAVEAS_HOT">>)
    /\ rm' = rm \ {r}
    /\ UNCHANGED <<vm, capacity>>

RecoverEvent_not_hotplug(success) ==          \* mutant
  IF vm.lcm \in HotplugStates THEN <<>> ELSE <<"PROLOG_SUCCESS">>

(* recover: the user says how the pending operation ended, whether or not  *)
(* its own answer is still to come.                                        *)
RecoverEvent(success) ==
  CASE vm.lcm \in PrologStates ->
         <<IF success THEN "PROLOG_SUCCESS" ELSE "PROLOG_FAILURE">>
    [] vm.lcm \in EpilogStates ->
         <<IF success THEN "EPILOG_SUCCESS" ELSE "EPILOG_FAILURE">>
    [] vm.lcm \in SaveasStates -> <<"SAVEAS_HOT_DONE">>
    [] vm.lcm \in BootStates \cup {"MIGRATE"} ->
         <<IF success THEN "DEPLOY_SUCCESS" ELSE "DEPLOY_FAILURE">>
    [] vm.lcm \in ShutdownStates ->
         <<IF success THEN "SHUTDOWN_SUCCESS" ELSE "SHUTDOWN_FAILURE">>
    [] vm.lcm = "CANCEL" ->
         <<IF success THEN "CANCEL_SUCCESS" ELSE "CANCEL_FAILURE">>
    [] vm.lcm \in SaveStates ->
         <<IF success THEN "SAVE_SUCCESS" ELSE "SAVE_FAILURE">>
    [] vm.lcm = "HOTPLUG"          -> <<"ATTACH_DONE">>
    [] vm.lcm = "HOTPLUG_NIC"      -> <<"ATTACH_NIC_DONE">>
    [] vm.lcm = "HOTPLUG_SNAPSHOT" -> <<"SNAPSHOT_DONE">>
    [] OTHER -> <<>>

recover ==
  /\ Request("RECOVER") /\ vm.state = "ACTIVE"
  /\ \/ vm.lcm = "UNKNOWN" /\ vm' = [vm EXCEPT !.lcm = "RUNNING"] /\ UNCHANGED queue
     \/ vm.lcm = "CLEANUP_DELETE"   /\ trigger("DM", <<"DONE">>)     /\ UNCHANGED vm
     \/ vm.lcm = "CLEANUP_RESUBMIT" /\ trigger("DM", <<"RESUBMIT">>) /\ UNCHANGED vm
     \/ vm.lcm = "FAILURE"          /\ trigger("DM", <<"FAILED">>)   /\ UNCHANGED vm
     \/ /\ \E success \in BOOLEAN : /\ RecoverEvent(success) # <<>>
                                    /\ trigger("LCM", RecoverEvent(success))
        /\ UNCHANGED vm
  /\ UNCHANGED <<capacity, rm>>

RmNext ==
  /\ \/ rm_deploy \/ rm_deploy_enforce \/ rm_deploy_locked
     \/ rm_migrate \/ rm_migrate_locked
     \/ rm_savedisk \/ rm_savedisk_allocated \/ rm_savedisk_undone \/ rm_savedisk_hot
     \/ recover
  /\ UNCHANGED <<driver, locked, released>>
=============================================================================
