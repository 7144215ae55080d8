-------------------------------- MODULE Images --------------------------------
(***************************************************************************)
(* The image manager: the states and use counters of the images of a       *)
(* datastore, the datastore driver that makes, copies and removes them,    *)
(* and the virtual machines whose disks they are.                          *)
(*                                                                         *)
(* An image is changed under its own lock, so a step is what one thread    *)
(* does between getting an image (or a VM) and releasing it; what is left  *)
(* of the request or callback waits in calls.  Of a VM the module keeps    *)
(* its disks and as much of its state as they depend on: VMLifecycle has   *)
(* the rest.  The types of the images are left out (KERNEL, RAMDISK and    *)
(* CONTEXT files are refused wherever a disk is asked for).                *)
(***************************************************************************)
EXTENDS Integers, FiniteSets

CONSTANTS Image,      \* the ids the image pool can give
          VM,         \* the ids the VM pool can give
          MaxDisks,   \* bound: disks of a VM (20 in the code)
          Rash,       \* what users do although it goes wrong, see below
          NoImage, NoVM

ASSUME MaxDisksAssumption == MaxDisks \in Nat
ASSUME NullAssumption     == NoImage \notin Image /\ NoVM \notin VM

(* The kinds of Rash: a disk of a VM with an image that it holds already,  *)
(* the deletion of an image while its allocation goes on, while a disk is  *)
(* saved to it, or again while it is being removed, the deletion of a VM   *)
(* between the halves of an attach, the detaching of a disk that is to be  *)
(* saved when the VM ends.                                                 *)

VARIABLES image,     \* the image pool
          vm,        \* the VM pool
          calls,     \* what threads still have to do, each under one lock
          driver,    \* commands the datastore driver is executing
          copies,    \* VMs whose disk the transfer driver is saving (hot)
          usage      \* images counted in the datastore quotas

vars == <<image, vm, calls, driver, copies, usage>>

-----------------------------------------------------------------------------
(* Images *)

Slots      == 1..MaxDisks
ImageState == {"NONE", "READY", "USED", "DISABLED", "LOCKED", "ERROR", "CLONE",
               "DELETE", "USED_PERS", "GONE"}
Exists(i)  == image[i].state \notin {"NONE", "GONE"}

(* A new image is LOCKED.  saver is SAVED_VM_ID, and the saving mark, of   *)
(* an image made for save_as; its SAVED_DISK_ID and hot mark are those of  *)
(* the VM that waits for it.                                               *)
NewImage(persistent, source, cloning, saver) ==
  [state |-> "LOCKED", persistent |-> persistent, source |-> source,
   vms |-> {}, clones |-> {}, cloning |-> cloning, saver |-> saver]
Dropped == [NewImage(FALSE, FALSE, NoImage, NoVM) EXCEPT !.state = "GONE"]

CanAcquire(r) == r.state \in {"READY", "USED"}
Acquired(r, v) ==
  [r EXCEPT !.vms = @ \cup {v},
            !.state = IF @ = "READY" /\ r.persistent THEN "USED_PERS" ELSE "USED"]

Idle(failed) == IF failed THEN "ERROR" ELSE "READY"
Released_uncloned(r, v, failed) ==   \* mutant
  [r EXCEPT !.vms = @ \ {v}, !.state = IF r.vms \ {v} = {} THEN Idle(failed) ELSE @]
Released(r, v, failed) ==
  LET vms == r.vms \ {v} IN
  CASE r.state = "USED_PERS" -> [r EXCEPT !.vms = vms, !.state = Idle(failed)]
    [] r.state = "USED" ->
         [r EXCEPT !.vms = vms, !.state = IF vms = {} /\ r.clones = {} THEN "READY" ELSE @]
    [] r.state = "LOCKED" /\ r.saver # NoVM -> [r EXCEPT !.state = Idle(failed)]
    [] OTHER -> r

CanClone(r) == r.state \in {"READY", "USED", "CLONE"}
Cloned(r, i) ==
  [r EXCEPT !.clones = @ \cup {i},
            !.state = IF @ # "READY" THEN @ ELSE IF r.persistent THEN "CLONE" ELSE "USED"]
ReleasedCloning(r, i) ==
  IF r.state \in {"USED", "CLONE"}
  THEN [r EXCEPT !.clones = @ \ {i},
                 !.state = IF r.clones \ {i} = {} /\ r.vms = {} THEN "READY" ELSE @]
  ELSE r

SetImage(i, r) == image' = [image EXCEPT ![i] = r]
SetState(i, s) == image' = [image EXCEPT ![i].state = s]

Call(op, v, i, other) == [op |-> op, vm |-> v, image |-> i, other |-> other]
Goes(c)       == calls' = calls \ {c}
Becomes(c, d) == calls' = (calls \ {c}) \cup {d}
Starts(c)     == calls' = calls \cup {c}

-----------------------------------------------------------------------------
(* Requests on images *)

(* ImageAllocate: the quota, the entry in the pool, then the registration. *)
image_allocate(i) ==
  /\ image[i].state = "NONE"
  /\ \E persistent, source \in BOOLEAN :
       SetImage(i, NewImage(persistent, source, NoImage, NoVM))
  /\ Starts(Call("REGISTER", NoVM, i, NoImage))
  /\ usage' = usage + 1
  /\ UNCHANGED <<vm, driver, copies>>

(* register_image gets the image again: it may be gone, and then the quota *)
(* is given back a second time (and the VM told, when it was a save_as).   *)
register_image(c) ==
  LET i == c.image IN
  /\ c.op = "REGISTER"
  /\ \/ /\ Exists(i)
        /\ IF image[i].source
           THEN SetState(i, "READY") /\ UNCHANGED driver
           ELSE /\ driver' = driver \cup {<<IF image[i].saver = NoVM THEN "CP" ELSE "MKFS", i>>}
                /\ UNCHANGED image
        /\ Goes(c)
        /\ UNCHANGED usage
     \/ /\ ~Exists(i)
        /\ IF image[i].saver = NoVM THEN Goes(c)
           ELSE Becomes(c, Call("CLEAR_SAVEAS", image[i].saver, NoImage, NoImage))
        /\ usage' = usage - 1
        /\ UNCHANGED <<image, driver>>
  /\ UNCHANGED <<vm, copies>>

(* ImageClone: can_clone_image and the entry of the new image, then        *)
(* clone_image counts it in its source, and then looks for it again.       *)
image_clone(i, source) ==
  /\ image[i].state = "NONE"
  /\ CanClone(image[source])
  /\ SetImage(i, NewImage(FALSE, FALSE, source, NoVM))
  /\ Starts(Call("CLONE", NoVM, i, source))
  /\ usage' = usage + 1
  /\ UNCHANGED <<vm, driver, copies>>

clone_count_keeps_quota(c) ==   \* mutant
  /\ c.op = "CLONE"
  /\ IF CanClone(image[c.other])
     THEN /\ SetImage(c.other, Cloned(image[c.other], c.image))
          /\ Becomes(c, Call("CLONE_START", NoVM, c.image, c.other))
     ELSE SetImage(c.image, Dropped) /\ Goes(c)
  /\ UNCHANGED <<vm, driver, copies, usage>>

clone_count(c) ==
  /\ c.op = "CLONE"
  /\ \/ /\ CanClone(image[c.other])
        /\ SetImage(c.other, Cloned(image[c.other], c.image))
        /\ Becomes(c, Call("CLONE_START", NoVM, c.image, c.other))
        /\ UNCHANGED usage
     \/ /\ ~CanClone(image[c.other])
        /\ SetImage(c.image, Dropped)
        /\ Goes(c)
        /\ usage' = usage - 1
  /\ UNCHANGED <<vm, driver, copies>>

clone_start(c) ==
  /\ c.op = "CLONE_START"
  /\ IF Exists(c.image)
     THEN driver' = driver \cup {<<"CLONE", c.image>>} /\ UNCHANGED usage
     ELSE usage' = usage - 1 /\ UNCHANGED driver
  /\ Goes(c)
  /\ UNCHANGED <<image, vm, copies>>

(* release_cloning_image *)
unclone(c) ==
  /\ c.op = "UNCLONE"
  /\ SetImage(c.other, ReleasedCloning(image[c.other], c.image))
  /\ Goes(c)
  /\ UNCHANGED <<vm, driver, copies, usage>>

(* delete_image: an image without a source is dropped at once, one with a  *)
(* source when the driver has removed it; the quota is given back here.    *)
Allocating(i) == \E c \in calls : c.op \in {"REGISTER", "CLONE", "CLONE_START"} /\ c.image = i
CanDelete(i) ==
  /\ \/ image[i].state \in {"DISABLED", "ERROR", "LOCKED", "DELETE"}
     \/ image[i].state = "READY" /\ image[i].vms = {}
  /\ image[i].state = "DELETE" => "DELETE_AGAIN" \in Rash
  /\ Allocating(i) => "DELETE_ALLOCATING" \in Rash
  /\ image[i].state = "LOCKED" /\ image[i].saver # NoVM => "DELETE_SAVING" \in Rash

image_delete(i) ==
  /\ CanDelete(i)
  /\ IF image[i].source
     THEN /\ SetImage(i, [image[i] EXCEPT !.state = "DELETE", !.cloning = NoImage])
          /\ driver' = driver \cup {<<"RM", i>>}
     ELSE SetImage(i, Dropped) /\ UNCHANGED driver
  /\ IF image[i].state = "LOCKED" /\ image[i].cloning # NoImage
     THEN Starts(Call("UNCLONE", NoVM, i, image[i].cloning))
     ELSE UNCHANGED calls
  /\ usage' = usage - 1
  /\ UNCHANGED <<vm, copies>>

image_enable(i) ==
  /\ image[i].state \in {"DISABLED", "ERROR"}
  /\ SetState(i, "READY")
  /\ UNCHANGED <<vm, calls, driver, copies, usage>>

image_disable(i) ==
  /\ image[i].state \in {"READY", "ERROR"}
  /\ SetState(i, "DISABLED")
  /\ UNCHANGED <<vm, calls, driver, copies, usage>>

CanChangePersistent(r) == r.state \notin {"USED", "CLONE", "USED_PERS"}
image_persistent(i) ==
  /\ Exists(i)
  /\ CanChangePersistent(image[i])
  /\ SetImage(i, [image[i] EXCEPT !.persistent = ~@])
  /\ UNCHANGED <<vm, calls, driver, copies, usage>>

-----------------------------------------------------------------------------
(* Answers of the datastore driver; about an image that is gone they only  *)
(* log (and mkfs_action then does not look for the VM either).             *)

Answered(op, i) == <<op, i>> \in driver /\ driver' = driver \ {<<op, i>>}

cp_action(i) ==
  /\ Answered("CP", i)
  /\ IF Exists(i)
     THEN \E success \in BOOLEAN :
            SetImage(i, [image[i] EXCEPT !.source = @ \/ success, !.state = Idle(~success)])
     ELSE UNCHANGED image
  /\ UNCHANGED <<vm, calls, copies, usage>>

clone_action(i) ==
  /\ Answered("CLONE", i)
  /\ IF Exists(i)
     THEN /\ \E success \in BOOLEAN :
               SetImage(i, [image[i] EXCEPT !.source = @ \/ success, !.state = Idle(~success),
                                            !.cloning = NoImage])
          /\ Starts(Call("UNCLONE", NoVM, i, image[i].cloning))
     ELSE UNCHANGED <<image, calls>>
  /\ UNCHANGED <<vm, copies, usage>>

mkfs_action_silent(i) ==   \* mutant
  /\ Answered("MKFS", i)
  /\ \/ SetState(i, "ERROR") /\ UNCHANGED calls
     \/ UNCHANGED image /\ Starts(Call("SAVED", image[i].saver, i, NoImage))
  /\ UNCHANGED <<vm, copies, usage>>

mkfs_action(i) ==
  /\ Answered("MKFS", i)
  /\ \/ ~Exists(i) /\ UNCHANGED <<image, calls>>
     \/ /\ Exists(i)
        /\ SetImage(i, [image[i] EXCEPT !.source = TRUE])
        /\ Starts(Call("SAVED", image[i].saver, i, NoImage))
     \/ /\ Exists(i)
        /\ SetState(i, "ERROR")
        /\ Starts(Call("CLEAR_SAVEAS", image[i].saver, NoImage, NoImage))
  /\ UNCHANGED <<vm, copies, usage>>

rm_action(i) ==
  /\ Answered("RM", i)
  /\ IF Exists(i) THEN SetImage(i, Dropped) ELSE UNCHANGED image
  /\ UNCHANGED <<vm, calls, copies, usage>>

-----------------------------------------------------------------------------
(* Virtual machines *)

VmState == {"NONE", "INSERT", "ROLLBACK", "RUNNING", "HOTPLUG", "SAVEAS",
            "ENDING", "FAILED", "RELEASING", "RELEASING_FAILED", "DONE", "GONE"}

(* disk and save_as: IMAGE_ID and SAVE_AS of each disk; attach, saving:    *)
(* the disk marked ATTACH, and the one marked (HOTPLUG_)SAVE_AS_ACTIVE.    *)
NoDisks == [s \in Slots |-> NoImage]
NewVM   == [state |-> "NONE", disk |-> NoDisks, save_as |-> NoDisks,
            attach |-> 0, saving |-> 0, hot |-> FALSE, hot_as |-> NoImage]

FreeSlots(v) == {s \in Slots : vm[v].disk[s] = NoImage}
Disks(v)     == {vm[v].disk[s] : s \in Slots} \ {NoImage}

(* A VM holds an image from the acquire_image that succeeds to the         *)
(* release_image that is made for it: as a disk, or between the two halves *)
(* of an attach, or when a detached disk is still to be released.  (A disk *)
(* of a VM that was deleted meanwhile is held by nobody who would release  *)
(* it: there the code goes wrong, see DELETE_ATTACHING.)                   *)
Holds(v, i) ==
  \/ i \in Disks(v)
  \/ \E c \in calls : c.op \in {"ATTACH_SET", "ATTACH_BACK", "RELEASE"} /\ c.vm = v /\ c.image = i

MayUse(v, i) == Holds(v, i) => "SAME_IMAGE" \in Rash

(* The marks on the disks of a VM r.                                       *)
set_attach_disk(r, s)  == [r EXCEPT !.attach = s]
clear_attach_disk(r)   == [r EXCEPT !.attach = 0]
delete_attach_disk(r)  ==
  [clear_attach_disk(r) EXCEPT !.disk[r.attach] = NoImage, !.save_as[r.attach] = NoImage]
save_disk(r, i)        == [r EXCEPT !.save_as[r.saving] = i]
save_disk_hot(r, i)    == [r EXCEPT !.hot_as = i]
cancel_saveas_disk(r)  == [r EXCEPT !.saving = 0, !.hot = FALSE, !.hot_as = NoImage]
get_image_from_disk(r, s, hot) ==
  r.disk[s] # NoImage /\ r.save_as[s] = NoImage /\ (hot \/ ~image[r.disk[s]].persistent)

(* PoolSQL::allocate holds the VM pool while it inserts a VM.              *)
PoolFree == \A v \in VM : vm[v].state \notin {"INSERT", "ROLLBACK"}

SetVM(v, r)      == vm' = [vm EXCEPT ![v] = r]
SetVmState(v, s) == vm' = [vm EXCEPT ![v].state = s]
Put(v, s, i)     == [vm[v] EXCEPT !.disk[s] = i]

(* VirtualMachine::insert takes the images of the template one by one and, *)
(* when one cannot be had or a later part is wrong, gives them back.       *)
vm_insert(v) ==
  /\ PoolFree
  /\ vm[v].state = "NONE"
  /\ SetVmState(v, "INSERT")
  /\ UNCHANGED <<image, calls, driver, copies, usage>>

insert_disk(v, i) ==
  /\ vm[v].state = "INSERT"
  /\ FreeSlots(v) # {}
  /\ MayUse(v, i)
  /\ LET s == CHOOSE x \in FreeSlots(v) : \A y \in FreeSlots(v) : x <= y IN
     IF CanAcquire(image[i])
     THEN SetImage(i, Acquired(image[i], v)) /\ SetVM(v, Put(v, s, i))
     ELSE SetVmState(v, "ROLLBACK") /\ UNCHANGED image
  /\ UNCHANGED <<calls, driver, copies, usage>>

insert_end(v) ==
  /\ vm[v].state = "INSERT"
  /\ \E s \in {"RUNNING", "ROLLBACK"} : SetVmState(v, s)
  /\ UNCHANGED <<image, calls, driver, copies, usage>>

(* release_disk_images, disk by disk, of a VM that is not inserted after   *)
(* all, that is DONE, or that is deleted in state FAILED.                  *)
Releasing(v)      == vm[v].state \in {"ROLLBACK", "RELEASING", "RELEASING_FAILED"}
FailedRelease(v)  == vm[v].state = "RELEASING_FAILED"
release_disk(v) ==
  /\ Releasing(v)
  /\ \E s \in Slots :
       \/ /\ vm[v].disk[s] # NoImage
          /\ SetImage(vm[v].disk[s], Released(image[vm[v].disk[s]], v, FailedRelease(v)))
          /\ SetVM(v, Put(v, s, NoImage))
       \/ /\ vm[v].disk[s] = NoImage
          /\ vm[v].save_as[s] # NoImage
          /\ SetImage(vm[v].save_as[s], Released(image[vm[v].save_as[s]], v, FailedRelease(v)))
          /\ SetVM(v, [vm[v] EXCEPT !.save_as[s] = NoImage])
  /\ UNCHANGED <<calls, driver, copies, usage>>

release_end(v) ==
  /\ Releasing(v)
  /\ vm[v].disk = NoDisks /\ vm[v].save_as = NoDisks
  /\ SetVmState(v, IF vm[v].state = "ROLLBACK" THEN "GONE" ELSE "DONE")
  /\ UNCHANGED <<image, calls, driver, copies, usage>>

(* A VM ends: its images are released when the DM takes it to DONE, or     *)
(* when the user deletes it in FAILED.  clean_up_vm forgets the attach and *)
(* has the image of a hot save_as put into ERROR.                          *)
vm_fail(v) ==
  /\ PoolFree
  /\ vm[v].state = "RUNNING"
  /\ SetVmState(v, "FAILED")
  /\ UNCHANGED <<image, calls, driver, copies, usage>>

AttachOps    == {"ATTACH", "ATTACH_SET", "ATTACH_BACK", "ATTACH_REFUSED"}
Attaching(v) == \E c \in calls : c.op \in AttachOps /\ c.vm = v

vm_end_uncancelled(v) ==   \* mutant
  /\ PoolFree
  /\ vm[v].state \in {"RUNNING", "HOTPLUG", "SAVEAS"}
  /\ ~Attaching(v)
  /\ SetVM(v, clear_attach_disk(cancel_saveas_disk([vm[v] EXCEPT !.state = "ENDING"])))
  /\ UNCHANGED <<image, calls, driver, copies, usage>>

vm_end(v) ==
  /\ PoolFree
  /\ vm[v].state \in {"RUNNING", "HOTPLUG", "SAVEAS"}
  /\ Attaching(v) => "DELETE_ATTACHING" \in Rash
  /\ SetVM(v, clear_attach_disk(cancel_saveas_disk([vm[v] EXCEPT !.state = "ENDING"])))
  /\ IF vm[v].hot_as # NoImage
     THEN Starts(Call("HOT_ERROR", NoVM, vm[v].hot_as, NoImage))
     ELSE UNCHANGED calls
  /\ UNCHANGED <<image, driver, copies, usage>>

done_action(v) ==
  /\ PoolFree
  /\ vm[v].state = "ENDING"
  /\ SetVmState(v, "RELEASING")
  /\ UNCHANGED <<image, calls, driver, copies, usage>>

finalize(v) ==
  /\ PoolFree
  /\ vm[v].state = "FAILED"
  /\ SetVmState(v, "RELEASING_FAILED")
  /\ UNCHANGED <<image, calls, driver, copies, usage>>

-----------------------------------------------------------------------------
(* Attach and detach.  attach sets HOTPLUG, releases the VM, acquires the  *)
(* image, and comes back to the VM with the disk, or to set RUNNING.       *)

Locked(v)    == ~PoolFree \/ Releasing(v)
SetsRunning(r) ==
  [r EXCEPT !.state = IF @ \in {"HOTPLUG", "SAVEAS", "ENDING"} THEN "RUNNING" ELSE @]

attach(v, i) ==
  /\ ~Locked(v)
  /\ vm[v].state = "RUNNING"
  /\ FreeSlots(v) # {}
  /\ MayUse(v, i)
  /\ SetVmState(v, "HOTPLUG")
  /\ Starts(Call("ATTACH", v, i, NoImage))
  /\ UNCHANGED <<image, driver, copies, usage>>

set_up_attach_disk_keeps(c) ==   \* mutant
  /\ c.op = "ATTACH"
  /\ CanAcquire(image[c.image])
  /\ SetImage(c.image, Acquired(image[c.image], c.vm))
  /\ \E op \in {"ATTACH_SET", "ATTACH_REFUSED"} : Becomes(c, [c EXCEPT !.op = op])
  /\ UNCHANGED <<vm, driver, copies, usage>>

set_up_attach_disk(c) ==
  /\ c.op = "ATTACH"
  /\ \/ /\ CanAcquire(image[c.image])
        /\ SetImage(c.image, Acquired(image[c.image], c.vm))
        /\ \E op \in {"ATTACH_SET", "ATTACH_BACK"} : Becomes(c, [c EXCEPT !.op = op])
     \/ /\ ~CanAcquire(image[c.image])
        /\ Becomes(c, [c EXCEPT !.op = "ATTACH_REFUSED"])
        /\ UNCHANGED image
  /\ UNCHANGED <<vm, driver, copies, usage>>

(* The target of the disk is in use: release_image again.                  *)
attach_back(c) ==
  /\ c.op = "ATTACH_BACK"
  /\ SetImage(c.image, Released(image[c.image], c.vm, FALSE))
  /\ Becomes(c, [c EXCEPT !.op = "ATTACH_REFUSED"])
  /\ UNCHANGED <<vm, driver, copies, usage>>

attach_refused(c) ==
  /\ c.op = "ATTACH_REFUSED"
  /\ ~Locked(c.vm)
  /\ SetVM(c.vm, SetsRunning(vm[c.vm]))
  /\ Goes(c)
  /\ UNCHANGED <<image, driver, copies, usage>>

(* set_attach_disk, on a VM in whatever state                              *)
attach_set(c) ==
  /\ c.op = "ATTACH_SET"
  /\ ~Locked(c.vm)
  /\ \E s \in FreeSlots(c.vm) : SetVM(c.vm, set_attach_disk(Put(c.vm, s, c.image), s))
  /\ Goes(c)
  /\ UNCHANGED <<image, driver, copies, usage>>

detach(v, s) ==
  /\ ~Locked(v)
  /\ vm[v].state = "RUNNING"
  /\ vm[v].disk[s] # NoImage
  /\ vm[v].save_as[s] # NoImage => "DETACH_SAVED" \in Rash
  /\ SetVM(v, set_attach_disk([vm[v] EXCEPT !.state = "HOTPLUG"], s))
  /\ UNCHANGED <<image, calls, driver, copies, usage>>

(* attach_success_action (also of a failed detach): the disk stays.        *)
attach_success(v) ==
  /\ ~Locked(v)
  /\ vm[v].state = "HOTPLUG" /\ vm[v].attach # 0
  /\ SetVM(v, clear_attach_disk([vm[v] EXCEPT !.state = "RUNNING"]))
  /\ UNCHANGED <<image, calls, driver, copies, usage>>

(* attach_failure_action (also of a detach): delete_attach_disk, then the  *)
(* image is released.                                                      *)
attach_failure(v) ==
  LET s == vm[v].attach IN
  /\ ~Locked(v)
  /\ vm[v].state = "HOTPLUG" /\ s # 0
  /\ SetVM(v, delete_attach_disk([vm[v] EXCEPT !.state = "RUNNING"]))
  /\ Starts(Call("RELEASE", v, vm[v].disk[s], NoImage))
  /\ UNCHANGED <<image, driver, copies, usage>>

release_image(c) ==
  /\ c.op = "RELEASE"
  /\ SetImage(c.image, Released(image[c.image], c.vm, FALSE))
  /\ Goes(c)
  /\ UNCHANGED <<vm, driver, copies, usage>>

-----------------------------------------------------------------------------
(* save_as.  VirtualMachineSaveDisk puts the VM into HOTPLUG_SAVEAS, makes *)
(* an image (the quota may refuse it) and leaves; the driver's answer for  *)
(* the image finds the VM.  A deferred save is done when the VM ends, a    *)
(* hot one now, by the transfer driver.                                    *)

ClearSaveas(r) == [cancel_saveas_disk(r) EXCEPT !.state = IF @ = "SAVEAS" THEN "RUNNING" ELSE @]

savedisk(v, s, hot) ==
  /\ ~Locked(v)
  /\ vm[v].state = "RUNNING"
  /\ get_image_from_disk(vm[v], s, hot)
  /\ SetVM(v, [vm[v] EXCEPT !.state = "SAVEAS", !.saving = s, !.hot = hot])
  /\ Starts(Call("SAVEDISK", v, vm[v].disk[s], NoImage))
  /\ UNCHANGED <<image, driver, copies, usage>>

savedisk_allocate(c) ==
  /\ c.op = "SAVEDISK"
  /\ \/ /\ Becomes(c, Call("CLEAR_SAVEAS", c.vm, NoImage, NoImage))
        /\ UNCHANGED <<image, usage>>
     \/ \E i \in Image :
          /\ image[i].state = "NONE"
          /\ SetImage(i, NewImage(FALSE, FALSE, NoImage, c.vm))
          /\ Becomes(c, Call("REGISTER", c.vm, i, NoImage))
          /\ usage' = usage + 1
  /\ UNCHANGED <<vm, driver, copies>>

clear_saveas_state(c) ==
  /\ c.op = "CLEAR_SAVEAS"
  /\ ~Locked(c.vm)
  /\ SetVM(c.vm, ClearSaveas(vm[c.vm]))
  /\ Goes(c)
  /\ UNCHANGED <<image, driver, copies, usage>>

(* The second half of mkfs_action.                                         *)
mkfs_saved(c) ==
  LET r == vm[c.vm] IN
  /\ c.op = "SAVED"
  /\ ~Locked(c.vm)
  /\ \/ /\ r.state = "SAVEAS"
        /\ IF r.hot
           THEN SetVM(c.vm, save_disk_hot(r, c.image)) /\ copies' = copies \cup {c.vm}
           ELSE SetVM(c.vm, ClearSaveas(save_disk(r, c.image))) /\ UNCHANGED copies
        /\ Goes(c)
     \/ /\ r.state # "SAVEAS"
        /\ Becomes(c, [c EXCEPT !.op = "SAVE_FAILED"])
        /\ UNCHANGED <<vm, copies>>
  /\ UNCHANGED <<image, driver, usage>>

save_failed(c) ==
  /\ c.op = "SAVE_FAILED"
  /\ IF Exists(c.image)
     THEN /\ SetState(c.image, "ERROR")
          /\ Becomes(c, Call("CLEAR_SAVEAS", c.vm, NoImage, NoImage))
     ELSE Goes(c) /\ UNCHANGED image
  /\ UNCHANGED <<vm, driver, copies, usage>>

(* saveas_hot_success_action and saveas_hot_failure_action                 *)
saveas_hot(v) ==
  /\ v \in copies /\ copies' = copies \ {v}
  /\ ~Locked(v)
  /\ IF vm[v].state = "SAVEAS" /\ vm[v].hot_as # NoImage
     THEN \E op \in {"HOT_READY", "HOT_ERROR"} : Starts(Call(op, NoVM, vm[v].hot_as, NoImage))
     ELSE UNCHANGED calls
  /\ SetVM(v, ClearSaveas(vm[v]))
  /\ UNCHANGED <<image, driver, usage>>

saveas_hot_image(c) ==
  /\ c.op \in {"HOT_READY", "HOT_ERROR"}
  /\ IF Exists(c.image)
     THEN SetState(c.image, IF c.op = "HOT_READY" THEN "READY" ELSE "ERROR")
     ELSE UNCHANGED image
  /\ Goes(c)
  /\ UNCHANGED <<vm, driver, copies, usage>>

-----------------------------------------------------------------------------
Init ==
  /\ image  = [i \in Image |-> [Dropped EXCEPT !.state = "NONE"]]
  /\ vm     = [v \in VM |-> NewVM]
  /\ calls  = {}
  /\ driver = {}
  /\ copies = {}
  /\ usage  = 0

CallStep(v) == \E c \in calls :
  /\ c.vm = v
  /\ \/ register_image(c) \/ clone_count(c) \/ clone_start(c) \/ unclone(c)
     \/ set_up_attach_disk(c) \/ attach_back(c) \/ attach_refused(c) \/ attach_set(c)
     \/ release_image(c) \/ savedisk_allocate(c) \/ clear_saveas_state(c)
     \/ mkfs_saved(c) \/ save_failed(c) \/ saveas_hot_image(c)

DatastoreAnswer(i) == cp_action(i) \/ clone_action(i) \/ mkfs_action(i) \/ rm_action(i)
DriverAnswer(v)    == saveas_hot(v) \/ attach_success(v) \/ attach_failure(v)

PoolStep(v) ==
  \/ \E i \in Image : insert_disk(v, i)
  \/ insert_end(v) \/ done_action(v)
  \/ release_disk(v) \/ release_end(v)

ImageRequest(i) ==
  \/ image_allocate(i) \/ image_delete(i) \/ image_enable(i) \/ image_disable(i)
  \/ image_persistent(i)
  \/ \E j \in Image : image_clone(i, j)

VmRequest(v) ==
  \/ vm_insert(v) \/ vm_fail(v) \/ vm_end(v) \/ finalize(v)
  \/ \E i \in Image : attach(v, i)
  \/ \E s \in Slots : detach(v, s) \/ \E hot \in BOOLEAN : savedisk(v, s, hot)

Next ==
  \/ \E i \in Image : ImageRequest(i) \/ DatastoreAnswer(i)
  \/ \E v \in VM : VmRequest(v) \/ PoolStep(v) \/ DriverAnswer(v)
  \/ \E v \in VM \cup {NoVM} : CallStep(v)

(* A thread that has begun goes on, and drivers answer.                    *)
Fairness ==
  /\ \A v \in VM : WF_vars(PoolStep(v)) /\ WF_vars(DriverAnswer(v))
  /\ \A v \in VM \cup {NoVM} : WF_vars(CallStep(v))
  /\ \A i \in Image : WF_vars(DatastoreAnswer(i))

Spec     == Init /\ [][Next]_vars
FairSpec == Spec /\ Fairness

-----------------------------------------------------------------------------
ImageRecord ==
  [state : ImageState, persistent : BOOLEAN, source : BOOLEAN, vms : SUBSET VM,
   clones : SUBSET Image, cloning : Image \cup {NoImage},
   saver : VM \cup {NoVM}]
VmRecord ==
  [state : VmState, disk : [Slots -> Image \cup {NoImage}],
   save_as : [Slots -> Image \cup {NoImage}], attach : 0..MaxDisks,
   saving : 0..MaxDisks, hot : BOOLEAN, hot_as : Image \cup {NoImage}]
Calls(ops, vms, images, others) == [op : ops, vm : vms, image : images, other : others]
CallRecord ==
  Calls({"REGISTER"}, VM \cup {NoVM}, Image, {NoImage})
    \cup Calls({"CLONE", "CLONE_START", "UNCLONE"}, {NoVM}, Image, Image)
    \cup Calls(AttachOps \cup {"RELEASE", "SAVEDISK", "SAVED", "SAVE_FAILED"}, VM, Image, {NoImage})
    \cup Calls({"CLEAR_SAVEAS"}, VM, {NoImage}, {NoImage})
    \cup Calls({"HOT_READY", "HOT_ERROR"}, {NoVM}, Image, {NoImage})

(* Records, calls and commands keep their types; in particular a call that *)
(* dereferences an image or a VM always has one.                           *)
TypeOK ==
  /\ image \in [Image -> ImageRecord]
  /\ vm \in [VM -> VmRecord]
  /\ calls \subseteq CallRecord
  /\ driver \subseteq {"CP", "MKFS", "CLONE", "RM"} \X Image
  /\ copies \subseteq VM
  /\ usage \in Int

(* A persistent image has one writer: nobody else uses it or copies it.    *)
PersistentAlone == \A i \in Image :
  image[i].persistent /\ image[i].vms # {} =>
    Cardinality(image[i].vms) = 1 /\ image[i].clones = {}

(* The VMs an image counts (RUNNING_VMS) are those that hold it, and an    *)
(* image that is held is in a state in which nobody deletes or changes it; *)
(* a persistent one is held alone.                                         *)
UsesCounted ==
  /\ TypeOK /\ PersistentAlone
  /\ \A i \in Image :
       /\ image[i].vms = {v \in VM : Holds(v, i)}
       /\ image[i].vms # {} => image[i].state \in {"USED", "USED_PERS"}

(* What onedb fsck finds out about an image, from all VMs and images: the  *)
(* images that are being made from it, and the state its counters imply.   *)
Cloning(i) == {j \in Image : Exists(j) /\ image[j].cloning = i}
FsckState(r) ==
  CASE r.persistent /\ r.vms # {}                     -> "USED_PERS"
    [] r.persistent /\ r.vms = {} /\ r.clones # {}    -> "CLONE"
    [] ~r.persistent /\ (r.vms # {} \/ r.clones # {}) -> "USED"
    [] OTHER -> IF r.state \in IF r.persistent THEN {"USED_PERS", "CLONE"} ELSE {"USED"}
                THEN "READY" ELSE r.state

(* When nothing is under way, fsck finds nothing to repair.                *)
Quiet == calls = {} /\ \A v \in VM : vm[v].state \notin {"INSERT", "ROLLBACK"} /\ ~Releasing(v)
FsckClean == Quiet => \A i \in Image : Exists(i) =>
  image[i].clones = Cloning(i) /\ FsckState(image[i]) = image[i].state

(* And then the VMs an image counts are those that have it as a disk; fsck *)
(* reports a VM that "is missing" from the list of its image.              *)
UsesKnown == Quiet => \A i \in Image : image[i].vms = {v \in VM : i \in Disks(v)}

(* An image is LOCKED, or being removed, only as long as someone is still  *)
(* to change that: the manager, the driver, or the VM whose disk is saved. *)
LockedIsAwaited == \A i \in Image :
  /\ image[i].state = "LOCKED" =>
       \/ \E c \in calls : c.image = i /\ c.op # "UNCLONE"
       \/ \E op \in {"CP", "MKFS", "CLONE"} : <<op, i>> \in driver
       \/ \E v \in VM : \/ vm[v].hot_as = i /\ v \in copies
                        \/ vm[v].state # "DONE" /\ \E s \in Slots : vm[v].save_as[s] = i
  /\ image[i].state = "DELETE" => <<"RM", i>> \in driver

(* The quota of a datastore counts its images, each once, from the request *)
(* that allocates it to the one that deletes it.                           *)
DatastoreCounted ==
  usage = Cardinality({i \in Image : image[i].state \notin {"NONE", "GONE", "DELETE"}})

(* No save_as leaves its VM in HOTPLUG_SAVEAS, and no attach or detach in  *)
(* HOTPLUG, whatever else happens to the VM and to its images.             *)
HotRequestsEnd == \A v \in VM, s \in {"SAVEAS", "HOTPLUG"} : vm[v].state = s ~> vm[v].state # s
=============================================================================
