---------------------------- MODULE CoreServices ----------------------------
(***************************************************************************)
(* Three services beside the life cycle of VMs, each by itself: the image  *)
(* manager with the requests about images, the scheduler, and the hooks.   *)
(***************************************************************************)
EXTENDS Images, Scheduler, Hooks

VARIABLE present     \* the service that is looked at

image_vars   == vars
service_vars == <<image_vars, sched_vars, hooks_vars, present>>

ImageStep(A)     == present = "IMAGES" /\ A /\ UNCHANGED <<sched_vars, hooks_vars, present>>
SchedulerStep(A) == present = "SCHEDULER" /\ A /\ UNCHANGED <<image_vars, hooks_vars, present>>
HookStep(A)      == present = "HOOKS" /\ A /\ UNCHANGED <<image_vars, sched_vars, present>>

ServicesInit ==
  /\ present \in {"IMAGES", "SCHEDULER", "HOOKS"}
  /\ Init /\ HooksInit /\ SchedBegin(IF present = "SCHEDULER" THEN "PENDING" ELSE "DONE")
ServicesNext == ImageStep(Next) \/ SchedulerStep(SchedNext) \/ HookStep(HooksNext)

(* A thread that has begun goes on, drivers of datastores answer, and the  *)
(* timer of the scheduler starts another cycle after each.                 *)
ServicesSpec ==
  /\ ServicesInit /\ [][ServicesNext]_service_vars
  /\ \A v \in VM : /\ WF_service_vars(ImageStep(PoolStep(v)))
                   /\ WF_service_vars(ImageStep(DriverAnswer(v)))
  /\ \A v \in VM \cup {NoVM} : WF_service_vars(ImageStep(CallStep(v)))
  /\ \A i \in Image : WF_service_vars(ImageStep(DatastoreAnswer(i)))
  /\ WF_service_vars(SchedulerStep(SchedStep))

-----------------------------------------------------------------------------
(* Whoever waits for a service has it in the end: a VM for its image to be *)
(* made, a disk to be attached, a host or the time of a scheduled action.  *)
ServicesEnd == HotRequestsEnd /\ VmsServed
=============================================================================
