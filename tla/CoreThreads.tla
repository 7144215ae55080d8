----------------------------- MODULE CoreThreads -----------------------------
(***************************************************************************)
(* The threads of the core: those of requests, which change objects of a   *)
(* pool and trigger managers while they have the lock, and those of        *)
(* managers, whose handlers get the object that the action names.  Threads *)
(* that wait for the answer of a driver hold no object meanwhile: they and *)
(* the authorization manager are looked at by themselves.                  *)
(***************************************************************************)
EXTENDS ObjectPool, SyncRequests

CONSTANTS Handler,   \* the managers whose actions name an object
          Presents   \* what goes on together

VARIABLE present     \* the threads and the drivers in use

User      == Thread \ Handler
pool_vars == vars
all_vars  == <<pool_vars, am_vars, sync_vars, present>>

(* The objects of a pool are known to actions by their number.             *)
ASSUME ThreadsAssumption ==
  /\ Handler \subseteq Thread \cap Manager /\ Handler \cap (Caller \cup {Authm}) = {}
  /\ Action = OID \cup Caller

-----------------------------------------------------------------------------
(* A request changes an object and, before it unlocks it, triggers a       *)
(* manager (DispatchManager::suspend and its like), or it only changes it. *)
user_update(t) ==
  /\ update(t)
  /\ \/ UNCHANGED am_vars
     \/ \E m \in Handler : HasRoom(m) /\ trigger(m, Object(t).oid)

user_step(t) ==
  \/ /\ request(t) \/ Calls(t) \/ object_lock(t) \/ evict(t) \/ replace(t) \/ drop(t)
     /\ UNCHANGED am_vars
  \/ user_update(t)

(* The handler of an action is a request of the manager's own thread; that *)
(* of the timer goes over objects.                                         *)
handle(m) ==
  /\ loop[m] = "ACT" /\ acting[m] # FINALIZE /\ thread[m] = Idle
  /\ \E o \in IF acting[m] = TIMER THEN OID ELSE {acting[m]} :
       Set(m, [Idle EXCEPT !.op = "UPDATE", !.at = "GET", !.oid = o])
  /\ UNCHANGED <<mutex, cache, objects, lastOID, rows, am_vars>>

handler_step(m) ==
  /\ Calls(m) \/ object_lock(m) \/ evict(m) \/ replace(m) \/ update(m)
  /\ IF thread'[m] = Idle THEN acted(m) ELSE UNCHANGED am_vars

loop_step(m)    == LoopStep(m) /\ UNCHANGED <<pool_vars, sync_vars>>
finalized(m)    == acting[m] = FINALIZE /\ acted(m) /\ UNCHANGED pool_vars
finalize(m)     ==
  /\ loop[m] # "ENDED" /\ ~\E i \in 1..Len(actions[m]) : actions[m][i] = FINALIZE
  /\ acting[m] # FINALIZE
  /\ trigger(m, FINALIZE) /\ UNCHANGED pool_vars
time_step(m)    == time_passes(m) /\ UNCHANGED <<pool_vars, sync_vars>>

pool_step ==
  \/ \E t \in User \cap present : user_step(t)
  \/ \E m \in Handler \cap present : handle(m) \/ handler_step(m) \/ finalized(m) \/ finalize(m)

sync_step ==
  \/ \E c \in Caller \cap present :
       ninety_seconds(c) \/ caller_step(c) \/ \E s \in Service \cap present : asks(c, s)
  \/ Authm \in present /\ authm_step
  \/ \E s \in Service \cap present : get_request(s) \/ listener_step(s) \/ mad_dies(s)

-----------------------------------------------------------------------------
ThreadsInit == Init /\ AmInit /\ SyncInit /\ present \in Presents

ThreadsNext ==
  /\ \/ pool_step /\ UNCHANGED sync_vars
     \/ sync_step /\ UNCHANGED pool_vars
     \/ \E m \in (Handler \cup {Authm}) \cap present : loop_step(m) \/ time_step(m)
  /\ UNCHANGED present

(* Threads go on: a request once it has begun, the loop of a manager and   *)
(* its handlers, the thread that listens to drivers.  Users need not make  *)
(* requests, and of the drivers only that of datastores has to answer.     *)
Goes(t, A)  == t \in present /\ A /\ UNCHANGED present
Pool(A)     == A /\ UNCHANGED sync_vars
Sync(A)     == A /\ UNCHANGED pool_vars
Own(t)      == object_lock(t) \/ evict(t) \/ replace(t)

ThreadsSpec ==
  /\ ThreadsInit /\ [][ThreadsNext]_all_vars
  /\ \A t \in User :
       /\ WF_all_vars(Goes(t, Pool(user_update(t) \/ ((Own(t) \/ drop(t)) /\ UNCHANGED am_vars))))
       /\ SF_all_vars(Goes(t, Pool(Calls(t) /\ UNCHANGED am_vars)))
  /\ \A m \in Handler :
       /\ WF_all_vars(Goes(m, \/ loop_step(m)
                              \/ Pool(handle(m) \/ finalized(m))
                              \/ Pool((Own(m) \/ update(m)) /\ handler_step(m))))
       /\ SF_all_vars(Goes(m, Pool(Calls(m) /\ handler_step(m))))
  /\ \A c \in Caller : WF_all_vars(Goes(c, Sync(caller_step(c) \/ ninety_seconds(c))))
  /\ WF_all_vars(Goes(Authm, Sync(authm_step) \/ loop_step(Authm) \/ time_step(Authm)))
  /\ WF_all_vars(Goes("AUTH", Sync(listener_step("AUTH"))))
  /\ WF_all_vars(Goes("STAT", Sync(listener_step("STAT") \/ get_request("STAT"))))

-----------------------------------------------------------------------------
(* An action that was triggered is handled, whatever the manager, requests *)
(* and other managers are doing: no signal is lost between the look at the *)
(* queue and the wait, and no handler waits for ever for an object.        *)
ActionsHandled ==
  /\ \A m \in Handler, a \in OID : Queued(m, a) ~> (acting[m] = a)
  /\ \A c \in Caller : Queued(Authm, c) ~> (acting[Authm] = c)

(* Requests return, from the pool and from the drivers.                    *)
ThreadsReturn == RequestsReturn /\ CallersReturn

(* The timer, once due, is handled.                                        *)
TimerServed == \A m \in Timed : due[m] ~> (acting[m] = TIMER \/ loop[m] = "ENDED")
=============================================================================
