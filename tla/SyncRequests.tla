----------------------------- MODULE SyncRequests -----------------------------
(***************************************************************************)
(* Requests of the core that wait for the answer of a driver: a thread     *)
(* makes an AuthRequest, or the request for the size of an image, on its   *)
(* stack, hands a pointer to it over and waits in the loop of the request's*)
(* own action manager, until somebody triggers FINALIZE there.             *)
(*                                                                         *)
(* The managers of drivers keep those pointers in sync_requests until the  *)
(* answer comes, the driver's or that of the timer of the manager.  Only   *)
(* the authorization manager has a timer.                                  *)
(***************************************************************************)
EXTENDS ActionManager, FiniteSets

CONSTANTS Caller,    \* the threads that wait
          Authm,     \* the authorization manager
          MaxIds,    \* bound: numbers of requests in use at a time
          Hasty,     \* what happens although it goes wrong, see below
          NoCaller

ASSUME SyncAssumption ==
  /\ Caller \cup {Authm} \subseteq Manager /\ Authm \notin Caller /\ Authm \in Timed
  /\ Caller \cap Timed = {} /\ Caller \subseteq Action /\ NoCaller \notin Caller
  /\ MaxIds \in Nat

(* The kinds of Hasty: a driver cannot be started again while the manager  *)
(* writes to it, the datastore driver dies with a request in it, and       *)
(* threads ask again as soon as they have their answer.                    *)
HastyKinds == {"MAD_REMOVED", "STAT_LOST", "CONSTANT_LOAD"}

VARIABLES sync,           \* the request of each thread
          sync_requests,  \* per service, whose request each number is
          commands,       \* per service, the numbers its driver is working on
          listener,       \* per service, the request that is about to be notified
          mad,            \* per service, the driver process
          sending         \* the authorization manager has looked up its driver

Service   == {"AUTH", "STAT"}
sync_vars == <<sync, sync_requests, commands, listener, mad, sending>>

Ids     == 1..MaxIds
NoId    == 0
NoSync  == [stage |-> "NONE", of |-> "AUTH", id |-> NoId, late |-> FALSE]

SyncTypeOK ==
  /\ sync \in [Caller -> [stage : {"NONE", "MADE", "WAIT", "DONE"}, of : Service,
                          id : Ids \cup {NoId}, late : BOOLEAN]]
  /\ sync_requests \in [Service -> [Ids -> Caller \cup {NoCaller}]]
  /\ commands \in [Service -> SUBSET Ids]
  /\ listener \in [Service -> Caller \cup {NoCaller}]
  /\ mad \in [Service -> {"UP", "DEAD", "REMOVED"}]
  /\ sending \in BOOLEAN

Entries(s)  == {i \in Ids : sync_requests[s][i] # NoCaller}
InUse       == {sync[c].id : c \in Caller} \cup UNION {Entries(s) \cup commands[s] : s \in Service}

NewId       == CHOOSE i \in Ids : i \notin InUse
IdsLeft     == Ids \ InUse # {}

-----------------------------------------------------------------------------
(* The thread that asks *)

NewRequest(c, s) == sync' = [sync EXCEPT ![c] = [NoSync EXCEPT !.stage = "MADE", !.of = s]]

(* authm->trigger(AUTHENTICATE, &ar), or AUTHORIZE.                        *)
authenticate(c) ==
  /\ sync[c].stage = "NONE" /\ HasRoom(Authm)
  /\ NewRequest(c, "AUTH")
  /\ trigger(Authm, c)
  /\ UNCHANGED <<sync_requests, commands, listener, mad, sending>>

added(s, c, i)   == sync_requests' = [sync_requests EXCEPT ![s][i] = c]
written(s, i)    == commands' = [commands EXCEPT ![s] = IF mad[s] = "UP" THEN @ \cup {i} ELSE @]

(* stat_image adds its request and writes to the driver itself.            *)
stat_image(c) ==
  /\ sync[c].stage = "NONE" /\ mad["STAT"] # "REMOVED" /\ IdsLeft
  /\ mad["STAT"] = "DEAD" => "STAT_LOST" \in Hasty
  /\ sync' = [sync EXCEPT ![c] = [NoSync EXCEPT !.stage = "MADE", !.of = "STAT", !.id = NewId]]
  /\ added("STAT", c, NewId) /\ written("STAT", NewId)
  /\ UNCHANGED <<listener, mad, sending, am_vars>>

stat_image_without_driver(c) ==
  /\ sync[c].stage = "NONE" /\ mad["STAT"] = "REMOVED"
  /\ sync' = [sync EXCEPT ![c].stage = "DONE"]
  /\ UNCHANGED <<sync_requests, commands, listener, mad, sending, am_vars>>

(* wait sets the time when the request expires and runs the loop, which    *)
(* may have its FINALIZE by then.                                          *)
starts_waiting(c) ==
  /\ sync[c].stage = "MADE"
  /\ sync' = [sync EXCEPT ![c].stage = "WAIT"]
  /\ UNCHANGED <<sync_requests, commands, listener, mad, sending, am_vars>>

ninety_seconds(c) ==
  /\ sync[c].stage = "WAIT" /\ ~sync[c].late /\ loop[c] # "ENDED"
  /\ sync' = [sync EXCEPT ![c].late = TRUE]
  /\ UNCHANGED <<sync_requests, commands, listener, mad, sending, am_vars>>

waits(c) ==
  /\ sync[c].stage = "WAIT"
  /\ LoopStep(c) \/ (acting[c] = FINALIZE /\ acted(c))
  /\ UNCHANGED sync_vars

(* The request is gone with the stack of the function that made it.        *)
returns(c) ==
  /\ loop[c] = "ENDED"
  /\ sync' = [sync EXCEPT ![c] =
                 [NoSync EXCEPT !.stage = IF "CONSTANT_LOAD" \in Hasty THEN "NONE" ELSE "DONE"]]
  /\ loop' = [loop EXCEPT ![c] = "LOOK"]
  /\ actions' = [actions EXCEPT ![c] = <<>>]
  /\ UNCHANGED <<acting, due, sync_requests, commands, listener, mad, sending>>

-----------------------------------------------------------------------------
(* The authorization manager *)

Acts(c) == loop[Authm] = "ACT" /\ acting[Authm] = c

(* The handler is back, after it has notified the callers in cs.           *)
handled(cs) ==
  /\ actions' = [m \in Manager |-> IF m \in cs THEN Append(actions[m], FINALIZE) ELSE actions[m]]
  /\ loop' = [m \in Manager |-> IF m = Authm \/ (m \in cs /\ loop[m] = "WAIT") THEN "LOOK" ELSE loop[m]]
  /\ acting' = [acting EXCEPT ![Authm] = NoAction]

get_mad(c) ==
  /\ Acts(c) /\ ~sending /\ mad["AUTH"] # "REMOVED"
  /\ sending' = TRUE
  /\ UNCHANGED <<sync, sync_requests, commands, listener, mad, am_vars>>

no_driver(c) ==
  /\ Acts(c) /\ ~sending /\ mad["AUTH"] = "REMOVED"
  /\ handled({c})
  /\ UNCHANGED <<sync, sync_requests, commands, listener, mad, sending, due>>

add_request(c) ==
  /\ Acts(c) /\ sending /\ sync[c].id = NoId /\ IdsLeft
  /\ added("AUTH", c, NewId)
  /\ sync' = [sync EXCEPT ![c].id = NewId]
  /\ UNCHANGED <<commands, listener, mad, sending, am_vars>>

send(c) ==
  /\ Acts(c) /\ sending /\ sync[c].id # NoId
  /\ written("AUTH", sync[c].id)
  /\ handled({}) /\ sending' = FALSE
  /\ UNCHANGED <<sync, sync_requests, listener, mad, due>>

Expired == {i \in Entries("AUTH") : sync[sync_requests["AUTH"][i]].late}

check_time_outs_unlisted ==   \* mutant
  /\ Acts(TIMER)
  /\ handled({sync_requests["AUTH"][i] : i \in Expired})
  /\ due' = [due EXCEPT ![Authm] = FALSE]
  /\ UNCHANGED sync_vars
check_time_outs ==
  /\ Acts(TIMER)
  /\ handled({sync_requests["AUTH"][i] : i \in Expired})
  /\ sync_requests' = [sync_requests EXCEPT !["AUTH"] =
                         [i \in Ids |-> IF i \in Expired THEN NoCaller ELSE @[i]]]
  /\ due' = [due EXCEPT ![Authm] = FALSE]
  /\ UNCHANGED <<sync, commands, listener, mad, sending>>

-----------------------------------------------------------------------------
(* The thread that listens to the drivers *)

(* An answer takes the request out of the table, if it is still there.     *)
get_request(s) ==
  /\ listener[s] = NoCaller /\ mad[s] = "UP"
  /\ \E i \in commands[s] :
       /\ commands' = [commands EXCEPT ![s] = @ \ {i}]
       /\ listener' = [listener EXCEPT ![s] = sync_requests[s][i]]
       /\ sync_requests' = [sync_requests EXCEPT ![s][i] = NoCaller]
  /\ UNCHANGED <<sync, mad, sending, am_vars>>

notify_request(s) ==
  LET c == listener[s] IN
    /\ c # NoCaller
    /\ trigger(c, FINALIZE)
    /\ listener' = [listener EXCEPT ![s] = NoCaller]
    /\ UNCHANGED <<sync, sync_requests, commands, mad, sending>>

(* The driver dies, with what it was doing; its pipe tells the listener,   *)
(* which starts it again.  What is written meanwhile is lost.              *)
mad_dies(s) ==
  /\ mad[s] = "UP"
  /\ s = "STAT" /\ Entries(s) # {} => "STAT_LOST" \in Hasty
  /\ mad' = [mad EXCEPT ![s] = "DEAD"]
  /\ commands' = [commands EXCEPT ![s] = {}]
  /\ UNCHANGED <<sync, sync_requests, listener, sending, am_vars>>

reload(s) ==
  /\ mad[s] = "DEAD" /\ listener[s] = NoCaller
  /\ \E now \in {"UP", "REMOVED"} :
       /\ now = "REMOVED" /\ s = "AUTH" /\ sending => "MAD_REMOVED" \in Hasty
       /\ mad' = [mad EXCEPT ![s] = now]
  /\ UNCHANGED <<sync, sync_requests, commands, listener, sending, am_vars>>

-----------------------------------------------------------------------------
SyncInit ==
  /\ sync = [c \in Caller |-> NoSync]
  /\ sync_requests = [s \in Service |-> [i \in Ids |-> NoCaller]]
  /\ commands = [s \in Service |-> {}]
  /\ listener = [s \in Service |-> NoCaller]
  /\ mad = [s \in Service |-> "UP"]
  /\ sending = FALSE

caller_step(c) == starts_waiting(c) \/ waits(c) \/ returns(c)
authm_step ==
  \/ \E c \in Caller : get_mad(c) \/ no_driver(c) \/ add_request(c) \/ send(c)
  \/ check_time_outs
listener_step(s) == notify_request(s) \/ reload(s)

asks(c, s) == IF s = "AUTH" THEN authenticate(c) ELSE stat_image(c) \/ stat_image_without_driver(c)

-----------------------------------------------------------------------------
(* Whoever has a pointer to a request, the queue of the manager, its table *)
(* or the thread that listens, has it while its caller waits for it: it is *)
(* answered once, by the driver or by the timer, and forgotten at once, so *)
(* that a late answer does not touch it; and nobody writes to a driver     *)
(* that has been removed.                                                  *)
Awaiting(c) == sync[c].stage \in {"MADE", "WAIT"} /\ actions[c] = <<>> /\ loop[c] \in {"LOOK", "WAIT"}
RequestsAlive ==
  /\ SyncTypeOK
  /\ \A s \in Service : \A i \in Entries(s) :
       LET c == sync_requests[s][i] IN Awaiting(c) /\ sync[c].of = s /\ sync[c].id = i
  /\ \A s \in Service : listener[s] # NoCaller =>
       Awaiting(listener[s]) /\ sync[listener[s]].of = s
  /\ \A c \in Caller : Queued(Authm, c) \/ Acts(c) => Awaiting(c) \/ sync[c].id # NoId
  /\ sending => mad["AUTH"] # "REMOVED"

(* A request that waits comes back: that for an image when the driver has  *)
(* answered, an authorization also without an answer, after 90 seconds.    *)
CallersReturn == \A c \in Caller : (sync[c].stage = "WAIT") ~> (sync[c].stage = "DONE")
=============================================================================
