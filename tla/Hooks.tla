-------------------------------- MODULE Hooks --------------------------------
(***************************************************************************)
(* Hooks on the states of VMs and hosts.  Whenever a pool has written an   *)
(* object to the database it goes over its hooks: each one looks up, in a  *)
(* map of the pool, the state the object had after the last write, and is  *)
(* executed if the object has entered its state since; the last hook of    *)
(* the pool keeps the map.  The lock of the object is held meanwhile, the  *)
(* map has none.                                                           *)
(***************************************************************************)
EXTENDS Integers, FiniteSets

CONSTANTS Hooked,         \* the VMs and hosts, by kind and number
          VmHooks,        \* what the hooks of each pool are ON
          HostHooks,
          Mischance       \* what happens although it goes wrong

ASSUME HooksAssumption ==
  /\ Hooked \subseteq {"VM", "HOST"} \X Nat
  /\ VmHooks \subseteq {"CREATE", "PROLOG", "RUNNING", "SHUTDOWN", "STOP", "DONE", "FAILED", "UNKNOWN"}
  /\ HostHooks \subseteq {"CREATE", "DISABLE", "ERROR"}

(* The kinds of Mischance: an object changes for the first time since the  *)
(* daemon was started again, two threads insert into a map at a time, the  *)
(* hook of a host fails, a host that is in ERROR does not answer the next  *)
(* time either, the driver is not started again when it has died.          *)
MischanceKinds == {"FORGOTTEN", "MAP_RACES", "HOST_HOOK_FAILS", "STILL_DEAD", "NOT_RELOADED"}

VARIABLES hooked,    \* the objects: stored state, and what their thread does
          seen,      \* vm_states and host_states
          hook_driver,  \* whether there is a driver
          executing, \* what it has been told and has not answered
          owed,      \* how much more often an object has entered the state of
                     \* a hook than the hook was executed for it
          forgotten, \* the objects not written since the daemon was started again
          blamed     \* the VMs with an error message, and whose hook it is of
hooks_vars == <<hooked, seen, hook_driver, executing, owed, forgotten, blamed>>

(* The state a hook is on.                                                 *)
VmOn(on) ==
  CASE on = "PROLOG"   -> "PROLOG"   [] on = "RUNNING" -> "RUNNING"
    [] on = "SHUTDOWN" -> "EPILOG"   [] on = "STOP"    -> "STOPPED"
    [] on = "DONE"     -> "DONE"     [] on = "FAILED"  -> "FAILED"
    [] on = "UNKNOWN"  -> "UNKNOWN"
HostOn(on)   == IF on = "DISABLE" THEN "DISABLED" ELSE "ERROR"
On(o, on)    == IF o[1] = "VM" THEN VmOn(on) ELSE HostOn(on)
Hooks_of(o)  == IF o[1] = "VM" THEN VmHooks ELSE HostHooks
State_hooks(o) == Hooks_of(o) \ {"CREATE"}
Ons          == VmHooks \cup HostHooks

(* What an object is written as, and as what after that.                   *)
VmMoves   == {<<"PENDING", "ACTIVE">>, <<"ACTIVE", "PROLOG">>, <<"PROLOG", "RUNNING">>,
              <<"PROLOG", "FAILED">>, <<"FAILED", "PENDING">>,
              <<"RUNNING", "UNKNOWN">>, <<"UNKNOWN", "RUNNING">>,
              <<"RUNNING", "STOPPED">>, <<"STOPPED", "PENDING">>,
              <<"RUNNING", "EPILOG">>, <<"EPILOG", "DONE">>}
HostMoves == {<<"INIT", "MONITORING_INIT">>,
              <<"MONITORED", "MONITORING_MONITORED">>, <<"ERROR", "MONITORING_ERROR">>,
              <<"MONITORED", "DISABLED">>, <<"DISABLED", "INIT">>}
             \cup {"MONITORING_INIT", "MONITORING_MONITORED"} \X {"MONITORED", "ERROR"}
             \cup {<<"MONITORING_ERROR", "MONITORED">>}
             \cup IF "STILL_DEAD" \in Mischance THEN {<<"MONITORING_ERROR", "ERROR">>} ELSE {}
Moves(o)  == IF o[1] = "VM" THEN VmMoves ELSE HostMoves
New(o)    == IF o[1] = "VM" THEN "PENDING" ELSE "INIT"
States    == {"NONE"} \cup UNION {{m[1], m[2]} : m \in VmMoves \cup HostMoves}

HooksTypeOK ==
  /\ hooked \in [Hooked -> [state : States, at : {"FREE", "HOOK", "MAP"}]]
  /\ seen \in [Hooked -> States]                 \* "NONE": not in the map
  /\ hook_driver \in BOOLEAN /\ executing \subseteq Hooked \X Ons
  /\ owed \in [Hooked -> [Ons -> Int]]
  /\ forgotten \subseteq Hooked /\ blamed \subseteq Hooked

execute(o, hooks) == executing' = IF hook_driver THEN executing \cup ({o} \X hooks) ELSE executing

(* An object is made: inserted, not updated, and so not yet in the map.    *)
allocate_hooked(o) ==
  /\ hooked[o].state = "NONE"
  /\ hooked' = [hooked EXCEPT ![o].state = New(o)]
  /\ execute(o, Hooks_of(o) \cap {"CREATE"})
  /\ UNCHANGED <<seen, hook_driver, owed, forgotten, blamed>>

Entered(o, s)   == {on \in State_hooks(o) : /\ s = On(o, on) /\ hooked[o].state \notin {s, "MONITORING_ERROR"}
                                            /\ o \in forgotten => "FORGOTTEN" \in Mischance}
Owed(o, n, hooks) == owed' = [owed EXCEPT ![o] = [on \in Ons |-> IF on \in hooks THEN @[on] + n ELSE @[on]]]

(* The pool writes the object, changed or not.                             *)
write(o, s) ==
  /\ hooked[o].at = "FREE"
  /\ Owed(o, 1, Entered(o, s))
  /\ hooked' = [hooked EXCEPT ![o] = [state |-> s, at |-> "HOOK"]]

pool_update(o) ==
  /\ \/ \E m \in Moves(o) : hooked[o].state = m[1] /\ write(o, m[2])
     \/ hooked[o].state # "NONE" /\ write(o, hooked[o].state)
  /\ UNCHANGED <<seen, hook_driver, executing, forgotten, blamed>>

Stateful(o) == {on \in State_hooks(o) : /\ seen[o] \notin {"NONE", hooked[o].state}
                                         /\ hooked[o].state = On(o, on)}
state_hook(o) ==
  /\ hooked[o].at = "HOOK"
  /\ hooked' = [hooked EXCEPT ![o].at = "MAP"]
  /\ execute(o, Stateful(o))
  /\ Owed(o, -1, IF hook_driver THEN Stateful(o) ELSE {})
  /\ UNCHANGED <<seen, hook_driver, forgotten, blamed>>

(* A VM that is done leaves the map (and enters it again if it is written  *)
(* again).                                                                 *)
InMap(o) == {p \in Hooked : p[1] = o[1] /\ hooked[p].at \in {"HOOK", "MAP"}}
update_state_inserts(o) ==   \* mutant
  IF seen[o] = "NONE" THEN hooked[o].state ELSE seen[o]
update_state(o) ==
  IF hooked[o].state = "DONE" /\ seen[o] # "NONE" THEN "NONE" ELSE hooked[o].state
Races(o) == "MAP_RACES" \in Mischance /\ seen[o] = "NONE" /\ InMap(o) # {o}
map_hook(o) ==
  /\ hooked[o].at = "MAP"
  /\ hooked' = [hooked EXCEPT ![o].at = "FREE"]
  /\ \E lost \in {FALSE, Races(o)} : seen' = [seen EXCEPT ![o] = IF lost THEN @ ELSE update_state(o)]
  /\ forgotten' = forgotten \ {o}
  /\ UNCHANGED <<hook_driver, executing, owed, blamed>>

(* The driver answers with the number of the object, and with an error     *)
(* message or not; the core looks for a VM of that number, whatever the    *)
(* hook was on.                                                            *)
protocol(o, hook, error) ==
  /\ <<o, hook>> \in executing /\ executing' = executing \ {<<o, hook>>}
  /\ error /\ o[1] = "HOST" => "HOST_HOOK_FAILS" \in Mischance
  /\ LET v == <<"VM", o[2]>> IN
     IF ~error \/ v \notin Hooked \/ hooked[v].state = "NONE" THEN UNCHANGED <<hooked, owed, blamed>>
     ELSE write(v, hooked[v].state) /\ blamed' = blamed \cup {o}
  /\ UNCHANGED <<seen, hook_driver, forgotten>>

(* What the driver was executing is lost, recover only logs.               *)
hook_driver_dies ==
  /\ executing # {} /\ executing' = {}
  /\ hook_driver' \in {TRUE} \cup IF "NOT_RELOADED" \in Mischance THEN {FALSE} ELSE {}
  /\ UNCHANGED <<hooked, seen, owed, forgotten, blamed>>

(* The daemon ends between two steps, and is started with empty maps.      *)
restart ==
  /\ seen' = [o \in Hooked |-> "NONE"] /\ executing' = {} /\ hook_driver' = TRUE
  /\ hooked' = [o \in Hooked |-> [hooked[o] EXCEPT !.at = "FREE"]]
  /\ forgotten' = {o \in Hooked : hooked[o].state # "NONE"}
  /\ owed' = [o \in Hooked |-> [on \in Ons |-> 0]]
  /\ UNCHANGED blamed

HooksInit ==
  /\ hooked = [o \in Hooked |-> [state |-> "NONE", at |-> "FREE"]]
  /\ seen = [o \in Hooked |-> "NONE"] /\ hook_driver = TRUE /\ executing = {}
  /\ forgotten = {} /\ blamed = {}
  /\ owed = [o \in Hooked |-> [on \in Ons |-> 0]]
HooksNext ==
  \/ \E o \in Hooked :
       allocate_hooked(o) \/ pool_update(o) \/ state_hook(o) \/ map_hook(o)
       \/ \E hook \in Ons, error \in BOOLEAN : protocol(o, hook, error)
  \/ hook_driver_dies \/ restart

-----------------------------------------------------------------------------
(* A hook is executed once each time its object enters the state, "one     *)
(* shot", and its error is told of the VM it was executed for.             *)
HooksOneShot ==
  /\ HooksTypeOK
  /\ \A o \in Hooked, on \in Ons : hooked[o].at = "FREE" => owed[o][on] = 0
  /\ \A o \in blamed : o[1] = "VM"
=============================================================================
