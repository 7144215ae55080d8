---------------------------- MODULE ServicesProofs ----------------------------
(***************************************************************************)
(* Theorems about the services of the core: the hooks, the scheduler, and  *)
(* the images of datastores.                                               *)
(***************************************************************************)
EXTENDS CoreServices, FiniteSetTheorems, WellFoundedInduction, TLAPS

-----------------------------------------------------------------------------
(***************************************************************************)
(* The hooks and the scheduler, for any number of VMs, hosts and hooks:    *)
(* hooks are executed once for each time their state is entered, and what  *)
(* the scheduler does by its copies does no harm.                          *)
(***************************************************************************)

(* While nobody writes an object the map has its state, unless the object  *)
(* has not been written since it was made or the daemon was started, or is *)
(* done; between the write and the hook, what is owed is what the hook is  *)
(* about to find.                                                          *)
InMapOrNew(o) ==
  \/ seen[o] = hooked[o].state
  \/ seen[o] = "NONE" /\ (o \in forgotten \/ hooked[o].state \in {New(o), "DONE"})
MapFollows == \A o \in Hooked :
  /\ o \in forgotten => seen[o] = "NONE"
  /\ hooked[o].state = "NONE" => hooked[o].at = "FREE" /\ seen[o] = "NONE" /\ o \notin forgotten
  /\ hooked[o].at = "FREE" => hooked[o].state = "NONE" \/ InMapOrNew(o)
  /\ \A on \in Ons : owed[o][on] = IF hooked[o].at = "HOOK" /\ on \in Stateful(o) THEN 1 ELSE 0
HooksInv ==
  /\ HooksTypeOK /\ MapFollows
  /\ hook_driver = TRUE
  /\ \A o \in blamed : o[1] = "VM"

-----------------------------------------------------------------------------
(* The states of hooks are not those an object is in when it is new.       *)
LEMMA HookStates ==
  ASSUME NEW o \in Hooked, NEW on \in State_hooks(o)
  PROVE  /\ on \in Ons
         /\ On(o, on) \notin {"NONE", "PENDING", "ACTIVE", "INIT", "MONITORING_INIT", "MONITORING_ERROR"}
<1>1. CASE o[1] = "VM"
  <2>1. on \in {"PROLOG", "RUNNING", "SHUTDOWN", "STOP", "DONE", "FAILED", "UNKNOWN"}
    BY <1>1, HooksAssumption DEF State_hooks, Hooks_of
  <2>2. VmOn(on) \in {"PROLOG", "RUNNING", "EPILOG", "STOPPED", "DONE", "FAILED", "UNKNOWN"}
    BY <2>1 DEF VmOn
  <2>3. QED BY <1>1, <2>2 DEF On, Ons, State_hooks, Hooks_of
<1>2. CASE o[1] # "VM"
  BY <1>2 DEF On, HostOn, Ons, State_hooks, Hooks_of
<1>3. QED BY <1>1, <1>2

(* What an object that is new, done or being monitored is written as next. *)
LEMMA MovesOfNew ==
  ASSUME NEW o \in Hooked, NEW m \in Moves(o), "STILL_DEAD" \notin Mischance
  PROVE  /\ m[1] \in States /\ m[2] \in States /\ m[2] # "NONE"
         /\ m[1] # "DONE" /\ m[1] # "NONE"
         /\ m[1] = New(o) => m[2] \in {"ACTIVE", "MONITORING_INIT"}
         /\ m[1] = "MONITORING_ERROR" => m[2] # "ERROR"
<1>1. m \in VmMoves \cup HostMoves
  BY DEF Moves
<1>2. m[1] \in States /\ m[2] \in States
  BY <1>1 DEF States
<1>3. CASE o[1] = "VM"
  BY <1>2, <1>3 DEF Moves, VmMoves, New
<1>4. CASE o[1] # "VM"
  BY <1>2, <1>4 DEF Moves, HostMoves, New
<1>5. QED BY <1>3, <1>4

(* A write owes what its hooks are about to find.                          *)
LEMMA WriteKeeps ==
  ASSUME HooksInv, NEW o \in Hooked, NEW s \in States, write(o, s), "FORGOTTEN" \notin Mischance,
         hooked[o].state # "NONE", s # "NONE",
         s = hooked[o].state \/ <<hooked[o].state, s>> \in Moves(o),
         "STILL_DEAD" \notin Mischance,
         hook_driver' = TRUE, UNCHANGED <<seen, forgotten>>
  PROVE  MapFollows' /\ hooked' \in [Hooked -> [state : States, at : {"FREE", "HOOK", "MAP"}]]
         /\ owed' \in [Hooked -> [Ons -> Int]]
<1>1. hooked' = [hooked EXCEPT ![o] = [state |-> s, at |-> "HOOK"]] /\ hooked[o].at = "FREE"
  BY DEF write
<1>2. owed' = [owed EXCEPT ![o] = [on \in Ons |-> IF on \in Entered(o, s) THEN owed[o][on] + 1 ELSE owed[o][on]]]
  BY DEF write, Owed, HooksInv, HooksTypeOK
<1>3. \A on \in Ons : owed[o][on] = 0
  BY <1>1 DEF HooksInv, MapFollows
<1>4. \A on \in Ons : on \in Entered(o, s) <=> on \in Stateful(o)'
  <2> SUFFICES ASSUME NEW on \in Ons PROVE on \in Entered(o, s) <=> on \in Stateful(o)'
    OBVIOUS
  <2>1. hooked'[o].state = s
    BY <1>1 DEF HooksInv, HooksTypeOK
  <2>2. on \in Stateful(o)' <=> on \in State_hooks(o) /\ seen[o] \notin {"NONE", s} /\ s = On(o, on)
    BY <2>1 DEF Stateful
  <2>3. on \in Entered(o, s) <=> /\ on \in State_hooks(o) /\ s = On(o, on)
                                 /\ hooked[o].state \notin {s, "MONITORING_ERROR"} /\ o \notin forgotten
    BY DEF Entered
  <2>4. CASE on \notin State_hooks(o) \/ s # On(o, on)
    BY <2>2, <2>3, <2>4
  <2>5. CASE on \in State_hooks(o) /\ s = On(o, on)
    <3>1. s \notin {"NONE", "PENDING", "ACTIVE", "INIT", "MONITORING_INIT", "MONITORING_ERROR"}
      BY <2>5, HookStates
    <3>2. InMapOrNew(o) /\ (o \in forgotten => seen[o] = "NONE")
      BY <1>1 DEF HooksInv, MapFollows
    <3>3. hooked[o].state = s \/ hooked[o].state \notin {New(o), "DONE"}
      BY <3>1, MovesOfNew
    <3>4. hooked[o].state # "MONITORING_ERROR"
      <4>1. CASE s = hooked[o].state
        BY <4>1, <3>1
      <4>2. CASE <<hooked[o].state, s>> \in Moves(o) /\ hooked[o].state = "MONITORING_ERROR"
        <5>1. s # "ERROR" /\ s \in {"MONITORED"}
          BY <4>2 DEF Moves, VmMoves, HostMoves
        <5>2. On(o, on) # "MONITORED"
          BY <2>5, HooksAssumption DEF On, VmOn, HostOn, State_hooks, Hooks_of
        <5>3. QED BY <5>1, <5>2, <2>5
      <4>3. QED BY <4>1, <4>2
    <3>5. New(o) \in {"PENDING", "INIT"}
      BY DEF New
    <3>6. QED BY <2>2, <2>3, <2>5, <3>1, <3>2, <3>3, <3>4, <3>5 DEF InMapOrNew
  <2>6. QED BY <2>4, <2>5
<1>5. owed' \in [Hooked -> [Ons -> Int]] /\ hooked' \in [Hooked -> [state : States, at : {"FREE", "HOOK", "MAP"}]]
  BY <1>1, <1>2 DEF HooksInv, HooksTypeOK
<1>6. ASSUME NEW p \in Hooked PROVE
        /\ p \in forgotten' => seen'[p] = "NONE"
        /\ hooked'[p].state = "NONE" => hooked'[p].at = "FREE" /\ seen'[p] = "NONE" /\ p \notin forgotten'
        /\ hooked'[p].at = "FREE" => hooked'[p].state = "NONE" \/ InMapOrNew(p)'
        /\ \A on \in Ons : owed'[p][on] = IF hooked'[p].at = "HOOK" /\ on \in Stateful(p)' THEN 1 ELSE 0
  <2>1. CASE p = o
    <3>1. \A on \in Ons : owed'[o][on] = IF on \in Stateful(o)' THEN 1 ELSE 0
      BY <1>2, <1>3, <1>4 DEF HooksInv, HooksTypeOK
    <3>2. QED BY <2>1, <1>1, <3>1 DEF HooksInv, HooksTypeOK, MapFollows
  <2>2. CASE p # o
    <3>1. hooked'[p] = hooked[p] /\ owed'[p] = owed[p] /\ Stateful(p)' = Stateful(p)
      BY <2>2, <1>1, <1>2 DEF HooksInv, HooksTypeOK, Stateful
    <3>2. QED BY <2>2, <3>1 DEF HooksInv, MapFollows, InMapOrNew
  <2>3. QED BY <2>1, <2>2
<1>7. QED BY <1>5, <1>6 DEF MapFollows

(* What the hooks' steps may do although it goes wrong is left out here.   *)
Fortunate == Mischance \cap {"FORGOTTEN", "MAP_RACES", "HOST_HOOK_FAILS", "STILL_DEAD", "NOT_RELOADED"} = {}

LEMMA AllocateHookedKeeps ==
  ASSUME HooksInv, NEW o \in Hooked, allocate_hooked(o)
  PROVE  HooksInv'
<1>1. hooked' = [hooked EXCEPT ![o].state = New(o)] /\ UNCHANGED <<seen, owed, hook_driver, forgotten, blamed>>
  BY DEF allocate_hooked
<1>2. New(o) \in States \ {"NONE"}
  <2>1. \A m \in VmMoves \cup HostMoves : m[1] \in States
    BY DEF States
  <2>2. <<"PENDING", "ACTIVE">> \in VmMoves \cup HostMoves /\ <<"INIT", "MONITORING_INIT">> \in VmMoves \cup HostMoves
    BY DEF VmMoves, HostMoves
  <2>3. "PENDING" \in States /\ "INIT" \in States
    BY <2>1, <2>2
  <2>4. QED BY <2>3 DEF New
<1>3. executing' \subseteq Hooked \X Ons
  BY DEF allocate_hooked, execute, HooksInv, HooksTypeOK, Ons, Hooks_of
<1>4. HooksTypeOK'
  BY <1>1, <1>2, <1>3 DEF HooksInv, HooksTypeOK
<1>5. hooked[o].at = "FREE" /\ seen[o] = "NONE"
  BY DEF allocate_hooked, HooksInv, MapFollows
<1>6. hooked'[o].at = "FREE" /\ hooked'[o].state = New(o)
  BY <1>1, <1>5 DEF HooksInv, HooksTypeOK
<1>7. \A p \in Hooked : p # o => hooked'[p] = hooked[p] /\ Stateful(p)' = Stateful(p)
  BY <1>1 DEF HooksInv, HooksTypeOK, Stateful
<1>8. MapFollows'
  BY <1>1, <1>2, <1>5, <1>6, <1>7 DEF MapFollows, HooksInv, InMapOrNew
<1>9. QED BY <1>1, <1>4, <1>8 DEF HooksInv

LEMMA PoolUpdateKeeps ==
  ASSUME HooksInv, Fortunate, NEW o \in Hooked, pool_update(o)
  PROVE  HooksInv'
<1>1. PICK s \in States : /\ write(o, s) /\ hooked[o].state # "NONE" /\ s # "NONE"
                          /\ s = hooked[o].state \/ <<hooked[o].state, s>> \in Moves(o)
  <2>1. CASE \E m \in Moves(o) : hooked[o].state = m[1] /\ write(o, m[2])
    <3>1. PICK m \in Moves(o) : hooked[o].state = m[1] /\ write(o, m[2])
      BY <2>1
    <3>2. m = <<m[1], m[2]>>
      BY DEF Moves, VmMoves, HostMoves
    <3>3. QED BY <3>1, <3>2, MovesOfNew DEF Fortunate
  <2>2. CASE hooked[o].state # "NONE" /\ write(o, hooked[o].state)
    BY <2>2 DEF HooksInv, HooksTypeOK
  <2>3. QED BY <2>1, <2>2 DEF pool_update
<1>2. UNCHANGED <<seen, hook_driver, executing, forgotten, blamed>>
  BY DEF pool_update
<1>3. QED BY <1>1, <1>2, WriteKeeps DEF HooksInv, HooksTypeOK, Fortunate

LEMMA ProtocolKeeps ==
  ASSUME HooksInv, Fortunate, NEW o \in Hooked, NEW hook \in Ons, NEW error \in BOOLEAN, protocol(o, hook, error)
  PROVE  HooksInv'
<1> DEFINE v == <<"VM", o[2]>>
<1>1. executing' \subseteq Hooked \X Ons /\ UNCHANGED <<seen, hook_driver, forgotten>>
  BY DEF protocol, HooksInv, HooksTypeOK
<1>2. CASE ~error \/ v \notin Hooked \/ hooked[v].state = "NONE"
  <2>1. UNCHANGED <<hooked, owed, blamed>>
    BY <1>2 DEF protocol
  <2>2. \A p \in Hooked : Stateful(p)' = Stateful(p) /\ InMapOrNew(p)' = InMapOrNew(p)
    BY <1>1, <2>1 DEF Stateful, InMapOrNew
  <2>3. QED BY <1>1, <2>1, <2>2 DEF HooksInv, HooksTypeOK, MapFollows
<1>3. CASE ~(~error \/ v \notin Hooked \/ hooked[v].state = "NONE")
  <2>1. write(v, hooked[v].state) /\ blamed' = blamed \cup {o}
    BY <1>3 DEF protocol
  <2>2. o[1] = "VM"
    BY <1>3, HooksAssumption DEF protocol, Fortunate
  <2>3. hooked[v].state \in States
    BY <1>3 DEF HooksInv, HooksTypeOK
  <2>4. /\ MapFollows' /\ hooked' \in [Hooked -> [state : States, at : {"FREE", "HOOK", "MAP"}]]
        /\ owed' \in [Hooked -> [Ons -> Int]]
    BY <1>1, <1>3, <2>1, <2>3, WriteKeeps DEF HooksInv, Fortunate
  <2>5. QED BY <1>1, <2>1, <2>2, <2>4 DEF HooksInv, HooksTypeOK
<1>4. QED BY <1>2, <1>3

LEMMA StateHookKeeps ==
  ASSUME HooksInv, NEW o \in Hooked, state_hook(o)
  PROVE  HooksInv'
<1>1. /\ hooked' = [hooked EXCEPT ![o].at = "MAP"] /\ hooked[o].at = "HOOK"
      /\ UNCHANGED <<seen, hook_driver, forgotten, blamed>>
  BY DEF state_hook
<1>2. owed' = [owed EXCEPT ![o] = [on \in Ons |-> IF on \in Stateful(o) THEN owed[o][on] + -1 ELSE owed[o][on]]]
  BY DEF state_hook, Owed, HooksInv, HooksTypeOK
<1>3. executing' \subseteq Hooked \X Ons
  BY DEF state_hook, execute, Stateful, State_hooks, Hooks_of, Ons, HooksInv, HooksTypeOK
<1>4. HooksTypeOK'
  BY <1>1, <1>2, <1>3 DEF HooksInv, HooksTypeOK
<1>5. hooked'[o].at = "MAP" /\ hooked'[o].state = hooked[o].state
  BY <1>1 DEF HooksInv, HooksTypeOK
<1>6. \A on \in Ons : owed'[o][on] = 0
  BY <1>1, <1>2 DEF HooksInv, HooksTypeOK, MapFollows
<1>7. \A p \in Hooked : p # o => hooked'[p] = hooked[p] /\ owed'[p] = owed[p] /\ Stateful(p)' = Stateful(p)
  BY <1>1, <1>2 DEF HooksInv, HooksTypeOK, Stateful
<1>8. MapFollows'
  BY <1>1, <1>5, <1>6, <1>7 DEF MapFollows, HooksInv, InMapOrNew
<1>9. QED BY <1>1, <1>4, <1>8 DEF HooksInv

LEMMA MapHookKeeps ==
  ASSUME HooksInv, Fortunate, NEW o \in Hooked, map_hook(o)
  PROVE  HooksInv'
<1>1. /\ hooked' = [hooked EXCEPT ![o].at = "FREE"] /\ hooked[o].at = "MAP"
      /\ seen' = [seen EXCEPT ![o] = update_state(o)] /\ forgotten' = forgotten \ {o}
      /\ UNCHANGED <<hook_driver, executing, owed, blamed>>
  BY DEF map_hook, Races, Fortunate
<1>2. update_state(o) \in {hooked[o].state, "NONE"} /\ (update_state(o) # hooked[o].state => hooked[o].state = "DONE")
  BY DEF update_state
<1>3. "NONE" \in States
  BY DEF States
<1>4. HooksTypeOK'
  BY <1>1, <1>2, <1>3 DEF HooksInv, HooksTypeOK
<1>5. hooked'[o].at = "FREE" /\ hooked'[o].state = hooked[o].state /\ hooked[o].state # "NONE" /\ seen'[o] = update_state(o)
  BY <1>1 DEF HooksInv, HooksTypeOK, MapFollows
<1>6. \A p \in Hooked : p # o => /\ hooked'[p] = hooked[p] /\ seen'[p] = seen[p] /\ Stateful(p)' = Stateful(p)
                                 /\ p \in forgotten' <=> p \in forgotten
  BY <1>1 DEF HooksInv, HooksTypeOK, Stateful
<1>7. ASSUME NEW p \in Hooked PROVE
        /\ p \in forgotten' => seen'[p] = "NONE"
        /\ hooked'[p].state = "NONE" => hooked'[p].at = "FREE" /\ seen'[p] = "NONE" /\ p \notin forgotten'
        /\ hooked'[p].at = "FREE" => hooked'[p].state = "NONE" \/ InMapOrNew(p)'
        /\ \A on \in Ons : owed'[p][on] = IF hooked'[p].at = "HOOK" /\ on \in Stateful(p)' THEN 1 ELSE 0
  <2>1. CASE p = o
    <3>1. o \notin forgotten' /\ InMapOrNew(o)'
      BY <1>1, <1>2, <1>5 DEF InMapOrNew
    <3>2. \A on \in Ons : owed'[o][on] = 0
      BY <1>1 DEF HooksInv, MapFollows
    <3>3. QED BY <2>1, <1>5, <3>1, <3>2
  <2>2. CASE p # o
    <3>1. InMapOrNew(p)' <=> InMapOrNew(p)
      BY <2>2, <1>6 DEF InMapOrNew
    <3>2. /\ hooked'[p] = hooked[p] /\ seen'[p] = seen[p] /\ owed'[p] = owed[p]
          /\ Stateful(p)' = Stateful(p) /\ (p \in forgotten' <=> p \in forgotten)
      BY <2>2, <1>1, <1>6
    <3>3. /\ p \in forgotten => seen[p] = "NONE"
          /\ hooked[p].state = "NONE" => hooked[p].at = "FREE" /\ seen[p] = "NONE" /\ p \notin forgotten
          /\ hooked[p].at = "FREE" => hooked[p].state = "NONE" \/ InMapOrNew(p)
          /\ \A on \in Ons : owed[p][on] = IF hooked[p].at = "HOOK" /\ on \in Stateful(p) THEN 1 ELSE 0
      BY DEF HooksInv, MapFollows
    <3>4. QED BY <3>1, <3>2, <3>3
  <2>3. QED BY <2>1, <2>2
<1>8. QED BY <1>1, <1>4, <1>7 DEF HooksInv, MapFollows

LEMMA RestartKeeps ==
  ASSUME HooksInv, restart
  PROVE  HooksInv'
<1>1. /\ \A o \in Hooked : /\ hooked'[o] = [hooked[o] EXCEPT !.at = "FREE"] /\ seen'[o] = "NONE"
                           /\ o \in forgotten' <=> hooked[o].state # "NONE"
                           /\ \A on \in Ons : owed'[o][on] = 0
      /\ hook_driver' = TRUE /\ UNCHANGED blamed
  BY DEF restart
<1>2. "NONE" \in States
  BY DEF States
<1>3. HooksTypeOK'
  BY <1>2 DEF HooksInv, HooksTypeOK, restart
<1>4. \A o \in Hooked : hooked'[o].at = "FREE" /\ hooked'[o].state = hooked[o].state
  <2> TAKE o \in Hooked
  <2>1. hooked[o] \in [state : States, at : {"FREE", "HOOK", "MAP"}]
    BY DEF HooksInv, HooksTypeOK
  <2>2. hooked'[o] = [hooked[o] EXCEPT !.at = "FREE"]
    BY <1>1
  <2>3. QED BY <2>1, <2>2
<1>5. MapFollows'
  BY <1>1, <1>4 DEF MapFollows, InMapOrNew
<1>6. QED BY <1>1, <1>3, <1>5 DEF HooksInv

LEMMA HooksUnchanged ==
  ASSUME HooksInv, UNCHANGED <<hooked, seen, owed, forgotten, blamed>>,
         hook_driver' = TRUE, executing' \subseteq Hooked \X Ons
  PROVE  HooksInv'
<1>1. \A p \in Hooked : Stateful(p)' = Stateful(p) /\ InMapOrNew(p)' = InMapOrNew(p)
  BY DEF Stateful, InMapOrNew
<1>2. QED BY <1>1 DEF HooksInv, HooksTypeOK, MapFollows

LEMMA HooksStepKeeps ==
  ASSUME HooksInv, Fortunate, [HooksNext]_hooks_vars
  PROVE  HooksInv'
<1>1. CASE UNCHANGED hooks_vars
  BY <1>1, HooksUnchanged DEF hooks_vars, HooksInv, HooksTypeOK
<1>2. CASE hook_driver_dies
  BY <1>2, HooksUnchanged DEF hook_driver_dies, Fortunate, HooksInv, HooksTypeOK
<1>3. CASE restart
  BY <1>3, RestartKeeps
<1>4. ASSUME NEW o \in Hooked,
             \/ allocate_hooked(o) \/ pool_update(o) \/ state_hook(o) \/ map_hook(o)
             \/ \E hook \in Ons, error \in BOOLEAN : protocol(o, hook, error)
      PROVE  HooksInv'
  BY <1>4, AllocateHookedKeeps, PoolUpdateKeeps, StateHookKeeps, MapHookKeeps, ProtocolKeeps
<1>5. QED BY <1>1, <1>2, <1>3, <1>4 DEF HooksNext

LEMMA HooksInitInvariant == HooksInit => HooksInv
<1> SUFFICES ASSUME HooksInit PROVE HooksInv
  OBVIOUS
<1>1. "NONE" \in States
  BY DEF States
<1>2. HooksTypeOK
  BY <1>1 DEF HooksInit, HooksTypeOK
<1>3. MapFollows
  BY DEF HooksInit, MapFollows
<1>4. QED BY <1>2, <1>3 DEF HooksInv, HooksInit

(* A hook is executed once each time its object enters its state, and its  *)
(* error is told of the VM it was executed for, whenever nothing of what   *)
(* Mischance names happens: the map and the objects agree.                 *)
THEOREM HooksFireOnce == ASSUME Fortunate PROVE ServicesSpec => []HooksOneShot
<1>1. ServicesInit => HooksInv
  BY HooksInitInvariant DEF ServicesInit
<1>2. HooksInv /\ [ServicesNext]_service_vars => HooksInv'
  <2> SUFFICES ASSUME HooksInv, [ServicesNext]_service_vars PROVE [HooksNext]_hooks_vars
    BY HooksStepKeeps
  <2>1. QED BY DEF ServicesNext, service_vars, ImageStep, SchedulerStep, HookStep
<1>3. HooksInv => HooksOneShot
  BY DEF HooksInv, HooksOneShot, MapFollows
<1>4. QED BY <1>1, <1>2, <1>3, PTL DEF ServicesSpec

-----------------------------------------------------------------------------
(* The VM whose action has been done and is about to be written back.      *)
ToNote(v) == cycle.at = "UPDATE" /\ v = Min(cycle.todo)

(* Edits are counted, by the user's moves.                                 *)
EditsCounted == \A v \in Job : job[v].template.edit <= moves /\ cycle.copy[v].template.edit <= moves

(* An action that was done is marked, in the VM or in the copy that is     *)
(* about to be written; one that is in the list waits.  The copies         *)
(* written while VMs are matched have the same mark.     *)
ActionsMarked == "UPDATE_LOST" \notin Meddling =>
  /\ \A v \in Job : /\ done[v] \in {0, 1}
                    /\ done[v] = 1 =>
                         "DONE" = IF ToNote(v) THEN cycle.copy[v].template.action ELSE job[v].template.action
  /\ cycle.at \in {"ACTION", "UPDATE"} => \A v \in cycle.todo : ~ToNote(v) => done[v] = 0
  /\ cycle.at \in {"HOSTS", "MATCH"} =>
       \A v \in cycle.todo : cycle.copy[v].template.action = job[v].template.action

(* The copy of a host never has more room than the host.                   *)
RoomKnown ==
  /\ \A h \in Node : Cardinality(On_node(h)) <= Room
  /\ cycle.at \in {"MATCH", "DISPATCH"} => \A h \in Node : cycle.free[h] <= Room - Cardinality(On_node(h))

(* The copies that are written back have the last edit, if nobody edits    *)
(* the templates of VMs the scheduler is busy with.                        *)
CopiesFresh ==
  "EDITED_MEANWHILE" \notin Meddling /\ cycle.at \in {"ACTION", "UPDATE", "HOSTS", "MATCH"} =>
    \A v \in cycle.todo : cycle.copy[v].template.edit = job[v].template.edit

SchedInv ==
  /\ SchedTypeOK /\ cycle.todo \subseteq cycle.vms
  /\ EditsCounted /\ ActionsMarked /\ RoomKnown /\ CopiesFresh

-----------------------------------------------------------------------------
(* The VM whose turn it is, the first of the list, is in the list.         *)
LEMMA MinIn ==
  ASSUME NEW S \in SUBSET Nat, S # {}
  PROVE  Min(S) \in S
<1> DEFINE R == {ss \in Nat \X Nat : ss[1] < ss[2]}
<1>1. IsWellFoundedOn(R, Nat)
  BY NatLessThanWellFounded DEF OpToRel
<1>2. PICK x \in S : \A y \in S : ~(<<y, x>> \in R)
  BY <1>1, WFMin
<1>3. \A y \in S : x <= y
  <2> TAKE y \in S
  <2>1. x \in Nat /\ y \in Nat
    OBVIOUS
  <2>2. ~(y < x)
    <3> SUFFICES ASSUME y < x PROVE <<y, x>> \in R
      BY <1>2
    <3>1. QED BY <2>1
  <2>3. QED BY <2>1, <2>2
<1>4. QED BY <1>3 DEF Min

CycleRecord == [at : {"REST", "ACTION", "UPDATE", "VMS", "HOSTS", "MATCH", "DISPATCH"},
                vms : SUBSET Job, todo : SUBSET Job, copy : [Job -> JobRecord], hosts : [Job -> SUBSET Node],
                free : [Node -> Int], sent : [Node -> Nat], dispatched : Nat]

LEMMA TurnIn ==
  ASSUME cycle.todo \subseteq Job, NEW v \in Job, Turn(v)
  PROVE  v \in cycle.todo
BY MinIn, SchedulerAssumption DEF Turn

LEMMA NewJobType == NewJob \in JobRecord
BY SchedulerAssumption DEF NewJob, JobRecord, Template, Reasons

LEMMA RestType == Rest \in CycleRecord /\ Rest.at = "REST" /\ Rest.todo = {} /\ Rest.vms = {}
BY NewJobType DEF Rest, CycleRecord

(* What is left of a cycle after a VM.                                     *)
LEMMA OnwardCycle ==
  ASSUME NEW c \in CycleRecord, NEW v \in Job, c.todo \subseteq c.vms,
         NEW here \in {"ACTION", "MATCH", "DISPATCH"}, NEW after \in {"VMS", "DISPATCH", "REST"},
         NEW d, d = Onward(c, v, here, after)
  PROVE  /\ d \in CycleRecord /\ d.todo \subseteq d.vms
         /\ \/ d.at = here /\ d.todo = c.todo \ {v} /\ d.vms = c.vms /\ d.copy = c.copy /\ d.free = c.free
            \/ after = "DISPATCH" /\ d.at = after /\ d.vms = c.vms /\ d.copy = c.copy /\ d.free = c.free
            \/ after # "DISPATCH" /\ d.at = after /\ d.todo = {} /\ d.copy = [w \in Job |-> NewJob]
<1>1. CASE c.todo # {v}
  <2>1. d = [c EXCEPT !.at = here, !.todo = @ \ {v}]
    BY <1>1 DEF Onward
  <2>2. QED BY <2>1 DEF CycleRecord
<1>2. CASE c.todo = {v} /\ after = "DISPATCH"
  <2>1. d = [c EXCEPT !.at = after, !.todo = c.vms]
    BY <1>2 DEF Onward
  <2>2. QED BY <2>1, <1>2 DEF CycleRecord
<1>3. CASE c.todo = {v} /\ after # "DISPATCH"
  <2>1. d = [Rest EXCEPT !.at = after]
    BY <1>3 DEF Onward
  <2>2. Rest \in CycleRecord /\ Rest.copy = [w \in Job |-> NewJob]
    BY RestType DEF Rest
  <2>3. d \in CycleRecord /\ d.at = after /\ d.todo = {} /\ d.vms = {} /\ d.copy = [w \in Job |-> NewJob]
    BY <2>1, <2>2, RestType DEF CycleRecord
  <2>4. QED BY <2>3, <1>3
<1>4. QED BY <1>1, <1>2, <1>3

(* What a list of VMs is read as.                                          *)
LEMMA ReadCycle ==
  ASSUME SchedTypeOK, NEW s \in {"ACTION", "HOSTS"}, NEW vms \in SUBSET Job, Read(s, vms)
  PROVE  /\ cycle' \in CycleRecord /\ cycle'.vms = vms /\ cycle'.todo = vms
         /\ cycle'.at \in {s, "VMS", "REST"}
         /\ \A v \in Job : cycle'.copy[v] = IF v \in vms THEN job[v] ELSE NewJob
<1> DEFINE at == IF vms = {} THEN (IF s = "ACTION" THEN "VMS" ELSE "REST") ELSE s
           copy == [v \in Job |-> IF v \in vms THEN job[v] ELSE NewJob]
<1>1. cycle' = [Rest EXCEPT !.at = at, !.vms = vms, !.todo = vms, !.copy = copy]
  BY DEF Read, Copy
<1>2. copy \in [Job -> JobRecord] /\ at \in {s, "VMS", "REST"}
  BY NewJobType DEF SchedTypeOK
<1> HIDE DEF copy, at
<1>3. /\ cycle' \in CycleRecord /\ cycle'.vms = vms /\ cycle'.todo = vms /\ cycle'.at = at /\ cycle'.copy = copy
  BY <1>1, <1>2, RestType DEF CycleRecord
<1>4. QED BY <1>2, <1>3 DEF copy

(* How many VMs are on a host when VMs leave, and when one comes.          *)
LEMMA OnNodeFinite ==
  \A h \in Node : /\ IsFiniteSet(On_node(h)) /\ Cardinality(On_node(h)) \in Nat
                  /\ IsFiniteSet(On_node(h)') /\ Cardinality(On_node(h)') \in Nat
<1> TAKE h \in Node
<1>1. On_node(h) \subseteq Job /\ On_node(h)' \subseteq Job
  BY DEF On_node
<1>2. QED BY <1>1, FS_Subset, FS_CardinalityType, SchedulerAssumption

LEMMA VmsLeave ==
  ASSUME \A w \in Job : job'[w].host \in {job[w].host, NoNode}
  PROVE  \A h \in Node : Cardinality(On_node(h)') <= Cardinality(On_node(h))
<1> TAKE h \in Node
<1>1. On_node(h)' \subseteq On_node(h)
  BY SchedulerAssumption DEF On_node
<1>2. QED BY <1>1, OnNodeFinite, FS_Subset

LEMMA VmComes ==
  ASSUME NEW v \in Job, NEW h \in Node, \A w \in Job \ {v} : job'[w].host = job[w].host, job'[v].host = h
  PROVE  /\ Cardinality(On_node(h)') <= Cardinality(On_node(h)) + 1
         /\ \A k \in Node \ {h} : Cardinality(On_node(k)') <= Cardinality(On_node(k))
<1>1. On_node(h)' \subseteq On_node(h) \cup {v}
  BY DEF On_node
<1>2. IsFiniteSet(On_node(h) \cup {v}) /\ Cardinality(On_node(h) \cup {v}) <= Cardinality(On_node(h)) + 1
  <2>1. IsFiniteSet(On_node(h)) /\ Cardinality(On_node(h)) \in Nat
    BY OnNodeFinite
  <2>2. /\ IsFiniteSet(On_node(h) \cup {v})
        /\ Cardinality(On_node(h) \cup {v}) = IF v \in On_node(h) THEN Cardinality(On_node(h))
                                                ELSE Cardinality(On_node(h)) + 1
    BY <2>1, FS_AddElement
  <2>3. QED BY <2>1, <2>2
<1>3. Cardinality(On_node(h)') <= Cardinality(On_node(h) \cup {v}) /\ Cardinality(On_node(h) \cup {v}) \in Nat
  BY <1>1, <1>2, FS_Subset, FS_CardinalityType
<1>4. ASSUME NEW k \in Node \ {h} PROVE Cardinality(On_node(k)') <= Cardinality(On_node(k))
  <2>1. On_node(k)' \subseteq On_node(k)
    BY DEF On_node
  <2>2. QED BY <2>1, OnNodeFinite, FS_Subset
<1>5. QED BY <1>2, <1>3, <1>4, OnNodeFinite

(* Whatever a user does leaves the mark of the action as it is, edits the  *)
(* template at most, and takes VMs off hosts at most.                      *)
LEMMA UserDoesKeeps ==
  ASSUME SchedInv, NEW v \in Job, NEW x \in JobRecord, UserDoes(v, x),
         x.host \in {job[v].host, NoNode}, x.template.action = job[v].template.action,
         \/ x.template.edit = job[v].template.edit
         \/ x.template.edit = job[v].template.edit + 1 /\ (v \in cycle.vms => "EDITED_MEANWHILE" \in Meddling)
  PROVE  SchedInv'
<1>1. moves' = moves + 1 /\ moves < MaxMoves /\ job' = [job EXCEPT ![v] = x] /\ UNCHANGED <<due, cycle, done>>
  BY DEF UserDoes, Change
<1>2. SchedTypeOK'
  BY <1>1, SchedulerAssumption DEF SchedInv, SchedTypeOK
<1>3. \A w \in Job : /\ job'[w].host \in {job[w].host, NoNode}
                     /\ job'[w].template.action = job[w].template.action
                     /\ job'[w].template.edit \in {job[w].template.edit, job[w].template.edit + 1}
                     /\ w \in cycle.vms /\ "EDITED_MEANWHILE" \notin Meddling =>
                          job'[w].template.edit = job[w].template.edit
  BY <1>1 DEF SchedInv, SchedTypeOK
<1>4. EditsCounted'
  <2>1. \A w \in Job : job[w].template.edit \in Nat /\ cycle.copy[w].template.edit \in Nat
    BY SchedulerAssumption DEF SchedInv, SchedTypeOK, JobRecord, Template
  <2>2. moves \in Nat
    BY SchedulerAssumption DEF SchedInv, SchedTypeOK
  <2>3. QED BY <2>1, <2>2, <1>1, <1>3 DEF SchedInv, EditsCounted
<1>5. ActionsMarked'
  BY <1>1, <1>3 DEF SchedInv, SchedTypeOK, ActionsMarked, ToNote
<1>6. RoomKnown'
  <2>1. \A h \in Node : Cardinality(On_node(h)') <= Cardinality(On_node(h))
    BY <1>3, VmsLeave
  <2>2. Room \in Nat /\ \A h \in Node : cycle.free[h] \in Int
    BY SchedulerAssumption DEF SchedInv, SchedTypeOK
  <2>3. QED BY <2>1, <2>2, <1>1, OnNodeFinite DEF SchedInv, RoomKnown
<1>7. CopiesFresh'
  BY <1>1, <1>3 DEF SchedInv, SchedTypeOK, CopiesFresh
<1>8. QED BY <1>1, <1>2, <1>4, <1>5, <1>6, <1>7 DEF SchedInv

LEMMA UserMovesKeep ==
  ASSUME SchedInv, NEW v \in Job, UserMoves(v)
  PROVE  SchedInv'
<1>1. job[v] \in JobRecord /\ NoNode \in Node \cup {NoNode}
  BY DEF SchedInv, SchedTypeOK
<1>2. job[v].template \in Template /\ job[v].template.edit \in 0..moves /\ moves \in 0..MaxMoves
  BY <1>1, SchedulerAssumption DEF JobRecord, Template, SchedInv, SchedTypeOK, EditsCounted
<1>3. CASE edit(v)
  <2> DEFINE t == [job[v].template EXCEPT !.edit = @ + 1]
             x == [job[v] EXCEPT !.template = t]
  <2>1. (v \in cycle.vms => "EDITED_MEANWHILE" \in Meddling) /\ UserDoes(v, x) /\ moves < MaxMoves
    BY <1>3 DEF edit, InCycle, UserDoes
  <2>2. t \in Template /\ t.edit = job[v].template.edit + 1 /\ t.action = job[v].template.action
    BY <1>2, <2>1, SchedulerAssumption DEF Template
  <2> HIDE DEF t
  <2>3. x \in JobRecord /\ x.host = job[v].host /\ x.template = t
    BY <1>1, <2>2 DEF JobRecord
  <2> HIDE DEF x
  <2>4. QED BY <2>1, <2>2, <2>3, UserDoesKeeps
<1>4. ASSUME NEW x, UserDoes(v, x), x \in JobRecord, x.host \in {job[v].host, NoNode}, x.template = job[v].template
      PROVE  SchedInv'
  BY <1>4, UserDoesKeeps
<1>5. CASE hold(v)
  BY <1>1, <1>4, <1>5 DEF hold, JobRecord
<1>6. CASE release(v)
  BY <1>1, <1>4, <1>6 DEF release, JobRecord
<1>7. CASE poweroff(v)
  BY <1>1, <1>4, <1>7 DEF poweroff, JobRecord
<1>8. CASE resume(v)
  BY <1>1, <1>4, <1>8 DEF resume, JobRecord
<1>9. CASE resched(v)
  BY <1>1, <1>4, <1>9 DEF resched, JobRecord
<1>10. CASE finish(v)
  BY <1>1, <1>4, <1>10 DEF finish, JobRecord
<1>11. CASE action_time(v)
  <2>1. UNCHANGED <<job, cycle, done, moves>> /\ due' \subseteq Job
    BY <1>11 DEF action_time, SchedInv, SchedTypeOK
  <2>2. \A h \in Node : On_node(h)' = On_node(h)
    BY <2>1 DEF On_node
  <2>3. QED BY <2>1, <2>2 DEF SchedInv, SchedTypeOK, EditsCounted, ActionsMarked, ToNote, RoomKnown, CopiesFresh
<1>12. QED BY <1>3, <1>5, <1>6, <1>7, <1>8, <1>9, <1>10, <1>11 DEF UserMoves

(* A list of VMs is read: their copies are what they are.                  *)
LEMMA ReadKeeps ==
  ASSUME SchedInv, cycle.at # "UPDATE", NEW s \in {"ACTION", "HOSTS"}, NEW vms \in SUBSET Job, Read(s, vms),
         UNCHANGED <<job, due, done, moves>>,
         s = "ACTION" => \A v \in vms : job[v].template.action = "WAITS"
  PROVE  SchedInv'
<1>1. /\ cycle' \in CycleRecord /\ cycle'.vms = vms /\ cycle'.todo = vms
      /\ cycle'.at \in {s, "VMS", "REST"}
      /\ \A v \in Job : cycle'.copy[v] = IF v \in vms THEN job[v] ELSE NewJob
  BY ReadCycle DEF SchedInv
<1>2. SchedTypeOK'
  BY <1>1 DEF SchedInv, SchedTypeOK, CycleRecord
<1>3. EditsCounted'
  <2>1. NewJob.template.edit = 0 /\ moves \in Nat
    BY SchedulerAssumption DEF NewJob, SchedInv, SchedTypeOK
  <2>2. QED BY <1>1, <2>1 DEF SchedInv, EditsCounted
<1>4. ActionsMarked'
  BY <1>1 DEF SchedInv, ActionsMarked, ToNote
<1>5. RoomKnown'
  <2>1. \A h \in Node : On_node(h)' = On_node(h)
    BY DEF On_node
  <2>2. QED BY <1>1, <2>1 DEF SchedInv, RoomKnown
<1>6. CopiesFresh'
  BY <1>1 DEF CopiesFresh
<1>7. QED BY <1>1, <1>2, <1>3, <1>4, <1>5, <1>6 DEF SchedInv

LEMMA SetsUpKeeps ==
  ASSUME SchedInv, Sets_up
  PROVE  SchedInv'
<1>1. CASE actions_set_up
  BY <1>1, ReadKeeps DEF actions_set_up, First, HasAction
<1>2. CASE vms_set_up
  BY <1>2, ReadKeeps DEF vms_set_up, First
<1>3. CASE hosts_set_up
  <2> DEFINE room == [h \in Node |-> Room - Cardinality(On_node(h))]
  <2>1. cycle' = [cycle EXCEPT !.at = "MATCH", !.free = room] /\ cycle.at = "HOSTS" /\ UNCHANGED <<job, due, done, moves>>
    BY <1>3 DEF hosts_set_up
  <2>2. room \in [Node -> Int]
    BY OnNodeFinite, SchedulerAssumption
  <2>3. cycle \in CycleRecord
    BY DEF SchedInv, SchedTypeOK, CycleRecord
  <2>4. \A h \in Node : room[h] = Room - Cardinality(On_node(h)) /\ On_node(h)' = On_node(h)
    BY <2>1 DEF On_node
  <2> HIDE DEF room
  <2>5. /\ cycle' \in CycleRecord /\ cycle'.at = "MATCH" /\ cycle'.free = room
        /\ cycle'.todo = cycle.todo /\ cycle'.vms = cycle.vms /\ cycle'.copy = cycle.copy
    BY <2>1, <2>2, <2>3 DEF CycleRecord
  <2>6. SchedTypeOK' /\ EditsCounted' /\ CopiesFresh'
    BY <2>1, <2>5 DEF SchedInv, SchedTypeOK, CycleRecord, EditsCounted, CopiesFresh
  <2>7. ActionsMarked'
    BY <2>1, <2>5 DEF SchedInv, ActionsMarked, ToNote
  <2>8. RoomKnown'
    BY <2>1, <2>4, <2>5, OnNodeFinite, SchedulerAssumption DEF SchedInv, RoomKnown
  <2>9. QED BY <2>5, <2>6, <2>7, <2>8 DEF SchedInv
<1>4. CASE end_dispatch
  <2>1. cycle' = Rest /\ cycle.at = "DISPATCH" /\ UNCHANGED <<job, due, done, moves>>
    BY <1>4 DEF end_dispatch
  <2>2. /\ cycle' \in CycleRecord /\ cycle'.at = "REST" /\ cycle'.todo = {}
        /\ cycle'.copy = [w \in Job |-> NewJob]
    BY <2>1, RestType DEF Rest
  <2>3. NewJob.template.edit = 0 /\ moves \in Nat
    BY SchedulerAssumption DEF NewJob, SchedInv, SchedTypeOK
  <2>4. SchedTypeOK' /\ EditsCounted' /\ CopiesFresh'
    BY <2>1, <2>2, <2>3 DEF SchedInv, SchedTypeOK, CycleRecord, EditsCounted, CopiesFresh
  <2>5. ActionsMarked'
    BY <2>1, <2>2 DEF SchedInv, ActionsMarked, ToNote
  <2>6. RoomKnown'
    <3>1. \A h \in Node : On_node(h)' = On_node(h)
      BY <2>1 DEF On_node
    <3>2. QED BY <2>1, <2>2, <3>1 DEF SchedInv, RoomKnown
  <2>7. QED BY <2>2, <2>4, <2>5, <2>6 DEF SchedInv
<1>5. QED BY <1>1, <1>2, <1>3, <1>4 DEF Sets_up

LEMMA ScheduledActionKeeps ==
  ASSUME SchedInv, NEW v \in Job, scheduled_action(v)
  PROVE  SchedInv'
<1>1. cycle.at = "ACTION" /\ v \in cycle.todo /\ v = Min(cycle.todo) /\ UNCHANGED <<due, moves>>
  BY TurnIn DEF scheduled_action, Turn, SchedInv, SchedTypeOK
<1>2. "UPDATE_LOST" \notin Meddling => done[v] = 0 /\ \A w \in cycle.todo : done[w] = 0
  BY <1>1 DEF SchedInv, ActionsMarked, ToNote
<1>3. cycle \in CycleRecord /\ job[v] \in JobRecord /\ cycle.copy[v] \in JobRecord
  BY DEF SchedInv, SchedTypeOK, CycleRecord
<1>4. PICK c \in [Job -> JobRecord] :
        /\ cycle' = [cycle EXCEPT !.at = "UPDATE", !.copy = c]
        /\ \A w \in Job : c[w].template.edit = cycle.copy[w].template.edit
        /\ \A w \in Job \ {v} : c[w] = cycle.copy[w] /\ done'[w] = done[w]
        /\ job' \in [Job -> JobRecord] /\ done' \in [Job -> Nat]
        /\ "UPDATE_LOST" \notin Meddling => done'[v] = 0 \/ (done'[v] = 1 /\ c[v].template.action = "DONE")
        /\ \A w \in Job : job'[w].template = job[w].template /\ job'[w].host = job[w].host
  <2>1. CASE job[v].state = "RUNNING"
    <3> DEFINE t == [cycle.copy[v].template EXCEPT !.action = "DONE"]
               x == [cycle.copy[v] EXCEPT !.template = t]
               y == [job[v] EXCEPT !.state = "POWEROFF", !.resched = FALSE]
    <3>1. cycle' = [cycle EXCEPT !.at = "UPDATE", !.copy = [cycle.copy EXCEPT ![v] = x]]
      BY <2>1, <1>3 DEF scheduled_action, CycleRecord
    <3>2. job' = [job EXCEPT ![v] = y] /\ done' = [done EXCEPT ![v] = done[v] + 1]
      BY <2>1 DEF scheduled_action, Change
    <3>3. t \in Template /\ t.action = "DONE" /\ t.edit = cycle.copy[v].template.edit
      BY <1>3 DEF JobRecord, Template
    <3>4. x \in JobRecord /\ x.template = t
      <4> HIDE DEF t
      <4>1. QED BY <1>3, <3>3 DEF JobRecord
    <3>5. y \in JobRecord /\ y.template = job[v].template /\ y.host = job[v].host
      BY <1>3 DEF JobRecord
    <3> HIDE DEF t, x, y
    <3>6. cycle.copy \in [Job -> JobRecord]
      BY <1>3 DEF CycleRecord
    <3> [cycle.copy EXCEPT ![v] = x] \in [Job -> JobRecord]
      BY <3>4, <3>6
    <3>7. WITNESS [cycle.copy EXCEPT ![v] = x] \in [Job -> JobRecord]
    <3>8. QED BY <1>2, <1>3, <3>1, <3>2, <3>3, <3>4, <3>5, <3>6 DEF SchedInv, SchedTypeOK
  <2>2. CASE job[v].state # "RUNNING"
    <3>1. cycle' = [cycle EXCEPT !.at = "UPDATE"] /\ UNCHANGED <<job, done>>
      BY <2>2 DEF scheduled_action
    <3>2. cycle' = [cycle EXCEPT !.at = "UPDATE", !.copy = cycle.copy]
      BY <3>1, <1>3 DEF CycleRecord
    <3> cycle.copy \in [Job -> JobRecord]
      BY <1>3 DEF CycleRecord
    <3>3. /\ \A w \in Job \ {v} : done'[w] = done[w]
          /\ job' \in [Job -> JobRecord] /\ done' \in [Job -> Nat]
          /\ "UPDATE_LOST" \notin Meddling => done'[v] = 0
          /\ \A w \in Job : job'[w].template = job[w].template /\ job'[w].host = job[w].host
      BY <1>2, <3>1 DEF SchedInv, SchedTypeOK
    <3>4. WITNESS cycle.copy \in [Job -> JobRecord]
    <3>5. QED BY ONLY <3>2, <3>3
  <2>3. QED BY <2>1, <2>2
<1>5. /\ cycle' \in CycleRecord /\ cycle'.at = "UPDATE" /\ cycle'.copy = c
      /\ cycle'.todo = cycle.todo /\ cycle'.vms = cycle.vms
  BY <1>3, <1>4 DEF CycleRecord
<1>6. SchedTypeOK' /\ EditsCounted' /\ CopiesFresh'
  BY <1>1, <1>4, <1>5 DEF SchedInv, SchedTypeOK, CycleRecord, EditsCounted, CopiesFresh
<1>7. ActionsMarked'
  <2> SUFFICES ASSUME "UPDATE_LOST" \notin Meddling PROVE ActionsMarked'
    BY DEF ActionsMarked
  <2>1. \A w \in Job : ToNote(w)' <=> w = v
    BY <1>1, <1>5 DEF ToNote
  <2>2. \A w \in Job : done[w] \in {0, 1} /\ (done[w] = 1 => job[w].template.action = "DONE")
    BY <1>1 DEF SchedInv, ActionsMarked, ToNote
  <2>3. \A w \in Job : /\ done'[w] \in {0, 1}
                       /\ done'[w] = 1 => "DONE" = IF ToNote(w)' THEN cycle'.copy[w].template.action
                                                  ELSE job'[w].template.action
    BY <2>1, <2>2, <1>4, <1>5
  <2>4. \A w \in cycle'.todo : ~ToNote(w)' => done'[w] = 0
    BY <2>1, <1>2, <1>4, <1>5 DEF SchedInv, SchedTypeOK
  <2>5. QED BY <2>3, <2>4, <1>5 DEF ActionsMarked
<1>8. RoomKnown'
  <2>1. \A h \in Node : On_node(h)' = On_node(h)
    BY <1>4 DEF On_node
  <2>2. QED BY <1>5, <2>1 DEF SchedInv, RoomKnown
<1>9. QED BY <1>5, <1>6, <1>7, <1>8 DEF SchedInv

(* A template is written back, or the message of one that was not matched. *)
LEMMA WrittenTemplates ==
  ASSUME SchedInv, NEW v \in Job, NEW t \in Template, Written(v, t)
  PROVE  /\ job' \in [Job -> JobRecord]
         /\ \A w \in Job : job'[w].host = job[w].host /\ (w # v => job'[w] = job[w])
         /\ \/ job'[v].template = t
            \/ job'[v].template = job[v].template /\ "UPDATE_LOST" \in Meddling
<1> DEFINE x == [job[v] EXCEPT !.template = t]
<1>1. job \in [Job -> JobRecord] /\ job[v] \in JobRecord
  BY DEF SchedInv, SchedTypeOK
<1>2. x \in JobRecord /\ x.host = job[v].host /\ x.template = t
  BY <1>1 DEF JobRecord
<1>3. job' = [job EXCEPT ![v] = x] \/ (job' = job /\ "UPDATE_LOST" \in Meddling)
  BY DEF Written
<1> HIDE DEF x
<1>4. QED BY <1>1, <1>2, <1>3

LEMMA SameHosts ==
  ASSUME SchedInv, \A w \in Job : job'[w].host = job[w].host,
         cycle'.at \in {"MATCH", "DISPATCH"} => cycle.at \in {"MATCH", "DISPATCH"} /\ cycle'.free = cycle.free
  PROVE  RoomKnown'
<1>1. \A h \in Node : On_node(h)' = On_node(h)
  BY DEF On_node
<1>2. QED BY <1>1 DEF SchedInv, RoomKnown

LEMMA UpdateTemplateKeeps ==
  ASSUME SchedInv, NEW v \in Job, update_template(v)
  PROVE  SchedInv'
<1>1. cycle.at = "UPDATE" /\ v \in cycle.todo /\ v = Min(cycle.todo) /\ UNCHANGED <<due, done, moves>>
  BY TurnIn DEF update_template, Turn, SchedInv, SchedTypeOK
<1>2. cycle \in CycleRecord /\ cycle.todo \subseteq cycle.vms /\ cycle.copy[v].template \in Template
  BY DEF SchedInv, SchedTypeOK, CycleRecord, JobRecord
<1>3. /\ cycle' \in CycleRecord /\ cycle'.todo \subseteq cycle'.vms
      /\ \/ cycle'.at = "ACTION" /\ cycle'.todo = cycle.todo \ {v} /\ cycle'.copy = cycle.copy
         \/ cycle'.at = "VMS" /\ cycle'.todo = {} /\ cycle'.copy = [w \in Job |-> NewJob]
  BY <1>2, OnwardCycle DEF update_template
<1>4. /\ job' \in [Job -> JobRecord]
      /\ \A w \in Job : job'[w].host = job[w].host /\ (w # v => job'[w] = job[w])
      /\ \/ job'[v].template = cycle.copy[v].template
         \/ job'[v].template = job[v].template /\ "UPDATE_LOST" \in Meddling
  BY <1>2, WrittenTemplates DEF update_template
<1>5. SchedTypeOK'
  BY <1>1, <1>3, <1>4 DEF SchedInv, SchedTypeOK, CycleRecord
<1>6. EditsCounted'
  <2>1. NewJob.template.edit = 0 /\ moves \in Nat
    BY SchedulerAssumption DEF NewJob, SchedInv, SchedTypeOK
  <2>2. \A w \in Job : job'[w].template.edit <= moves
    BY <1>1, <1>4 DEF SchedInv, EditsCounted
  <2>3. QED BY <1>1, <1>3, <2>1, <2>2 DEF SchedInv, EditsCounted
<1>7. ActionsMarked'
  <2> SUFFICES ASSUME "UPDATE_LOST" \notin Meddling PROVE ActionsMarked'
    BY DEF ActionsMarked
  <2>1. \A w \in Job : ToNote(w) <=> w = v
    BY <1>1 DEF ToNote
  <2>2. \A w \in Job : done[w] \in {0, 1} /\ (done[w] = 1 => job'[w].template.action = "DONE")
    BY <2>1, <1>4 DEF SchedInv, ActionsMarked
  <2>3. \A w \in cycle.todo \ {v} : done[w] = 0
    BY <2>1, <1>1 DEF SchedInv, SchedTypeOK, ActionsMarked
  <2>4. QED BY <2>2, <2>3, <1>1, <1>3 DEF ActionsMarked, ToNote
<1>8. RoomKnown'
  BY <1>3, <1>4, SameHosts
<1>9. CopiesFresh'
  BY <1>1, <1>3, <1>4 DEF SchedInv, SchedTypeOK, CopiesFresh
<1>10. QED BY <1>3, <1>5, <1>6, <1>7, <1>8, <1>9 DEF SchedInv

LEMMA MatchKeeps ==
  ASSUME SchedInv, NEW v \in Job, match(v)
  PROVE  SchedInv'
<1> DEFINE c == [cycle EXCEPT !.hosts = [cycle.hosts EXCEPT ![v] = add_host(v)]]
           t == [cycle.copy[v].template EXCEPT !.message = Reason(v)]
<1>1. cycle.at = "MATCH" /\ v \in cycle.todo /\ UNCHANGED <<due, done, moves>>
  BY TurnIn DEF match, Turn, SchedInv, SchedTypeOK
<1>2. cycle \in CycleRecord /\ cycle.todo \subseteq cycle.vms /\ cycle.copy[v].template \in Template
  BY DEF SchedInv, SchedTypeOK, CycleRecord, JobRecord
<1>3. add_host(v) \in SUBSET Node
  BY SchedulerAssumption DEF add_host, Matching, Matched, Authorized
<1>4. /\ c \in CycleRecord /\ c.at = "MATCH" /\ c.todo = cycle.todo /\ c.vms = cycle.vms
      /\ c.copy = cycle.copy /\ c.free = cycle.free
  BY <1>1, <1>2, <1>3 DEF CycleRecord
<1>5. cycle' = Onward(c, v, "MATCH", "DISPATCH")
  <2>1. cycle' = Onward([cycle EXCEPT !.hosts[v] = add_host(v)], v, "MATCH", "DISPATCH")
    BY DEF match
  <2>2. [cycle EXCEPT !.hosts[v] = add_host(v)] = c
    BY <1>2 DEF CycleRecord
  <2> HIDE DEF c
  <2>3. QED BY <2>1, <2>2
<1>6. t \in Template /\ t.edit = cycle.copy[v].template.edit /\ t.action = cycle.copy[v].template.action
  BY <1>2 DEF Template, Reason, Reasons
<1>7. /\ job' \in [Job -> JobRecord]
      /\ \A w \in Job : job'[w].host = job[w].host /\ (w # v => job'[w] = job[w])
      /\ job'[v].template \in {job[v].template, t}
  <2>1. CASE Matching(v) = {}
    <3>1. Written(v, t)
      BY <2>1 DEF match
    <3> HIDE DEF t
    <3>2. QED BY <3>1, <1>6, WrittenTemplates
  <2>2. CASE Matching(v) # {}
    <3>1. job' = job
      BY <2>2 DEF match
    <3>2. QED BY <3>1 DEF SchedInv, SchedTypeOK
  <2>3. QED BY <2>1, <2>2
<1> HIDE DEF c, t
<1>8. /\ cycle' \in CycleRecord /\ cycle'.todo \subseteq cycle'.vms /\ cycle'.copy = cycle.copy /\ cycle'.free = cycle.free
      /\ (cycle'.at = "MATCH" /\ cycle'.todo = cycle.todo \ {v}) \/ cycle'.at = "DISPATCH"
  BY <1>2, <1>4, <1>5, OnwardCycle
<1>9. SchedTypeOK'
  BY <1>1, <1>7, <1>8 DEF SchedInv, SchedTypeOK, CycleRecord
<1>10. EditsCounted'
  BY <1>1, <1>6, <1>7, <1>8 DEF SchedInv, EditsCounted
<1>11. ActionsMarked'
  <2> SUFFICES ASSUME "UPDATE_LOST" \notin Meddling PROVE ActionsMarked'
    BY DEF ActionsMarked
  <2>1. \A w \in Job : job'[w].template.action = job[w].template.action
    BY <1>1, <1>6, <1>7 DEF SchedInv, ActionsMarked
  <2>2. QED BY <2>1, <1>1, <1>8 DEF SchedInv, SchedTypeOK, ActionsMarked, ToNote
<1>12. RoomKnown'
  BY <1>1, <1>7, <1>8, SameHosts
<1>13. CopiesFresh'
  BY <1>1, <1>7, <1>8 DEF SchedInv, SchedTypeOK, CopiesFresh
<1>14. QED BY <1>8, <1>9, <1>10, <1>11, <1>12, <1>13 DEF SchedInv

(* A VM is sent to a host with room, of which the copy loses a unit, or to *)
(* none.                                                                   *)
LEMMA DispatchKeeps ==
  ASSUME SchedInv, NEW v \in Job, dispatch(v)
  PROVE  SchedInv'
<1>1. cycle.at = "DISPATCH" /\ UNCHANGED <<due, done, moves>>
  BY DEF dispatch
<1>2. cycle \in CycleRecord /\ cycle.todo \subseteq cycle.vms /\ job \in [Job -> JobRecord] /\ job[v] \in JobRecord
  BY DEF SchedInv, SchedTypeOK, CycleRecord
<1>3. PICK c \in CycleRecord :
        /\ c.at = "DISPATCH" /\ c.todo = cycle.todo /\ c.vms = cycle.vms /\ c.copy = cycle.copy
        /\ cycle' = Onward(c, v, "DISPATCH", "REST")
        /\ job' \in [Job -> JobRecord]
        /\ \A w \in Job : job'[w].template = job[w].template
        /\ \A k \in Node : /\ Cardinality(On_node(k)') <= Room
                           /\ c.free[k] <= Room - Cardinality(On_node(k)')
  <2>0. /\ Room \in Nat
        /\ \A k \in Node : /\ Cardinality(On_node(k)) \in Nat /\ Cardinality(On_node(k)') \in Nat /\ cycle.free[k] \in Int
                           /\ Cardinality(On_node(k)) <= Room
                           /\ cycle.free[k] <= Room - Cardinality(On_node(k))
    BY <1>1, <1>2, OnNodeFinite, SchedulerAssumption DEF SchedInv, RoomKnown, CycleRecord
  <2>1. ASSUME NEW h \in Best(v), dispatch_to(v, h)
        PROVE  \E c \in CycleRecord :
                 /\ c.at = "DISPATCH" /\ c.todo = cycle.todo /\ c.vms = cycle.vms /\ c.copy = cycle.copy
                 /\ cycle' = Onward(c, v, "DISPATCH", "REST")
                 /\ job' \in [Job -> JobRecord]
                 /\ \A w \in Job : job'[w].template = job[w].template
                 /\ \A k \in Node : /\ Cardinality(On_node(k)') <= Room
                                    /\ c.free[k] <= Room - Cardinality(On_node(k)')
    <3> DEFINE f == [cycle.free EXCEPT ![h] = cycle.free[h] - 1]
               s == [cycle.sent EXCEPT ![h] = cycle.sent[h] + 1]
               n == IF Accepted(v, h) /\ ~cycle.copy[v].resched THEN cycle.dispatched + 1 ELSE cycle.dispatched
               c == [cycle EXCEPT !.free = f, !.sent = s, !.dispatched = n]
               x == [job[v] EXCEPT !.state = "RUNNING", !.host = h, !.resched = FALSE]
    <3>1. h \in Node /\ cycle.free[h] >= 1
      BY <1>2 DEF Best, Left, Needs, CycleRecord
    <3>2. f \in [Node -> Int] /\ s \in [Node -> Nat] /\ n \in Nat
      BY <1>2, <3>1 DEF CycleRecord
    <3>3. \A k \in Node : f[k] = IF k = h THEN cycle.free[k] - 1 ELSE cycle.free[k]
      BY <1>2, <3>1 DEF CycleRecord
    <3>4. x \in JobRecord /\ x.host = h /\ x.template = job[v].template
      BY <1>2, <3>1 DEF JobRecord
    <3>5. cycle' = Onward(c, v, "DISPATCH", "REST")
      <4>1. cycle' = Onward([cycle EXCEPT !.free[h] = @ - 1, !.sent[h] = @ + 1, !.dispatched = n],
                            v, "DISPATCH", "REST")
        BY <2>1 DEF dispatch_to
      <4> HIDE DEF n
      <4>2. [cycle EXCEPT !.free[h] = @ - 1, !.sent[h] = @ + 1, !.dispatched = n] = c
        BY <1>2 DEF CycleRecord
      <4> HIDE DEF c
      <4>3. QED BY <4>1, <4>2
    <3>6. job' = IF Accepted(v, h) THEN [job EXCEPT ![v] = x] ELSE job
      BY <2>1 DEF dispatch_to, Change
    <3> HIDE DEF f, s, n, x
    <3>7. /\ c \in CycleRecord /\ c.at = "DISPATCH" /\ c.todo = cycle.todo /\ c.vms = cycle.vms
          /\ c.copy = cycle.copy /\ c.free = f
      BY <1>1, <1>2, <3>2 DEF CycleRecord
    <3>8. job' \in [Job -> JobRecord] /\ \A w \in Job : job'[w].template = job[w].template
      BY <1>2, <3>4, <3>6
    <3>9. /\ Cardinality(On_node(h)') <= Cardinality(On_node(h)) + 1
          /\ \A k \in Node \ {h} : Cardinality(On_node(k)') <= Cardinality(On_node(k))
      <4>1. CASE Accepted(v, h)
        <5>1. job'[v].host = h /\ \A w \in Job \ {v} : job'[w].host = job[w].host
          BY <4>1, <1>2, <3>4, <3>6
        <5>2. QED BY <5>1, <3>1, VmComes
      <4>2. CASE ~Accepted(v, h)
        <5>1. \A k \in Node : On_node(k)' = On_node(k)
          BY <4>2, <3>6 DEF On_node
        <5>2. QED BY <5>1, <3>1, <2>0
      <4>3. QED BY <4>1, <4>2
    <3>10. \A k \in Node : Cardinality(On_node(k)') <= Room /\ f[k] <= Room - Cardinality(On_node(k)')
      <4> TAKE k \in Node
      <4>1. CASE k = h
        BY <4>1, <2>0, <3>1, <3>3, <3>9
      <4>2. CASE k # h
        BY <4>2, <2>0, <3>3, <3>9
      <4>3. QED BY <4>1, <4>2
    <3> HIDE DEF c
    <3>11. QED BY <3>5, <3>7, <3>8, <3>10
  <2>2. CASE cycle' = Onward(cycle, v, "DISPATCH", "REST") /\ UNCHANGED job
    <3>1. \A k \in Node : On_node(k)' = On_node(k)
      BY <2>2 DEF On_node
    <3>2. QED BY <2>2, <3>1, <2>0, <1>1, <1>2
  <2>3. QED BY <2>1, <2>2 DEF dispatch
<1>4. /\ cycle' \in CycleRecord /\ cycle'.todo \subseteq cycle'.vms
      /\ \/ cycle'.at = "DISPATCH" /\ cycle'.copy = cycle.copy /\ cycle'.free = c.free
         \/ cycle'.at = "REST" /\ cycle'.copy = [w \in Job |-> NewJob]
  BY <1>2, <1>3, OnwardCycle
<1>5. SchedTypeOK'
  BY <1>1, <1>3, <1>4 DEF SchedInv, SchedTypeOK, CycleRecord
<1>6. EditsCounted'
  <2>1. NewJob.template.edit = 0 /\ moves \in Nat
    BY SchedulerAssumption DEF NewJob, SchedInv, SchedTypeOK
  <2>2. QED BY <1>1, <1>3, <1>4, <2>1 DEF SchedInv, EditsCounted
<1>7. ActionsMarked'
  BY <1>1, <1>3, <1>4 DEF SchedInv, ActionsMarked, ToNote
<1>8. RoomKnown'
  BY <1>3, <1>4 DEF RoomKnown
<1>9. CopiesFresh'
  BY <1>4 DEF CopiesFresh
<1>10. QED BY <1>4, <1>5, <1>6, <1>7, <1>8, <1>9 DEF SchedInv

LEMMA SchedStepKeeps ==
  ASSUME SchedInv, [SchedNext]_sched_vars
  PROVE  SchedInv'
<1>1. CASE UNCHANGED sched_vars
  <2>1. \A h \in Node : On_node(h)' = On_node(h)
    BY <1>1 DEF On_node, sched_vars
  <2>2. QED BY <1>1, <2>1 DEF sched_vars, SchedInv, SchedTypeOK, EditsCounted, ActionsMarked, ToNote, RoomKnown, CopiesFresh
<1>2. ASSUME NEW v \in Job, Cycle(v) PROVE SchedInv'
  BY <1>2, ScheduledActionKeeps, UpdateTemplateKeeps, MatchKeeps, DispatchKeeps DEF Cycle
<1>3. QED BY <1>1, <1>2, SetsUpKeeps, UserMovesKeep DEF SchedNext, SchedStep

LEMMA SchedBeginInvariant ==
  ASSUME NEW state \in {"PENDING", "DONE"}, SchedBegin(state)
  PROVE  SchedInv
<1>1. \A v \in Job : /\ job[v] \in JobRecord /\ job[v].host = NoNode /\ job[v].template.edit = 0
  <2> TAKE v \in Job
  <2> DEFINE a == IF v \in Planned THEN "WAITS" ELSE "NONE"
             t == [NewJob.template EXCEPT !.action = a]
  <2>1. job[v] = [NewJob EXCEPT !.state = state, !.template.action = a]
    BY DEF SchedBegin
  <2>2. job[v] = [state |-> state, host |-> NoNode, resched |-> FALSE,
                  template |-> [edit |-> 0, action |-> a, message |-> "NONE"]]
    <3> HIDE DEF a
    <3>1. QED BY <2>1 DEF NewJob
  <2>3. a \in {"WAITS", "NONE"} /\ 0 \in 0..MaxMoves
    BY SchedulerAssumption
  <2> HIDE DEF a
  <2>4. QED BY <2>2, <2>3 DEF JobRecord, Template, Reasons
<1>2. job \in [Job -> JobRecord]
  BY <1>1 DEF SchedBegin
<1>3. /\ cycle \in CycleRecord /\ cycle.at = "REST" /\ cycle.todo = {} /\ cycle.copy = [w \in Job |-> NewJob]
  BY RestType DEF SchedBegin, Rest
<1>4. NewJob.template.edit = 0 /\ 0 \in 0..MaxMoves
  BY SchedulerAssumption DEF NewJob
<1>5. SchedTypeOK /\ EditsCounted /\ ActionsMarked /\ CopiesFresh
  <2>1. due = {} /\ moves = 0 /\ done = [v \in Job |-> 0]
    BY DEF SchedBegin
  <2>2. SchedTypeOK
    BY <1>2, <1>3, <1>4, <2>1 DEF SchedTypeOK, CycleRecord
  <2>3. EditsCounted
    BY <1>1, <1>3, <1>4, <2>1 DEF EditsCounted
  <2>4. ActionsMarked /\ CopiesFresh
    BY <1>3, <2>1 DEF ActionsMarked, CopiesFresh
  <2>5. QED BY <2>2, <2>3, <2>4
<1>6. RoomKnown
  <2>1. \A h \in Node : On_node(h) = {}
    BY <1>1, SchedulerAssumption DEF On_node
  <2>2. Cardinality({}) = 0 /\ Room \in Nat
    BY FS_EmptySet, SchedulerAssumption
  <2>3. QED BY <2>1, <2>2, <1>3 DEF RoomKnown
<1>7. QED BY <1>3, <1>5, <1>6 DEF SchedInv

LEMMA SchedulerInvariant == ServicesSpec => []SchedInv
<1>1. ServicesInit => SchedInv
  BY SchedBeginInvariant DEF ServicesInit
<1>2. SchedInv /\ [ServicesNext]_service_vars => SchedInv'
  <2> SUFFICES ASSUME SchedInv, [ServicesNext]_service_vars PROVE [SchedNext]_sched_vars
    BY SchedStepKeeps
  <2>1. QED BY DEF ServicesNext, service_vars, ImageStep, SchedulerStep, HookStep
<1>3. QED BY <1>1, <1>2, PTL DEF ServicesSpec

(* Whatever users do between the moment the scheduler reads a VM or a host *)
(* and the moment it acts on it, a scheduled action is done once and no    *)
(* host is given more VMs than it has room for, unless a call to write a   *)
(* template back is lost.                                                  *)
THEOREM CopiesDoNoHarm ==
  ASSUME "UPDATE_LOST" \notin Meddling PROVE ServicesSpec => []CopiesHarmless
<1>1. SchedInv => CopiesHarmless
  <2> SUFFICES ASSUME SchedInv PROVE CopiesHarmless
    OBVIOUS
  <2>1. \A v \in Job : done[v] <= 1
    <3>1. \A v \in Job : done[v] \in {0, 1}
      BY DEF SchedInv, ActionsMarked
    <3>2. QED BY <3>1
  <2>2. QED BY <2>1 DEF SchedInv, RoomKnown, CopiesHarmless
<1>2. QED BY <1>1, SchedulerInvariant, PTL

(* The scheduler never takes back an edit of a template, unless it was     *)
(* made while the scheduler had the VM in hand.                            *)
THEOREM EditsAreKept ==
  ASSUME "EDITED_MEANWHILE" \notin Meddling PROVE ServicesSpec => EditsKept
<1> DEFINE Kept == \A v \in Job : job'[v].template.edit >= job[v].template.edit
<1>1. SchedInv /\ [SchedNext]_sched_vars => [Kept]_sched_vars
  <2> SUFFICES ASSUME SchedInv, SchedNext PROVE Kept
    OBVIOUS
  <2>1. \A v \in Job : job[v] \in JobRecord /\ job[v].template \in Template /\ job[v].template.edit \in Int
    <3> TAKE v \in Job
    <3>1. job[v] \in JobRecord
      BY DEF SchedInv, SchedTypeOK
    <3>2. job[v].template \in Template
      BY <3>1 DEF JobRecord
    <3>3. job[v].template.edit \in 0..MaxMoves /\ MaxMoves \in Nat
      BY <3>2, SchedulerAssumption DEF Template
    <3>4. QED BY <3>1, <3>2, <3>3
  <2>2. CASE Sets_up
    BY <2>1, <2>2 DEF Sets_up, actions_set_up, vms_set_up, hosts_set_up, end_dispatch
  <2>3. ASSUME NEW v \in Job, NEW x, job' = [job EXCEPT ![v] = x], x.template = job[v].template
        PROVE  Kept
    BY <2>1, <2>3 DEF SchedInv, SchedTypeOK
  <2>4. ASSUME NEW v \in Job, scheduled_action(v) \/ dispatch(v)
        PROVE  Kept
    <3>1. CASE job' = job
      BY <3>1, <2>1
    <3>2. CASE scheduled_action(v) /\ job' # job
      BY <3>2, <2>1, <2>3 DEF scheduled_action, Change, JobRecord
    <3>3. CASE dispatch(v) /\ job' # job
      BY <3>3, <2>1, <2>3 DEF dispatch, dispatch_to, Change, JobRecord
    <3>4. QED BY <2>4, <3>1, <3>2, <3>3
  <2>5. ASSUME NEW v \in Job, NEW t \in Template, Written(v, t), t.edit = job[v].template.edit
        PROVE  Kept
    BY <2>1, <2>5, WrittenTemplates
  <2>6. ASSUME NEW v \in Job, update_template(v) PROVE Kept
    <3>1. v \in cycle.todo /\ cycle.at = "UPDATE" /\ Written(v, cycle.copy[v].template)
      BY <2>6, TurnIn DEF update_template, Turn, SchedInv, SchedTypeOK
    <3>2. cycle.copy[v].template \in Template /\ cycle.copy[v].template.edit = job[v].template.edit
      BY <3>1 DEF SchedInv, SchedTypeOK, JobRecord, CopiesFresh
    <3>3. QED BY <3>1, <3>2, <2>5
  <2>7. ASSUME NEW v \in Job, match(v) PROVE Kept
    <3> DEFINE t == [cycle.copy[v].template EXCEPT !.message = Reason(v)]
    <3>1. v \in cycle.todo /\ cycle.at = "MATCH" /\ (job' = job \/ Written(v, t))
      BY <2>7, TurnIn DEF match, Turn, SchedInv, SchedTypeOK
    <3>2. cycle.copy[v].template \in Template /\ cycle.copy[v].template.edit = job[v].template.edit
      BY <3>1 DEF SchedInv, SchedTypeOK, JobRecord, CopiesFresh
    <3>3. t \in Template /\ t.edit = job[v].template.edit
      BY <3>2 DEF Template, Reason, Reasons
    <3> HIDE DEF t
    <3>4. QED BY <3>1, <3>3, <2>1, <2>5
  <2>8. ASSUME NEW v \in Job, UserMoves(v) PROVE Kept
    <3>1. CASE edit(v)
      <4> DEFINE t == [job[v].template EXCEPT !.edit = @ + 1]
                 x == [job[v] EXCEPT !.template = t]
      <4>1. job' = [job EXCEPT ![v] = x]
        BY <3>1 DEF edit, UserDoes, Change
      <4>2. x.template.edit = job[v].template.edit + 1
        BY <2>1 DEF Template, JobRecord
      <4> HIDE DEF x
      <4>3. QED BY <4>1, <4>2, <2>1 DEF SchedInv, SchedTypeOK
    <3>2. CASE action_time(v)
      BY <3>2, <2>1 DEF action_time
    <3>3. CASE ~(edit(v) \/ action_time(v))
      BY <3>3, <2>1, <2>3, <2>8
         DEF UserMoves, hold, release, poweroff, resume, resched, finish, UserDoes, Change, JobRecord
    <3>4. QED BY <3>1, <3>2, <3>3
  <2>9. QED BY <2>2, <2>4, <2>6, <2>7, <2>8 DEF SchedNext, SchedStep, Cycle
<1>2. [ServicesNext]_service_vars => [SchedNext]_sched_vars
  BY DEF ServicesNext, service_vars, ImageStep, SchedulerStep, HookStep
<1>3. QED BY <1>1, <1>2, SchedulerInvariant, PTL DEF ServicesSpec, EditsKept

-----------------------------------------------------------------------------
(***************************************************************************)
(* The VMs an image counts are those that hold it, for any number of       *)
(* images, VMs and disks, as long as no disk names an image twice, no VM   *)
(* is deleted between the halves of an attach, and no image while it is    *)
(* being made, saved or removed.                                           *)
(*                                                                         *)
(* Two facts make it inductive: a VM holds an image in one way only, so    *)
(* that giving it back once is enough; and an image is made by one party   *)
(* at a time (a thread, the datastore driver, or the VM whose disk is      *)
(* saved to it), and nobody uses it before that party is done.             *)
(*                                                                         *)
(* On that invariant rest three more: the quota of a datastore counts its  *)
(* images, the clones an image counts are those that are made from it, and *)
(* an image that is LOCKED has somebody who will unlock it.                *)
(***************************************************************************)

Careful == /\ "SAME_IMAGE" \notin Rash /\ "DELETE_ATTACHING" \notin Rash
           /\ "DELETE_ALLOCATING" \notin Rash /\ "DELETE_SAVING" \notin Rash
           /\ "DELETE_AGAIN" \notin Rash

-----------------------------------------------------------------------------
(* The inductive invariant *)

(* The counters of an image fit its state.                                 *)
CountersFit(r) ==
  /\ r.vms # {} => r.state \in {"USED", "USED_PERS"}
  /\ r.clones # {} => r.state \in {"USED", "CLONE"}
  /\ r.state = "USED" => r.persistent = FALSE
  /\ r.state = "CLONE" => r.persistent = TRUE
  /\ r.state = "USED_PERS" => r.persistent = TRUE /\ \E v \in VM : r.vms = {v}

(* The calls that stand for an image held by their VM.                     *)
HoldOps == {"ATTACH_SET", "ATTACH_BACK", "RELEASE"}

HeldOnce ==
  /\ \A v \in VM, s, t \in Slots :
       vm[v].disk[s] = vm[v].disk[t] /\ vm[v].disk[s] # NoImage => s = t
  /\ \A c \in calls : c.op \in HoldOps =>
       /\ \A s \in Slots : vm[c.vm].disk[s] # c.image
       /\ \A d \in calls : d.op \in HoldOps /\ d.vm = c.vm /\ d.image = c.image => d = c

(* While a VM is left unlocked by an attach nothing else happens to it.    *)
AttachAlone ==
  /\ \A c \in calls : c.op \in AttachOps =>
       /\ vm[c.vm].state = "HOTPLUG" /\ vm[c.vm].attach = 0
       /\ \A d \in calls : d.op \in AttachOps /\ d.vm = c.vm => d = c
       /\ c.op = "ATTACH" => ~Holds(c.vm, c.image)
  /\ \A v \in VM : vm[v].attach # 0 =>
       vm[v].state = "HOTPLUG" /\ vm[v].disk[vm[v].attach] # NoImage

HoldingFits ==
  /\ \A i \in Image, v \in VM : v \in image[i].vms <=> Holds(v, i)
  /\ HeldOnce /\ AttachAlone

(* Who is making an image, or removing it: a call, a command, or a VM that *)
(* saves a disk to it.                                                     *)
MakeOps  == {"REGISTER", "CLONE", "CLONE_START", "SAVED", "SAVE_FAILED", "HOT_READY", "HOT_ERROR"}
MakeCmds == {"CP", "MKFS", "CLONE", "RM"}
Makes(c, i) == c.op \in MakeOps /\ c.image = i
Saved(v, s) == IF s = 0 THEN vm[v].hot_as ELSE vm[v].save_as[s]
Saves       == 0..MaxDisks

OneMaker(i) ==
  /\ \A c, d \in calls : Makes(c, i) /\ Makes(d, i) => c = d
  /\ \A p, q \in MakeCmds : <<p, i>> \in driver /\ <<q, i>> \in driver => p = q
  /\ \A v, w \in VM, s, t \in Saves : Saved(v, s) = i /\ Saved(w, t) = i => v = w /\ s = t
  /\ \A c \in calls, p \in MakeCmds : ~(Makes(c, i) /\ <<p, i>> \in driver)
  /\ \A c \in calls, v \in VM, s \in Saves : ~(Makes(c, i) /\ Saved(v, s) = i)
  /\ \A p \in MakeCmds, v \in VM, s \in Saves : ~(<<p, i>> \in driver /\ Saved(v, s) = i)

(* An image that somebody makes is LOCKED; one that the driver copies may  *)
(* have been dropped meanwhile, having no source yet.  One it removes is   *)
(* in DELETE.                                                              *)
MadeForVM(i) == image[i].state = "LOCKED" /\ image[i].saver \in VM

MadeIsLocked(i) ==
  /\ \A c \in calls : Makes(c, i) =>
       /\ image[i].state = "LOCKED"
       /\ c.op \in {"SAVED", "SAVE_FAILED", "HOT_READY", "HOT_ERROR"} => image[i].saver \in VM
       /\ c.op \in {"CLONE", "CLONE_START"} => image[i].cloning = c.other
       /\ c.op \in {"CLONE", "CLONE_START"} => image[i].source = FALSE
  /\ \A p \in MakeCmds : <<p, i>> \in driver =>
       \/ image[i].state = "GONE" /\ p # "MKFS"
       \/ image[i].state = "DELETE" /\ p = "RM"
       \/ /\ image[i].state = "LOCKED" /\ image[i].source = FALSE /\ p # "RM"
          /\ p = "MKFS" => image[i].saver \in VM
          /\ p = "CLONE" => image[i].cloning \in Image
  /\ \A v \in VM, s \in Saves : Saved(v, s) = i => MadeForVM(i)

MakersFit(i) == OneMaker(i) /\ MadeIsLocked(i)

IInv ==
  /\ TypeOK /\ driver \subseteq MakeCmds \X Image
  /\ \A i \in Image : CountersFit(image[i])
  /\ HoldingFits
  /\ \A i \in Image : MakersFit(i)

-----------------------------------------------------------------------------
(* What the operators on an image do to its counters *)

(* The image a VM acquires is in use, by it too.                           *)
LEMMA AcquiredFits ==
  ASSUME NEW r \in ImageRecord, NEW v \in VM, CountersFit(r), CanAcquire(r)
  PROVE  /\ Acquired(r, v) \in ImageRecord /\ CountersFit(Acquired(r, v))
         /\ Acquired(r, v).vms = r.vms \cup {v}
<1> DEFINE a == Acquired(r, v)
<1>1. /\ a.vms = r.vms \cup {v} /\ a.clones = r.clones /\ a.persistent = r.persistent
      /\ a.state = IF r.state = "READY" /\ r.persistent THEN "USED_PERS" ELSE "USED"
      /\ a \in ImageRecord
  BY DEF Acquired, ImageRecord, ImageState
<1> HIDE DEF a
<1>2. r.persistent \in BOOLEAN
  BY DEF ImageRecord
<1>3. CASE r.state = "READY"
  <2>1. r.vms = {} /\ r.clones = {}
    BY <1>3 DEF CountersFit
  <2>2. CASE r.persistent = TRUE
    BY <1>1, <1>3, <2>1, <2>2 DEF CountersFit, a
  <2>3. CASE r.persistent = FALSE
    BY <1>1, <1>3, <2>1, <2>3 DEF CountersFit, a
  <2>4. QED BY <1>2, <2>2, <2>3
<1>4. CASE r.state = "USED"
  BY <1>1, <1>4 DEF CountersFit, a
<1>5. QED BY <1>3, <1>4 DEF CanAcquire

(* An image that a VM of its own gives back does not count it any more.    *)
LEMMA ReleasedFits ==
  ASSUME NEW r \in ImageRecord, NEW v \in VM, NEW failed \in BOOLEAN, CountersFit(r), v \in r.vms
  PROVE  /\ Released(r, v, failed) \in ImageRecord /\ CountersFit(Released(r, v, failed))
         /\ Released(r, v, failed).vms = r.vms \ {v}
<1> DEFINE a == Released(r, v, failed)
<1>1. Idle(failed) \in {"ERROR", "READY"}
  BY DEF Idle
<1>2. CASE r.state = "USED_PERS"
  <2>1. /\ a.vms = r.vms \ {v} /\ a.clones = r.clones /\ a.state = Idle(failed) /\ a \in ImageRecord
    BY <1>1, <1>2 DEF Released, ImageRecord, ImageState
  <2>2. a.vms = {} /\ a.clones = {}
    BY <1>2, <2>1 DEF CountersFit
  <2> HIDE DEF a
  <2>3. QED BY <1>1, <2>1, <2>2 DEF CountersFit, a
<1>3. CASE r.state = "USED"
  <2>1. /\ a.vms = r.vms \ {v} /\ a.clones = r.clones /\ a.persistent = r.persistent
        /\ a.state = IF r.vms \ {v} = {} /\ r.clones = {} THEN "READY" ELSE r.state
        /\ a \in ImageRecord
    BY <1>3 DEF Released, ImageRecord, ImageState
  <2> HIDE DEF a
  <2>2. CountersFit(a)
    BY <1>3, <2>1 DEF CountersFit
  <2>3. QED BY <2>1, <2>2 DEF a
<1>4. QED BY <1>2, <1>3 DEF CountersFit

(* An image that a disk should have been saved to is not LOCKED any more.  *)
LEMMA SavedFits ==
  ASSUME NEW r \in ImageRecord, NEW v \in VM, NEW failed \in BOOLEAN, CountersFit(r),
         r.state = "LOCKED", r.saver \in VM
  PROVE  /\ Released(r, v, failed) \in ImageRecord /\ CountersFit(Released(r, v, failed))
         /\ Released(r, v, failed).vms = r.vms
<1> DEFINE a == Released(r, v, failed)
<1>1. Idle(failed) \in {"ERROR", "READY"}
  BY DEF Idle
<1>2. /\ a.vms = r.vms /\ a.clones = r.clones /\ a.state = Idle(failed) /\ a \in ImageRecord
  BY <1>1, NullAssumption DEF Released, ImageRecord, ImageState
<1>3. r.vms = {} /\ r.clones = {}
  BY DEF CountersFit
<1> HIDE DEF a
<1>4. CountersFit(a)
  BY <1>1, <1>2, <1>3 DEF CountersFit
<1>5. QED BY <1>2, <1>4 DEF a

LEMMA ClonedFits ==
  ASSUME NEW r \in ImageRecord, NEW i \in Image, CountersFit(r), CanClone(r)
  PROVE  /\ Cloned(r, i) \in ImageRecord /\ CountersFit(Cloned(r, i)) /\ Cloned(r, i).vms = r.vms
         /\ r.state \notin {"LOCKED", "DELETE", "GONE"}
<1> DEFINE a == Cloned(r, i)
<1>1. /\ a.vms = r.vms /\ a.clones = r.clones \cup {i} /\ a.persistent = r.persistent
      /\ a.state = IF r.state # "READY" THEN r.state ELSE IF r.persistent THEN "CLONE" ELSE "USED"
      /\ a \in ImageRecord
  BY DEF Cloned, ImageRecord, ImageState
<1> HIDE DEF a
<1>2. r.persistent \in BOOLEAN
  BY DEF ImageRecord
<1>3. CountersFit(a)
  <2>1. CASE r.state = "READY" /\ r.persistent = TRUE
    BY <1>1, <2>1 DEF CountersFit
  <2>2. CASE r.state = "READY" /\ r.persistent = FALSE
    BY <1>1, <2>2 DEF CountersFit
  <2>3. CASE r.state \in {"USED", "CLONE"}
    BY <1>1, <2>3 DEF CountersFit
  <2>4. QED BY <1>2, <2>1, <2>2, <2>3 DEF CanClone
<1>4. QED BY <1>1, <1>3 DEF CanClone, a

LEMMA ReleasedCloningFits ==
  ASSUME NEW r \in ImageRecord, NEW i \in Image, CountersFit(r)
  PROVE  /\ ReleasedCloning(r, i) \in ImageRecord /\ CountersFit(ReleasedCloning(r, i))
         /\ ReleasedCloning(r, i).vms = r.vms
         /\ r.state \notin {"USED", "CLONE"} => ReleasedCloning(r, i) = r
<1> DEFINE a == ReleasedCloning(r, i)
<1>1. CASE r.state \in {"USED", "CLONE"}
  <2>1. /\ a.vms = r.vms /\ a.clones = r.clones \ {i} /\ a.persistent = r.persistent
        /\ a.state = IF r.clones \ {i} = {} /\ r.vms = {} THEN "READY" ELSE r.state
        /\ a \in ImageRecord
    BY <1>1 DEF ReleasedCloning, ImageRecord, ImageState
  <2> HIDE DEF a
  <2>2. CountersFit(a)
    BY <1>1, <2>1 DEF CountersFit
  <2>3. QED BY <1>1, <2>1, <2>2 DEF a
<1>2. CASE r.state \notin {"USED", "CLONE"}
  BY <1>2 DEF ReleasedCloning
<1>3. QED BY <1>1, <1>2

(* New images and dropped ones count nothing.                              *)
LEMMA NewFits ==
  /\ \A persistent, source \in BOOLEAN, cloning \in Image \cup {NoImage}, saver \in VM \cup {NoVM} :
       LET r == NewImage(persistent, source, cloning, saver) IN
         /\ r \in ImageRecord /\ CountersFit(r) /\ r.vms = {} /\ r.clones = {} /\ r.state = "LOCKED"
         /\ r.source = source /\ r.cloning = cloning /\ r.saver = saver
  /\ Dropped \in ImageRecord /\ CountersFit(Dropped)
  /\ Dropped.vms = {} /\ Dropped.clones = {} /\ Dropped.state = "GONE"
<1>1. ASSUME NEW persistent \in BOOLEAN, NEW source \in BOOLEAN,
             NEW cloning \in Image \cup {NoImage}, NEW saver \in VM \cup {NoVM}
      PROVE  LET r == NewImage(persistent, source, cloning, saver) IN
         /\ r \in ImageRecord /\ CountersFit(r) /\ r.vms = {} /\ r.clones = {} /\ r.state = "LOCKED"
         /\ r.source = source /\ r.cloning = cloning /\ r.saver = saver
  BY DEF NewImage, ImageRecord, ImageState, CountersFit
<1>2. /\ Dropped \in ImageRecord /\ CountersFit(Dropped)
      /\ Dropped.vms = {} /\ Dropped.clones = {} /\ Dropped.state = "GONE"
  BY DEF Dropped, NewImage, ImageRecord, ImageState, CountersFit
<1>3. QED BY <1>1, <1>2

(* An image whose state is changed while it counts nothing still fits.     *)
LEMMA RestatedFits ==
  ASSUME NEW r \in ImageRecord, NEW q \in ImageRecord, q.vms = {}, q.clones = {},
         q.state \notin {"USED", "CLONE", "USED_PERS"}
  PROVE  CountersFit(q)
BY DEF CountersFit

-----------------------------------------------------------------------------
(* What a step may leave alone *)

(* The parts of a call are what its kind says.                             *)
LEMMA CallParts ==
  ASSUME NEW c \in CallRecord
  PROVE  /\ c.op \in MakeOps => c.image \in Image
         /\ c.op \in AttachOps \cup {"RELEASE", "SAVEDISK", "SAVED", "SAVE_FAILED"} =>
              c.vm \in VM /\ c.image \in Image /\ c.other = NoImage
         /\ c.op \in {"CLONE", "CLONE_START", "UNCLONE"} =>
              c.vm = NoVM /\ c.image \in Image /\ c.other \in Image
         /\ c.op = "CLEAR_SAVEAS" => c.vm \in VM
         /\ c.op \in {"HOT_READY", "HOT_ERROR"} => c.vm = NoVM
         /\ c = Call(c.op, c.vm, c.image, c.other)
BY DEF CallRecord, Calls, Call, MakeOps, AttachOps

LEMMA CallsMade ==
  /\ \A v \in VM \cup {NoVM}, i \in Image : Call("REGISTER", v, i, NoImage) \in CallRecord
  /\ \A op \in {"CLONE", "CLONE_START", "UNCLONE"}, i, j \in Image : Call(op, NoVM, i, j) \in CallRecord
  /\ \A op \in AttachOps \cup {"RELEASE", "SAVEDISK", "SAVED", "SAVE_FAILED"}, v \in VM, i \in Image :
       Call(op, v, i, NoImage) \in CallRecord
  /\ \A v \in VM : Call("CLEAR_SAVEAS", v, NoImage, NoImage) \in CallRecord
  /\ \A op \in {"HOT_READY", "HOT_ERROR"}, i \in Image : Call(op, NoVM, i, NoImage) \in CallRecord
BY DEF CallRecord, Calls, Call, AttachOps

(* A step that leaves the disks, the attaches and the calls about them     *)
(* alone, and what images count, changes nothing of what VMs hold.         *)
LEMMA HoldingKept ==
  ASSUME HoldingFits, calls \subseteq CallRecord, calls' \subseteq CallRecord,
         \A v \in VM : vm'[v].disk = vm[v].disk /\ vm'[v].attach = vm[v].attach,
         \A v \in VM : vm[v].state = "HOTPLUG" => vm'[v].state = "HOTPLUG",
         \A c \in calls \cup calls' : c.op \in HoldOps \cup AttachOps => (c \in calls' <=> c \in calls),
         \A i \in Image : image'[i].vms = image[i].vms
  PROVE  HoldingFits'
<1> DEFINE Of(S) == {c \in S : c.op \in HoldOps \cup AttachOps}
<1>1. \A c : c.op \in HoldOps \cup AttachOps => (c \in calls' <=> c \in calls)
  OBVIOUS
<1>2. \A c \in calls : c.op \in HoldOps \cup AttachOps => c.vm \in VM /\ c.image \in Image
  BY CallParts DEF HoldOps, AttachOps
<1>3. \A v \in VM, i \in Image : Holds(v, i)' <=> Holds(v, i)
  BY <1>1 DEF Holds, Disks, HoldOps
<1>4. HeldOnce'
  BY <1>1, <1>2 DEF HoldingFits, HeldOnce
<1>5. AttachAlone'
  <2>1. \A c \in calls' : c.op \in AttachOps =>
          /\ vm'[c.vm].state = "HOTPLUG" /\ vm'[c.vm].attach = 0
          /\ \A d \in calls' : d.op \in AttachOps /\ d.vm = c.vm => d = c
    BY <1>1, <1>2 DEF HoldingFits, AttachAlone
  <2>2. \A c \in calls' : c.op = "ATTACH" => ~Holds(c.vm, c.image)'
    BY <1>1, <1>2, <1>3 DEF HoldingFits, AttachAlone, AttachOps
  <2>3. \A v \in VM : vm'[v].attach # 0 =>
          vm'[v].state = "HOTPLUG" /\ vm'[v].disk[vm'[v].attach] # NoImage
    BY DEF HoldingFits, AttachAlone
  <2>4. QED BY <2>1, <2>2, <2>3 DEF AttachAlone
<1>6. QED BY <1>3, <1>4, <1>5 DEF HoldingFits

(* A step after which nobody makes an image who did not make it before,    *)
(* and that leaves an image that somebody makes as it is, keeps this true. *)
Made(i) ==
  \/ \E c \in calls : Makes(c, i)
  \/ \E p \in MakeCmds : <<p, i>> \in driver
  \/ \E v \in VM, s \in Saves : Saved(v, s) = i

Same(r, q) == q.state = r.state /\ q.source = r.source /\ q.saver = r.saver /\ q.cloning = r.cloning

LEMMA MakersKept ==
  ASSUME NEW i \in Image, MakersFit(i),
         \A c \in calls' : Makes(c, i) => c \in calls,
         \A p \in MakeCmds : <<p, i>> \in driver' => <<p, i>> \in driver,
         \A v \in VM, s \in Saves : Saved(v, s)' = i => Saved(v, s) = i,
         Made(i)' => Same(image[i], image'[i])
  PROVE  MakersFit(i)'
<1>1. OneMaker(i)'
  BY DEF MakersFit, OneMaker, Makes
<1>2. MadeIsLocked(i)'
  BY DEF MakersFit, MadeIsLocked, MadeForVM, Made, Same, Makes
<1>3. QED BY <1>1, <1>2 DEF MakersFit

LEMMA UnheldStep ==
  ASSUME IInv,
         image' \in [Image -> ImageRecord], vm' \in [VM -> VmRecord], calls' \subseteq CallRecord,
         driver' \subseteq MakeCmds \X Image, copies' \subseteq VM, usage' \in Int,
         \A i \in Image : image'[i].vms = image[i].vms /\ CountersFit(image'[i]),
         \A v \in VM : vm'[v].disk = vm[v].disk /\ vm'[v].attach = vm[v].attach,
         \A v \in VM : vm[v].state = "HOTPLUG" => vm'[v].state = "HOTPLUG",
         \A c \in calls \cup calls' : c.op \in HoldOps \cup AttachOps => (c \in calls' <=> c \in calls),
         \A i \in Image : MakersFit(i)'
  PROVE  IInv'
<1>1. HoldingFits'
  BY HoldingKept DEF IInv, TypeOK
<1>2. QED BY <1>1 DEF IInv, TypeOK, CountersFit, MakeCmds

(* The same of a step that changes at most one image, and no VM.           *)
LEMMA UnheldImageStep ==
  ASSUME IInv, NEW j \in Image, NEW r \in ImageRecord, image' = [image EXCEPT ![j] = r],
         CountersFit(r), r.vms = image[j].vms, UNCHANGED vm,
         calls' \subseteq CallRecord, driver' \subseteq MakeCmds \X Image,
         copies' \subseteq VM, usage' \in Int,
         \A c \in calls \cup calls' : c.op \in HoldOps \cup AttachOps => (c \in calls' <=> c \in calls),
         \A i \in Image \ {j} : \A c \in calls' : Makes(c, i) => c \in calls,
         \A i \in Image \ {j}, p \in MakeCmds : <<p, i>> \in driver' => <<p, i>> \in driver,
         MakersFit(j)'
  PROVE  IInv'
<1>1. /\ image' \in [Image -> ImageRecord] /\ image'[j] = r
      /\ \A i \in Image \ {j} : image'[i] = image[i]
  BY DEF IInv, TypeOK
<1>2. \A i \in Image : image'[i].vms = image[i].vms
  BY <1>1
<1>3. \A i \in Image : CountersFit(image'[i])
  <2> TAKE i \in Image
  <2>1. CASE i = j
    BY <1>1, <2>1
  <2>2. CASE i # j
    BY <1>1, <2>2 DEF IInv
  <2>3. QED BY <2>1, <2>2
<1>4. \A i \in Image : MakersFit(i)'
  <2> TAKE i \in Image
  <2>1. CASE i = j
    BY <2>1
  <2>2. CASE i # j
    <3>1. MakersFit(i) /\ Same(image[i], image'[i])
      BY <1>1, <2>2 DEF IInv, Same
    <3>2. \A v \in VM, s \in Saves : Saved(v, s)' = i => Saved(v, s) = i
      BY DEF Saved
    <3>3. QED BY <2>2, <3>1, <3>2, MakersKept
  <2>3. QED BY <2>1, <2>2
<1>5. vm' \in [VM -> VmRecord]
  BY DEF IInv, TypeOK
<1>6. QED BY <1>1, <1>2, <1>3, <1>4, <1>5, UnheldStep

(* Nobody makes an image that is not LOCKED, being removed or dropped.     *)
LEMMA NotMade ==
  ASSUME IInv, NEW i \in Image, image[i].state \notin {"LOCKED", "DELETE", "GONE"}
  PROVE  ~Made(i)
BY DEF IInv, MakersFit, MadeIsLocked, MadeForVM, Made

(* Nobody else makes an image that a call, or a command, makes.            *)
LEMMA MadeByCall ==
  ASSUME IInv, NEW c \in calls, c.op \in MakeOps
  PROVE  /\ c.image \in Image /\ image[c.image] \in ImageRecord /\ image[c.image].state = "LOCKED"
         /\ c.op \in {"SAVED", "SAVE_FAILED", "HOT_READY", "HOT_ERROR"} => image[c.image].saver \in VM
         /\ c.op \in {"CLONE", "CLONE_START"} =>
              image[c.image].cloning = c.other /\ image[c.image].source = FALSE
         /\ \A d \in calls : Makes(d, c.image) => d = c
         /\ \A p \in MakeCmds : <<p, c.image>> \notin driver
         /\ \A v \in VM, s \in Saves : Saved(v, s) # c.image
<1>1. c.image \in Image /\ Makes(c, c.image)
  BY CallParts DEF IInv, TypeOK, Makes
<1>2. MakersFit(c.image) /\ image[c.image] \in ImageRecord
  BY <1>1 DEF IInv, TypeOK
<1>3. QED BY <1>1, <1>2 DEF MakersFit, OneMaker, MadeIsLocked

LEMMA MadeByDriver ==
  ASSUME IInv, NEW p \in MakeCmds, NEW i \in Image, <<p, i>> \in driver
  PROVE  /\ \/ image[i].state = "GONE" /\ p # "MKFS"
            \/ image[i].state = IF p = "RM" THEN "DELETE" ELSE "LOCKED"
         /\ image[i] \in ImageRecord
         /\ image[i].state = "LOCKED" /\ p = "MKFS" => image[i].saver \in VM
         /\ image[i].state = "LOCKED" /\ p = "CLONE" => image[i].cloning \in Image
         /\ \A c \in calls : ~Makes(c, i)
         /\ \A q \in MakeCmds : <<q, i>> \in driver => q = p
         /\ \A v \in VM, s \in Saves : Saved(v, s) # i
<1>1. MakersFit(i) /\ image[i] \in ImageRecord
  BY DEF IInv, TypeOK
<1>2. QED BY <1>1 DEF MakersFit, OneMaker, MadeIsLocked

(* A command about an image is for nobody who makes another.               *)
LEMMA CommandAdded ==
  ASSUME IInv, NEW cmd \in MakeCmds, NEW i \in Image,
         driver' = driver \cup {<<cmd, i>>}
  PROVE  /\ driver' \subseteq MakeCmds \X Image
         /\ \A k \in Image \ {i}, p \in MakeCmds : <<p, k>> \in driver' => <<p, k>> \in driver
<1>1. driver \subseteq MakeCmds \X Image
  BY DEF IInv, TypeOK
<1>2. <<cmd, i>> \in MakeCmds \X Image
  OBVIOUS
<1>3. \A k \in Image \ {i}, p \in MakeCmds : <<p, k>> # <<cmd, i>>
  OBVIOUS
<1>4. QED BY <1>1, <1>2, <1>3

(* A step after which no more images are made, and no VM holds others.     *)
LEMMA PlainImageStep ==
  ASSUME IInv, NEW j \in Image, NEW r \in ImageRecord, image' = [image EXCEPT ![j] = r],
         CountersFit(r), r.vms = image[j].vms, UNCHANGED <<vm, copies>>, usage' \in Int,
         calls' \subseteq CallRecord,
         \A c \in calls' : c \in calls \/ c.op \notin MakeOps \cup HoldOps \cup AttachOps,
         \A c \in calls : c \in calls' \/ c.op \notin HoldOps \cup AttachOps,
         driver' \subseteq MakeCmds \X Image,
         \A i \in Image, p \in MakeCmds : <<p, i>> \in driver' => <<p, i>> \in driver,
         Made(j)' => Same(image[j], r)
  PROVE  IInv'
<1>1. copies' \subseteq VM /\ image'[j] = r
  BY DEF IInv, TypeOK
<1>2. /\ \A c \in calls \cup calls' : c.op \in HoldOps \cup AttachOps => (c \in calls' <=> c \in calls)
      /\ \A i \in Image : \A c \in calls' : Makes(c, i) => c \in calls
  BY DEF Makes
<1>3. MakersFit(j) /\ (\A v \in VM, s \in Saves : Saved(v, s)' = j => Saved(v, s) = j)
  BY DEF IInv, Saved
<1>4. MakersFit(j)'
  BY <1>1, <1>2, <1>3, MakersKept
<1>5. QED BY <1>1, <1>2, <1>4, UnheldImageStep

(* An image in no use counts nothing.                                      *)
LEMMA UnusedCountsNothing ==
  ASSUME IInv, NEW i \in Image, image[i].state \notin {"USED", "USED_PERS"}
  PROVE  image[i].vms = {} /\ (image[i].state # "CLONE" => image[i].clones = {})
BY DEF IInv, CountersFit

-----------------------------------------------------------------------------
(* Requests on images *)

LEMMA ImageAllocateKeeps ==
  ASSUME IInv, NEW i \in Image, image_allocate(i)
  PROVE  IInv'
<1>1. PICK persistent \in BOOLEAN, source \in BOOLEAN :
        image' = [image EXCEPT ![i] = NewImage(persistent, source, NoImage, NoVM)]
  BY DEF image_allocate, SetImage
<1> DEFINE r == NewImage(persistent, source, NoImage, NoVM)
           c == Call("REGISTER", NoVM, i, NoImage)
<1>2. r \in ImageRecord /\ CountersFit(r) /\ r.vms = {} /\ r.state = "LOCKED"
  BY NewFits
<1>3. image[i].state = "NONE" /\ calls' = calls \cup {c} /\ UNCHANGED <<vm, driver, copies>> /\ usage' = usage + 1
  BY DEF image_allocate, Starts
<1>4. c.op = "REGISTER" /\ c.image = i /\ c.vm = NoVM /\ c \in CallRecord
  BY CallsMade DEF Call
<1>5. ~Made(i) /\ image[i].vms = {}
  BY <1>3, NotMade, UnusedCountsNothing
<1> HIDE DEF r, c
<1>6. calls \subseteq CallRecord /\ calls' \subseteq CallRecord /\ usage' \in Int
  BY <1>3, <1>4 DEF IInv, TypeOK
<1>7. image'[i].state = "LOCKED"
  BY <1>1, <1>2 DEF IInv, TypeOK, r
<1>8. MakersFit(i)'
  BY <1>3, <1>4, <1>5, <1>7 DEF MakersFit, OneMaker, MadeIsLocked, MadeForVM, Made, Makes, Saved
<1>9. \A k \in Image \ {i} : \A d \in calls' : Makes(d, k) => d \in calls
  BY <1>3, <1>4 DEF Makes
<1>10. \A d \in calls \cup calls' : d.op \in HoldOps \cup AttachOps => (d \in calls' <=> d \in calls)
  BY <1>3, <1>4 DEF HoldOps, AttachOps
<1>11. driver' \subseteq MakeCmds \X Image /\ copies' \subseteq VM
  BY <1>3 DEF IInv, TypeOK
<1>12. image' = [image EXCEPT ![i] = r]
  BY <1>1 DEF r
<1>13. QED BY <1>2, <1>3, <1>5, <1>6, <1>8, <1>9, <1>10, <1>11, <1>12, UnheldImageStep

LEMMA RegisterImageKeeps ==
  ASSUME IInv, NEW c \in calls, register_image(c)
  PROVE  IInv'
<1> DEFINE i == c.image
           cmd == IF image[i].saver = NoVM THEN "CP" ELSE "MKFS"
<1>1. c.op = "REGISTER" /\ c.op \in MakeOps
  BY DEF register_image, MakeOps
<1>2. /\ i \in Image /\ image[i] \in ImageRecord /\ image[i].state = "LOCKED"
      /\ \A d \in calls : Makes(d, i) => d = c
      /\ \A p \in MakeCmds : <<p, i>> \notin driver
      /\ \A v \in VM, s \in Saves : Saved(v, s) # i
  BY <1>1, MadeByCall
<1>3. image[i].vms = {} /\ image[i].clones = {}
  BY <1>2, UnusedCountsNothing
<1>4. /\ calls' = calls \ {c} /\ UNCHANGED <<vm, copies, usage>>
      /\ \/ image' = [image EXCEPT ![i].state = "READY"] /\ UNCHANGED driver
         \/ /\ UNCHANGED image /\ image[i].source # TRUE
            /\ driver' = driver \cup {<<cmd, i>>}
  BY <1>2 DEF register_image, Exists, SetState, Goes
<1> DEFINE r == IF image'[i].state = "READY" THEN [image[i] EXCEPT !.state = "READY"] ELSE image[i]
<1> HIDE DEF i
<1>0. cmd \in {"CP", "MKFS"} /\ (cmd = "MKFS" => image[i].saver # NoVM)
  OBVIOUS
<1> HIDE DEF cmd
<1>5. [image[i] EXCEPT !.state = "READY"] \in ImageRecord /\ [image[i] EXCEPT !.state = "READY"].vms = {}
      /\ [image[i] EXCEPT !.state = "READY"].clones = {} /\ [image[i] EXCEPT !.state = "READY"].state = "READY"
  BY <1>2, <1>3 DEF ImageRecord, ImageState
<1>6. image' = [image EXCEPT ![i] = r] /\ r \in ImageRecord /\ r.vms = {} /\ r.clones = {} /\ r.state \in {"READY", "LOCKED"}
  BY <1>2, <1>3, <1>4, <1>5 DEF IInv, TypeOK
<1>7. CountersFit(r)
  BY <1>2, <1>6, RestatedFits
<1> HIDE DEF r
<1>8. calls' \subseteq CallRecord /\ copies' \subseteq VM /\ usage' \in Int
  BY <1>2, <1>4 DEF IInv, TypeOK
<1>9. \A d \in calls \cup calls' : d.op \in HoldOps \cup AttachOps => (d \in calls' <=> d \in calls)
  BY <1>1, <1>4 DEF HoldOps, AttachOps
<1>10. /\ driver' \subseteq MakeCmds \X Image
       /\ \A k \in Image \ {i}, p \in MakeCmds : <<p, k>> \in driver' => <<p, k>> \in driver
  <2>1. CASE UNCHANGED driver
    BY <2>1 DEF IInv, TypeOK
  <2>2. CASE driver' = driver \cup {<<cmd, i>>}
    BY <1>0, <1>2, <2>2, CommandAdded DEF MakeCmds
  <2>3. QED BY <1>4, <2>1, <2>2
<1>11. /\ \A d \in calls' : ~Makes(d, i)
       /\ \A v \in VM, s \in Saves : Saved(v, s)' # i
  BY <1>2, <1>4 DEF Saved
<1>12. MakersFit(i)'
  <2>1. CASE UNCHANGED driver
    BY <2>1, <1>2, <1>11 DEF MakersFit, OneMaker, MadeIsLocked
  <2>2. CASE /\ UNCHANGED image /\ image[i].source # TRUE
             /\ driver' = driver \cup {<<cmd, i>>}
    <3>1. image[i].source = FALSE /\ image[i].saver \in VM \cup {NoVM}
      BY <2>2, <1>2 DEF ImageRecord
    <3>2. \A p \in MakeCmds : <<p, i>> \in driver' => p = cmd
      BY <2>2, <1>2
    <3>3. OneMaker(i)'
      BY <3>2, <1>11 DEF OneMaker
    <3>4. MadeIsLocked(i)'
      BY <1>0, <2>2, <3>1, <3>2, <1>2, <1>11 DEF MadeIsLocked
    <3>5. QED BY <3>3, <3>4 DEF MakersFit
  <2>3. QED BY <1>4, <2>1, <2>2
<1>13. QED BY <1>2, <1>3, <1>4, <1>6, <1>7, <1>8, <1>9, <1>10, <1>12, UnheldImageStep

LEMMA ImageCloneKeeps ==
  ASSUME IInv, NEW i \in Image, NEW source \in Image, image_clone(i, source)
  PROVE  IInv'
<1> DEFINE r == NewImage(FALSE, FALSE, source, NoVM)
           c == Call("CLONE", NoVM, i, source)
<1>1. r \in ImageRecord /\ CountersFit(r) /\ r.vms = {} /\ r.state = "LOCKED" /\ r.cloning = source /\ r.source = FALSE
  BY DEF NewImage, ImageRecord, ImageState, CountersFit
<1>2. image[i].state = "NONE" /\ calls' = calls \cup {c} /\ UNCHANGED <<vm, driver, copies>> /\ usage' = usage + 1
      /\ image' = [image EXCEPT ![i] = r]
  BY DEF image_clone, Starts, SetImage
<1>3. c.op = "CLONE" /\ c.image = i /\ c.other = source /\ c.vm = NoVM /\ c \in CallRecord
  BY CallsMade DEF Call
<1>4. ~Made(i) /\ image[i].vms = {}
  BY <1>2, NotMade, UnusedCountsNothing
<1> HIDE DEF r, c
<1>5. calls \subseteq CallRecord /\ calls' \subseteq CallRecord /\ usage' \in Int
  BY <1>2, <1>3 DEF IInv, TypeOK
<1>6. image'[i] = r
  BY <1>1, <1>2 DEF IInv, TypeOK
<1>7. MakersFit(i)'
  BY <1>1, <1>2, <1>3, <1>4, <1>6 DEF MakersFit, OneMaker, MadeIsLocked, MadeForVM, Made, Makes, Saved
<1>8. \A k \in Image \ {i} : \A d \in calls' : Makes(d, k) => d \in calls
  BY <1>2, <1>3 DEF Makes
<1>9. \A d \in calls \cup calls' : d.op \in HoldOps \cup AttachOps => (d \in calls' <=> d \in calls)
  BY <1>2, <1>3 DEF HoldOps, AttachOps
<1>10. driver' \subseteq MakeCmds \X Image /\ copies' \subseteq VM
  BY <1>2 DEF IInv, TypeOK
<1>11. QED BY <1>1, <1>2, <1>4, <1>5, <1>7, <1>8, <1>9, <1>10, UnheldImageStep

LEMMA CloneCountKeeps ==
  ASSUME IInv, NEW c \in calls, clone_count(c)
  PROVE  IInv'
<1>1. c.op = "CLONE" /\ c.op \in MakeOps /\ c \in CallRecord /\ calls \subseteq CallRecord
  BY DEF clone_count, MakeOps, IInv, TypeOK
<1>2. /\ c.image \in Image /\ c.other \in Image /\ c.vm = NoVM
      /\ image[c.image] \in ImageRecord /\ image[c.image].state = "LOCKED"
      /\ image[c.image].cloning = c.other /\ image[c.image].source = FALSE
      /\ \A d \in calls : Makes(d, c.image) => d = c
      /\ \A p \in MakeCmds : <<p, c.image>> \notin driver
      /\ \A v \in VM, s \in Saves : Saved(v, s) # c.image
  BY <1>1, CallParts, MadeByCall
<1>3. \A d \in calls \cup calls' : d.op \in HoldOps \cup AttachOps => (d \in calls' <=> d \in calls)
  BY <1>1 DEF clone_count, Goes, Becomes, Call, HoldOps, AttachOps
<1>4. /\ UNCHANGED <<vm, driver, copies>> /\ driver' \subseteq MakeCmds \X Image
      /\ copies' \subseteq VM /\ usage' \in Int
  BY DEF clone_count, IInv, TypeOK
<1>5. CASE CanClone(image[c.other]) /\ SetImage(c.other, Cloned(image[c.other], c.image))
           /\ Becomes(c, Call("CLONE_START", NoVM, c.image, c.other))
  <2> DEFINE r == Cloned(image[c.other], c.image)
             d == Call("CLONE_START", NoVM, c.image, c.other)
  <2>1. image[c.other] \in ImageRecord /\ CountersFit(image[c.other])
    BY <1>2 DEF IInv, TypeOK
  <2>2. /\ r \in ImageRecord /\ CountersFit(r) /\ r.vms = image[c.other].vms
        /\ image[c.other].state \notin {"LOCKED", "DELETE", "GONE"}
    BY <1>2, <1>5, <2>1, ClonedFits
  <2>3. d \in CallRecord /\ d.op = "CLONE_START" /\ d.image = c.image /\ d.other = c.other
    BY <1>2, CallsMade DEF Call
  <2>4. image' = [image EXCEPT ![c.other] = r] /\ calls' = (calls \ {c}) \cup {d}
    BY <1>5 DEF SetImage, Becomes
  <2> HIDE DEF r, d
  <2>5. c.image # c.other /\ image'[c.image] = image[c.image] /\ image'[c.other] = r
    BY <1>2, <2>2, <2>4 DEF IInv, TypeOK
  <2>6. MakersFit(c.image)'
    <3>1. \A e \in calls' : Makes(e, c.image) => e = d
      BY <1>2, <2>4
    <3>2. \A v \in VM, s \in Saves : Saved(v, s)' # c.image
      BY <1>2, <1>4 DEF Saved
    <3>3. OneMaker(c.image)' /\ MadeIsLocked(c.image)'
      BY <1>2, <1>4, <2>3, <2>5, <3>1, <3>2 DEF OneMaker, MadeIsLocked
    <3>4. QED BY <3>3 DEF MakersFit
  <2>7. \A i \in Image \ {c.image} : \A e \in calls' : Makes(e, i) => e \in calls
    BY <2>3, <2>4 DEF Makes
  <2>8. ~Made(c.other)'
    <3>1. ~Made(c.other)
      BY <1>2, <2>2, NotMade
    <3>2. \A v \in VM, s \in Saves : Saved(v, s)' = Saved(v, s)
      BY <1>4 DEF Saved
    <3>3. QED BY <1>2, <1>4, <2>5, <2>7, <3>1, <3>2 DEF Made
  <2>9. \A i \in Image : MakersFit(i)'
    <3> TAKE i \in Image
    <3>1. CASE i = c.image
      BY <2>6, <3>1
    <3>2. CASE i # c.image
      <4>1. MakersFit(i) /\ (i # c.other => Same(image[i], image'[i]))
        BY <2>4 DEF IInv, TypeOK, Same
      <4>2. \A v \in VM, s \in Saves : Saved(v, s)' = i => Saved(v, s) = i
        BY <1>4 DEF Saved
      <4>3. Made(i)' => Same(image[i], image'[i])
        BY <2>8, <4>1
      <4>4. QED BY <1>4, <2>7, <3>2, <4>1, <4>2, <4>3, MakersKept
    <3>3. QED BY <3>1, <3>2
  <2>10. image' \in [Image -> ImageRecord] /\ calls' \subseteq CallRecord /\ vm' \in [VM -> VmRecord]
    BY <1>1, <1>2, <1>4, <2>2, <2>3, <2>4 DEF IInv, TypeOK
  <2>11. \A i \in Image : image'[i].vms = image[i].vms /\ CountersFit(image'[i])
    <3> TAKE i \in Image
    <3>1. CASE i = c.other
      BY <2>2, <2>5, <3>1
    <3>2. CASE i # c.other
      BY <2>4, <3>2 DEF IInv, TypeOK
    <3>3. QED BY <3>1, <3>2
  <2>12. QED BY <1>1, <1>3, <1>4, <2>9, <2>10, <2>11, UnheldStep
<1>6. CASE SetImage(c.image, Dropped) /\ Goes(c)
  <2>1. /\ image' = [image EXCEPT ![c.image] = Dropped] /\ calls' = calls \ {c} /\ calls' \subseteq CallRecord
    BY <1>1, <1>6 DEF SetImage, Goes
  <2>2. image[c.image].vms = {} /\ Dropped \in ImageRecord /\ CountersFit(Dropped) /\ Dropped.vms = {}
    BY <1>2, UnusedCountsNothing, NewFits
  <2>3. ~Made(c.image)'
    BY <1>2, <1>4, <2>1 DEF Made, Makes, Saved
  <2>4. /\ \A d \in calls' : d \in calls
        /\ \A d \in calls : d \in calls' \/ d.op \notin HoldOps \cup AttachOps
    BY <1>1, <2>1 DEF HoldOps, AttachOps
  <2>5. QED BY <1>2, <1>4, <2>1, <2>2, <2>3, <2>4, PlainImageStep
<1>7. QED BY <1>5, <1>6 DEF clone_count

LEMMA CloneStartKeeps ==
  ASSUME IInv, NEW c \in calls, clone_start(c)
  PROVE  IInv'
<1> DEFINE i == c.image
<1>1. c.op = "CLONE_START" /\ c.op \in MakeOps
  BY DEF clone_start, MakeOps
<1>2. /\ i \in Image /\ image[i] \in ImageRecord /\ image[i].state = "LOCKED"
      /\ image[i].cloning = c.other /\ c.other \in Image /\ image[i].source = FALSE
      /\ \A d \in calls : Makes(d, i) => d = c
      /\ \A p \in MakeCmds : <<p, i>> \notin driver
      /\ \A v \in VM, s \in Saves : Saved(v, s) # i
  BY <1>1, MadeByCall, CallParts DEF IInv, TypeOK
<1>3. driver' = driver \cup {<<"CLONE", i>>} /\ calls' = calls \ {c} /\ UNCHANGED <<image, vm, copies, usage>>
  BY <1>2 DEF clone_start, Exists, Goes
<1> HIDE DEF i
<1>4. image' = [image EXCEPT ![i] = image[i]] /\ CountersFit(image[i]) /\ copies' \subseteq VM /\ usage' \in Int
      /\ calls' \subseteq CallRecord
  BY <1>2, <1>3 DEF IInv, TypeOK
<1>5. \A d \in calls \cup calls' : d.op \in HoldOps \cup AttachOps => (d \in calls' <=> d \in calls)
  BY <1>1, <1>3 DEF HoldOps, AttachOps
<1>6. /\ driver' \subseteq MakeCmds \X Image
      /\ \A k \in Image \ {i}, p \in MakeCmds : <<p, k>> \in driver' => <<p, k>> \in driver
  BY <1>2, <1>3, CommandAdded DEF MakeCmds
<1>7. MakersFit(i)'
  <2>1. /\ \A d \in calls' : ~Makes(d, i)
        /\ \A v \in VM, s \in Saves : Saved(v, s)' # i
        /\ \A p \in MakeCmds : <<p, i>> \in driver' => p = "CLONE"
    BY <1>2, <1>3 DEF Saved
  <2>2. OneMaker(i)' /\ MadeIsLocked(i)'
    BY <1>2, <1>3, <2>1 DEF OneMaker, MadeIsLocked
  <2>3. QED BY <2>2 DEF MakersFit
<1>8. QED BY <1>2, <1>3, <1>4, <1>5, <1>6, <1>7, UnheldImageStep

LEMMA UncloneKeeps ==
  ASSUME IInv, NEW c \in calls, unclone(c)
  PROVE  IInv'
<1> DEFINE r == ReleasedCloning(image[c.other], c.image)
<1>1. c.op = "UNCLONE" /\ c.image \in Image /\ c.other \in Image
  BY CallParts DEF unclone, IInv, TypeOK
<1>2. /\ image' = [image EXCEPT ![c.other] = r] /\ calls' = calls \ {c}
      /\ UNCHANGED <<vm, driver, copies, usage>>
  BY DEF unclone, SetImage, Goes
<1>3. image[c.other] \in ImageRecord /\ CountersFit(image[c.other])
  BY <1>1 DEF IInv, TypeOK
<1>4. /\ r \in ImageRecord /\ CountersFit(r) /\ r.vms = image[c.other].vms
      /\ image[c.other].state \notin {"USED", "CLONE"} => r = image[c.other]
  BY <1>1, <1>3, ReleasedCloningFits
<1> HIDE DEF r
<1>5. calls' \subseteq CallRecord /\ usage' \in Int /\ driver' \subseteq MakeCmds \X Image
  BY <1>2 DEF IInv, TypeOK
<1>6. Made(c.other)' => Same(image[c.other], r)
  <2>1. Made(c.other)' => Made(c.other)
    BY <1>2 DEF Made, Makes, Saved
  <2>2. Made(c.other) => r = image[c.other]
    BY <1>1, <1>4, NotMade
  <2>3. QED BY <2>1, <2>2 DEF Same
<1>7. /\ \A d \in calls' : d \in calls
      /\ \A d \in calls : d \in calls' \/ d.op \notin HoldOps \cup AttachOps
  BY <1>1, <1>2 DEF HoldOps, AttachOps
<1>8. QED BY <1>1, <1>2, <1>4, <1>5, <1>6, <1>7, PlainImageStep

(* Enabling, disabling and making persistent: nobody makes such an image,  *)
(* or its state stays.                                                     *)
LEMMA ImageEnableKeeps ==
  ASSUME IInv, NEW i \in Image, image_enable(i) \/ image_disable(i)
  PROVE  IInv'
<1>1. PICK s \in {"READY", "DISABLED"} : image' = [image EXCEPT ![i].state = s]
  BY DEF image_enable, image_disable, SetState
<1>2. image[i].state \in {"DISABLED", "ERROR", "READY"} /\ UNCHANGED <<vm, calls, driver, copies, usage>>
  BY DEF image_enable, image_disable
<1>3. image[i] \in ImageRecord
  BY DEF IInv, TypeOK
<1> DEFINE r == [image[i] EXCEPT !.state = s]
<1>4. image[i].vms = {} /\ image[i].clones = {} /\ ~Made(i)
  BY <1>2, UnusedCountsNothing, NotMade
<1>5. r \in ImageRecord /\ r.vms = {} /\ r.clones = {} /\ r.state = s
  BY <1>3, <1>4 DEF ImageRecord, ImageState
<1>6. image' = [image EXCEPT ![i] = r]
  BY <1>1, <1>3 DEF IInv, TypeOK
<1> HIDE DEF r
<1>7. CountersFit(r)
  BY <1>3, <1>5, RestatedFits
<1>8. ~Made(i)'
  BY <1>2, <1>4 DEF Made, Makes, Saved
<1>9. calls' \subseteq CallRecord /\ usage' \in Int /\ driver' \subseteq MakeCmds \X Image
  BY <1>2 DEF IInv, TypeOK
<1>10. QED BY <1>2, <1>4, <1>5, <1>6, <1>7, <1>8, <1>9, PlainImageStep

LEMMA ImagePersistentKeeps ==
  ASSUME IInv, NEW i \in Image, image_persistent(i)
  PROVE  IInv'
<1> DEFINE r == [image[i] EXCEPT !.persistent = ~@]
<1>1. image' = [image EXCEPT ![i] = r] /\ UNCHANGED <<vm, calls, driver, copies, usage>>
      /\ image[i].state \notin {"USED", "CLONE", "USED_PERS"}
  BY DEF image_persistent, SetImage, CanChangePersistent
<1>2. image[i] \in ImageRecord
  BY DEF IInv, TypeOK
<1>3. image[i].vms = {} /\ image[i].clones = {}
  BY <1>1, UnusedCountsNothing
<1>4. r \in ImageRecord /\ r.vms = {} /\ r.clones = {} /\ Same(image[i], r)
  BY <1>2, <1>3 DEF ImageRecord, Same
<1> HIDE DEF r
<1>5. CountersFit(r)
  BY <1>1, <1>2, <1>4, RestatedFits DEF Same
<1>6. calls' \subseteq CallRecord /\ usage' \in Int /\ driver' \subseteq MakeCmds \X Image
  BY <1>1 DEF IInv, TypeOK
<1>7. QED BY <1>1, <1>3, <1>4, <1>5, <1>6, PlainImageStep

(* What may be deleted is made by nobody, or just copied by the driver.    *)
LEMMA DeletedIsNotMade ==
  ASSUME Careful, IInv, NEW i \in Image, CanDelete(i)
  PROVE  /\ image[i].vms = {} /\ image[i].clones = {}
         /\ \A c \in calls : ~Makes(c, i)
         /\ \A v \in VM, s \in Saves : Saved(v, s) # i
         /\ \A p \in MakeCmds : <<p, i>> \in driver => image[i].source = FALSE /\ p # "MKFS"
<1>1. image[i].state \in {"DISABLED", "ERROR", "READY", "LOCKED"} /\ image[i].vms = {} /\ image[i].clones = {}
  BY UnusedCountsNothing DEF CanDelete, Careful
<1>2. CASE image[i].state # "LOCKED"
  BY <1>1, <1>2, NotMade DEF Made
<1>3. CASE image[i].state = "LOCKED"
  <2>1. image[i].saver = NoVM /\ ~Allocating(i)
    BY <1>3 DEF CanDelete, Careful
  <2>2. \A c \in calls : ~Makes(c, i)
    BY <2>1, NullAssumption DEF Allocating, Makes, MakeOps, IInv, MakersFit, MadeIsLocked
  <2>3. \A v \in VM, s \in Saves : Saved(v, s) # i
    BY <2>1, NullAssumption DEF IInv, MakersFit, MadeIsLocked, MadeForVM
  <2>4. \A p \in MakeCmds : <<p, i>> \in driver => image[i].source = FALSE /\ p # "MKFS"
    BY <1>3, <2>1, NullAssumption DEF IInv, MakersFit, MadeIsLocked
  <2>5. QED BY <1>1, <2>2, <2>3, <2>4
<1>4. QED BY <1>2, <1>3

LEMMA ImageDeleteKeeps ==
  ASSUME Careful, IInv, NEW i \in Image, image_delete(i)
  PROVE  IInv'
<1>1. /\ image[i].vms = {} /\ image[i].clones = {}
      /\ \A c \in calls : ~Makes(c, i)
      /\ \A v \in VM, s \in Saves : Saved(v, s) # i
      /\ \A p \in MakeCmds : <<p, i>> \in driver => image[i].source = FALSE /\ p # "MKFS"
      /\ UNCHANGED <<vm, copies>> /\ usage' = usage - 1 /\ image[i] \in ImageRecord
  BY DeletedIsNotMade DEF image_delete, IInv, TypeOK
<1>2. \/ UNCHANGED calls
      \/ calls' = calls \cup {Call("UNCLONE", NoVM, i, image[i].cloning)} /\ image[i].cloning \in Image
  BY <1>1 DEF image_delete, Starts, ImageRecord
<1>3. /\ calls' \subseteq CallRecord /\ usage' \in Int
      /\ \A c \in calls' : c \in calls \/ c.op \notin MakeOps \cup HoldOps \cup AttachOps
      /\ \A c \in calls : c \in calls'
  <2>1. CASE UNCHANGED calls
    BY <1>1, <2>1 DEF IInv, TypeOK
  <2>2. ASSUME image[i].cloning \in Image, calls' = calls \cup {Call("UNCLONE", NoVM, i, image[i].cloning)}
        PROVE  /\ calls' \subseteq CallRecord /\ usage' \in Int
               /\ \A c \in calls' : c \in calls \/ c.op \notin MakeOps \cup HoldOps \cup AttachOps
               /\ \A c \in calls : c \in calls'
    <3>1. /\ Call("UNCLONE", NoVM, i, image[i].cloning) \in CallRecord
          /\ Call("UNCLONE", NoVM, i, image[i].cloning).op = "UNCLONE"
      BY <2>2, CallsMade DEF Call
    <3>2. QED BY <1>1, <2>2, <3>1 DEF IInv, TypeOK, MakeOps, HoldOps, AttachOps
  <2>3. QED BY <1>2, <2>1, <2>2
<1>4. /\ \A c \in calls' : ~Makes(c, i)
      /\ \A v \in VM, s \in Saves : Saved(v, s)' # i
  BY <1>1, <1>3 DEF Makes, Saved
<1>5. CASE image[i].source = TRUE
  <2> DEFINE r == [image[i] EXCEPT !.state = "DELETE", !.cloning = NoImage]
  <2>1. image' = [image EXCEPT ![i] = r] /\ driver' = driver \cup {<<"RM", i>>}
    BY <1>5 DEF image_delete, SetImage
  <2>2. r \in ImageRecord /\ r.vms = {} /\ r.clones = {} /\ r.state = "DELETE"
    BY <1>1 DEF ImageRecord, ImageState
  <2> HIDE DEF r
  <2>3. CountersFit(r)
    BY <2>2 DEF CountersFit
  <2>4. /\ driver' \subseteq MakeCmds \X Image
        /\ \A k \in Image \ {i}, p \in MakeCmds : <<p, k>> \in driver' => <<p, k>> \in driver
    BY <2>1, CommandAdded DEF MakeCmds
  <2>5. \A p \in MakeCmds : <<p, i>> \in driver' => p = "RM"
    BY <1>1, <1>5, <2>1
  <2>6. image'[i].state = "DELETE" /\ copies' \subseteq VM
    BY <1>1, <2>1, <2>2 DEF IInv, TypeOK
  <2>7. OneMaker(i)' /\ MadeIsLocked(i)'
    BY <1>4, <2>5, <2>6 DEF OneMaker, MadeIsLocked
  <2>8. /\ \A c \in calls \cup calls' : c.op \in HoldOps \cup AttachOps => (c \in calls' <=> c \in calls)
        /\ \A k \in Image : \A c \in calls' : Makes(c, k) => c \in calls
    BY <1>3 DEF Makes
  <2>9. QED BY <1>1, <1>3, <2>1, <2>2, <2>3, <2>4, <2>6, <2>7, <2>8, UnheldImageStep DEF MakersFit
<1>6. CASE image[i].source = FALSE
  <2>1. image' = [image EXCEPT ![i] = Dropped] /\ UNCHANGED driver
    BY <1>6 DEF image_delete, SetImage
  <2>2. Dropped \in ImageRecord /\ Dropped.vms = {} /\ CountersFit(Dropped) /\ Dropped.state = "GONE"
    BY NewFits
  <2>3. image'[i].state = "GONE"
    BY <2>1, <2>2 DEF IInv, TypeOK
  <2>4. MakersFit(i)'
    <3>1. OneMaker(i)'
      BY <1>4, <2>1 DEF IInv, MakersFit, OneMaker
    <3>2. MadeIsLocked(i)'
      BY <1>1, <1>4, <2>1, <2>3 DEF MadeIsLocked
    <3>3. QED BY <3>1, <3>2 DEF MakersFit
  <2>5. /\ \A c \in calls \cup calls' : c.op \in HoldOps \cup AttachOps => (c \in calls' <=> c \in calls)
        /\ \A k \in Image : \A c \in calls' : Makes(c, k) => c \in calls
    BY <1>3 DEF Makes
  <2>6. driver' \subseteq MakeCmds \X Image /\ copies' \subseteq VM
    BY <1>1, <2>1 DEF IInv, TypeOK
  <2>7. QED BY <1>1, <1>3, <2>1, <2>2, <2>4, <2>5, <2>6, UnheldImageStep
<1>7. QED BY <1>1, <1>5, <1>6 DEF ImageRecord

-----------------------------------------------------------------------------
(* Answers of the datastore driver *)

(* What the driver answered is not under way any more.                     *)
LEMMA AnsweredCommand ==
  ASSUME IInv, NEW cmd, NEW i \in Image, Answered(cmd, i)
  PROVE  /\ driver' \subseteq MakeCmds \X Image
         /\ \A k \in Image, p \in MakeCmds : <<p, k>> \in driver' => <<p, k>> \in driver
         /\ <<cmd, i>> \notin driver'
BY DEF Answered, IInv, TypeOK

(* The image has been made, or could not be.                               *)
LEMMA MadeRecord ==
  ASSUME NEW r \in ImageRecord, NEW success \in BOOLEAN, r.vms = {}, r.clones = {}
  PROVE  /\ [r EXCEPT !.source = @ \/ success, !.state = Idle(~success)] \in ImageRecord
         /\ CountersFit([r EXCEPT !.source = @ \/ success, !.state = Idle(~success)])
         /\ [r EXCEPT !.source = @ \/ success, !.state = Idle(~success)].vms = {}
         /\ [r EXCEPT !.source = @ \/ success, !.state = Idle(~success), !.cloning = NoImage] \in ImageRecord
         /\ CountersFit([r EXCEPT !.source = @ \/ success, !.state = Idle(~success), !.cloning = NoImage])
         /\ [r EXCEPT !.source = @ \/ success, !.state = Idle(~success), !.cloning = NoImage].vms = {}
<1>1. Idle(~success) \in {"ERROR", "READY"} /\ (r.source \/ success) \in BOOLEAN
  BY DEF Idle
<1> DEFINE new == r.source \/ success
           idle == Idle(~success)
           q == [r EXCEPT !.source = new, !.state = idle]
           u == [r EXCEPT !.source = new, !.state = idle, !.cloning = NoImage]
<1> HIDE DEF new, idle
<1>2. new \in BOOLEAN /\ idle \in {"ERROR", "READY"}
  BY <1>1 DEF new, idle
<1>3. q \in ImageRecord /\ u \in ImageRecord
  BY <1>2 DEF ImageRecord, ImageState
<1>4. /\ q.vms = {} /\ q.clones = {} /\ q.state = idle
      /\ u.vms = {} /\ u.clones = {} /\ u.state = idle
  BY DEF ImageRecord
<1> HIDE DEF q, u
<1>5. CountersFit(q) /\ CountersFit(u)
  BY <1>2, <1>3, <1>4, RestatedFits
<1>6. QED BY <1>3, <1>4, <1>5 DEF q, u, new, idle

(* Nobody makes an image any more whose command has been answered.         *)
LEMMA AnsweredIsNotMade ==
  ASSUME IInv, NEW cmd \in MakeCmds, NEW i \in Image, Answered(cmd, i), UNCHANGED <<vm, copies, usage>>,
         \A c \in calls' : c \in calls \/ c.op \notin MakeOps
  PROVE  ~Made(i)'
<1>1. /\ \A c \in calls : ~Makes(c, i)
      /\ \A q \in MakeCmds : <<q, i>> \in driver => q = cmd
      /\ \A v \in VM, s \in Saves : Saved(v, s) # i
  BY MadeByDriver DEF Answered
<1>2. <<cmd, i>> \notin driver' /\ \A p \in MakeCmds : <<p, i>> \in driver' => <<p, i>> \in driver
  BY AnsweredCommand
<1>3. \A c \in calls' : ~Makes(c, i)
  BY <1>1 DEF Makes
<1>4. \A v \in VM, s \in Saves : Saved(v, s)' # i
  BY <1>1 DEF Saved
<1>5. QED BY <1>1, <1>2, <1>3, <1>4 DEF Made

(* An answer that leaves the image as it was, or with another record.      *)
LEMMA AnswerStep ==
  ASSUME IInv, NEW cmd \in MakeCmds, NEW i \in Image, Answered(cmd, i), UNCHANGED <<vm, copies, usage>>,
         NEW r \in ImageRecord, image' = [image EXCEPT ![i] = r], CountersFit(r), r.vms = image[i].vms,
         calls \subseteq calls', calls' \subseteq CallRecord,
         \A c \in calls' : c \in calls \/ c.op \in {"UNCLONE", "CLEAR_SAVEAS"}
  PROVE  IInv'
<1>1. \A c \in calls' : c \in calls \/ c.op \notin MakeOps \cup HoldOps \cup AttachOps
  BY DEF MakeOps, HoldOps, AttachOps
<1>2. ~Made(i)'
  BY <1>1, AnsweredIsNotMade
<1>3. /\ driver' \subseteq MakeCmds \X Image
      /\ \A k \in Image, p \in MakeCmds : <<p, k>> \in driver' => <<p, k>> \in driver
  BY AnsweredCommand
<1>4. usage' \in Int
  BY DEF IInv, TypeOK
<1>5. QED BY <1>1, <1>2, <1>3, <1>4, PlainImageStep

LEMMA CpActionKeeps ==
  ASSUME IInv, NEW i \in Image, cp_action(i)
  PROVE  IInv'
<1>1. Answered("CP", i) /\ UNCHANGED <<vm, calls, copies, usage>> /\ "CP" \in MakeCmds
      /\ image[i] \in ImageRecord /\ CountersFit(image[i]) /\ calls \subseteq CallRecord
  BY DEF cp_action, MakeCmds, IInv, TypeOK
<1>2. image[i].state \in {"LOCKED", "GONE"} /\ image[i].vms = {} /\ image[i].clones = {}
  BY <1>1, MadeByDriver, UnusedCountsNothing DEF Answered
<1>3. CASE ~Exists(i)
  BY <1>1, <1>3, AnswerStep DEF cp_action, IInv, TypeOK
<1>4. CASE Exists(i)
  <2>1. PICK success \in BOOLEAN :
          image' = [image EXCEPT ![i] = [image[i] EXCEPT !.source = @ \/ success, !.state = Idle(~success)]]
    BY <1>4 DEF cp_action, SetImage
  <2> DEFINE r == [image[i] EXCEPT !.source = @ \/ success, !.state = Idle(~success)]
  <2>2. r \in ImageRecord /\ CountersFit(r) /\ r.vms = image[i].vms /\ image' = [image EXCEPT ![i] = r]
    BY <1>1, <1>2, <2>1, MadeRecord
  <2> HIDE DEF r
  <2>3. QED BY <1>1, <2>2, AnswerStep
<1>5. QED BY <1>3, <1>4

LEMMA CloneActionKeeps ==
  ASSUME IInv, NEW i \in Image, clone_action(i)
  PROVE  IInv'
<1>1. Answered("CLONE", i) /\ UNCHANGED <<vm, copies, usage>> /\ "CLONE" \in MakeCmds
      /\ image[i] \in ImageRecord /\ CountersFit(image[i]) /\ calls \subseteq CallRecord
  BY DEF clone_action, MakeCmds, IInv, TypeOK
<1>2. /\ image[i].state \in {"LOCKED", "GONE"} /\ image[i].vms = {} /\ image[i].clones = {}
      /\ image[i].state = "LOCKED" => image[i].cloning \in Image
  BY <1>1, MadeByDriver, UnusedCountsNothing DEF Answered
<1>3. CASE ~Exists(i)
  BY <1>1, <1>3, AnswerStep DEF clone_action, IInv, TypeOK
<1>4. CASE Exists(i)
  <2> DEFINE c == Call("UNCLONE", NoVM, i, image[i].cloning)
  <2>1. PICK success \in BOOLEAN :
          image' = [image EXCEPT ![i] = [image[i] EXCEPT !.source = @ \/ success, !.state = Idle(~success),
                                                         !.cloning = NoImage]]
    BY <1>4 DEF clone_action, SetImage
  <2>2. calls' = calls \cup {c}
    BY <1>4 DEF clone_action, Starts
  <2>3. c \in CallRecord /\ c.op = "UNCLONE"
    BY <1>2, <1>4, CallsMade DEF Call, Exists
  <2> DEFINE r == [image[i] EXCEPT !.source = @ \/ success, !.state = Idle(~success), !.cloning = NoImage]
  <2>4. r \in ImageRecord /\ CountersFit(r) /\ r.vms = image[i].vms /\ image' = [image EXCEPT ![i] = r]
    BY <1>1, <1>2, <2>1, MadeRecord
  <2> HIDE DEF r, c
  <2>5. QED BY <1>1, <2>2, <2>3, <2>4, AnswerStep
<1>5. QED BY <1>3, <1>4

LEMMA RmActionKeeps ==
  ASSUME IInv, NEW i \in Image, rm_action(i)
  PROVE  IInv'
<1>1. Answered("RM", i) /\ UNCHANGED <<vm, calls, copies, usage>> /\ "RM" \in MakeCmds
      /\ image[i] \in ImageRecord /\ CountersFit(image[i]) /\ calls \subseteq CallRecord
  BY DEF rm_action, MakeCmds, IInv, TypeOK
<1>2. image[i].state \in {"DELETE", "GONE"} /\ image[i].vms = {}
  BY <1>1, MadeByDriver, UnusedCountsNothing DEF Answered
<1>3. CASE ~Exists(i)
  BY <1>1, <1>3, AnswerStep DEF rm_action, IInv, TypeOK
<1>4. CASE Exists(i)
  <2>1. image' = [image EXCEPT ![i] = Dropped]
    BY <1>4 DEF rm_action, SetImage
  <2>2. Dropped \in ImageRecord /\ CountersFit(Dropped) /\ Dropped.vms = image[i].vms
    BY <1>2, NewFits
  <2>3. QED BY <1>1, <2>1, <2>2, AnswerStep
<1>5. QED BY <1>3, <1>4

LEMMA MkfsActionKeeps ==
  ASSUME IInv, NEW i \in Image, mkfs_action(i)
  PROVE  IInv'
<1>1. Answered("MKFS", i) /\ UNCHANGED <<vm, copies, usage>> /\ "MKFS" \in MakeCmds
      /\ image[i] \in ImageRecord /\ CountersFit(image[i]) /\ calls \subseteq CallRecord
  BY DEF mkfs_action, MakeCmds, IInv, TypeOK
<1>2. /\ image[i].state = "LOCKED" /\ image[i].saver \in VM /\ image[i].vms = {} /\ image[i].clones = {}
  BY <1>1, MadeByDriver, UnusedCountsNothing DEF Answered
<1> DEFINE v == image[i].saver
<1>3. CASE /\ SetImage(i, [image[i] EXCEPT !.source = TRUE])
           /\ Starts(Call("SAVED", v, i, NoImage))
  <2> DEFINE r == [image[i] EXCEPT !.source = TRUE]
             c == Call("SAVED", v, i, NoImage)
  <2>1. image' = [image EXCEPT ![i] = r] /\ calls' = calls \cup {c}
    BY <1>3 DEF SetImage, Starts
  <2>2. r \in ImageRecord /\ r.vms = {} /\ r.clones = {} /\ r.state = "LOCKED" /\ r.saver = v
    BY <1>1, <1>2 DEF ImageRecord
  <2>3. c \in CallRecord /\ c.op = "SAVED" /\ c.image = i
    BY <1>2, CallsMade DEF Call
  <2> HIDE DEF r, c
  <2>4. CountersFit(r) /\ image'[i] = r
    BY <2>1, <2>2 DEF CountersFit, IInv, TypeOK
  <2>5. /\ driver' \subseteq MakeCmds \X Image /\ <<"MKFS", i>> \notin driver'
        /\ \A k \in Image, p \in MakeCmds : <<p, k>> \in driver' => <<p, k>> \in driver
    BY <1>1, AnsweredCommand
  <2>6. /\ \A d \in calls : ~Makes(d, i)
        /\ \A p \in MakeCmds : <<p, i>> \notin driver'
        /\ \A w \in VM, s \in Saves : Saved(w, s) # i
    BY <1>1, <2>5, MadeByDriver DEF Answered
  <2>7. /\ \A d \in calls' : Makes(d, i) => d = c
        /\ \A w \in VM, s \in Saves : Saved(w, s)' # i
    BY <1>1, <2>1, <2>6 DEF Saved
  <2>8. OneMaker(i)' /\ MadeIsLocked(i)'
    BY <1>2, <2>2, <2>3, <2>4, <2>6, <2>7 DEF OneMaker, MadeIsLocked
  <2>9. \A k \in Image \ {i} : \A d \in calls' : Makes(d, k) => d \in calls
    BY <2>1, <2>3 DEF Makes
  <2>10. \A d \in calls \cup calls' : d.op \in HoldOps \cup AttachOps => (d \in calls' <=> d \in calls)
    BY <2>1, <2>3 DEF HoldOps, AttachOps
  <2>11. calls' \subseteq CallRecord /\ copies' \subseteq VM /\ usage' \in Int
    BY <1>1, <2>1, <2>3 DEF IInv, TypeOK
  <2>12. QED BY <1>1, <1>2, <2>1, <2>2, <2>4, <2>5, <2>8, <2>9, <2>10, <2>11, UnheldImageStep DEF MakersFit
<1>4. CASE /\ SetState(i, "ERROR")
           /\ Starts(Call("CLEAR_SAVEAS", v, NoImage, NoImage))
  <2> DEFINE r == [image[i] EXCEPT !.state = "ERROR"]
             c == Call("CLEAR_SAVEAS", v, NoImage, NoImage)
  <2>1. image' = [image EXCEPT ![i] = r] /\ calls' = calls \cup {c}
    BY <1>4 DEF SetState, Starts, IInv, TypeOK
  <2>2. r \in ImageRecord /\ r.vms = {} /\ r.clones = {} /\ r.state = "ERROR"
    BY <1>1, <1>2 DEF ImageRecord, ImageState
  <2>3. c \in CallRecord /\ c.op = "CLEAR_SAVEAS"
    BY <1>2, CallsMade DEF Call
  <2> HIDE DEF r, c
  <2>4. CountersFit(r)
    BY <2>2 DEF CountersFit
  <2>5. QED BY <1>1, <1>2, <2>1, <2>2, <2>3, <2>4, AnswerStep
<1>5. QED BY <1>2, <1>3, <1>4 DEF mkfs_action, Exists

-----------------------------------------------------------------------------
(* save_as: the image that a disk is saved to *)

LEMMA SavediskAllocateKeeps ==
  ASSUME IInv, NEW c \in calls, savedisk_allocate(c)
  PROVE  IInv'
<1>1. /\ c.op = "SAVEDISK" /\ c.vm \in VM /\ calls \subseteq CallRecord /\ calls' \subseteq calls \cup calls'
      /\ UNCHANGED <<vm, driver, copies>>
      /\ driver' \subseteq MakeCmds \X Image /\ copies' \subseteq VM
  BY CallParts DEF savedisk_allocate, IInv, TypeOK
<1>2. CASE Becomes(c, Call("CLEAR_SAVEAS", c.vm, NoImage, NoImage)) /\ UNCHANGED <<image, usage>>
  <2> DEFINE d == Call("CLEAR_SAVEAS", c.vm, NoImage, NoImage)
  <2>1. calls' = (calls \ {c}) \cup {d} /\ d \in CallRecord /\ d.op = "CLEAR_SAVEAS"
    BY <1>1, <1>2, CallsMade DEF Call, Becomes
  <2> HIDE DEF d
  <2>2. /\ calls' \subseteq CallRecord
        /\ \A e \in calls \cup calls' : e.op \in HoldOps \cup AttachOps => (e \in calls' <=> e \in calls)
        /\ \A e \in calls' : e \in calls \/ e.op \notin MakeOps
    BY <1>1, <2>1 DEF HoldOps, AttachOps, MakeOps
  <2>3. \A i \in Image : MakersFit(i)'
    <3> TAKE i \in Image
    <3>1. MakersFit(i) /\ Same(image[i], image'[i])
      BY <1>2 DEF IInv, Same
    <3>2. \A v \in VM, s \in Saves : Saved(v, s)' = i => Saved(v, s) = i
      BY <1>1 DEF Saved
    <3>3. QED BY <1>1, <2>2, <3>1, <3>2, MakersKept DEF Makes
  <2>4. QED BY <1>1, <1>2, <2>2, <2>3, UnheldStep DEF IInv, TypeOK
<1>3. ASSUME NEW i \in Image, image[i].state = "NONE", usage' = usage + 1,
             SetImage(i, NewImage(FALSE, FALSE, NoImage, c.vm)),
             Becomes(c, Call("REGISTER", c.vm, i, NoImage))
      PROVE  IInv'
  <2> DEFINE r == NewImage(FALSE, FALSE, NoImage, c.vm)
             d == Call("REGISTER", c.vm, i, NoImage)
  <2>1. r \in ImageRecord /\ CountersFit(r) /\ r.vms = {} /\ r.state = "LOCKED"
    BY <1>1 DEF NewImage, ImageRecord, ImageState, CountersFit
  <2>2. image' = [image EXCEPT ![i] = r] /\ calls' = (calls \ {c}) \cup {d}
    BY <1>3 DEF SetImage, Becomes
  <2>3. d \in CallRecord /\ d.op = "REGISTER" /\ d.image = i
    BY <1>1, CallsMade DEF Call
  <2> HIDE DEF r, d
  <2>4. ~Made(i) /\ image[i].vms = {}
    BY <1>3, NotMade, UnusedCountsNothing
  <2>5. image'[i].state = "LOCKED"
    BY <2>1, <2>2 DEF IInv, TypeOK
  <2>6. MakersFit(i)'
    BY <1>1, <2>2, <2>3, <2>4, <2>5 DEF MakersFit, OneMaker, MadeIsLocked, MadeForVM, Made, Makes, Saved
  <2>7. \A k \in Image \ {i} : \A e \in calls' : Makes(e, k) => e \in calls
    BY <2>2, <2>3 DEF Makes
  <2>8. \A e \in calls \cup calls' : e.op \in HoldOps \cup AttachOps => (e \in calls' <=> e \in calls)
    BY <1>1, <2>2, <2>3 DEF HoldOps, AttachOps
  <2>9. calls' \subseteq CallRecord /\ usage' \in Int
    BY <1>1, <1>3, <2>2, <2>3 DEF IInv, TypeOK
  <2>10. QED BY <1>1, <2>1, <2>2, <2>4, <2>6, <2>7, <2>8, <2>9, UnheldImageStep
<1>4. QED BY <1>2, <1>3 DEF savedisk_allocate

(* A call that makes an image ends, and gives it the state s.              *)
LEMMA MadeStateStep ==
  ASSUME IInv, NEW c \in calls, c.op \in MakeOps, NEW s \in {"READY", "ERROR"}, SetState(c.image, s),
         UNCHANGED <<vm, driver, copies, usage>>, calls' \subseteq CallRecord,
         c \notin calls', calls \ {c} \subseteq calls',
         \A d \in calls' : d \in calls \/ d.op = "CLEAR_SAVEAS"
  PROVE  IInv'
<1> DEFINE i == c.image
           r == [image[i] EXCEPT !.state = s]
<1>1. /\ i \in Image /\ image[i] \in ImageRecord /\ image[i].state = "LOCKED"
      /\ \A d \in calls : Makes(d, i) => d = c
      /\ \A p \in MakeCmds : <<p, i>> \notin driver
      /\ \A v \in VM, t \in Saves : Saved(v, t) # i
  BY MadeByCall
<1>2. image' = [image EXCEPT ![i] = r]
  BY <1>1 DEF SetState, IInv, TypeOK
<1>3. image[i].vms = {} /\ image[i].clones = {}
  BY <1>1, UnusedCountsNothing
<1>4. r \in ImageRecord /\ r.vms = {} /\ r.clones = {} /\ r.state = s
  BY <1>1, <1>3 DEF ImageRecord, ImageState
<1> HIDE DEF r
<1>5. CountersFit(r)
  BY <1>4 DEF CountersFit
<1>6. \A d \in calls' : Makes(d, i) => d \in calls
  BY DEF Makes, MakeOps
<1>7. ~Made(i)'
  BY <1>1, <1>6 DEF Made, Saved, Makes
<1>8. /\ \A d \in calls' : d \in calls \/ d.op \notin MakeOps \cup HoldOps \cup AttachOps
      /\ \A d \in calls : d \in calls' \/ d.op \notin HoldOps \cup AttachOps
  BY DEF MakeOps, HoldOps, AttachOps
<1>9. usage' \in Int /\ driver' \subseteq MakeCmds \X Image
  BY DEF IInv, TypeOK
<1>10. QED BY <1>1, <1>2, <1>3, <1>4, <1>5, <1>7, <1>8, <1>9, PlainImageStep

LEMMA SaveFailedKeeps ==
  ASSUME IInv, NEW c \in calls, save_failed(c)
  PROVE  IInv'
<1> DEFINE d == Call("CLEAR_SAVEAS", c.vm, NoImage, NoImage)
<1>1. c.op = "SAVE_FAILED" /\ c.op \in MakeOps /\ c.vm \in VM /\ calls \subseteq CallRecord
      /\ UNCHANGED <<vm, driver, copies, usage>>
  BY CallParts DEF save_failed, MakeOps, IInv, TypeOK
<1>2. d \in CallRecord /\ d.op = "CLEAR_SAVEAS"
  BY <1>1, CallsMade DEF Call
<1>3. image[c.image].state = "LOCKED"
  BY <1>1, MadeByCall
<1>4. SetState(c.image, "ERROR") /\ calls' = (calls \ {c}) \cup {d}
  BY <1>3 DEF save_failed, Exists, Becomes
<1> HIDE DEF d
<1>5. QED BY <1>1, <1>2, <1>4, MadeStateStep

LEMMA SaveasHotImageKeeps ==
  ASSUME IInv, NEW c \in calls, saveas_hot_image(c)
  PROVE  IInv'
<1>1. c.op \in {"HOT_READY", "HOT_ERROR"} /\ c.op \in MakeOps /\ calls \subseteq CallRecord
      /\ UNCHANGED <<vm, driver, copies, usage>> /\ calls' = calls \ {c}
  BY DEF saveas_hot_image, MakeOps, IInv, TypeOK, Goes
<1>2. image[c.image].state = "LOCKED"
  BY <1>1, MadeByCall
<1>3. SetState(c.image, IF c.op = "HOT_READY" THEN "READY" ELSE "ERROR")
  BY <1>2 DEF saveas_hot_image, Exists
<1>4. QED BY <1>1, <1>3, MadeStateStep

-----------------------------------------------------------------------------
(* Steps of a VM that leave its disks and its attaches alone *)

LEMMA VmSet ==
  ASSUME IInv, NEW v \in VM, NEW r \in VmRecord, vm' = [vm EXCEPT ![v] = r]
  PROVE  /\ vm' \in [VM -> VmRecord] /\ vm'[v] = r
         /\ \A w \in VM \ {v} : vm'[w] = vm[w]
         /\ \A s \in Saves : Saved(v, s)' = IF s = 0 THEN r.hot_as ELSE r.save_as[s]
         /\ \A w \in VM \ {v}, s \in Saves : Saved(w, s)' = Saved(w, s)
BY DEF IInv, TypeOK, Saved

LEMMA UnheldVmStep ==
  ASSUME IInv, NEW v \in VM, NEW r \in VmRecord, vm' = [vm EXCEPT ![v] = r],
         r.disk = vm[v].disk, r.attach = vm[v].attach, vm[v].state = "HOTPLUG" => r.state = "HOTPLUG",
         UNCHANGED <<image, driver, usage>>, copies' \subseteq VM, calls' \subseteq CallRecord,
         \A c \in calls \cup calls' : c.op \in HoldOps \cup AttachOps => (c \in calls' <=> c \in calls),
         \A i \in Image : MakersFit(i)'
  PROVE  IInv'
<1>1. /\ vm' \in [VM -> VmRecord]
      /\ \A w \in VM : vm'[w].disk = vm[w].disk /\ vm'[w].attach = vm[w].attach
      /\ \A w \in VM : vm[w].state = "HOTPLUG" => vm'[w].state = "HOTPLUG"
  BY VmSet
<1>2. /\ image' \in [Image -> ImageRecord] /\ usage' \in Int
      /\ driver' \subseteq MakeCmds \X Image
      /\ \A i \in Image : image'[i].vms = image[i].vms /\ CountersFit(image'[i])
  BY DEF IInv, TypeOK
<1>3. QED BY <1>1, <1>2, UnheldStep

(* The VM saves no other disks than before, and no call begins.            *)
LEMMA PlainVmStep ==
  ASSUME IInv, NEW v \in VM, NEW r \in VmRecord, vm' = [vm EXCEPT ![v] = r],
         r.disk = vm[v].disk, r.attach = vm[v].attach, vm[v].state = "HOTPLUG" => r.state = "HOTPLUG",
         r.save_as = vm[v].save_as, r.hot_as \in {vm[v].hot_as, NoImage},
         UNCHANGED <<image, driver, copies, usage>>, calls' \subseteq CallRecord,
         \A c \in calls \cup calls' : c.op \in HoldOps \cup AttachOps => (c \in calls' <=> c \in calls),
         \A c \in calls' : c \in calls \/ c.op \notin MakeOps
  PROVE  IInv'
<1>1. \A i \in Image : MakersFit(i)'
  <2> TAKE i \in Image
  <2>1. MakersFit(i) /\ Same(image[i], image'[i])
    BY DEF IInv, Same
  <2>2. \A w \in VM, s \in Saves : Saved(w, s)' = i => Saved(w, s) = i
    <3> TAKE w \in VM, s \in Saves
    <3>1. vm'[v] = r /\ \A x \in VM \ {v} : vm'[x] = vm[x]
      BY VmSet
    <3>2. CASE w = v
      BY <3>1, <3>2, NullAssumption DEF Saved
    <3>3. CASE w # v
      BY <3>1, <3>3 DEF Saved
    <3>4. QED BY <3>2, <3>3
  <2>3. QED BY <2>1, <2>2, MakersKept DEF Makes
<1>2. copies' \subseteq VM
  BY DEF IInv, TypeOK
<1>3. QED BY <1>1, <1>2, UnheldVmStep

(* A VM is inserted, fails, ends, or its images have been released.        *)
LEMMA VmStateKeeps ==
  ASSUME IInv, NEW v \in VM, NEW s \in VmState, SetVmState(v, s), vm[v].state # "HOTPLUG",
         UNCHANGED <<image, calls, driver, copies, usage>>
  PROVE  IInv'
<1> DEFINE r == [vm[v] EXCEPT !.state = s]
<1>1. vm[v] \in VmRecord /\ calls' \subseteq CallRecord
  BY DEF IInv, TypeOK
<1>2. vm' = [vm EXCEPT ![v] = r]
  BY DEF SetVmState, IInv, TypeOK
<1>3. /\ r \in VmRecord /\ r.disk = vm[v].disk /\ r.attach = vm[v].attach
      /\ r.save_as = vm[v].save_as /\ r.hot_as = vm[v].hot_as
  BY <1>1 DEF VmRecord
<1> HIDE DEF r
<1>4. QED BY <1>1, <1>2, <1>3, PlainVmStep

LEMMA VmStatesKeep ==
  ASSUME IInv, NEW v \in VM,
         \/ vm_insert(v) \/ insert_end(v) \/ release_end(v) \/ vm_fail(v) \/ done_action(v)
         \/ finalize(v)
  PROVE  IInv'
<1>1. UNCHANGED <<image, calls, driver, copies, usage>> /\ vm[v].state # "HOTPLUG"
  BY DEF vm_insert, insert_end, release_end, vm_fail, done_action, finalize, Releasing
<1>2. \E s \in VmState : SetVmState(v, s)
  BY DEF vm_insert, insert_end, release_end, vm_fail, done_action, finalize, VmState
<1>3. QED BY <1>1, <1>2, VmStateKeeps

(* What is left of a VM when its save is given up.                         *)
LEMMA SavesCancelled ==
  ASSUME NEW r \in VmRecord
  PROVE  /\ ClearSaveas(r) \in VmRecord /\ ClearSaveas(r).disk = r.disk
         /\ ClearSaveas(r).attach = r.attach /\ ClearSaveas(r).save_as = r.save_as
         /\ ClearSaveas(r).hot_as = NoImage
         /\ ClearSaveas(r).state = IF r.state = "SAVEAS" THEN "RUNNING" ELSE r.state
<1> DEFINE q == cancel_saveas_disk(r)
<1>1. /\ q \in VmRecord /\ q.disk = r.disk /\ q.attach = r.attach /\ q.save_as = r.save_as
      /\ q.hot_as = NoImage /\ q.state = r.state
  <2>1. 0 \in 0..MaxDisks
    BY MaxDisksAssumption
  <2>2. q \in VmRecord
    BY <2>1 DEF cancel_saveas_disk, VmRecord
  <2>3. QED BY <2>2 DEF cancel_saveas_disk, VmRecord
<1> HIDE DEF q
<1>2. ClearSaveas(r) = [q EXCEPT !.state = IF @ = "SAVEAS" THEN "RUNNING" ELSE @]
  BY DEF ClearSaveas, q
<1>3. QED BY <1>1, <1>2 DEF VmRecord, VmState

LEMMA ClearSaveasKeeps ==
  ASSUME IInv, NEW c \in calls, clear_saveas_state(c)
  PROVE  IInv'
<1> DEFINE r == ClearSaveas(vm[c.vm])
<1>1. c.op = "CLEAR_SAVEAS" /\ c.vm \in VM /\ vm[c.vm] \in VmRecord
  BY CallParts DEF clear_saveas_state, IInv, TypeOK
<1>2. vm' = [vm EXCEPT ![c.vm] = r] /\ calls' = calls \ {c} /\ UNCHANGED <<image, driver, copies, usage>>
  BY DEF clear_saveas_state, SetVM, Goes
<1>3. /\ r \in VmRecord /\ r.disk = vm[c.vm].disk /\ r.attach = vm[c.vm].attach
      /\ r.save_as = vm[c.vm].save_as /\ r.hot_as = NoImage
      /\ r.state = IF vm[c.vm].state = "SAVEAS" THEN "RUNNING" ELSE vm[c.vm].state
  BY <1>1, SavesCancelled
<1> HIDE DEF r
<1>4. /\ calls' \subseteq CallRecord
      /\ \A d \in calls \cup calls' : d.op \in HoldOps \cup AttachOps => (d \in calls' <=> d \in calls)
  BY <1>1, <1>2 DEF HoldOps, AttachOps, IInv, TypeOK
<1>5. QED BY <1>1, <1>2, <1>3, <1>4, PlainVmStep

LEMMA SavediskKeeps ==
  ASSUME IInv, NEW v \in VM, NEW s \in Slots, NEW hot \in BOOLEAN, savedisk(v, s, hot)
  PROVE  IInv'
<1> DEFINE r == [vm[v] EXCEPT !.state = "SAVEAS", !.saving = s, !.hot = hot]
           c == Call("SAVEDISK", v, vm[v].disk[s], NoImage)
<1>1. vm[v] \in VmRecord /\ vm[v].state = "RUNNING" /\ vm[v].disk[s] \in Image /\ s \in 0..MaxDisks
  BY MaxDisksAssumption DEF savedisk, get_image_from_disk, IInv, TypeOK, VmRecord, Slots
<1>2. vm' = [vm EXCEPT ![v] = r] /\ calls' = calls \cup {c} /\ UNCHANGED <<image, driver, copies, usage>>
  BY DEF savedisk, SetVM, Starts
<1>3. /\ r \in VmRecord /\ r.disk = vm[v].disk /\ r.attach = vm[v].attach
      /\ r.save_as = vm[v].save_as /\ r.hot_as = vm[v].hot_as
  BY <1>1 DEF VmRecord, VmState
<1>4. c \in CallRecord /\ c.op = "SAVEDISK"
  BY <1>1, CallsMade DEF Call
<1> HIDE DEF r, c
<1>5. /\ calls' \subseteq CallRecord
      /\ \A d \in calls \cup calls' : d.op \in HoldOps \cup AttachOps => (d \in calls' <=> d \in calls)
      /\ \A d \in calls' : d \in calls \/ d.op \notin MakeOps
  BY <1>2, <1>4 DEF HoldOps, AttachOps, MakeOps, IInv, TypeOK
<1>6. QED BY <1>1, <1>2, <1>3, <1>5, PlainVmStep

(* The image made for a save is left to the VM, for one of its disks.      *)
LEMMA LeftToVM ==
  ASSUME IInv, NEW c \in calls, c.op = "SAVED", NEW r \in VmRecord, vm' = [vm EXCEPT ![c.vm] = r],
         NEW t \in Saves,
         \A s \in Saves : LET q == IF s = 0 THEN r.hot_as ELSE r.save_as[s] IN
                           q \in {Saved(c.vm, s), NoImage} \/ (s = t /\ q = c.image),
         UNCHANGED <<image, driver>>, calls' = calls \ {c}
  PROVE  \A k \in Image : MakersFit(k)'
<1> DEFINE v == c.vm
           i == c.image
<1>1. /\ v \in VM /\ i \in Image /\ image[i].state = "LOCKED" /\ image[i].saver \in VM
      /\ \A d \in calls : Makes(d, i) => d = c
      /\ \A p \in MakeCmds : <<p, i>> \notin driver
      /\ \A w \in VM, s \in Saves : Saved(w, s) # i
  BY MadeByCall, CallParts DEF MakeOps, IInv, TypeOK
<1> HIDE DEF v, i
<1>2. \A w \in VM, s \in Saves : (w # v => Saved(w, s)' = Saved(w, s))
                                /\ (w = v => Saved(w, s)' = IF s = 0 THEN r.hot_as ELSE r.save_as[s])
  <2> TAKE w \in VM, s \in Saves
  <2>1. vm'[v] = r /\ \A x \in VM \ {v} : vm'[x] = vm[x]
    BY <1>1, VmSet DEF v
  <2>2. QED BY <2>1 DEF Saved
<1>3. \A w \in VM, s \in Saves :
        \/ Saved(w, s)' \in {Saved(w, s), NoImage}
        \/ w = v /\ s = t /\ Saved(w, s)' = i
  BY <1>2 DEF v, i
<1>4. MakersFit(i)'
  <2>1. \A d \in calls' : ~Makes(d, i)
    BY <1>1
  <2>2. \A w \in VM, s \in Saves : Saved(w, s)' = i => w = v /\ s = t
    BY <1>1, <1>3, NullAssumption
  <2>3. OneMaker(i)' /\ MadeIsLocked(i)'
    BY <1>1, <2>1, <2>2 DEF OneMaker, MadeIsLocked, MadeForVM
  <2>4. QED BY <2>3 DEF MakersFit
<1>5. ASSUME NEW k \in Image, k # i PROVE MakersFit(k)'
  <2>1. MakersFit(k) /\ Same(image[k], image'[k])
    BY DEF IInv, Same
  <2>2. \A w \in VM, s \in Saves : Saved(w, s)' = k => Saved(w, s) = k
    BY <1>3, <1>5, NullAssumption
  <2>3. QED BY <2>1, <2>2, MakersKept
<1>6. QED BY <1>4, <1>5

LEMMA MkfsSavedKeeps ==
  ASSUME IInv, NEW c \in calls, mkfs_saved(c)
  PROVE  IInv'
<1> DEFINE v == c.vm
           i == c.image
           x == vm[c.vm]
<1>1. /\ c.op = "SAVED" /\ v \in VM /\ i \in Image /\ x \in VmRecord
      /\ UNCHANGED <<image, driver, usage>> /\ c \in CallRecord
  BY CallParts DEF mkfs_saved, IInv, TypeOK
<1>2. ASSUME calls' = calls \ {c}
      PROVE  /\ calls' \subseteq CallRecord
             /\ \A d \in calls \cup calls' : d.op \in HoldOps \cup AttachOps => (d \in calls' <=> d \in calls)
  BY <1>1, <1>2 DEF HoldOps, AttachOps, IInv, TypeOK
<1>3. CASE x.state = "SAVEAS" /\ SetVM(v, save_disk_hot(x, i)) /\ copies' = copies \cup {v} /\ Goes(c)
  <2> DEFINE r == save_disk_hot(x, i)
  <2>1. r \in VmRecord /\ r.disk = x.disk /\ r.attach = x.attach /\ r.hot_as = i /\ r.save_as = x.save_as
        /\ r.state = x.state
    BY <1>1 DEF save_disk_hot, VmRecord
  <2>2. vm' = [vm EXCEPT ![v] = r] /\ calls' = calls \ {c} /\ copies' \subseteq VM
    BY <1>1, <1>3 DEF SetVM, Goes, IInv, TypeOK
  <2> HIDE DEF r
  <2>3. \A s \in Saves : LET q == IF s = 0 THEN r.hot_as ELSE r.save_as[s] IN
                         q \in {Saved(v, s), NoImage} \/ (s = 0 /\ q = i)
    BY <2>1 DEF Saved
  <2>4. \A k \in Image : MakersFit(k)'
    <3>1. 0 \in Saves
      BY MaxDisksAssumption DEF Saves
    <3>2. QED BY <1>1, <2>1, <2>2, <2>3, <3>1, LeftToVM
  <2>5. QED BY <1>1, <1>2, <2>1, <2>2, <2>4, UnheldVmStep
<1>4. CASE x.state = "SAVEAS" /\ SetVM(v, ClearSaveas(save_disk(x, i))) /\ UNCHANGED copies /\ Goes(c)
  <2> DEFINE u == save_disk(x, i)
             r == ClearSaveas(u)
  <2>1. u \in VmRecord /\ u.disk = x.disk /\ u.attach = x.attach /\ u.state = x.state
        /\ \A s \in Slots : u.save_as[s] = IF s = x.saving THEN i ELSE x.save_as[s]
    BY <1>1 DEF save_disk, VmRecord
  <2> HIDE DEF u
  <2>2. r \in VmRecord /\ r.disk = x.disk /\ r.attach = x.attach /\ r.hot_as = NoImage
        /\ r.save_as = u.save_as /\ (x.state = "HOTPLUG" => r.state = "HOTPLUG")
    BY <2>1, SavesCancelled
  <2>3. vm' = [vm EXCEPT ![v] = r] /\ calls' = calls \ {c} /\ copies' \subseteq VM
    BY <1>4 DEF SetVM, Goes, IInv, TypeOK, u
  <2> HIDE DEF r
  <2>4. \A s \in Saves : LET q == IF s = 0 THEN r.hot_as ELSE r.save_as[s] IN
                         q \in {Saved(v, s), NoImage} \/ (s = x.saving /\ q = i)
    BY <2>1, <2>2, MaxDisksAssumption DEF Saved, Saves, Slots
  <2>5. \A k \in Image : MakersFit(k)'
    <3>1. x.saving \in Saves
      BY <1>1 DEF VmRecord, Saves
    <3>2. QED BY <1>1, <2>2, <2>3, <2>4, <3>1, LeftToVM
  <2>6. QED BY <1>1, <1>2, <2>2, <2>3, <2>5, UnheldVmStep
<1>5. CASE Becomes(c, [c EXCEPT !.op = "SAVE_FAILED"]) /\ UNCHANGED <<vm, copies>>
  <2> DEFINE d == [c EXCEPT !.op = "SAVE_FAILED"]
  <2>1. d = Call("SAVE_FAILED", v, i, NoImage)
    <3>1. c = Call("SAVED", v, i, NoImage)
      BY <1>1, CallParts
    <3>2. QED BY <3>1 DEF Call
  <2>2. d \in CallRecord /\ d.op = "SAVE_FAILED" /\ d.image = i
    <3>1. Call("SAVE_FAILED", v, i, NoImage) \in CallRecord
      BY <1>1, CallsMade
    <3>2. QED BY <2>1, <3>1 DEF Call
  <2>3. calls' = (calls \ {c}) \cup {d}
    BY <1>5 DEF Becomes
  <2> HIDE DEF d
  <2>4. /\ image[i].state = "LOCKED" /\ image[i].saver \in VM /\ image[i] \in ImageRecord
        /\ \A e \in calls : Makes(e, i) => e = c
        /\ \A p \in MakeCmds : <<p, i>> \notin driver
        /\ \A w \in VM, s \in Saves : Saved(w, s) # i
    BY <1>1, MadeByCall DEF MakeOps
  <2>5. /\ \A e \in calls' : Makes(e, i) => e = d
        /\ \A w \in VM, s \in Saves : Saved(w, s)' # i
    BY <1>5, <2>3, <2>4 DEF Saved
  <2>6. OneMaker(i)' /\ MadeIsLocked(i)'
    BY <1>1, <2>2, <2>4, <2>5 DEF OneMaker, MadeIsLocked
  <2>7. /\ calls' \subseteq CallRecord /\ copies' \subseteq VM /\ usage' \in Int /\ driver' \subseteq MakeCmds \X Image
        /\ \A e \in calls \cup calls' : e.op \in HoldOps \cup AttachOps => (e \in calls' <=> e \in calls)
        /\ \A k \in Image \ {i} : \A e \in calls' : Makes(e, k) => e \in calls
    BY <1>1, <1>5, <2>2, <2>3 DEF IInv, TypeOK, HoldOps, AttachOps, Makes
  <2>8. image' = [image EXCEPT ![i] = image[i]] /\ CountersFit(image[i])
    BY <1>1 DEF IInv, TypeOK
  <2>9. QED BY <1>1, <1>5, <2>4, <2>6, <2>7, <2>8, UnheldImageStep DEF MakersFit
<1>6. QED BY <1>3, <1>4, <1>5 DEF mkfs_saved

(* The image that a VM was saving a disk to is left to a call.             *)
LEMMA LeftToCall ==
  ASSUME IInv, NEW v \in VM, vm[v].hot_as \in Image, NEW r \in VmRecord, vm' = [vm EXCEPT ![v] = r],
         r.hot_as = NoImage, r.save_as = vm[v].save_as, NEW d \in CallRecord, d.op \in {"HOT_READY", "HOT_ERROR"},
         d.image = vm[v].hot_as, UNCHANGED <<image, driver>>, calls' = calls \cup {d}
  PROVE  \A k \in Image : MakersFit(k)'
<1>0. PICK i \in Image : i = vm[v].hot_as
  OBVIOUS
<1>1. 0 \in Saves /\ Saved(v, 0) = i
  BY <1>0, MaxDisksAssumption DEF Saves, Saved
<1>2. /\ image[i].state = "LOCKED" /\ image[i].saver \in VM
      /\ \A c \in calls : ~Makes(c, i)
      /\ \A p \in MakeCmds : <<p, i>> \notin driver
      /\ \A w \in VM, s \in Saves : Saved(w, s) = i => w = v /\ s = 0
  <2>1. MakersFit(i)
    BY <1>1 DEF IInv
  <2>2. QED BY <1>1, <2>1 DEF MakersFit, OneMaker, MadeIsLocked, MadeForVM
<1>3. \A w \in VM, s \in Saves : Saved(w, s)' = IF w = v /\ s = 0 THEN NoImage ELSE Saved(w, s)
  <2> TAKE w \in VM, s \in Saves
  <2>1. vm'[v] = r /\ \A y \in VM \ {v} : vm'[y] = vm[y]
    BY VmSet
  <2>2. QED BY <2>1 DEF Saved
<1>4. MakersFit(i)'
  <2>1. \A c \in calls' : Makes(c, i) => c = d
    BY <1>2
  <2>2. \A w \in VM, s \in Saves : Saved(w, s)' # i
    BY <1>1, <1>2, <1>3, NullAssumption
  <2>3. OneMaker(i)' /\ MadeIsLocked(i)'
    BY <1>2, <2>1, <2>2 DEF OneMaker, MadeIsLocked
  <2>4. QED BY <2>3 DEF MakersFit
<1>5. ASSUME NEW k \in Image, k # i PROVE MakersFit(k)'
  <2>1. MakersFit(k) /\ Same(image[k], image'[k])
    BY DEF IInv, Same
  <2>2. \A w \in VM, s \in Saves : Saved(w, s)' = k => Saved(w, s) = k
    BY <1>3, NullAssumption
  <2>3. \A c \in calls' : Makes(c, k) => c \in calls
    BY <1>0, <1>5 DEF Makes
  <2>4. QED BY <2>1, <2>2, <2>3, MakersKept
<1>6. QED BY <1>4, <1>5

LEMMA SaveasHotKeeps ==
  ASSUME IInv, NEW v \in VM, saveas_hot(v)
  PROVE  IInv'
<1> DEFINE x == vm[v]
           r == ClearSaveas(x)
<1>1. vm' = [vm EXCEPT ![v] = r] /\ UNCHANGED <<image, driver, usage>> /\ copies' \subseteq VM
      /\ x \in VmRecord /\ calls \subseteq CallRecord
  BY DEF saveas_hot, SetVM, IInv, TypeOK
<1>2. r \in VmRecord /\ r.disk = x.disk /\ r.attach = x.attach /\ r.hot_as = NoImage
      /\ r.save_as = x.save_as /\ (x.state = "HOTPLUG" => r.state = "HOTPLUG")
  BY <1>1, SavesCancelled
<1> HIDE DEF r
<1>3. CASE UNCHANGED calls
  <2>1. \A i \in Image : MakersFit(i)'
    <3> TAKE i \in Image
    <3>1. MakersFit(i) /\ Same(image[i], image'[i])
      BY <1>1 DEF IInv, Same
    <3>2. \A w \in VM, s \in Saves : Saved(w, s)' = i => Saved(w, s) = i
      <4> TAKE w \in VM, s \in Saves
      <4>1. vm'[v] = r /\ \A y \in VM \ {v} : vm'[y] = vm[y]
        BY <1>1, <1>2, VmSet
      <4>2. QED BY <1>2, <4>1, NullAssumption DEF Saved
    <3>3. QED BY <1>1, <1>3, <3>1, <3>2, MakersKept
  <2>2. QED BY <1>1, <1>2, <1>3, <2>1, UnheldVmStep
<1>4. ASSUME NEW op \in {"HOT_READY", "HOT_ERROR"}, x.hot_as # NoImage,
             Starts(Call(op, NoVM, x.hot_as, NoImage))
      PROVE  IInv'
  <2> DEFINE d == Call(op, NoVM, x.hot_as, NoImage)
  <2>1. x.hot_as \in Image /\ calls' = calls \cup {d}
    BY <1>1, <1>4 DEF VmRecord, Starts
  <2>2. d \in CallRecord /\ d.op = op /\ d.image = x.hot_as
    BY <2>1, CallsMade DEF Call
  <2> HIDE DEF d
  <2>3. \A i \in Image : MakersFit(i)'
    BY <1>1, <1>2, <1>4, <2>1, <2>2, LeftToCall
  <2>4. /\ calls' \subseteq CallRecord
        /\ \A c \in calls \cup calls' : c.op \in HoldOps \cup AttachOps => (c \in calls' <=> c \in calls)
    BY <1>1, <2>1, <2>2 DEF HoldOps, AttachOps
  <2>5. QED BY <1>1, <1>2, <2>3, <2>4, UnheldVmStep
<1>5. QED BY <1>3, <1>4 DEF saveas_hot

-----------------------------------------------------------------------------
(* Steps that change what VMs hold *)

LEMMA MakersStay ==
  ASSUME IInv,
         \A i \in Image : Made(i) /\ Made(i)' => Same(image[i], image'[i]),
         \A c \in calls' : c \in calls \/ c.op \notin MakeOps, UNCHANGED driver,
         \A v \in VM, s \in Saves : Saved(v, s)' \in {Saved(v, s), NoImage}
  PROVE  \A i \in Image : MakersFit(i)'
<1> TAKE i \in Image
<1>1. MakersFit(i)
  BY DEF IInv
<1>2. /\ \A c \in calls' : Makes(c, i) => c \in calls
      /\ \A v \in VM, s \in Saves : Saved(v, s)' = i => Saved(v, s) = i
  BY NullAssumption DEF Makes
<1>3. Made(i)' => Made(i)
  BY <1>2 DEF Made
<1>4. QED BY <1>1, <1>2, <1>3, MakersKept

(* What a VM holds is in use by it.                                        *)
LEMMA HeldIsUsed ==
  ASSUME IInv, NEW v \in VM, NEW i \in Image, Holds(v, i)
  PROVE  /\ image[i] \in ImageRecord /\ CountersFit(image[i]) /\ v \in image[i].vms
         /\ image[i].state \in {"USED", "USED_PERS"} /\ ~Made(i)
<1>1. image[i] \in ImageRecord /\ CountersFit(image[i]) /\ v \in image[i].vms
  BY DEF IInv, TypeOK, HoldingFits
<1>2. image[i].state \in {"USED", "USED_PERS"}
  BY <1>1 DEF CountersFit
<1>3. QED BY <1>1, <1>2, NotMade

(* One image is changed that nobody makes, and one VM.                     *)
LEMMA HeldStep ==
  ASSUME IInv, NEW j \in Image, NEW q \in ImageRecord, image' = [image EXCEPT ![j] = q],
         CountersFit(q), ~Made(j) \/ q = image[j],
         NEW v \in VM, NEW r \in VmRecord, vm' = [vm EXCEPT ![v] = r],
         r.hot_as = vm[v].hot_as, \A s \in Slots : r.save_as[s] \in {vm[v].save_as[s], NoImage},
         UNCHANGED <<driver, copies, usage>>, calls' \subseteq CallRecord,
         \A c \in calls' : c \in calls \/ c.op \notin MakeOps,
         HoldingFits'
  PROVE  IInv'
<1>1. /\ image' \in [Image -> ImageRecord] /\ image'[j] = q
      /\ \A i \in Image \ {j} : image'[i] = image[i]
  BY DEF IInv, TypeOK
<1>2. /\ vm' \in [VM -> VmRecord] /\ vm'[v] = r
      /\ \A w \in VM \ {v} : vm'[w] = vm[w]
  BY VmSet
<1>3. \A w \in VM, s \in Saves : Saved(w, s)' \in {Saved(w, s), NoImage}
  BY <1>2, MaxDisksAssumption DEF Saved, Saves, Slots
<1>4. \A i \in Image : Made(i) /\ Made(i)' => Same(image[i], image'[i])
  BY <1>1 DEF Same
<1>5. \A i \in Image : MakersFit(i)'
  BY <1>3, <1>4, MakersStay
<1>6. \A i \in Image : CountersFit(image'[i])
  BY <1>1 DEF IInv
<1>7. /\ usage' \in Int /\ copies' \subseteq VM /\ driver' \subseteq MakeCmds \X Image
      /\ driver' \subseteq {"CP", "MKFS", "CLONE", "RM"} \X Image
  BY DEF IInv, TypeOK
<1>8. QED BY <1>1, <1>2, <1>5, <1>6, <1>7 DEF IInv, TypeOK, CountersFit

(* The first free disk of a VM.                                            *)
LEMMA FirstFree ==
  ASSUME NEW v \in VM, FreeSlots(v) # {}
  PROVE  (CHOOSE x \in FreeSlots(v) : \A y \in FreeSlots(v) : x <= y) \in FreeSlots(v)
<1> DEFINE Less == {p \in Nat \X Nat : p[1] < p[2]}
           S == FreeSlots(v)
<1>1. S \subseteq Nat
  BY MaxDisksAssumption DEF FreeSlots, Slots
<1>2. IsWellFoundedOn(Less, Nat)
  BY NatLessThanWellFounded DEF OpToRel
<1> HIDE DEF Less, S
<1>3. S # {}
  BY DEF S
<1>4. PICK b \in S : \A c \in S : <<c, b>> \notin Less
  BY <1>1, <1>2, <1>3, WFMin
<1>5. \A c \in S : ~ c < b
  BY <1>1, <1>4 DEF Less
<1>6. \E x \in S : \A y \in S : x <= y
  BY <1>1, <1>4, <1>5
<1>7. QED BY <1>6 DEF S

(* A record of a VM with another image as a disk.                          *)
LEMMA PutRecord ==
  ASSUME IInv, NEW v \in VM, NEW s \in Slots, NEW i \in Image \cup {NoImage}
  PROVE  /\ vm[v] \in VmRecord /\ Put(v, s, i) \in VmRecord
         /\ \A t \in Slots : Put(v, s, i).disk[t] = IF t = s THEN i ELSE vm[v].disk[t]
         /\ Put(v, s, i).save_as = vm[v].save_as /\ Put(v, s, i).hot_as = vm[v].hot_as
         /\ Put(v, s, i).attach = vm[v].attach /\ Put(v, s, i).state = vm[v].state
<1>1. vm[v] \in VmRecord
  BY DEF IInv, TypeOK
<1>2. QED BY <1>1 DEF Put, VmRecord

(* The calls of an attach, and those that hold an image.                   *)
LEMMA HoldCalls ==
  ASSUME IInv, NEW c \in calls, c.op \in HoldOps \cup AttachOps
  PROVE  /\ c \in CallRecord /\ c.vm \in VM /\ c.image \in Image /\ c.other = NoImage
         /\ c = Call(c.op, c.vm, c.image, NoImage)
         /\ c.op \in HoldOps => Holds(c.vm, c.image)
<1>1. c \in CallRecord
  BY DEF IInv, TypeOK
<1>2. c.vm \in VM /\ c.image \in Image /\ c.other = NoImage /\ c = Call(c.op, c.vm, c.image, c.other)
  BY <1>1, CallParts DEF HoldOps, AttachOps
<1>3. c.op \in HoldOps => Holds(c.vm, c.image)
  BY DEF Holds, HoldOps
<1>4. QED BY <1>1, <1>2, <1>3

LEMMA InsertDiskKeeps ==
  ASSUME Careful, IInv, NEW v \in VM, NEW i \in Image, insert_disk(v, i)
  PROVE  IInv'
<1>1. /\ vm[v].state = "INSERT" /\ FreeSlots(v) # {} /\ ~Holds(v, i)
      /\ UNCHANGED <<calls, driver, copies, usage>>
      /\ image[i] \in ImageRecord /\ CountersFit(image[i])
  BY DEF insert_disk, MayUse, Careful, IInv, TypeOK
<1>2. CASE SetVmState(v, "ROLLBACK") /\ UNCHANGED image
  BY <1>1, <1>2, VmStateKeeps DEF VmState
<1>3. ASSUME NEW s \in FreeSlots(v), CanAcquire(image[i]),
             SetImage(i, Acquired(image[i], v)), SetVM(v, Put(v, s, i))
      PROVE  IInv'
  <2> DEFINE q == Acquired(image[i], v)
             r == Put(v, s, i)
  <2>1. q \in ImageRecord /\ CountersFit(q) /\ q.vms = image[i].vms \cup {v}
    BY <1>1, <1>3, AcquiredFits
  <2>2. s \in Slots /\ vm[v].disk[s] = NoImage
    BY DEF FreeSlots
  <2>3. /\ r \in VmRecord /\ \A t \in Slots : r.disk[t] = IF t = s THEN i ELSE vm[v].disk[t]
        /\ r.save_as = vm[v].save_as /\ r.hot_as = vm[v].hot_as /\ r.attach = vm[v].attach
        /\ r.state = "INSERT"
    BY <1>1, <2>2, PutRecord
  <2>4. image' = [image EXCEPT ![i] = q] /\ vm' = [vm EXCEPT ![v] = r]
    BY <1>3 DEF SetImage, SetVM
  <2> HIDE DEF q, r
  <2>5. vm'[v] = r /\ \A w \in VM \ {v} : vm'[w] = vm[w]
    BY <2>3, <2>4, VmSet
  <2>6. image'[i] = q /\ \A k \in Image \ {i} : image'[k] = image[k]
    BY <2>1, <2>4 DEF IInv, TypeOK
  <2>7. \A w \in VM, k \in Image : Holds(w, k)' <=> Holds(w, k) \/ (w = v /\ k = i)
    <3> TAKE w \in VM, k \in Image
    <3>1. CASE w = v
      <4>1. i \in Disks(v)'
        BY <2>2, <2>3, <2>5, NullAssumption DEF Disks
      <4>2. k # i => (k \in Disks(v)' <=> k \in Disks(v))
        BY <2>2, <2>3, <2>5, NullAssumption DEF Disks
      <4>3. QED BY <1>1, <3>1, <4>1, <4>2 DEF Holds
    <3>2. CASE w # v
      BY <1>1, <2>5, <3>2 DEF Holds, Disks
    <3>3. QED BY <3>1, <3>2
  <2>8. \A k \in Image, w \in VM : w \in image'[k].vms <=> Holds(w, k)'
    BY <2>1, <2>6, <2>7 DEF IInv, HoldingFits
  <2>9. HeldOnce'
    <3>1. \A t \in Slots : vm[v].disk[t] # i
      BY <1>1, NullAssumption DEF Holds, Disks
    <3>2. \A w \in VM, t, u \in Slots :
            vm'[w].disk[t] = vm'[w].disk[u] /\ vm'[w].disk[t] # NoImage => t = u
      BY <2>3, <2>5, <3>1 DEF IInv, HoldingFits, HeldOnce
    <3>3. \A c \in calls' : c.op \in HoldOps =>
            /\ \A t \in Slots : vm'[c.vm].disk[t] # c.image
            /\ \A d \in calls' : d.op \in HoldOps /\ d.vm = c.vm /\ d.image = c.image => d = c
      <4> SUFFICES ASSUME NEW c \in calls, c.op \in HoldOps
                   PROVE  /\ \A t \in Slots : vm'[c.vm].disk[t] # c.image
                          /\ \A d \in calls : d.op \in HoldOps /\ d.vm = c.vm /\ d.image = c.image => d = c
        BY <1>1
      <4>1. c.vm \in VM /\ c.image \in Image /\ (c.vm = v => c.image # i)
        BY <1>1, HoldCalls
      <4>2. QED BY <2>3, <2>5, <4>1 DEF IInv, HoldingFits, HeldOnce
    <3>4. QED BY <3>2, <3>3 DEF HeldOnce
  <2>10. AttachAlone'
    <3>1. vm[v].attach = 0 /\ \A c \in calls : c.op \in AttachOps => c.vm \in VM \ {v} /\ c.image \in Image
      BY <1>1, HoldCalls DEF IInv, HoldingFits, AttachAlone
    <3>2. \A c \in calls' : c.op = "ATTACH" => ~Holds(c.vm, c.image)'
      BY <1>1, <2>7, <3>1 DEF IInv, HoldingFits, AttachAlone, AttachOps
    <3>3. \A c \in calls' : c.op \in AttachOps =>
            /\ vm'[c.vm].state = "HOTPLUG" /\ vm'[c.vm].attach = 0
            /\ \A d \in calls' : d.op \in AttachOps /\ d.vm = c.vm => d = c
      BY <1>1, <2>5, <3>1 DEF IInv, HoldingFits, AttachAlone
    <3>4. \A w \in VM : vm'[w].attach # 0 =>
            vm'[w].state = "HOTPLUG" /\ vm'[w].disk[vm'[w].attach] # NoImage
      BY <2>3, <2>5, <3>1 DEF IInv, HoldingFits, AttachAlone
    <3>5. QED BY <3>2, <3>3, <3>4 DEF AttachAlone
  <2>11. HoldingFits'
    BY <2>8, <2>9, <2>10 DEF HoldingFits
  <2>12. ~Made(i)
    BY <1>3, NotMade DEF CanAcquire
  <2>13. calls' \subseteq CallRecord
    BY <1>1 DEF IInv, TypeOK
  <2>14. QED BY <1>1, <2>1, <2>3, <2>4, <2>11, <2>12, <2>13, HeldStep
<1>4. QED BY <1>1, <1>2, <1>3, FirstFree DEF insert_disk

LEMMA ReleasedDisk ==
  ASSUME IInv, NEW v \in VM, NEW s \in Slots, vm[v].disk[s] # NoImage, NEW failed \in BOOLEAN,
         vm[v].state # "HOTPLUG", UNCHANGED <<calls, driver, copies, usage>>,
         SetImage(vm[v].disk[s], Released(image[vm[v].disk[s]], v, failed)),
         SetVM(v, Put(v, s, NoImage))
  PROVE  IInv'
<1>0. vm[v] \in VmRecord
  BY DEF IInv, TypeOK
<1>1. PICK i \in Image : i = vm[v].disk[s]
  BY <1>0 DEF VmRecord
<1> DEFINE q == Released(image[i], v, failed)
           r == Put(v, s, NoImage)
<1>2. Holds(v, i)
  BY <1>1, NullAssumption DEF Holds, Disks
<1>3. image[i] \in ImageRecord /\ v \in image[i].vms /\ ~Made(i) /\ CountersFit(image[i])
  BY <1>2, HeldIsUsed
<1>4. q \in ImageRecord /\ CountersFit(q) /\ q.vms = image[i].vms \ {v}
  BY <1>3, ReleasedFits
<1>5. /\ r \in VmRecord /\ \A t \in Slots : r.disk[t] = IF t = s THEN NoImage ELSE vm[v].disk[t]
      /\ r.save_as = vm[v].save_as /\ r.hot_as = vm[v].hot_as /\ r.attach = vm[v].attach
      /\ r.state = vm[v].state
  BY PutRecord
<1>6. image' = [image EXCEPT ![i] = q] /\ vm' = [vm EXCEPT ![v] = r]
  BY <1>1 DEF SetImage, SetVM
<1> HIDE DEF q, r
<1>7. vm'[v] = r /\ \A w \in VM \ {v} : vm'[w] = vm[w]
  BY <1>5, <1>6, VmSet
<1>8. image'[i] = q /\ \A k \in Image \ {i} : image'[k] = image[k]
  BY <1>4, <1>6 DEF IInv, TypeOK
<1>9. \A t \in Slots : t # s => vm[v].disk[t] # i
  BY <1>1, NullAssumption DEF IInv, HoldingFits, HeldOnce
<1>10. \A w \in VM, k \in Image : Holds(w, k)' <=> Holds(w, k) /\ ~(w = v /\ k = i)
  <2> TAKE w \in VM, k \in Image
  <2>1. CASE w = v
    <3>1. i \notin Disks(v)'
      BY <1>5, <1>7, <1>9, NullAssumption DEF Disks
    <3>2. k # i => (k \in Disks(v)' <=> k \in Disks(v))
      BY <1>1, <1>5, <1>7, NullAssumption DEF Disks
    <3>3. \A c \in calls : c.op \in HoldOps /\ c.vm = v => c.image # i
      BY <1>1 DEF IInv, HoldingFits, HeldOnce
    <3>4. QED BY <2>1, <3>1, <3>2, <3>3 DEF Holds, HoldOps
  <2>2. CASE w # v
    BY <1>7, <2>2 DEF Holds, Disks
  <2>3. QED BY <2>1, <2>2
<1>11. \A k \in Image, w \in VM : w \in image'[k].vms <=> Holds(w, k)'
  BY <1>4, <1>8, <1>10 DEF IInv, HoldingFits
<1>12. HeldOnce'
  <2>1. \A w \in VM, t, u \in Slots :
          vm'[w].disk[t] = vm'[w].disk[u] /\ vm'[w].disk[t] # NoImage => t = u
    BY <1>5, <1>7 DEF IInv, HoldingFits, HeldOnce
  <2>2. \A c \in calls' : c.op \in HoldOps =>
          /\ \A t \in Slots : vm'[c.vm].disk[t] # c.image
          /\ \A d \in calls' : d.op \in HoldOps /\ d.vm = c.vm /\ d.image = c.image => d = c
    <3> SUFFICES ASSUME NEW c \in calls, c.op \in HoldOps
                 PROVE  /\ \A t \in Slots : vm'[c.vm].disk[t] # c.image
                        /\ \A d \in calls : d.op \in HoldOps /\ d.vm = c.vm /\ d.image = c.image => d = c
      OBVIOUS
    <3>1. c.vm \in VM /\ c.image \in Image
      BY HoldCalls
    <3>2. QED BY <1>5, <1>7, <3>1, NullAssumption DEF IInv, HoldingFits, HeldOnce
  <2>3. QED BY <2>1, <2>2 DEF HeldOnce
<1>13. AttachAlone'
  <2>1. vm[v].attach = 0 /\ \A c \in calls : c.op \in AttachOps => c.vm \in VM \ {v} /\ c.image \in Image
    BY HoldCalls DEF IInv, HoldingFits, AttachAlone
  <2>2. \A c \in calls' : c.op = "ATTACH" => ~Holds(c.vm, c.image)'
    BY <1>10, <2>1 DEF IInv, HoldingFits, AttachAlone, AttachOps
  <2>3. \A c \in calls' : c.op \in AttachOps =>
          /\ vm'[c.vm].state = "HOTPLUG" /\ vm'[c.vm].attach = 0
          /\ \A d \in calls' : d.op \in AttachOps /\ d.vm = c.vm => d = c
    BY <1>7, <2>1 DEF IInv, HoldingFits, AttachAlone
  <2>4. \A w \in VM : vm'[w].attach # 0 =>
          vm'[w].state = "HOTPLUG" /\ vm'[w].disk[vm'[w].attach] # NoImage
    BY <1>5, <1>7, <2>1 DEF IInv, HoldingFits, AttachAlone
  <2>5. QED BY <2>2, <2>3, <2>4 DEF AttachAlone
<1>14. HoldingFits'
  BY <1>11, <1>12, <1>13 DEF HoldingFits
<1>15. calls' \subseteq CallRecord
  BY DEF IInv, TypeOK
<1>16. QED BY <1>3, <1>4, <1>5, <1>6, <1>14, <1>15, HeldStep

(* The image a disk should have been saved to, but nobody did.             *)
LEMMA ReleasedSave ==
  ASSUME IInv, NEW v \in VM, NEW s \in Slots, vm[v].save_as[s] # NoImage, NEW failed \in BOOLEAN,
         UNCHANGED <<calls, driver, copies, usage>>,
         SetImage(vm[v].save_as[s], Released(image[vm[v].save_as[s]], v, failed)),
         SetVM(v, [vm[v] EXCEPT !.save_as[s] = NoImage])
  PROVE  IInv'
<1>0. vm[v] \in VmRecord
  BY DEF IInv, TypeOK
<1>1. PICK i \in Image : i = vm[v].save_as[s]
  BY <1>0 DEF VmRecord
<1> DEFINE q == Released(image[i], v, failed)
           r == [vm[v] EXCEPT !.save_as[s] = NoImage]
<1>2. s \in Saves /\ s # 0 /\ Saved(v, s) = i
  BY <1>1, MaxDisksAssumption DEF Slots, Saves, Saved
<1>3. MakersFit(i) /\ image[i] \in ImageRecord /\ CountersFit(image[i])
  BY DEF IInv, TypeOK
<1>4. /\ image[i].state = "LOCKED" /\ image[i].saver \in VM
      /\ \A c \in calls : ~Makes(c, i)
      /\ \A p \in MakeCmds : <<p, i>> \notin driver
      /\ \A w \in VM, t \in Saves : Saved(w, t) = i => w = v /\ t = s
  BY <1>2, <1>3 DEF MakersFit, OneMaker, MadeIsLocked, MadeForVM
<1>5. q \in ImageRecord /\ CountersFit(q) /\ q.vms = image[i].vms
  BY <1>3, <1>4, SavedFits
<1>6. /\ r \in VmRecord /\ r.disk = vm[v].disk /\ r.hot_as = vm[v].hot_as
      /\ r.attach = vm[v].attach /\ r.state = vm[v].state
      /\ \A t \in Slots : r.save_as[t] = IF t = s THEN NoImage ELSE vm[v].save_as[t]
  BY <1>0 DEF VmRecord
<1>7. image' = [image EXCEPT ![i] = q] /\ vm' = [vm EXCEPT ![v] = r]
  BY <1>1 DEF SetImage, SetVM
<1> HIDE DEF q, r
<1>8. /\ vm' \in [VM -> VmRecord] /\ vm'[v] = r /\ \A w \in VM \ {v} : vm'[w] = vm[w]
      /\ \A w \in VM \ {v}, t \in Saves : Saved(w, t)' = Saved(w, t)
      /\ \A t \in Saves : Saved(v, t)' = IF t = 0 THEN r.hot_as ELSE r.save_as[t]
  BY <1>6, <1>7, VmSet
<1>9. /\ image' \in [Image -> ImageRecord] /\ image'[i] = q
      /\ \A k \in Image \ {i} : image'[k] = image[k]
  BY <1>5, <1>7 DEF IInv, TypeOK
<1>10. \A w \in VM, t \in Saves : Saved(w, t)' = IF w = v /\ t = s THEN NoImage ELSE Saved(w, t)
  <2> TAKE w \in VM, t \in Saves
  <2>1. CASE w = v
    <3>1. t = 0 \/ t \in Slots
      BY MaxDisksAssumption DEF Saves, Slots
    <3>2. QED BY <1>2, <1>6, <1>8, <2>1, <3>1 DEF Saved
  <2>2. CASE w # v
    BY <1>8, <2>2
  <2>3. QED BY <2>1, <2>2
<1>11. ~Made(i)'
  BY <1>4, <1>10, NullAssumption DEF Made
<1>12. \A k \in Image : MakersFit(k)'
  <2>1. \A k \in Image : Made(k) /\ Made(k)' => Same(image[k], image'[k])
    BY <1>9, <1>11 DEF Same
  <2>2. \A w \in VM, t \in Saves : Saved(w, t)' \in {Saved(w, t), NoImage}
    BY <1>10
  <2>3. QED BY <2>1, <2>2, MakersStay
<1>13. /\ \A k \in Image : image'[k].vms = image[k].vms /\ CountersFit(image'[k])
       /\ driver' \subseteq MakeCmds \X Image /\ usage' \in Int /\ copies' \subseteq VM
       /\ calls' \subseteq CallRecord
  BY <1>5, <1>9 DEF IInv, TypeOK
<1>14. /\ \A w \in VM : vm'[w].disk = vm[w].disk /\ vm'[w].attach = vm[w].attach
       /\ \A w \in VM : vm[w].state = "HOTPLUG" => vm'[w].state = "HOTPLUG"
  BY <1>6, <1>8
<1>15. QED BY <1>8, <1>9, <1>12, <1>13, <1>14, UnheldStep

LEMMA ReleaseDiskKeeps ==
  ASSUME IInv, NEW v \in VM, release_disk(v)
  PROVE  IInv'
<1>1. vm[v].state # "HOTPLUG" /\ FailedRelease(v) \in BOOLEAN /\ UNCHANGED <<calls, driver, copies, usage>>
  BY DEF release_disk, Releasing, FailedRelease
<1>2. QED BY <1>1, ReleasedDisk, ReleasedSave DEF release_disk

(* A step that leaves the disks as they are, and the calls that hold.      *)
LEMMA MarkStep ==
  ASSUME IInv, NEW v \in VM, NEW r \in VmRecord, vm' = [vm EXCEPT ![v] = r], r.disk = vm[v].disk,
         UNCHANGED <<image, driver, usage>>, copies' \subseteq VM, calls' \subseteq CallRecord,
         \A c \in calls \cup calls' : c.op \in HoldOps => (c \in calls' <=> c \in calls),
         \A c \in calls' : c.op \in AttachOps /\ c.vm # v => c \in calls,
         \A c \in calls' : c.op \in AttachOps /\ c.vm = v =>
           /\ r.state = "HOTPLUG" /\ r.attach = 0
           /\ \A d \in calls' : d.op \in AttachOps /\ d.vm = v => d = c
           /\ c.op = "ATTACH" => ~Holds(v, c.image),
         r.attach # 0 => r.state = "HOTPLUG" /\ vm[v].disk[r.attach] # NoImage,
         \A i \in Image : MakersFit(i)'
  PROVE  IInv'
<1>1. /\ vm' \in [VM -> VmRecord] /\ vm'[v] = r
      /\ \A w \in VM \ {v} : vm'[w] = vm[w]
      /\ \A w \in VM : vm'[w].disk = vm[w].disk
  BY VmSet
<1>2. \A c : c.op \in HoldOps => (c \in calls' <=> c \in calls)
  OBVIOUS
<1>3. \A w \in VM, i \in Image : Holds(w, i)' <=> Holds(w, i)
  BY <1>1, <1>2 DEF Holds, Disks, HoldOps
<1>4. HeldOnce'
  <2>1. \A c \in calls : c.op \in HoldOps => c.vm \in VM /\ c.image \in Image
    BY HoldCalls
  <2>2. QED BY <1>1, <1>2, <2>1 DEF IInv, HoldingFits, HeldOnce
<1>5. AttachAlone'
  <2>1. \A c \in calls' : c.op \in AttachOps => c.vm \in VM /\ c.image \in Image
    BY CallParts
  <2>2. ASSUME NEW c \in calls', c.op \in AttachOps
        PROVE  /\ vm'[c.vm].state = "HOTPLUG" /\ vm'[c.vm].attach = 0
               /\ \A d \in calls' : d.op \in AttachOps /\ d.vm = c.vm => d = c
               /\ c.op = "ATTACH" => ~Holds(c.vm, c.image)
    <3>1. CASE c.vm = v
      BY <1>1, <2>2, <3>1
    <3>2. CASE c.vm # v
      <4>1. c \in calls /\ \A d \in calls' : d.op \in AttachOps /\ d.vm = c.vm => d \in calls
        BY <2>2, <3>2
      <4>2. vm'[c.vm] = vm[c.vm]
        BY <1>1, <2>1, <2>2, <3>2
      <4>3. QED BY <2>2, <4>1, <4>2 DEF IInv, HoldingFits, AttachAlone
    <3>3. QED BY <3>1, <3>2
  <2>3. \A c \in calls' : c.op = "ATTACH" => ~Holds(c.vm, c.image)'
    BY <1>3, <2>1, <2>2 DEF AttachOps
  <2>4. \A w \in VM : vm'[w].attach # 0 =>
          vm'[w].state = "HOTPLUG" /\ vm'[w].disk[vm'[w].attach] # NoImage
    BY <1>1 DEF IInv, HoldingFits, AttachAlone
  <2>5. QED BY <2>2, <2>3, <2>4 DEF AttachAlone
<1>6. HoldingFits'
  BY <1>3, <1>4, <1>5 DEF IInv, HoldingFits
<1>7. QED BY <1>1, <1>6 DEF IInv, TypeOK, CountersFit

LEMMA PlainMarkStep ==
  ASSUME IInv, NEW v \in VM, NEW r \in VmRecord, vm' = [vm EXCEPT ![v] = r], r.disk = vm[v].disk,
         r.save_as = vm[v].save_as, r.hot_as \in {vm[v].hot_as, NoImage},
         UNCHANGED <<image, driver, copies, usage>>, calls' \subseteq CallRecord,
         \A c \in calls \cup calls' : c.op \in HoldOps => (c \in calls' <=> c \in calls),
         \A c \in calls' : c \in calls \/ c.op \notin MakeOps,
         \A c \in calls' : c.op \in AttachOps /\ c.vm # v => c \in calls,
         \A c \in calls' : c.op \in AttachOps /\ c.vm = v =>
           /\ r.state = "HOTPLUG" /\ r.attach = 0
           /\ \A d \in calls' : d.op \in AttachOps /\ d.vm = v => d = c
           /\ c.op = "ATTACH" => ~Holds(v, c.image),
         r.attach # 0 => r.state = "HOTPLUG" /\ vm[v].disk[r.attach] # NoImage
  PROVE  IInv'
<1>1. \A w \in VM, s \in Saves : Saved(w, s)' \in {Saved(w, s), NoImage}
  <2> TAKE w \in VM, s \in Saves
  <2>1. vm'[v] = r /\ \A y \in VM \ {v} : vm'[y] = vm[y]
    BY VmSet
  <2>2. QED BY <2>1 DEF Saved
<1>2. \A i \in Image : MakersFit(i)'
  <2>1. \A i \in Image : Same(image[i], image'[i])
    BY DEF Same
  <2>2. QED BY <1>1, <2>1, MakersStay
<1>3. copies' \subseteq VM
  BY DEF IInv, TypeOK
<1>4. QED BY <1>2, <1>3, MarkStep

LEMMA VmEndKeeps ==
  ASSUME Careful, IInv, NEW v \in VM, vm_end(v)
  PROVE  IInv'
<1> DEFINE x == vm[v]
           r == clear_attach_disk(cancel_saveas_disk([x EXCEPT !.state = "ENDING"]))
<1>1. /\ vm' = [vm EXCEPT ![v] = r] /\ UNCHANGED <<image, driver, copies, usage>>
      /\ x \in VmRecord /\ calls \subseteq CallRecord /\ copies \subseteq VM
      /\ \A c \in calls : c.op \in AttachOps => c.vm # v
  BY DEF vm_end, SetVM, Attaching, Careful, IInv, TypeOK
<1>2. /\ r \in VmRecord /\ r.disk = x.disk /\ r.attach = 0 /\ r.hot_as = NoImage
      /\ r.save_as = x.save_as
  <2>1. 0 \in 0..MaxDisks /\ "ENDING" \in VmState
    BY MaxDisksAssumption DEF VmState
  <2>2. QED BY <1>1, <2>1 DEF VmRecord, clear_attach_disk, cancel_saveas_disk
<1> HIDE DEF r
<1>3. CASE UNCHANGED calls
  BY <1>1, <1>2, <1>3, PlainMarkStep
<1>4. ASSUME x.hot_as # NoImage, Starts(Call("HOT_ERROR", NoVM, x.hot_as, NoImage))
      PROVE  IInv'
  <2> DEFINE d == Call("HOT_ERROR", NoVM, x.hot_as, NoImage)
  <2>1. x.hot_as \in Image /\ calls' = calls \cup {d}
    BY <1>1, <1>4 DEF VmRecord, Starts
  <2>2. d \in CallRecord /\ d.op = "HOT_ERROR" /\ d.image = x.hot_as
    BY <2>1, CallsMade DEF Call
  <2> HIDE DEF d
  <2>3. \A i \in Image : MakersFit(i)'
    BY <1>1, <1>2, <1>4, <2>1, <2>2, LeftToCall
  <2>4. /\ calls' \subseteq CallRecord
        /\ \A c \in calls \cup calls' : c.op \in HoldOps => (c \in calls' <=> c \in calls)
        /\ \A c \in calls' : c.op \in AttachOps => c \in calls /\ c.vm # v
    BY <1>1, <2>1, <2>2 DEF HoldOps, AttachOps
  <2>5. QED BY <1>1, <1>2, <2>3, <2>4, MarkStep
<1>5. QED BY <1>3, <1>4 DEF vm_end

(* A VM that an attach or a detach is not busy with.                       *)
LEMMA NotAttaching ==
  ASSUME IInv, NEW v \in VM, vm[v].state # "HOTPLUG" \/ vm[v].attach # 0
  PROVE  /\ \A c \in calls : c.op \in AttachOps => c.vm # v
         /\ vm[v].state # "HOTPLUG" => vm[v].attach = 0
BY DEF IInv, HoldingFits, AttachAlone

LEMMA AttachKeeps ==
  ASSUME Careful, IInv, NEW v \in VM, NEW i \in Image, attach(v, i)
  PROVE  IInv'
<1> DEFINE r == [vm[v] EXCEPT !.state = "HOTPLUG"]
           d == Call("ATTACH", v, i, NoImage)
<1>1. /\ vm[v] \in VmRecord /\ vm[v].state = "RUNNING" /\ ~Holds(v, i)
      /\ UNCHANGED <<image, driver, copies, usage>> /\ calls \subseteq CallRecord
  BY DEF attach, MayUse, Careful, IInv, TypeOK
<1>2. vm' = [vm EXCEPT ![v] = r] /\ calls' = calls \cup {d}
  BY DEF attach, SetVmState, Starts, IInv, TypeOK
<1>3. /\ r \in VmRecord /\ r.disk = vm[v].disk /\ r.attach = vm[v].attach /\ r.state = "HOTPLUG"
      /\ r.save_as = vm[v].save_as /\ r.hot_as = vm[v].hot_as
  BY <1>1 DEF VmRecord, VmState
<1>4. d \in CallRecord /\ d.op = "ATTACH" /\ d.vm = v /\ d.image = i
  BY CallsMade DEF Call, AttachOps
<1> HIDE DEF r, d
<1>5. r.attach = 0 /\ \A c \in calls : c.op \in AttachOps => c.vm # v
  BY <1>1, <1>3, NotAttaching
<1>6. /\ calls' \subseteq CallRecord
      /\ \A c \in calls \cup calls' : c.op \in HoldOps => (c \in calls' <=> c \in calls)
      /\ \A c \in calls' : c \in calls \/ c.op \notin MakeOps
      /\ \A c \in calls' : c.op \in AttachOps /\ c.vm # v => c \in calls
      /\ \A c \in calls' : c.op \in AttachOps /\ c.vm = v => c = d
  BY <1>1, <1>2, <1>4, <1>5 DEF HoldOps, MakeOps
<1>7. \A c \in calls' : c.op \in AttachOps /\ c.vm = v =>
        /\ r.state = "HOTPLUG" /\ r.attach = 0
        /\ \A e \in calls' : e.op \in AttachOps /\ e.vm = v => e = c
        /\ c.op = "ATTACH" => ~Holds(v, c.image)
  <2> SUFFICES ASSUME NEW c \in calls', c.op \in AttachOps, c.vm = v
               PROVE  /\ \A e \in calls' : e.op \in AttachOps /\ e.vm = v => e = c
                      /\ ~Holds(v, c.image)
    BY <1>3, <1>5
  <2>1. c = d
    BY <1>6
  <2>2. QED BY <1>1, <1>4, <1>6, <2>1
<1>8. QED BY <1>1, <1>2, <1>3, <1>5, <1>6, <1>7, PlainMarkStep

LEMMA AttachRefusedKeeps ==
  ASSUME IInv, NEW c \in calls, attach_refused(c)
  PROVE  IInv'
<1> DEFINE v == c.vm
           r == SetsRunning(vm[c.vm])
<1>1. /\ c.op = "ATTACH_REFUSED" /\ v \in VM /\ vm[v] \in VmRecord /\ calls \subseteq CallRecord
      /\ UNCHANGED <<image, driver, copies, usage>>
  BY HoldCalls DEF attach_refused, AttachOps, IInv, TypeOK
<1>2. vm' = [vm EXCEPT ![v] = r] /\ calls' = calls \ {c}
  BY DEF attach_refused, SetVM, Goes
<1>3. /\ r \in VmRecord /\ r.disk = vm[v].disk /\ r.attach = vm[v].attach
      /\ r.save_as = vm[v].save_as /\ r.hot_as = vm[v].hot_as
  BY <1>1 DEF VmRecord, VmState, SetsRunning
<1> HIDE DEF r
<1>4. vm[v].attach = 0 /\ \A d \in calls : d.op \in AttachOps /\ d.vm = v => d = c
  BY <1>1 DEF IInv, HoldingFits, AttachAlone, AttachOps
<1>5. /\ calls' \subseteq CallRecord
      /\ \A d \in calls \cup calls' : d.op \in HoldOps => (d \in calls' <=> d \in calls)
      /\ \A d \in calls' : d \in calls
      /\ \A d \in calls' : d.op \in AttachOps => d.vm # v
  BY <1>1, <1>2, <1>4 DEF HoldOps
<1>6. QED BY <1>1, <1>2, <1>3, <1>4, <1>5, PlainMarkStep

LEMMA DetachKeeps ==
  ASSUME IInv, NEW v \in VM, NEW s \in Slots, detach(v, s)
  PROVE  IInv'
<1> DEFINE r == set_attach_disk([vm[v] EXCEPT !.state = "HOTPLUG"], s)
<1>1. /\ vm[v] \in VmRecord /\ vm[v].state = "RUNNING" /\ vm[v].disk[s] # NoImage
      /\ UNCHANGED <<image, calls, driver, copies, usage>> /\ calls \subseteq CallRecord
      /\ vm' = [vm EXCEPT ![v] = r] /\ s \in 0..MaxDisks
  BY MaxDisksAssumption DEF detach, SetVM, IInv, TypeOK, Slots
<1>2. /\ r \in VmRecord /\ r.disk = vm[v].disk /\ r.attach = s /\ r.state = "HOTPLUG"
      /\ r.save_as = vm[v].save_as /\ r.hot_as = vm[v].hot_as
  BY <1>1 DEF VmRecord, VmState, set_attach_disk
<1> HIDE DEF r
<1>3. \A c \in calls : c.op \in AttachOps => c.vm # v
  BY <1>1, NotAttaching
<1>4. QED BY <1>1, <1>2, <1>3, PlainMarkStep

LEMMA AttachSuccessKeeps ==
  ASSUME IInv, NEW v \in VM, attach_success(v)
  PROVE  IInv'
<1> DEFINE r == clear_attach_disk([vm[v] EXCEPT !.state = "RUNNING"])
<1>1. /\ vm[v] \in VmRecord /\ vm[v].attach # 0 /\ calls \subseteq CallRecord
      /\ UNCHANGED <<image, calls, driver, copies, usage>> /\ vm' = [vm EXCEPT ![v] = r]
  BY DEF attach_success, SetVM, IInv, TypeOK
<1>2. /\ r \in VmRecord /\ r.disk = vm[v].disk /\ r.attach = 0
      /\ r.save_as = vm[v].save_as /\ r.hot_as = vm[v].hot_as
  <2>1. 0 \in 0..MaxDisks /\ "RUNNING" \in VmState
    BY MaxDisksAssumption DEF VmState
  <2>2. QED BY <1>1, <2>1 DEF VmRecord, clear_attach_disk
<1> HIDE DEF r
<1>3. \A c \in calls : c.op \in AttachOps => c.vm # v
  BY <1>1, NotAttaching
<1>4. QED BY <1>1, <1>2, <1>3, PlainMarkStep

(* The second half of an attach takes the image, which its VM does not     *)
(* hold yet.                                                               *)
LEMMA AttachTakes ==
  ASSUME IInv, NEW c \in calls, c.op = "ATTACH", CanAcquire(image[c.image]),
         SetImage(c.image, Acquired(image[c.image], c.vm)),
         NEW op \in {"ATTACH_SET", "ATTACH_BACK"}, Becomes(c, [c EXCEPT !.op = op]),
         UNCHANGED <<vm, driver, copies, usage>>
  PROVE  IInv'
<1> DEFINE d == [c EXCEPT !.op = op]
           q == Acquired(image[c.image], c.vm)
<1>1. /\ c \in CallRecord /\ c.vm \in VM /\ c.image \in Image
      /\ c = Call("ATTACH", c.vm, c.image, NoImage)
  BY HoldCalls DEF AttachOps
<1>2. PICK v \in VM, i \in Image : c.vm = v /\ c.image = i
  BY <1>1
<1>3. d = Call(op, v, i, NoImage)
  BY <1>1, <1>2 DEF Call
<1>4. d \in CallRecord /\ d.op = op /\ d.vm = v /\ d.image = i
  <2>1. Call(op, v, i, NoImage) \in CallRecord
    BY CallsMade DEF AttachOps
  <2>2. QED BY <1>3, <2>1 DEF Call
<1>5. calls' = (calls \ {c}) \cup {d}
  BY DEF Becomes
<1>6. /\ q \in ImageRecord /\ CountersFit(q) /\ q.vms = image[i].vms \cup {v}
      /\ image' = [image EXCEPT ![i] = q] /\ ~Made(i)
  <2>1. image[i] \in ImageRecord /\ CountersFit(image[i])
    BY DEF IInv, TypeOK
  <2>2. QED BY <1>2, <2>1, AcquiredFits, NotMade DEF CanAcquire, SetImage
<1> HIDE DEF d, q
<1>7. /\ ~Holds(v, i) /\ vm[v].state = "HOTPLUG" /\ vm[v].attach = 0
      /\ \A e \in calls : e.op \in AttachOps /\ e.vm = v => e = c
  BY <1>2 DEF IInv, HoldingFits, AttachAlone, AttachOps
<1>8. \A w \in VM, k \in Image : Holds(w, k)' <=> Holds(w, k) \/ (w = v /\ k = i)
  BY <1>4, <1>5 DEF Holds, Disks
<1>9. image'[i] = q /\ \A k \in Image \ {i} : image'[k] = image[k]
  BY <1>6 DEF IInv, TypeOK
<1>10. \A k \in Image, w \in VM : w \in image'[k].vms <=> Holds(w, k)'
  BY <1>6, <1>8, <1>9 DEF IInv, HoldingFits
<1>11. HeldOnce'
  <2>1. \A s \in Slots : vm[v].disk[s] # i
    BY <1>7, NullAssumption DEF Holds, Disks
  <2>2. \A e \in calls : e.op \in HoldOps /\ e.vm = v => e.image # i
    BY <1>7 DEF Holds, HoldOps
  <2>3. QED BY <1>4, <1>5, <2>1, <2>2 DEF IInv, HoldingFits, HeldOnce
<1>12. AttachAlone'
  <2>1. \A e \in calls' : e.op \in AttachOps /\ e.vm = v => e = d
    BY <1>4, <1>5, <1>7
  <2>2. \A e \in calls' : e = d \/ e \in calls
    BY <1>5
  <2>3. \A e \in calls' : e.op = "ATTACH" =>
          e.vm \in VM \ {v} /\ e.image \in Image /\ ~Holds(e.vm, e.image)
    BY <1>4, <2>1, <2>2, HoldCalls DEF AttachOps, IInv, HoldingFits, AttachAlone
  <2>4. \A e \in calls' : e.op = "ATTACH" => ~Holds(e.vm, e.image)'
    BY <1>8, <2>3
  <2>5. \A e \in calls' : e.op \in AttachOps =>
          /\ vm[e.vm].state = "HOTPLUG" /\ vm[e.vm].attach = 0
          /\ \A f \in calls' : f.op \in AttachOps /\ f.vm = e.vm => f = e
    BY <1>4, <1>7, <2>1, <2>2 DEF IInv, HoldingFits, AttachAlone
  <2>6. QED BY <2>4, <2>5 DEF IInv, HoldingFits, AttachAlone
<1>13. HoldingFits'
  BY <1>10, <1>11, <1>12 DEF HoldingFits
<1>14. /\ calls' \subseteq CallRecord
       /\ \A e \in calls' : e \in calls \/ e.op \notin MakeOps
  BY <1>4, <1>5 DEF IInv, TypeOK, MakeOps
<1>15. vm[v] \in VmRecord /\ vm' = [vm EXCEPT ![v] = vm[v]]
  BY DEF IInv, TypeOK
<1>16. QED BY <1>6, <1>13, <1>14, <1>15, HeldStep

LEMMA SetUpAttachDiskKeeps ==
  ASSUME IInv, NEW c \in calls, set_up_attach_disk(c)
  PROVE  IInv'
<1>1. ASSUME Becomes(c, [c EXCEPT !.op = "ATTACH_REFUSED"]), UNCHANGED image
      PROVE  IInv'
  <2> DEFINE d == [c EXCEPT !.op = "ATTACH_REFUSED"]
  <2>1. /\ c.op = "ATTACH" /\ c \in CallRecord /\ c.vm \in VM /\ c.image \in Image
        /\ c = Call("ATTACH", c.vm, c.image, NoImage) /\ UNCHANGED <<vm, driver, copies, usage>>
    BY HoldCalls DEF set_up_attach_disk, AttachOps
  <2>2. PICK v \in VM, i \in Image : c.vm = v /\ c.image = i
    BY <2>1
  <2>3. d = Call("ATTACH_REFUSED", v, i, NoImage)
    BY <2>1, <2>2 DEF Call
  <2>4. d \in CallRecord /\ d.op = "ATTACH_REFUSED" /\ d.vm = v
    <3>1. Call("ATTACH_REFUSED", v, i, NoImage) \in CallRecord
      BY CallsMade DEF AttachOps
    <3>2. QED BY <2>3, <3>1 DEF Call
  <2>5. calls' = (calls \ {c}) \cup {d}
    BY <1>1 DEF Becomes
  <2> HIDE DEF d
  <2>6. /\ vm[v] \in VmRecord /\ vm' = [vm EXCEPT ![v] = vm[v]] /\ calls \subseteq CallRecord
        /\ vm[v].state = "HOTPLUG" /\ vm[v].attach = 0
        /\ \A e \in calls : e.op \in AttachOps /\ e.vm = v => e = c
    BY <2>1, <2>2 DEF IInv, TypeOK, HoldingFits, AttachAlone, AttachOps
  <2>7. /\ calls' \subseteq CallRecord
        /\ \A e \in calls \cup calls' : e.op \in HoldOps => (e \in calls' <=> e \in calls)
        /\ \A e \in calls' : e \in calls \/ e.op \notin MakeOps
        /\ \A e \in calls' : e.op \in AttachOps /\ e.vm # v => e \in calls
        /\ \A e \in calls' : e.op \in AttachOps /\ e.vm = v => e = d
    BY <2>1, <2>4, <2>5, <2>6 DEF HoldOps, MakeOps
  <2>8. \A e \in calls' : e.op \in AttachOps /\ e.vm = v =>
          /\ vm[v].state = "HOTPLUG" /\ vm[v].attach = 0
          /\ \A f \in calls' : f.op \in AttachOps /\ f.vm = v => f = e
          /\ e.op = "ATTACH" => ~Holds(v, e.image)
    BY <2>4, <2>6, <2>7
  <2>9. QED BY <1>1, <2>1, <2>6, <2>7, <2>8, PlainMarkStep
<1>2. QED BY <1>1, AttachTakes DEF set_up_attach_disk

(* An image is released that a VM held by a call.                          *)
LEMMA ReleasedCall ==
  ASSUME IInv, NEW c \in calls, c.op \in {"ATTACH_BACK", "RELEASE"},
         SetImage(c.image, Released(image[c.image], c.vm, FALSE)),
         UNCHANGED <<vm, driver, copies, usage>>,
         NEW D \in SUBSET CallRecord, calls' = (calls \ {c}) \cup D,
         \A d \in D : d.op = "ATTACH_REFUSED" /\ d.vm = c.vm /\ c.op = "ATTACH_BACK",
         \A d, e \in D : d = e
  PROVE  IInv'
<1> DEFINE q == Released(image[c.image], c.vm, FALSE)
<1>1. /\ c \in CallRecord /\ c.vm \in VM /\ c.image \in Image /\ Holds(c.vm, c.image)
      /\ c.op \in HoldOps
  BY HoldCalls DEF AttachOps, HoldOps
<1>2. PICK v \in VM, i \in Image : c.vm = v /\ c.image = i
  BY <1>1
<1>3. image[i] \in ImageRecord /\ v \in image[i].vms /\ ~Made(i) /\ CountersFit(image[i])
  BY <1>1, <1>2, HeldIsUsed
<1>4. /\ q \in ImageRecord /\ CountersFit(q) /\ q.vms = image[i].vms \ {v}
      /\ image' = [image EXCEPT ![i] = q]
  BY <1>2, <1>3, ReleasedFits DEF SetImage
<1> HIDE DEF q
<1>5. image'[i] = q /\ \A k \in Image \ {i} : image'[k] = image[k]
  BY <1>4 DEF IInv, TypeOK
<1>6. /\ \A s \in Slots : vm[v].disk[s] # i
      /\ \A e \in calls : e.op \in HoldOps /\ e.vm = v /\ e.image = i => e = c
  BY <1>1, <1>2 DEF IInv, HoldingFits, HeldOnce
<1>7. \A e \in calls' : (e \in calls /\ e # c) \/ e \in D
  OBVIOUS
<1>8. \A w \in VM, k \in Image : Holds(w, k)' <=> Holds(w, k) /\ ~(w = v /\ k = i)
  <2> TAKE w \in VM, k \in Image
  <2>1. CASE w = v /\ k = i
    <3>1. k \notin Disks(w)'
      BY <1>6, <2>1 DEF Disks
    <3>2. \A e \in calls' : e.op \in HoldOps => ~(e.vm = w /\ e.image = k)
      BY <1>6, <1>7, <2>1 DEF HoldOps
    <3>3. QED BY <2>1, <3>1, <3>2 DEF Holds, HoldOps
  <2>2. CASE ~(w = v /\ k = i)
    <3>1. \A e \in calls \cup calls' : e.op \in HoldOps /\ e.vm = w /\ e.image = k =>
            (e \in calls' <=> e \in calls)
      BY <1>2, <2>2 DEF HoldOps
    <3>2. QED BY <2>2, <3>1 DEF Holds, Disks, HoldOps
  <2>3. QED BY <2>1, <2>2
<1>9. \A k \in Image, w \in VM : w \in image'[k].vms <=> Holds(w, k)'
  BY <1>4, <1>5, <1>8 DEF IInv, HoldingFits
<1>10. HeldOnce'
  <2>1. \A e \in calls' : e.op \in HoldOps => e \in calls
    BY <1>7 DEF HoldOps
  <2>2. QED BY <2>1 DEF IInv, HoldingFits, HeldOnce
<1>11. AttachAlone'
  <2>1. \A e \in calls' : e.op = "ATTACH" =>
          e \in calls /\ e.vm \in VM /\ e.image \in Image /\ ~Holds(e.vm, e.image)
    BY <1>7, HoldCalls DEF AttachOps, IInv, HoldingFits, AttachAlone
  <2>2. \A e \in calls' : e.op = "ATTACH" => ~Holds(e.vm, e.image)'
    BY <1>8, <2>1
  <2>3. ASSUME NEW e \in calls', e.op \in AttachOps
        PROVE  /\ vm[e.vm].state = "HOTPLUG" /\ vm[e.vm].attach = 0
               /\ \A f \in calls' : f.op \in AttachOps /\ f.vm = e.vm => f = e
    <3>1. CASE c.op \in AttachOps /\ e.vm = v
      <4>1. /\ vm[v].state = "HOTPLUG" /\ vm[v].attach = 0
            /\ \A f \in calls : f.op \in AttachOps /\ f.vm = v => f = c
        BY <1>2, <3>1 DEF IInv, HoldingFits, AttachAlone
      <4>2. \A f \in calls' : f.op \in AttachOps /\ f.vm = v => f \in D
        BY <1>7, <4>1
      <4>3. QED BY <2>3, <3>1, <4>1, <4>2
    <3>2. CASE e.vm # v \/ c.op \notin AttachOps
      <4>1. \A f \in calls' : f.op \in AttachOps /\ f.vm = e.vm => f \in calls
        BY <1>2, <1>7, <3>2 DEF AttachOps
      <4>2. QED BY <2>3, <4>1 DEF IInv, HoldingFits, AttachAlone
    <3>3. QED BY <3>1, <3>2
  <2>4. QED BY <2>2, <2>3 DEF IInv, HoldingFits, AttachAlone
<1>12. HoldingFits'
  BY <1>9, <1>10, <1>11 DEF HoldingFits
<1>13. /\ calls' \subseteq CallRecord
       /\ \A e \in calls' : e \in calls \/ e.op \notin MakeOps
  BY <1>7 DEF IInv, TypeOK, MakeOps
<1>14. vm[v] \in VmRecord /\ vm' = [vm EXCEPT ![v] = vm[v]]
  BY DEF IInv, TypeOK
<1>15. QED BY <1>3, <1>4, <1>12, <1>13, <1>14, HeldStep

LEMMA AttachBackKeeps ==
  ASSUME IInv, NEW c \in calls, attach_back(c)
  PROVE  IInv'
<1> DEFINE d == [c EXCEPT !.op = "ATTACH_REFUSED"]
<1>1. /\ c.op = "ATTACH_BACK" /\ c.vm \in VM /\ c.image \in Image
      /\ c = Call("ATTACH_BACK", c.vm, c.image, NoImage)
  BY HoldCalls DEF attach_back, AttachOps
<1>2. d = Call("ATTACH_REFUSED", c.vm, c.image, NoImage)
  BY <1>1 DEF Call
<1>3. d \in CallRecord /\ d.op = "ATTACH_REFUSED" /\ d.vm = c.vm
  <2>1. Call("ATTACH_REFUSED", c.vm, c.image, NoImage) \in CallRecord
    BY <1>1, CallsMade DEF AttachOps
  <2>2. QED BY <1>2, <2>1 DEF Call
<1>4. /\ calls' = (calls \ {c}) \cup {d} /\ UNCHANGED <<vm, driver, copies, usage>>
      /\ SetImage(c.image, Released(image[c.image], c.vm, FALSE))
  BY DEF attach_back, Becomes
<1> HIDE DEF d
<1>5. {d} \in SUBSET CallRecord
  BY <1>3
<1>6. QED BY <1>1, <1>3, <1>4, <1>5, ReleasedCall

LEMMA ReleaseImageKeeps ==
  ASSUME IInv, NEW c \in calls, release_image(c)
  PROVE  IInv'
<1>1. calls' = (calls \ {c}) \cup {} /\ {} \in SUBSET CallRecord
  BY DEF release_image, Goes
<1>2. QED BY <1>1, ReleasedCall DEF release_image

LEMMA AttachSetKeeps ==
  ASSUME IInv, NEW c \in calls, attach_set(c)
  PROVE  IInv'
<1>1. /\ c \in CallRecord /\ c.vm \in VM /\ c.image \in Image /\ Holds(c.vm, c.image)
      /\ c.op = "ATTACH_SET" /\ c.op \in HoldOps
      /\ UNCHANGED <<image, driver, copies, usage>> /\ calls' = calls \ {c}
  BY HoldCalls DEF attach_set, AttachOps, HoldOps, Goes
<1>2. PICK v \in VM, i \in Image : c.vm = v /\ c.image = i
  BY <1>1
<1>3. PICK s \in FreeSlots(v) : SetVM(v, set_attach_disk(Put(v, s, i), s))
  BY <1>2 DEF attach_set
<1>4. s \in Slots /\ vm[v].disk[s] = NoImage /\ s \in 0..MaxDisks
  BY MaxDisksAssumption DEF FreeSlots, Slots
<1> DEFINE u == Put(v, s, i)
           r == set_attach_disk(u, s)
<1>5. /\ u \in VmRecord /\ \A t \in Slots : u.disk[t] = IF t = s THEN i ELSE vm[v].disk[t]
      /\ u.save_as = vm[v].save_as /\ u.hot_as = vm[v].hot_as /\ u.state = vm[v].state
  BY <1>4, PutRecord
<1>6. vm' = [vm EXCEPT ![v] = r]
  BY <1>3 DEF SetVM
<1> HIDE DEF u
<1>7. /\ r \in VmRecord /\ r.disk = u.disk /\ r.attach = s /\ r.save_as = vm[v].save_as
      /\ r.hot_as = vm[v].hot_as /\ r.state = vm[v].state
  BY <1>4, <1>5 DEF set_attach_disk, VmRecord
<1> HIDE DEF r
<1>8. vm'[v] = r /\ \A w \in VM \ {v} : vm'[w] = vm[w]
  BY <1>6, <1>7, VmSet
<1>9. /\ \A t \in Slots : vm[v].disk[t] # i
      /\ \A e \in calls : e.op \in HoldOps /\ e.vm = v /\ e.image = i => e = c
  BY <1>1, <1>2 DEF IInv, HoldingFits, HeldOnce
<1>10. /\ vm[v].state = "HOTPLUG"
       /\ \A e \in calls : e.op \in AttachOps /\ e.vm = v => e = c
  BY <1>1, <1>2 DEF IInv, HoldingFits, AttachAlone, AttachOps
<1>11. \A w \in VM, k \in Image : Holds(w, k)' <=> Holds(w, k)
  <2> TAKE w \in VM, k \in Image
  <2>1. CASE w = v /\ k = i
    <3>1. k \in Disks(w)'
      BY <1>4, <1>5, <1>7, <1>8, <2>1, NullAssumption DEF Disks
    <3>2. QED BY <1>1, <1>2, <2>1, <3>1 DEF Holds
  <2>2. CASE w = v /\ k # i
    <3>1. k \in Disks(w)' <=> k \in Disks(w)
      BY <1>4, <1>5, <1>7, <1>8, <2>2, NullAssumption DEF Disks
    <3>2. QED BY <1>1, <1>2, <2>2, <3>1 DEF Holds
  <2>3. CASE w # v
    BY <1>1, <1>2, <1>8, <2>3 DEF Holds, Disks
  <2>4. QED BY <2>1, <2>2, <2>3
<1>12. HeldOnce'
  <2>1. \A w \in VM, t, x \in Slots :
          vm'[w].disk[t] = vm'[w].disk[x] /\ vm'[w].disk[t] # NoImage => t = x
    BY <1>5, <1>7, <1>8, <1>9 DEF IInv, HoldingFits, HeldOnce
  <2>2. ASSUME NEW e \in calls', e.op \in HoldOps
        PROVE  /\ \A t \in Slots : vm'[e.vm].disk[t] # e.image
               /\ \A f \in calls' : f.op \in HoldOps /\ f.vm = e.vm /\ f.image = e.image => f = e
    <3>1. e \in calls /\ e.vm \in VM /\ e.image \in Image /\ (e.vm = v => e.image # i)
      BY <1>1, <1>9, <2>2, HoldCalls
    <3>2. QED BY <1>1, <1>5, <1>7, <1>8, <2>2, <3>1 DEF IInv, HoldingFits, HeldOnce
  <2>3. QED BY <2>1, <2>2 DEF HeldOnce
<1>13. AttachAlone'
  <2>1. \A e \in calls' : e.op \in AttachOps => e \in calls /\ e.vm \in VM \ {v} /\ e.image \in Image
    BY <1>1, <1>10, HoldCalls
  <2>2. \A e \in calls' : e.op = "ATTACH" => ~Holds(e.vm, e.image)'
    BY <1>11, <2>1 DEF IInv, HoldingFits, AttachAlone, AttachOps
  <2>3. \A e \in calls' : e.op \in AttachOps =>
          /\ vm'[e.vm].state = "HOTPLUG" /\ vm'[e.vm].attach = 0
          /\ \A f \in calls' : f.op \in AttachOps /\ f.vm = e.vm => f = e
    BY <1>8, <2>1 DEF IInv, HoldingFits, AttachAlone
  <2>4. vm'[v].disk[s] = i /\ i # NoImage
    BY <1>4, <1>5, <1>7, <1>8, NullAssumption
  <2>5. \A w \in VM : vm'[w].attach # 0 =>
          vm'[w].state = "HOTPLUG" /\ vm'[w].disk[vm'[w].attach] # NoImage
    BY <1>7, <1>8, <1>10, <2>4 DEF IInv, HoldingFits, AttachAlone
  <2>6. QED BY <2>2, <2>3, <2>5 DEF AttachAlone
<1>14. HoldingFits'
  BY <1>1, <1>11, <1>12, <1>13 DEF IInv, HoldingFits
<1>15. /\ image' = [image EXCEPT ![i] = image[i]] /\ image[i] \in ImageRecord /\ CountersFit(image[i])
       /\ calls' \subseteq CallRecord
  BY <1>1 DEF IInv, TypeOK
<1>16. QED BY <1>1, <1>6, <1>7, <1>14, <1>15, HeldStep

LEMMA AttachFailureKeeps ==
  ASSUME IInv, NEW v \in VM, attach_failure(v)
  PROVE  IInv'
<1>0. /\ vm[v] \in VmRecord /\ vm[v].attach # 0 /\ vm[v].state = "HOTPLUG"
      /\ UNCHANGED <<image, driver, copies, usage>>
  BY DEF attach_failure, IInv, TypeOK
<1>1. PICK s \in Slots : s = vm[v].attach
  BY <1>0, MaxDisksAssumption DEF VmRecord, Slots
<1>2. vm[v].disk[s] # NoImage
  BY <1>0, <1>1 DEF IInv, HoldingFits, AttachAlone
<1>3. PICK i \in Image : i = vm[v].disk[s]
  BY <1>0, <1>2 DEF VmRecord
<1> DEFINE r == delete_attach_disk([vm[v] EXCEPT !.state = "RUNNING"])
           d == Call("RELEASE", v, i, NoImage)
<1>4. vm' = [vm EXCEPT ![v] = r] /\ calls' = calls \cup {d}
  BY <1>1, <1>3 DEF attach_failure, SetVM, Starts
<1>5. /\ r \in VmRecord /\ \A t \in Slots : r.disk[t] = IF t = s THEN NoImage ELSE vm[v].disk[t]
      /\ \A t \in Slots : r.save_as[t] = IF t = s THEN NoImage ELSE vm[v].save_as[t]
      /\ r.attach = 0 /\ r.hot_as = vm[v].hot_as
  <2>1. 0 \in 0..MaxDisks /\ "RUNNING" \in VmState
    BY MaxDisksAssumption DEF VmState
  <2>2. QED BY <1>0, <1>1, <2>1 DEF delete_attach_disk, clear_attach_disk, VmRecord
<1>6. d \in CallRecord /\ d.op = "RELEASE" /\ d.vm = v /\ d.image = i
  BY CallsMade DEF Call
<1> HIDE DEF r, d
<1>7. vm'[v] = r /\ \A w \in VM \ {v} : vm'[w] = vm[w]
  BY <1>4, <1>5, VmSet
<1>8. /\ \A t \in Slots : t # s => vm[v].disk[t] # i
      /\ \A e \in calls : e.op \in HoldOps /\ e.vm = v => e.image # i
  BY <1>1, <1>3, NullAssumption DEF IInv, HoldingFits, HeldOnce
<1>9. \A e \in calls : e.op \in AttachOps => e.vm # v
  BY <1>0, NotAttaching
<1>10. \A w \in VM, k \in Image : Holds(w, k)' <=> Holds(w, k)
  <2> TAKE w \in VM, k \in Image
  <2>1. CASE w = v /\ k = i
    <3>1. k \in Disks(w)
      BY <1>1, <1>3, <2>1, NullAssumption DEF Disks
    <3>2. QED BY <1>4, <1>6, <2>1, <3>1 DEF Holds
  <2>2. CASE w = v /\ k # i
    <3>1. k \in Disks(w)' <=> k \in Disks(w)
      BY <1>3, <1>5, <1>7, <2>2, NullAssumption DEF Disks
    <3>2. QED BY <1>4, <1>6, <2>2, <3>1 DEF Holds
  <2>3. CASE w # v
    BY <1>4, <1>6, <1>7, <2>3 DEF Holds, Disks
  <2>4. QED BY <2>1, <2>2, <2>3
<1>11. HeldOnce'
  <2>1. \A w \in VM, t, x \in Slots :
          vm'[w].disk[t] = vm'[w].disk[x] /\ vm'[w].disk[t] # NoImage => t = x
    BY <1>5, <1>7 DEF IInv, HoldingFits, HeldOnce
  <2>2. ASSUME NEW e \in calls', e.op \in HoldOps
        PROVE  /\ \A t \in Slots : vm'[e.vm].disk[t] # e.image
               /\ \A f \in calls' : f.op \in HoldOps /\ f.vm = e.vm /\ f.image = e.image => f = e
    <3>1. CASE e = d
      <4>1. \A t \in Slots : r.disk[t] # i
        BY <1>5, <1>8, NullAssumption
      <4>2. QED BY <1>4, <1>6, <1>7, <1>8, <3>1, <4>1
    <3>2. CASE e # d
      <4>1. e \in calls /\ e.vm \in VM /\ e.image \in Image /\ (e.vm = v => e.image # i)
        BY <1>4, <1>8, <2>2, <3>2, HoldCalls
      <4>2. \A t \in Slots : vm'[e.vm].disk[t] \in {vm[e.vm].disk[t], NoImage}
        BY <1>5, <1>7, <4>1
      <4>3. \A t \in Slots : vm[e.vm].disk[t] # e.image
        BY <2>2, <4>1 DEF IInv, HoldingFits, HeldOnce
      <4>4. \A f \in calls' : f.op \in HoldOps /\ f.vm = e.vm /\ f.image = e.image => f = e
        BY <1>4, <1>6, <2>2, <4>1 DEF IInv, HoldingFits, HeldOnce
      <4>5. QED BY <4>1, <4>2, <4>3, <4>4, NullAssumption
    <3>3. QED BY <3>1, <3>2
  <2>3. QED BY <2>1, <2>2 DEF HeldOnce
<1>12. AttachAlone'
  <2>1. \A e \in calls' : e.op \in AttachOps => e \in calls /\ e.vm \in VM \ {v} /\ e.image \in Image
    BY <1>4, <1>6, <1>9, HoldCalls DEF AttachOps
  <2>2. \A e \in calls' : e.op = "ATTACH" => ~Holds(e.vm, e.image)'
    BY <1>10, <2>1 DEF IInv, HoldingFits, AttachAlone, AttachOps
  <2>3. \A e \in calls' : e.op \in AttachOps =>
          /\ vm'[e.vm].state = "HOTPLUG" /\ vm'[e.vm].attach = 0
          /\ \A f \in calls' : f.op \in AttachOps /\ f.vm = e.vm => f = e
    BY <1>7, <2>1 DEF IInv, HoldingFits, AttachAlone
  <2>4. \A w \in VM : vm'[w].attach # 0 =>
          vm'[w].state = "HOTPLUG" /\ vm'[w].disk[vm'[w].attach] # NoImage
    BY <1>5, <1>7 DEF IInv, HoldingFits, AttachAlone
  <2>5. QED BY <2>2, <2>3, <2>4 DEF AttachAlone
<1>13. HoldingFits'
  BY <1>0, <1>10, <1>11, <1>12 DEF IInv, HoldingFits
<1>14. /\ image' = [image EXCEPT ![i] = image[i]] /\ image[i] \in ImageRecord /\ CountersFit(image[i])
       /\ calls' \subseteq CallRecord
       /\ \A e \in calls' : e \in calls \/ e.op \notin MakeOps
  BY <1>0, <1>4, <1>6 DEF IInv, TypeOK, MakeOps
<1>15. /\ \A t \in Slots : r.save_as[t] \in {vm[v].save_as[t], NoImage}
  BY <1>5
<1>16. QED BY <1>0, <1>4, <1>5, <1>13, <1>14, <1>15, HeldStep

-----------------------------------------------------------------------------
(* The theorem *)

LEMMA InitHolds == Init => IInv
<1> SUFFICES ASSUME Init PROVE IInv
  OBVIOUS
<1>1. /\ image \in [Image -> ImageRecord]
      /\ \A i \in Image : image[i].vms = {} /\ image[i].clones = {} /\ image[i].state = "NONE"
                          /\ CountersFit(image[i])
  <2>1. Dropped \in ImageRecord /\ Dropped.vms = {} /\ Dropped.clones = {}
    BY NewFits
  <2> DEFINE r == [Dropped EXCEPT !.state = "NONE"]
  <2>2. r \in ImageRecord /\ r.vms = {} /\ r.clones = {} /\ r.state = "NONE"
    BY <2>1 DEF ImageRecord, ImageState
  <2> HIDE DEF r
  <2>3. CountersFit(r)
    BY <2>2 DEF CountersFit
  <2>4. image = [i \in Image |-> r]
    BY DEF Init, r
  <2>5. QED BY <2>2, <2>3, <2>4
<1>2. /\ vm \in [VM -> VmRecord]
      /\ \A v \in VM : /\ \A s \in Slots : vm[v].disk[s] = NoImage /\ vm[v].save_as[s] = NoImage
                       /\ vm[v].attach = 0 /\ vm[v].hot_as = NoImage
  <2>1. 0 \in 0..MaxDisks /\ NoDisks \in [Slots -> Image \cup {NoImage}]
    BY MaxDisksAssumption DEF NoDisks
  <2>2. NewVM \in VmRecord /\ NewVM.disk = NoDisks /\ NewVM.save_as = NoDisks /\ NewVM.attach = 0
        /\ NewVM.hot_as = NoImage
    BY <2>1 DEF NewVM, VmRecord, VmState
  <2>3. QED BY <2>2 DEF Init, NoDisks
<1>3. calls = {} /\ driver = {} /\ copies = {} /\ usage = 0
  BY DEF Init
<1>4. HoldingFits
  <2>1. \A v \in VM, i \in Image : ~Holds(v, i)
    BY <1>2, <1>3, NullAssumption DEF Holds, Disks
  <2>2. QED BY <1>1, <1>2, <1>3, <2>1 DEF HoldingFits, HeldOnce, AttachAlone
<1>5. \A i \in Image : MakersFit(i)
  <2>1. \A v \in VM, s \in Saves : Saved(v, s) = NoImage
    BY <1>2, MaxDisksAssumption DEF Saved, Saves, Slots
  <2>2. QED BY <1>3, <2>1, NullAssumption DEF MakersFit, OneMaker, MadeIsLocked
<1>6. QED BY <1>1, <1>2, <1>3, <1>4, <1>5 DEF IInv, TypeOK

LEMMA CallStepKeeps ==
  ASSUME IInv, NEW v \in VM \cup {NoVM}, CallStep(v)
  PROVE  IInv'
<1>1. PICK c \in calls :
        \/ register_image(c) \/ clone_count(c) \/ clone_start(c) \/ unclone(c)
        \/ set_up_attach_disk(c) \/ attach_back(c) \/ attach_refused(c) \/ attach_set(c)
        \/ release_image(c) \/ savedisk_allocate(c) \/ clear_saveas_state(c)
        \/ mkfs_saved(c) \/ save_failed(c) \/ saveas_hot_image(c)
  BY DEF CallStep
<1>2. CASE register_image(c) \/ clone_count(c) \/ clone_start(c) \/ unclone(c)
  BY <1>2, RegisterImageKeeps, CloneCountKeeps, CloneStartKeeps, UncloneKeeps
<1>3. CASE set_up_attach_disk(c) \/ attach_back(c) \/ attach_refused(c) \/ attach_set(c)
  BY <1>3, SetUpAttachDiskKeeps, AttachBackKeeps, AttachRefusedKeeps, AttachSetKeeps
<1>4. CASE release_image(c) \/ savedisk_allocate(c) \/ clear_saveas_state(c)
  BY <1>4, ReleaseImageKeeps, SavediskAllocateKeeps, ClearSaveasKeeps
<1>5. CASE mkfs_saved(c) \/ save_failed(c) \/ saveas_hot_image(c)
  BY <1>5, MkfsSavedKeeps, SaveFailedKeeps, SaveasHotImageKeeps
<1>6. QED BY <1>1, <1>2, <1>3, <1>4, <1>5

LEMMA NextKeeps ==
  ASSUME Careful, IInv, [Next]_vars
  PROVE  IInv'
<1>1. CASE UNCHANGED vars
  BY <1>1 DEF vars, IInv, TypeOK, CountersFit, HoldingFits, HeldOnce, AttachAlone, Holds, Disks,
              MakersFit, OneMaker, MadeIsLocked, MadeForVM, Makes, Saved
<1>2. ASSUME NEW i \in Image, ImageRequest(i) PROVE IInv'
  BY <1>2, ImageAllocateKeeps, ImageDeleteKeeps, ImageEnableKeeps, ImagePersistentKeeps,
     ImageCloneKeeps DEF ImageRequest
<1>3. ASSUME NEW i \in Image, DatastoreAnswer(i) PROVE IInv'
  BY <1>3, CpActionKeeps, CloneActionKeeps, MkfsActionKeeps, RmActionKeeps DEF DatastoreAnswer
<1>4. ASSUME NEW v \in VM, VmRequest(v) PROVE IInv'
  BY <1>4, VmStatesKeep, VmEndKeeps, AttachKeeps, DetachKeeps, SavediskKeeps DEF VmRequest
<1>5. ASSUME NEW v \in VM, PoolStep(v) PROVE IInv'
  BY <1>5, VmStatesKeep, InsertDiskKeeps, ReleaseDiskKeeps DEF PoolStep
<1>6. ASSUME NEW v \in VM, DriverAnswer(v) PROVE IInv'
  BY <1>6, SaveasHotKeeps, AttachSuccessKeeps, AttachFailureKeeps DEF DriverAnswer
<1>7. QED BY <1>1, <1>2, <1>3, <1>4, <1>5, <1>6, CallStepKeeps DEF Next

(* The counters of an image imply that a persistent one is held alone.     *)
LEMMA HeldAlone == IInv => UsesCounted
<1> SUFFICES ASSUME IInv PROVE UsesCounted
  OBVIOUS
<1>1. PersistentAlone
  <2> SUFFICES ASSUME NEW i \in Image, image[i].persistent, image[i].vms # {}
               PROVE  Cardinality(image[i].vms) = 1 /\ image[i].clones = {}
    BY DEF PersistentAlone
  <2>1. CountersFit(image[i])
    BY DEF IInv
  <2>2. image[i].state = "USED_PERS"
    BY <2>1 DEF CountersFit
  <2>3. PICK v \in VM : image[i].vms = {v}
    BY <2>1, <2>2 DEF CountersFit
  <2>4. QED BY <2>1, <2>2, <2>3, FS_Singleton DEF CountersFit
<1>2. \A i \in Image : image[i].vms = {v \in VM : Holds(v, i)}
  <2> TAKE i \in Image
  <2>1. image[i].vms \in SUBSET VM
    BY DEF IInv, TypeOK, ImageRecord
  <2>2. QED BY <2>1 DEF IInv, HoldingFits
<1>3. \A i \in Image : image[i].vms # {} => image[i].state \in {"USED", "USED_PERS"}
  BY DEF IInv, CountersFit
<1>4. QED BY <1>1, <1>2, <1>3 DEF UsesCounted, IInv

(* The VMs an image counts (acquire_image and release_image, RUNNING_VMS)  *)
(* are exactly those that hold it, at any moment of any interleaving, and  *)
(* a persistent image never has a second user, if users are careful.       *)
THEOREM ImageUsesAreCounted ==
  ASSUME Careful
  PROVE  Spec => []UsesCounted
<1>1. IInv /\ [Next]_vars => IInv'
  BY NextKeeps
<1>2. QED BY <1>1, InitHolds, HeldAlone, PTL DEF Spec

-----------------------------------------------------------------------------
(* The quota of the datastore *)

Stored(r) == r.state \notin {"NONE", "GONE", "DELETE"}
StoredImages == {i \in Image : Stored(image[i])}

(* An id is given once and images come one at a time: their set is finite. *)
QuotaInv == IsFiniteSet(StoredImages) /\ usage = Cardinality(StoredImages)

LEMMA QuotaKept ==
  ASSUME QuotaInv, usage' = usage, \A i \in Image : Stored(image'[i]) <=> Stored(image[i])
  PROVE  QuotaInv'
<1>1. StoredImages' = StoredImages
  BY DEF StoredImages
<1>2. QED BY <1>1 DEF QuotaInv

LEMMA QuotaTaken ==
  ASSUME QuotaInv, NEW i \in Image, usage' = usage + 1, ~Stored(image[i]), Stored(image'[i]),
         \A k \in Image \ {i} : image'[k] = image[k]
  PROVE  QuotaInv'
<1>1. StoredImages' = StoredImages \cup {i} /\ i \notin StoredImages
  BY DEF StoredImages
<1>2. QED BY <1>1, FS_AddElement DEF QuotaInv

LEMMA QuotaGivenBack ==
  ASSUME QuotaInv, NEW i \in Image, usage' = usage - 1, Stored(image[i]), ~Stored(image'[i]),
         \A k \in Image \ {i} : image'[k] = image[k]
  PROVE  QuotaInv'
<1>1. StoredImages' = StoredImages \ {i} /\ i \in StoredImages
  BY DEF StoredImages
<1>2. QED BY <1>1, FS_RemoveElement DEF QuotaInv

(* The usual step: one image changes, and is stored before and after.      *)
LEMMA QuotaKeptByOne ==
  ASSUME QuotaInv, NEW i \in Image, \A k \in Image \ {i} : image'[k] = image[k],
         usage' = usage, Stored(image'[i]) <=> Stored(image[i])
  PROVE  QuotaInv'
<1>1. \A k \in Image : Stored(image'[k]) <=> Stored(image[k])
  OBVIOUS
<1>2. QED BY <1>1, QuotaKept

(* Acquiring and releasing an image leaves it stored.                      *)
LEMMA AcquiredStored ==
  ASSUME NEW r \in ImageRecord, NEW v \in VM, CanAcquire(r)
  PROVE  Stored(Acquired(r, v)) <=> Stored(r)
BY DEF CanAcquire, Stored, Acquired, ImageRecord

LEMMA ReleasedStored ==
  ASSUME NEW r \in ImageRecord, NEW v \in VM, NEW failed \in BOOLEAN
  PROVE  Stored(Released(r, v, failed)) <=> Stored(r)
<1>1. Idle(failed) \in {"ERROR", "READY"}
  BY DEF Idle
<1>2. CASE r.state = "USED_PERS"
  BY <1>1, <1>2 DEF Released, Stored, ImageRecord
<1>3. CASE r.state = "USED"
  BY <1>3 DEF Released, Stored, ImageRecord
<1>4. CASE r.state = "LOCKED" /\ r.saver # NoVM
  BY <1>1, <1>4 DEF Released, Stored, ImageRecord
<1>5. CASE r.state \notin {"USED_PERS", "USED"} /\ ~(r.state = "LOCKED" /\ r.saver # NoVM)
  BY <1>5 DEF Released, Stored
<1>6. QED BY <1>2, <1>3, <1>4, <1>5

LEMMA StateSet ==
  ASSUME IInv, NEW i \in Image, NEW s, SetState(i, s)
  PROVE  image'[i].state = s /\ \A k \in Image \ {i} : image'[k] = image[k]
BY DEF SetState, IInv, TypeOK, ImageRecord

(* An image whose copy the driver has made, or not.                        *)
LEMMA CopiedImage ==
  ASSUME IInv, NEW i \in Image, Exists(i), cp_action(i) \/ clone_action(i)
  PROVE  /\ image[i].state = "LOCKED" /\ image'[i].state \in {"READY", "ERROR"}
         /\ image'[i].clones = image[i].clones /\ image'[i].saver = image[i].saver
         /\ cp_action(i) => image'[i].cloning = image[i].cloning
         /\ clone_action(i) => image'[i].cloning = NoImage /\ image[i].cloning \in Image
         /\ \A k \in Image \ {i} : image'[k] = image[k]
<1>1. image[i].state = "LOCKED" /\ image \in [Image -> ImageRecord]
      /\ (clone_action(i) => image[i].cloning \in Image)
  BY MadeByDriver DEF cp_action, clone_action, Answered, Exists, MakeCmds, IInv, TypeOK
<1>2. PICK success \in BOOLEAN :
        \/ /\ cp_action(i)
           /\ image' = [image EXCEPT ![i] = [image[i] EXCEPT !.source = @ \/ success,
                                                             !.state = Idle(~success)]]
        \/ /\ clone_action(i)
           /\ image' = [image EXCEPT ![i] = [image[i] EXCEPT !.source = @ \/ success,
                                                  !.state = Idle(~success), !.cloning = NoImage]]
  BY DEF cp_action, clone_action, SetImage
<1> DEFINE new == image[i].source \/ success
           idle == Idle(~success)
<1>3. idle \in {"ERROR", "READY"}
  BY DEF Idle
<1>4. \/ /\ cp_action(i)
         /\ image' = [image EXCEPT ![i] = [image[i] EXCEPT !.source = new, !.state = idle]]
      \/ /\ clone_action(i)
         /\ image' = [image EXCEPT ![i] = [image[i] EXCEPT !.source = new, !.state = idle,
                                                           !.cloning = NoImage]]
  BY <1>2
<1>5. ~(cp_action(i) /\ clone_action(i))
  BY DEF cp_action, clone_action, Answered
<1> HIDE DEF new, idle
<1> DEFINE q == [image[i] EXCEPT !.source = new, !.state = idle]
           u == [image[i] EXCEPT !.source = new, !.state = idle, !.cloning = NoImage]
<1>6. /\ q.state = idle /\ q.clones = image[i].clones /\ q.saver = image[i].saver
      /\ q.cloning = image[i].cloning
      /\ u.state = idle /\ u.clones = image[i].clones /\ u.saver = image[i].saver
      /\ u.cloning = NoImage
  BY <1>1 DEF ImageRecord
<1>7. \/ cp_action(i) /\ image' = [image EXCEPT ![i] = q]
      \/ clone_action(i) /\ image' = [image EXCEPT ![i] = u]
  BY <1>4
<1> HIDE DEF q, u
<1>8. CASE cp_action(i)
  <2>1. image'[i] = q /\ \A k \in Image \ {i} : image'[k] = image[k]
    BY <1>1, <1>5, <1>7, <1>8
  <2>2. QED BY <1>1, <1>3, <1>5, <1>6, <1>8, <2>1
<1>9. CASE clone_action(i)
  <2>1. image'[i] = u /\ \A k \in Image \ {i} : image'[k] = image[k]
    BY <1>1, <1>5, <1>7, <1>9
  <2>2. QED BY <1>1, <1>3, <1>5, <1>6, <1>9, <2>1
<1>10. QED BY <1>8, <1>9

(* An image that is deleted is dropped, or to be removed by the driver.    *)
LEMMA DeletedImage ==
  ASSUME IInv, NEW i \in Image, image_delete(i)
  PROVE  /\ \/ image'[i].state = "DELETE" /\ driver' = driver \cup {<<"RM", i>>}
            \/ image'[i].state = "GONE" /\ UNCHANGED driver
         /\ image'[i].cloning = NoImage /\ image'[i].clones \in {image[i].clones, {}}
         /\ \A k \in Image \ {i} : image'[k] = image[k]
<1>0. image \in [Image -> ImageRecord]
  BY DEF IInv, TypeOK
<1>1. CASE image[i].source
  <2>1. /\ image' = [image EXCEPT ![i] = [image[i] EXCEPT !.state = "DELETE", !.cloning = NoImage]]
        /\ driver' = driver \cup {<<"RM", i>>}
    BY <1>1 DEF image_delete, SetImage
  <2>2. QED BY <1>0, <2>1 DEF ImageRecord
<1>2. CASE ~image[i].source
  <2>1. image' = [image EXCEPT ![i] = Dropped] /\ UNCHANGED driver
    BY <1>2 DEF image_delete, SetImage
  <2>2. QED BY <1>0, <2>1 DEF Dropped, NewImage
<1>3. QED BY <1>1, <1>2

LEMMA ImageRequestCounts ==
  ASSUME Careful, IInv, QuotaInv, NEW i \in Image, ImageRequest(i)
  PROVE  QuotaInv'
<1>0. image \in [Image -> ImageRecord]
  BY DEF IInv, TypeOK
<1>1. CASE image_allocate(i) \/ \E j \in Image : image_clone(i, j)
  <2>1. \E persistent, source \in BOOLEAN, cloning \in Image \cup {NoImage} :
          image' = [image EXCEPT ![i] = NewImage(persistent, source, cloning, NoVM)]
    BY <1>1 DEF image_allocate, image_clone, SetImage
  <2>2. image'[i].state = "LOCKED" /\ \A k \in Image \ {i} : image'[k] = image[k]
    BY <1>0, <2>1 DEF NewImage
  <2>3. image[i].state = "NONE" /\ usage' = usage + 1
    BY <1>1 DEF image_allocate, image_clone
  <2>4. QED BY <2>2, <2>3, QuotaTaken DEF Stored
<1>2. CASE image_delete(i)
  <2>1. CanDelete(i) /\ image[i].state # "DELETE" /\ usage' = usage - 1
    BY <1>2 DEF image_delete, CanDelete, Careful
  <2>2. Stored(image[i])
    BY <2>1 DEF CanDelete, Stored
  <2>3. image'[i].state \in {"DELETE", "GONE"} /\ \A k \in Image \ {i} : image'[k] = image[k]
    BY <1>2, DeletedImage
  <2>4. QED BY <2>1, <2>2, <2>3, QuotaGivenBack DEF Stored
<1>3. CASE image_enable(i) \/ image_disable(i)
  <2>1. PICK s \in {"READY", "DISABLED"} : SetState(i, s)
    BY <1>3 DEF image_enable, image_disable
  <2>2. Stored(image[i]) /\ usage' = usage
    BY <1>3 DEF image_enable, image_disable, Stored
  <2>3. QED BY <2>1, <2>2, StateSet, QuotaKeptByOne DEF Stored
<1>4. CASE image_persistent(i)
  <2>1. /\ image'[i].state = image[i].state /\ \A k \in Image \ {i} : image'[k] = image[k]
        /\ usage' = usage
    BY <1>0, <1>4 DEF image_persistent, SetImage, ImageRecord
  <2>2. QED BY <2>1, QuotaKeptByOne DEF Stored
<1>5. QED BY <1>1, <1>2, <1>3, <1>4 DEF ImageRequest

LEMMA DatastoreAnswerCounts ==
  ASSUME IInv, QuotaInv, NEW i \in Image, DatastoreAnswer(i)
  PROVE  QuotaInv'
<1>0. image \in [Image -> ImageRecord] /\ usage' = usage
  BY DEF IInv, TypeOK, DatastoreAnswer, cp_action, clone_action, mkfs_action, rm_action
<1>1. CASE UNCHANGED image
  BY <1>0, <1>1, QuotaKept
<1>2. CASE (cp_action(i) \/ clone_action(i)) /\ Exists(i)
  BY <1>0, <1>2, CopiedImage, QuotaKeptByOne DEF Stored
<1>3. CASE mkfs_action(i) /\ Exists(i)
  <2>1. image[i].state = "LOCKED"
    BY <1>3, MadeByDriver DEF mkfs_action, Answered, Exists, MakeCmds
  <2>2. image'[i].state \in {"LOCKED", "ERROR"} /\ \A k \in Image \ {i} : image'[k] = image[k]
    BY <1>0, <1>3, <2>1, StateSet DEF mkfs_action, SetImage, ImageRecord
  <2>3. QED BY <1>0, <2>1, <2>2, QuotaKeptByOne DEF Stored
<1>4. CASE rm_action(i) /\ Exists(i)
  <2>1. image[i].state = "DELETE"
    BY <1>4, MadeByDriver DEF rm_action, Answered, Exists, MakeCmds
  <2>2. image'[i].state = "GONE" /\ \A k \in Image \ {i} : image'[k] = image[k]
    BY <1>0, <1>4, NewFits DEF rm_action, SetImage
  <2>3. QED BY <1>0, <2>1, <2>2, QuotaKeptByOne DEF Stored
<1>5. QED BY <1>1, <1>2, <1>3, <1>4
      DEF DatastoreAnswer, cp_action, clone_action, mkfs_action, rm_action

LEMMA CallStepCounts ==
  ASSUME IInv, QuotaInv, NEW v \in VM \cup {NoVM}, CallStep(v)
  PROVE  QuotaInv'
<1>1. PICK c \in calls :
        \/ register_image(c) \/ clone_count(c) \/ clone_start(c) \/ unclone(c)
        \/ set_up_attach_disk(c) \/ attach_back(c) \/ attach_refused(c) \/ attach_set(c)
        \/ release_image(c) \/ savedisk_allocate(c) \/ clear_saveas_state(c)
        \/ mkfs_saved(c) \/ save_failed(c) \/ saveas_hot_image(c)
  BY DEF CallStep
<1> DEFINE i == c.image
<1>0. /\ c \in CallRecord /\ image \in [Image -> ImageRecord]
      /\ c.op \in MakeOps => i \in Image /\ image[i] \in ImageRecord /\ image[i].state = "LOCKED"
  BY MadeByCall DEF IInv, TypeOK
<1>2. CASE register_image(c)
  <2>1. c.op \in MakeOps
    BY <1>2 DEF register_image, MakeOps
  <2>2. SetState(i, "READY") \/ UNCHANGED image
    BY <1>0, <1>2, <2>1 DEF register_image, Exists
  <2>3. usage' = usage
    BY <1>0, <1>2, <2>1 DEF register_image, Exists
  <2>4. CASE SetState(i, "READY")
    BY <1>0, <2>1, <2>3, <2>4, StateSet, QuotaKeptByOne DEF Stored
  <2>5. QED BY <2>2, <2>3, <2>4, QuotaKept
<1>3. CASE clone_count(c)
  <2>1. c.op \in MakeOps /\ c.other \in Image /\ image[c.other] \in ImageRecord
    BY <1>0, <1>3, CallParts DEF clone_count, MakeOps, IInv, TypeOK
  <2>2. CASE CanClone(image[c.other])
    <3>1. /\ image'[c.other] = Cloned(image[c.other], i) /\ usage' = usage
          /\ \A k \in Image \ {c.other} : image'[k] = image[k]
      BY <1>0, <1>3, <2>1, <2>2 DEF clone_count, SetImage
    <3>2. Stored(Cloned(image[c.other], i)) <=> Stored(image[c.other])
      BY <2>1, <2>2 DEF CanClone, Stored, Cloned, ImageRecord
    <3>3. QED BY <2>1, <3>1, <3>2, QuotaKeptByOne
  <2>3. CASE ~CanClone(image[c.other])
    <3>1. /\ image'[i].state = "GONE" /\ usage' = usage - 1
          /\ \A k \in Image \ {i} : image'[k] = image[k]
      BY <1>0, <1>3, <2>1, <2>3, NewFits DEF clone_count, SetImage
    <3>2. QED BY <1>0, <2>1, <3>1, QuotaGivenBack DEF Stored
  <2>4. QED BY <2>2, <2>3
<1>4. CASE clone_start(c)
  <2>1. c.op \in MakeOps
    BY <1>4 DEF clone_start, MakeOps
  <2>2. UNCHANGED <<image, usage>>
    BY <1>0, <1>4, <2>1 DEF clone_start, Exists
  <2>3. QED BY <2>2, QuotaKept
<1>5. CASE unclone(c)
  <2>1. c.other \in Image /\ i \in Image /\ image[c.other] \in ImageRecord
    BY <1>0, <1>5, CallParts DEF unclone, IInv, TypeOK
  <2>2. /\ image'[c.other] = ReleasedCloning(image[c.other], i) /\ usage' = usage
        /\ \A k \in Image \ {c.other} : image'[k] = image[k]
    BY <1>0, <1>5, <2>1 DEF unclone, SetImage
  <2>3. Stored(ReleasedCloning(image[c.other], i)) <=> Stored(image[c.other])
    BY <2>1 DEF Stored, ReleasedCloning, ImageRecord
  <2>4. QED BY <2>1, <2>2, <2>3, QuotaKeptByOne
<1>6. CASE set_up_attach_disk(c) \/ attach_back(c) \/ release_image(c)
  <2>1. c.vm \in VM /\ i \in Image /\ image[i] \in ImageRecord /\ usage' = usage
    BY <1>0, <1>6, CallParts DEF set_up_attach_disk, attach_back, release_image, AttachOps, IInv, TypeOK
  <2>2. CASE UNCHANGED image
    BY <2>1, <2>2, QuotaKept
  <2>3. CASE CanAcquire(image[i]) /\ image' = [image EXCEPT ![i] = Acquired(image[i], c.vm)]
    <3>1. image'[i] = Acquired(image[i], c.vm) /\ \A k \in Image \ {i} : image'[k] = image[k]
      BY <1>0, <2>1, <2>3
    <3>2. Stored(Acquired(image[i], c.vm)) <=> Stored(image[i])
      BY <2>1, <2>3, AcquiredStored
    <3>3. QED BY <2>1, <3>1, <3>2, QuotaKeptByOne
  <2>4. CASE image' = [image EXCEPT ![i] = Released(image[i], c.vm, FALSE)]
    <3>1. image'[i] = Released(image[i], c.vm, FALSE) /\ \A k \in Image \ {i} : image'[k] = image[k]
      BY <1>0, <2>1, <2>4
    <3>2. Stored(Released(image[i], c.vm, FALSE)) <=> Stored(image[i])
      BY <2>1, ReleasedStored
    <3>3. QED BY <2>1, <3>1, <3>2, QuotaKeptByOne
  <2>5. QED BY <1>6, <2>2, <2>3, <2>4 DEF set_up_attach_disk, attach_back, release_image, SetImage
<1>7. CASE attach_refused(c) \/ attach_set(c) \/ clear_saveas_state(c) \/ mkfs_saved(c)
  BY <1>7, QuotaKept DEF attach_refused, attach_set, clear_saveas_state, mkfs_saved
<1>8. CASE savedisk_allocate(c)
  <2>1. CASE UNCHANGED <<image, usage>>
    BY <2>1, QuotaKept
  <2>2. CASE usage' = usage + 1 /\ ~UNCHANGED <<image, usage>>
    <3>1. PICK k \in Image : image[k].state = "NONE"
                             /\ image' = [image EXCEPT ![k] = NewImage(FALSE, FALSE, NoImage, c.vm)]
      BY <1>8, <2>2 DEF savedisk_allocate, SetImage
    <3>3. image'[k].state = "LOCKED" /\ \A j \in Image \ {k} : image'[j] = image[j]
      BY <1>0, <3>1 DEF NewImage
    <3>4. QED BY <2>2, <3>1, <3>3, QuotaTaken DEF Stored
  <2>3. QED BY <1>8, <2>1, <2>2 DEF savedisk_allocate
<1>9. CASE save_failed(c) \/ saveas_hot_image(c)
  <2>1. c.op \in MakeOps /\ usage' = usage
    BY <1>9 DEF save_failed, saveas_hot_image, MakeOps
  <2>2. PICK s \in {"READY", "ERROR"} : SetState(i, s)
    BY <1>0, <1>9, <2>1 DEF save_failed, saveas_hot_image, Exists
  <2>3. QED BY <1>0, <2>1, <2>2, StateSet, QuotaKeptByOne DEF Stored
<1>10. QED BY <1>1, <1>2, <1>3, <1>4, <1>5, <1>6, <1>7, <1>8, <1>9

LEMMA VmStepCounts ==
  ASSUME IInv, QuotaInv, NEW v \in VM, VmRequest(v) \/ PoolStep(v) \/ DriverAnswer(v)
  PROVE  QuotaInv'
<1>1. CASE VmRequest(v)
  BY <1>1, QuotaKept DEF VmRequest, vm_insert, vm_fail, vm_end, finalize, attach, detach, savedisk
<1>2. CASE DriverAnswer(v)
  BY <1>2, QuotaKept DEF DriverAnswer, saveas_hot, attach_success, attach_failure
<1>3. CASE insert_end(v) \/ done_action(v) \/ release_end(v)
  BY <1>3, QuotaKept DEF insert_end, done_action, release_end
<1>4. ASSUME NEW i \in Image, insert_disk(v, i) PROVE QuotaInv'
  <2>1. image[i] \in ImageRecord /\ usage' = usage
    BY <1>4 DEF insert_disk, IInv, TypeOK
  <2>2. CASE CanAcquire(image[i])
    <3>1. image'[i] = Acquired(image[i], v) /\ \A k \in Image \ {i} : image'[k] = image[k]
      BY <1>4, <2>1, <2>2 DEF insert_disk, SetImage, IInv, TypeOK
    <3>2. Stored(Acquired(image[i], v)) <=> Stored(image[i])
      BY <2>1, <2>2, AcquiredStored
    <3>3. QED BY <2>1, <3>1, <3>2, QuotaKeptByOne
  <2>3. CASE ~CanAcquire(image[i])
    BY <1>4, <2>1, <2>3, QuotaKept DEF insert_disk
  <2>4. QED BY <2>2, <2>3
<1>5. CASE release_disk(v)
  <2>1. PICK i : /\ i # NoImage /\ SetImage(i, Released(image[i], v, FailedRelease(v)))
                 /\ \E s \in Slots : i = vm[v].disk[s] \/ i = vm[v].save_as[s]
    BY <1>5 DEF release_disk
  <2>2. i \in Image /\ image[i] \in ImageRecord /\ FailedRelease(v) \in BOOLEAN /\ usage' = usage
    BY <1>5, <2>1 DEF release_disk, IInv, TypeOK, VmRecord, FailedRelease
  <2>3. /\ image'[i] = Released(image[i], v, FailedRelease(v))
        /\ \A k \in Image \ {i} : image'[k] = image[k]
    BY <2>1, <2>2 DEF SetImage, IInv, TypeOK
  <2>4. Stored(Released(image[i], v, FailedRelease(v))) <=> Stored(image[i])
    BY <2>2, ReleasedStored
  <2>5. QED BY <2>2, <2>3, <2>4, QuotaKeptByOne
<1>6. QED BY <1>1, <1>2, <1>3, <1>4, <1>5 DEF PoolStep

(* The quota of a datastore (Datastore's quota, DS_ADD and DS_DEL) counts  *)
(* each of its images once, whatever goes on, if nobody deletes an image   *)
(* while it is being made, or twice.                                       *)
THEOREM DatastoreIsCounted ==
  ASSUME Careful
  PROVE  Spec => []DatastoreCounted
<1>1. Init => QuotaInv
  <2> SUFFICES ASSUME Init PROVE QuotaInv
    OBVIOUS
  <2>1. \A i \in Image : image[i].state = "NONE"
    BY NewFits DEF Init, Dropped, NewImage
  <2>2. StoredImages = {}
    BY <2>1 DEF StoredImages, Stored
  <2>3. QED BY <2>2, FS_EmptySet DEF QuotaInv, Init
<1>2. IInv /\ QuotaInv /\ [Next]_vars => QuotaInv'
  <2> SUFFICES ASSUME IInv, QuotaInv, [Next]_vars PROVE QuotaInv'
    OBVIOUS
  <2>1. CASE UNCHANGED vars
    BY <2>1, QuotaKept DEF vars
  <2>2. QED BY <2>1, ImageRequestCounts, DatastoreAnswerCounts, CallStepCounts, VmStepCounts DEF Next
<1>3. QuotaInv => DatastoreCounted
  BY DEF QuotaInv, DatastoreCounted, StoredImages, Stored
<1>4. IInv /\ [Next]_vars => IInv'
  BY NextKeeps
<1>5. QED BY <1>1, <1>2, <1>3, <1>4, InitHolds, PTL DEF Spec

-----------------------------------------------------------------------------
(* The clones of an image *)

(* The image that i is a copy of, as long as it is being made.             *)
Origin(i) == IF Exists(i) THEN image[i].cloning ELSE NoImage

InUse(r) == r.state \in {"USED", "CLONE"} => r.vms # {} \/ r.clones # {}

(* An image counts its copies from clone_count to release_cloning_image.   *)
CopyOps == {"CLONE", "CLONE_START"}
Counts(j, i) ==
  \/ Origin(j) = i /\ \A c \in calls : c.op = "CLONE" => c.image # j
  \/ \E c \in calls : c.op = "UNCLONE" /\ c.image = j /\ c.other = i

CopiesInv ==
  /\ \A i \in Image : InUse(image[i])
  /\ \A i, j \in Image : j \in image[i].clones <=> Counts(j, i)
  /\ \A j \in Image : Origin(j) # NoImage =>
       /\ image[j].state = "LOCKED"
       /\ \/ \E c \in calls : c.op \in CopyOps /\ c.image = j
          \/ <<"CLONE", j>> \in driver
  /\ \A c \in calls : c.op = "UNCLONE" => image[c.image].state # "NONE" /\ Origin(c.image) = NoImage

(* An image that is made in another way, or ready, is no copy.             *)
LEMMA NoCopy ==
  ASSUME IInv, CopiesInv, NEW i \in Image,
         \/ image[i].state # "LOCKED"
         \/ \E c \in calls : Makes(c, i) /\ c.op \notin CopyOps
         \/ \E p \in MakeCmds : <<p, i>> \in driver /\ p # "CLONE"
         \/ \E v \in VM, s \in Saves : Saved(v, s) = i
  PROVE  Origin(i) = NoImage
<1> SUFFICES ASSUME Origin(i) # NoImage PROVE FALSE
  OBVIOUS
<1>1. /\ image[i].state = "LOCKED"
      /\ \/ \E c \in calls : c.op \in CopyOps /\ c.image = i
         \/ <<"CLONE", i>> \in driver
  BY DEF CopiesInv
<1>2. CASE \E c \in calls : c.op \in CopyOps /\ c.image = i
  <2>1. PICK c \in calls : Makes(c, i) /\ c.op \in CopyOps /\ c.image = i /\ c.op \in MakeOps
    BY <1>2 DEF Makes, CopyOps, MakeOps
  <2>2. QED BY <1>1, <2>1, MadeByCall
<1>3. CASE <<"CLONE", i>> \in driver
  BY <1>1, <1>3, MadeByDriver DEF MakeCmds
<1>4. QED BY <1>1, <1>2, <1>3

(* A step that changes nothing about copies.                               *)
LEMMA CopiesKept ==
  ASSUME IInv, CopiesInv, \A i \in Image : InUse(image'[i]),
         \A i \in Image : image'[i].clones = image[i].clones /\ Origin(i)' = Origin(i),
         \A i \in Image : image[i].state # "NONE" => image'[i].state # "NONE",
         \A i \in Image : Origin(i) # NoImage => image'[i].state = image[i].state,
         \A c \in calls \cup calls' : c.op \in CopyOps \cup {"UNCLONE"} => (c \in calls' <=> c \in calls),
         \A i \in Image : Origin(i) # NoImage /\ <<"CLONE", i>> \in driver => <<"CLONE", i>> \in driver'
  PROVE  CopiesInv'
<1>1. \A i, j \in Image : Counts(j, i)' <=> Counts(j, i)
  BY DEF Counts, CopyOps
<1>2. \A c \in calls : c.op = "UNCLONE" => c.image \in Image
  BY CallParts DEF IInv, TypeOK
<1>3. \A j \in Image : Origin(j)' # NoImage =>
        /\ image'[j].state = "LOCKED"
        /\ \/ \E c \in calls' : c.op \in CopyOps /\ c.image = j
           \/ <<"CLONE", j>> \in driver'
  BY DEF CopiesInv
<1>4. \A c \in calls' : c.op = "UNCLONE" => image'[c.image].state # "NONE" /\ Origin(c.image)' = NoImage
  BY <1>2 DEF CopiesInv
<1>5. QED BY <1>1, <1>3, <1>4 DEF CopiesInv

LEMMA CopiesKeptByOne ==
  ASSUME IInv, CopiesInv, NEW i \in Image, \A k \in Image \ {i} : image'[k] = image[k],
         Origin(i) = NoImage, Origin(i)' = NoImage, InUse(image'[i]),
         image'[i].clones = image[i].clones, image'[i].state # "NONE",
         \A c \in calls \cup calls' : c.op \in CopyOps \cup {"UNCLONE"} => (c \in calls' <=> c \in calls),
         \A k \in Image : Origin(k) # NoImage /\ <<"CLONE", k>> \in driver => <<"CLONE", k>> \in driver'
  PROVE  CopiesInv'
<1>1. \A k \in Image : /\ InUse(image'[k]) /\ image'[k].clones = image[k].clones
                       /\ Origin(k)' = Origin(k)
                       /\ image[k].state # "NONE" => image'[k].state # "NONE"
                       /\ Origin(k) # NoImage => image'[k].state = image[k].state
  <2> TAKE k \in Image
  <2>1. CASE k = i
    BY <2>1
  <2>2. CASE k # i
    BY <2>2 DEF CopiesInv, Origin, Exists
  <2>3. QED BY <2>1, <2>2
<1>2. QED BY <1>1, CopiesKept

LEMMA CopiesUntouched ==
  ASSUME IInv, CopiesInv, UNCHANGED image,
         \A c \in calls \cup calls' : c.op \in CopyOps \cup {"UNCLONE"} => (c \in calls' <=> c \in calls),
         \A k \in Image : Origin(k) # NoImage /\ <<"CLONE", k>> \in driver => <<"CLONE", k>> \in driver'
  PROVE  CopiesInv'
BY CopiesKept DEF CopiesInv, Origin, Exists

LEMMA AcquiredCopies ==
  ASSUME NEW r \in ImageRecord, NEW v \in VM, CanAcquire(r)
  PROVE  /\ InUse(Acquired(r, v)) /\ Acquired(r, v).clones = r.clones
         /\ Acquired(r, v).cloning = r.cloning /\ Acquired(r, v).state \in {"USED", "USED_PERS"}
<1> DEFINE a == Acquired(r, v)
<1>1. /\ a.vms = r.vms \cup {v} /\ a.clones = r.clones /\ a.cloning = r.cloning
      /\ a.state \in {"USED", "USED_PERS"}
  BY DEF Acquired, ImageRecord
<1> HIDE DEF a
<1>2. QED BY <1>1 DEF InUse, a

LEMMA ReleasedCopies ==
  ASSUME NEW r \in ImageRecord, NEW v \in VM, NEW failed \in BOOLEAN, InUse(r)
  PROVE  /\ InUse(Released(r, v, failed)) /\ Released(r, v, failed).clones = r.clones
         /\ Released(r, v, failed).cloning = r.cloning
         /\ Released(r, v, failed).state \in {r.state, "READY", "ERROR"}
<1> DEFINE a == Released(r, v, failed)
<1>1. Idle(failed) \in {"ERROR", "READY"}
  BY DEF Idle
<1>2. CASE r.state = "USED_PERS" \/ (r.state = "LOCKED" /\ r.saver # NoVM)
  <2>1. a.clones = r.clones /\ a.cloning = r.cloning /\ a.state \in {"ERROR", "READY"}
    BY <1>1, <1>2 DEF Released, ImageRecord
  <2> HIDE DEF a
  <2>2. QED BY <2>1 DEF InUse, a
<1>3. CASE r.state = "USED"
  <2>1. /\ a.clones = r.clones /\ a.cloning = r.cloning /\ a.vms = r.vms \ {v}
        /\ a.state = IF r.vms \ {v} = {} /\ r.clones = {} THEN "READY" ELSE r.state
    BY <1>3 DEF Released, ImageRecord
  <2> HIDE DEF a
  <2>2. InUse(a)
    BY <2>1 DEF InUse
  <2>3. a.state \in {r.state, "READY", "ERROR"}
    BY <2>1
  <2>4. QED BY <2>1, <2>2, <2>3 DEF a
<1>4. CASE r.state \notin {"USED_PERS", "USED"} /\ ~(r.state = "LOCKED" /\ r.saver # NoVM)
  BY <1>4 DEF Released
<1>5. QED BY <1>2, <1>3, <1>4

(* A VM takes an image, or gives one back that it holds or saves to.       *)
LEMMA UseKeepsCopies ==
  ASSUME IInv, CopiesInv, NEW i \in Image, NEW v \in VM, NEW failed \in BOOLEAN,
         \/ CanAcquire(image[i]) /\ SetImage(i, Acquired(image[i], v))
         \/ /\ Holds(v, i) \/ \E s \in Saves : Saved(v, s) = i
            /\ SetImage(i, Released(image[i], v, failed)),
         UNCHANGED driver,
         \A c \in calls \cup calls' : c.op \in CopyOps \cup {"UNCLONE"} => (c \in calls' <=> c \in calls)
  PROVE  CopiesInv'
<1>0. image \in [Image -> ImageRecord] /\ image[i] \in ImageRecord /\ InUse(image[i])
  BY DEF IInv, TypeOK, CopiesInv
<1>1. CASE CanAcquire(image[i]) /\ SetImage(i, Acquired(image[i], v))
  <2>1. image'[i] = Acquired(image[i], v) /\ \A k \in Image \ {i} : image'[k] = image[k]
    BY <1>0, <1>1 DEF SetImage
  <2>2. Origin(i) = NoImage
    BY <1>1, NoCopy DEF CanAcquire
  <2>3. Origin(i)' = NoImage
    BY <1>0, <1>1, <2>1, <2>2, AcquiredCopies DEF Origin, Exists, CanAcquire
  <2>4. QED BY <1>0, <1>1, <2>1, <2>2, <2>3, AcquiredCopies, CopiesKeptByOne
<1>2. CASE /\ Holds(v, i) \/ \E s \in Saves : Saved(v, s) = i
           /\ SetImage(i, Released(image[i], v, failed))
  <2>1. image'[i] = Released(image[i], v, failed) /\ \A k \in Image \ {i} : image'[k] = image[k]
    BY <1>0, <1>2 DEF SetImage
  <2>2. image[i].state \in {"USED", "USED_PERS", "LOCKED"}
    BY <1>2, HeldIsUsed DEF IInv, MakersFit, MadeIsLocked, MadeForVM
  <2>3. Origin(i) = NoImage
    BY <1>2, HeldIsUsed, NoCopy
  <2>4. /\ InUse(image'[i]) /\ image'[i].clones = image[i].clones /\ image'[i].cloning = image[i].cloning
        /\ image'[i].state \in {image[i].state, "READY", "ERROR"}
    BY <1>0, <2>1, ReleasedCopies
  <2>5. Origin(i)' = NoImage
    BY <2>2, <2>3, <2>4 DEF Origin, Exists
  <2>6. QED BY <2>1, <2>2, <2>3, <2>4, <2>5, CopiesKeptByOne
<1>3. QED BY <1>1, <1>2

(* Only the state of an image that nobody copies, nor uses, changes.       *)
LEMMA StateKeepsCopies ==
  ASSUME IInv, CopiesInv, NEW i \in Image, NEW s \in {"READY", "ERROR", "DISABLED"}, SetState(i, s),
         Origin(i) = NoImage, Exists(i), UNCHANGED driver,
         \A c \in calls \cup calls' : c.op \in CopyOps \cup {"UNCLONE"} => (c \in calls' <=> c \in calls)
  PROVE  CopiesInv'
<1>1. /\ image'[i].state = s /\ image'[i].clones = image[i].clones /\ image'[i].cloning = image[i].cloning
      /\ \A k \in Image \ {i} : image'[k] = image[k]
  BY DEF SetState, IInv, TypeOK, ImageRecord
<1>2. Origin(i)' = NoImage /\ InUse(image'[i])
  BY <1>1 DEF Origin, Exists, InUse
<1>3. QED BY <1>1, <1>2, CopiesKeptByOne

(* A copy is no longer made: who made it takes it out of its original.     *)
LEMMA CopyEnds ==
  ASSUME IInv, CopiesInv, NEW i \in Image, Origin(i) # NoImage, \A c \in calls : c.op = "CLONE" => c.image # i,
         calls' = calls \cup {Call("UNCLONE", NoVM, i, Origin(i))},
         \A k \in Image \ {i} : image'[k] = image[k] /\ (<<"CLONE", k>> \in driver => <<"CLONE", k>> \in driver'),
         Origin(i)' = NoImage, InUse(image'[i]), image'[i].clones = image[i].clones,
         image'[i].state # "NONE"
  PROVE  CopiesInv'
<1> DEFINE o == Origin(i)
           d == Call("UNCLONE", NoVM, i, o)
<1>1. d.op = "UNCLONE" /\ d.image = i /\ d.other = o
  BY DEF Call
<1>2. \A c \in calls : c.op = "UNCLONE" => c.image \in Image \ {i}
  BY CallParts DEF IInv, TypeOK, CopiesInv
<1>3. \A k \in Image \ {i} : Origin(k)' = Origin(k)
  BY DEF Origin, Exists
<1>4. calls' = calls \cup {d}
  OBVIOUS
<1>5. \A j, k \in Image : Counts(j, k)' <=> Counts(j, k)
  <2> TAKE j \in Image, k \in Image
  <2>1. CASE j = i /\ k = o
    <3>1. Counts(i, o)
      BY DEF Counts
    <3>2. \E c \in calls' : c.op = "UNCLONE" /\ c.image = i /\ c.other = o
      BY <1>1, <1>4
    <3>3. QED BY <2>1, <3>1, <3>2 DEF Counts
  <2>2. CASE j = i /\ k # o
    <3>1. ~Counts(j, k)
      BY <1>2, <2>2 DEF Counts
    <3>2. ~Counts(j, k)'
      BY <1>1, <1>2, <1>4, <2>2, NullAssumption DEF Counts
    <3>3. QED BY <3>1, <3>2
  <2>3. CASE j # i
    BY <1>1, <1>3, <1>4, <2>3 DEF Counts
  <2>4. QED BY <2>1, <2>2, <2>3
<1> HIDE DEF o, d
<1>6. \A k \in Image : InUse(image'[k]) /\ image'[k].clones = image[k].clones
  <2> TAKE k \in Image
  <2>1. CASE k = i
    BY <2>1
  <2>2. CASE k # i
    BY <2>2 DEF CopiesInv
  <2>3. QED BY <2>1, <2>2
<1>7. \A j \in Image : Origin(j)' # NoImage =>
        /\ image'[j].state = "LOCKED"
        /\ \/ \E c \in calls' : c.op \in CopyOps /\ c.image = j
           \/ <<"CLONE", j>> \in driver'
  BY <1>3, <1>4 DEF CopiesInv
<1>8. \A c \in calls' : c.op = "UNCLONE" => image'[c.image].state # "NONE" /\ Origin(c.image)' = NoImage
  <2>1. ASSUME NEW c \in calls, c.op = "UNCLONE"
        PROVE  image'[c.image].state # "NONE" /\ Origin(c.image)' = NoImage
    BY <1>2, <1>3, <2>1 DEF CopiesInv
  <2>2. QED BY <1>1, <1>4, <2>1
<1>9. QED BY <1>5, <1>6, <1>7, <1>8 DEF CopiesInv

LEMMA ImageRequestCopies ==
  ASSUME Careful, IInv, CopiesInv, NEW i \in Image, ImageRequest(i)
  PROVE  CopiesInv'
<1>0. image \in [Image -> ImageRecord] /\ image[i] \in ImageRecord
  BY DEF IInv, TypeOK
<1>1. CASE image_allocate(i)
  <2>1. PICK persistent \in BOOLEAN, source \in BOOLEAN :
          image' = [image EXCEPT ![i] = NewImage(persistent, source, NoImage, NoVM)]
    BY <1>1 DEF image_allocate, SetImage
  <2>2. /\ image'[i].state = "LOCKED" /\ image'[i].cloning = NoImage /\ image'[i].clones = {}
        /\ \A k \in Image \ {i} : image'[k] = image[k]
    BY <1>0, <2>1 DEF NewImage
  <2>3. image[i].state = "NONE" /\ image[i].clones = {} /\ UNCHANGED driver
    BY <1>1, UnusedCountsNothing DEF image_allocate
  <2>4. Origin(i) = NoImage /\ Origin(i)' = NoImage /\ InUse(image'[i])
    BY <2>2, <2>3, NoCopy DEF Origin, InUse
  <2>5. \A c \in calls \cup calls' : c.op \in CopyOps \cup {"UNCLONE"} => (c \in calls' <=> c \in calls)
    BY <1>1 DEF image_allocate, Starts, Call, CopyOps
  <2>6. QED BY <2>2, <2>3, <2>4, <2>5, CopiesKeptByOne
<1>2. CASE image_enable(i) \/ image_disable(i)
  <2>1. PICK s \in {"READY", "ERROR", "DISABLED"} : SetState(i, s)
    BY <1>2 DEF image_enable, image_disable
  <2>2. Exists(i) /\ Origin(i) = NoImage /\ UNCHANGED <<calls, driver>>
    BY <1>2, NoCopy DEF image_enable, image_disable, Exists
  <2>3. QED BY <2>1, <2>2, StateKeepsCopies
<1>3. CASE image_persistent(i)
  <2>1. image' = [image EXCEPT ![i] = [image[i] EXCEPT !.persistent = ~image[i].persistent]]
    BY <1>3 DEF image_persistent, SetImage
  <2> DEFINE new == ~image[i].persistent
             q == [image[i] EXCEPT !.persistent = new]
  <2>2. image' = [image EXCEPT ![i] = q]
    BY <2>1
  <2> HIDE DEF new
  <2>3. q.state = image[i].state /\ q.clones = image[i].clones /\ q.cloning = image[i].cloning
    BY <1>0 DEF ImageRecord
  <2> HIDE DEF q
  <2>4. image'[i] = q /\ \A k \in Image \ {i} : image'[k] = image[k]
    BY <1>0, <2>2
  <2>5. /\ Exists(i) /\ image[i].state \notin {"USED", "CLONE", "USED_PERS"} /\ UNCHANGED <<calls, driver>>
    BY <1>3 DEF image_persistent, CanChangePersistent
  <2>6. \A k \in Image : /\ InUse(image'[k]) /\ image'[k].clones = image[k].clones
                         /\ Origin(k)' = Origin(k) /\ image'[k].state = image[k].state
    <3> TAKE k \in Image
    <3>1. CASE k = i
      BY <2>3, <2>4, <2>5, <3>1 DEF InUse, Origin, Exists
    <3>2. CASE k # i
      BY <2>4, <3>2 DEF CopiesInv, Origin, Exists
    <3>3. QED BY <3>1, <3>2
  <2>7. QED BY <2>5, <2>6, CopiesKept
<1>4. CASE image_delete(i)
  <2>1. /\ image'[i].state \in {"DELETE", "GONE"} /\ image'[i].cloning = NoImage
        /\ image'[i].clones \in {image[i].clones, {}} /\ \A k \in Image \ {i} : image'[k] = image[k]
        /\ \A k \in Image : <<"CLONE", k>> \in driver => <<"CLONE", k>> \in driver'
    BY <1>4, DeletedImage
  <2>2. CanDelete(i)
    BY <1>4 DEF image_delete
  <2>3. image[i].clones = {} /\ \A c \in calls : ~Makes(c, i)
    BY <2>2, DeletedIsNotMade
  <2>4. Exists(i)
    BY <2>2 DEF CanDelete, Exists
  <2>5. Origin(i)' = NoImage /\ InUse(image'[i]) /\ image'[i].clones = image[i].clones
        /\ image'[i].state # "NONE"
    BY <2>1, <2>3 DEF Origin, InUse
  <2>6. \A c \in calls : c.op = "CLONE" => c.image # i
    BY <2>3 DEF Makes, MakeOps
  <2>7. CASE Origin(i) = NoImage
    <3>1. calls' = calls
      BY <1>4, <2>4, <2>7 DEF image_delete, Origin
    <3>2. QED BY <2>1, <2>5, <2>7, <3>1, CopiesKeptByOne
  <2>8. CASE Origin(i) # NoImage
    <3>1. image[i].state = "LOCKED" /\ image[i].cloning = Origin(i)
      BY <2>4, <2>8 DEF CopiesInv, Origin
    <3>2. calls' = calls \cup {Call("UNCLONE", NoVM, i, Origin(i))}
      BY <1>4, <2>8, <3>1 DEF image_delete, Starts
    <3>3. QED BY <2>1, <2>5, <2>6, <2>8, <3>2, CopyEnds
  <2>9. QED BY <2>7, <2>8
<1>5. ASSUME NEW source \in Image, image_clone(i, source) PROVE CopiesInv'
  <2> DEFINE d == Call("CLONE", NoVM, i, source)
  <2>1. /\ image' = [image EXCEPT ![i] = NewImage(FALSE, FALSE, source, NoVM)]
        /\ calls' = calls \cup {d} /\ UNCHANGED driver
    BY <1>5 DEF image_clone, SetImage, Starts
  <2>2. /\ image'[i].state = "LOCKED" /\ image'[i].cloning = source /\ image'[i].clones = {}
        /\ \A k \in Image \ {i} : image'[k] = image[k]
    BY <1>0, <2>1 DEF NewImage
  <2>3. image[i].state = "NONE" /\ image[i].clones = {} /\ Origin(i) = NoImage
    BY <1>5, UnusedCountsNothing, NoCopy DEF image_clone
  <2>4. d.op = "CLONE" /\ d.image = i
    BY DEF Call
  <2>5. /\ \A c \in calls : c.op = "UNCLONE" => c.image \in Image \ {i}
        /\ \A k \in Image \ {i} : Origin(k)' = Origin(k)
    BY <2>2, <2>3, CallParts DEF IInv, TypeOK, CopiesInv, Origin, Exists
  <2> HIDE DEF d
  <2>6. \A j, k \in Image : Counts(j, k)' <=> Counts(j, k)
    <3> TAKE j \in Image, k \in Image
    <3>1. CASE j = i
      <4>1. ~Counts(j, k)
        BY <2>3, <2>5, <3>1, NullAssumption DEF Counts
      <4>2. ~Counts(j, k)'
        BY <2>1, <2>4, <2>5, <3>1 DEF Counts
      <4>3. QED BY <4>1, <4>2
    <3>2. CASE j # i
      BY <2>1, <2>4, <2>5, <3>2 DEF Counts
    <3>3. QED BY <3>1, <3>2
  <2>7. \A k \in Image : InUse(image'[k]) /\ image'[k].clones = image[k].clones
    <3> TAKE k \in Image
    <3>1. CASE k = i
      BY <2>2, <2>3, <3>1 DEF InUse
    <3>2. CASE k # i
      BY <2>2, <3>2 DEF CopiesInv
    <3>3. QED BY <3>1, <3>2
  <2>8. \A j \in Image : Origin(j)' # NoImage =>
          /\ image'[j].state = "LOCKED"
          /\ \/ \E c \in calls' : c.op \in CopyOps /\ c.image = j
             \/ <<"CLONE", j>> \in driver'
    <3> SUFFICES ASSUME NEW j \in Image, Origin(j)' # NoImage
                 PROVE  /\ image'[j].state = "LOCKED"
                        /\ \/ \E c \in calls' : c.op \in CopyOps /\ c.image = j
                           \/ <<"CLONE", j>> \in driver'
      OBVIOUS
    <3>1. CASE j = i
      BY <2>1, <2>2, <2>4, <3>1 DEF CopyOps
    <3>2. CASE j # i
      BY <2>1, <2>2, <2>5, <3>2 DEF CopiesInv
    <3>3. QED BY <3>1, <3>2
  <2>9. \A c \in calls' : c.op = "UNCLONE" => image'[c.image].state # "NONE" /\ Origin(c.image)' = NoImage
    BY <2>1, <2>2, <2>4, <2>5 DEF CopiesInv
  <2>10. QED BY <2>6, <2>7, <2>8, <2>9 DEF CopiesInv
<1>6. QED BY <1>1, <1>2, <1>3, <1>4, <1>5 DEF ImageRequest

LEMMA DatastoreAnswerCopies ==
  ASSUME IInv, CopiesInv, NEW i \in Image, DatastoreAnswer(i)
  PROVE  CopiesInv'
<1>0. image \in [Image -> ImageRecord] /\ image[i] \in ImageRecord
  BY DEF IInv, TypeOK
<1>1. PICK cmd \in MakeCmds : Answered(cmd, i) /\ (cmd = "CLONE" <=> clone_action(i))
  BY DEF DatastoreAnswer, cp_action, clone_action, mkfs_action, rm_action, Answered, MakeCmds
<1>2. \A k \in Image : <<"CLONE", k>> \in driver =>
        <<"CLONE", k>> \in driver' \/ (k = i /\ cmd = "CLONE")
  BY <1>1 DEF Answered
<1>3. cmd # "CLONE" => Origin(i) = NoImage
  BY <1>1, NoCopy DEF Answered
<1>4. CASE UNCHANGED image /\ UNCHANGED calls
  <2>1. cmd = "CLONE" => Origin(i) = NoImage
    <3>1. CASE Exists(i) /\ cmd = "CLONE"
      <4>1. image[i].state = "LOCKED" /\ image'[i].state # "LOCKED"
        BY <1>1, <3>1, CopiedImage
      <4>2. QED BY <1>4, <4>1
    <3>2. CASE ~Exists(i)
      BY <3>2 DEF Origin
    <3>3. QED BY <3>1, <3>2
  <2>2. QED BY <1>2, <1>3, <1>4, <2>1, CopiesUntouched
<1>5. CASE cp_action(i) /\ Exists(i)
  <2>1. /\ image'[i].state \in {"READY", "ERROR"} /\ image'[i].cloning = image[i].cloning
        /\ image'[i].clones = image[i].clones /\ \A k \in Image \ {i} : image'[k] = image[k]
    BY <1>5, CopiedImage
  <2>2. cmd # "CLONE" /\ UNCHANGED calls
    BY <1>1, <1>5 DEF cp_action, clone_action, Answered
  <2>3. Origin(i)' = NoImage /\ InUse(image'[i])
    BY <1>3, <1>5, <2>1, <2>2 DEF Origin, Exists, InUse
  <2>4. QED BY <1>2, <1>3, <2>1, <2>2, <2>3, CopiesKeptByOne
<1>6. CASE clone_action(i) /\ Exists(i)
  <2>1. /\ image'[i].state \in {"READY", "ERROR"} /\ image'[i].cloning = NoImage
        /\ image'[i].clones = image[i].clones /\ \A k \in Image \ {i} : image'[k] = image[k]
        /\ image[i].cloning \in Image
    BY <1>6, CopiedImage
  <2>2. /\ Origin(i) = image[i].cloning /\ Origin(i) # NoImage /\ cmd = "CLONE"
        /\ calls' = calls \cup {Call("UNCLONE", NoVM, i, Origin(i))}
    BY <1>1, <1>6, <2>1, NullAssumption DEF clone_action, Origin, Starts
  <2>3. Origin(i)' = NoImage /\ InUse(image'[i]) /\ image'[i].state # "NONE"
    BY <2>1 DEF Origin, Exists, InUse
  <2>4. \A c \in calls : c.op = "CLONE" => c.image # i
    BY <1>1, MadeByDriver DEF Answered, Makes, MakeOps
  <2>5. QED BY <1>2, <2>1, <2>2, <2>3, <2>4, CopyEnds
<1>7. CASE mkfs_action(i) /\ Exists(i)
  <2>1. image[i].state = "LOCKED" /\ cmd # "CLONE"
    BY <1>1, <1>7, MadeByDriver DEF mkfs_action, clone_action, Answered, Exists, MakeCmds
  <2>2. /\ image'[i].state \in {"LOCKED", "ERROR"} /\ image'[i].cloning = image[i].cloning
        /\ image'[i].clones = image[i].clones /\ \A k \in Image \ {i} : image'[k] = image[k]
    <3>1. \/ image' = [image EXCEPT ![i] = [image[i] EXCEPT !.source = TRUE]]
          \/ image' = [image EXCEPT ![i].state = "ERROR"]
      BY <1>7 DEF mkfs_action, SetImage, SetState
    <3>2. QED BY <1>0, <2>1, <3>1 DEF ImageRecord
  <2>3. Origin(i)' = NoImage /\ InUse(image'[i])
    BY <1>3, <1>7, <2>1, <2>2 DEF Origin, Exists, InUse
  <2>4. \A c \in calls \cup calls' : c.op \in CopyOps \cup {"UNCLONE"} => (c \in calls' <=> c \in calls)
    BY <1>7 DEF mkfs_action, Starts, Call, CopyOps
  <2>5. QED BY <1>2, <1>3, <2>1, <2>2, <2>3, <2>4, CopiesKeptByOne
<1>8. CASE rm_action(i) /\ Exists(i)
  <2>1. image' = [image EXCEPT ![i] = Dropped] /\ UNCHANGED calls /\ cmd # "CLONE"
    BY <1>1, <1>8 DEF rm_action, SetImage, clone_action, Answered
  <2>2. image[i].state = "DELETE"
    BY <1>8, MadeByDriver DEF rm_action, Answered, Exists, MakeCmds
  <2>3. /\ image'[i].state = "GONE" /\ image'[i].clones = {} /\ image[i].clones = {}
        /\ \A k \in Image \ {i} : image'[k] = image[k]
    BY <1>0, <2>1, <2>2, NewFits, UnusedCountsNothing
  <2>4. Origin(i)' = NoImage /\ InUse(image'[i])
    BY <2>3 DEF Origin, Exists, InUse
  <2>5. QED BY <1>2, <1>3, <2>1, <2>3, <2>4, CopiesKeptByOne
<1>9. QED BY <1>4, <1>5, <1>6, <1>7, <1>8
      DEF DatastoreAnswer, cp_action, clone_action, mkfs_action, rm_action

(* clone_count: the original counts its copy, or the copy is dropped.      *)
LEMMA CloneCountCopies ==
  ASSUME IInv, CopiesInv, NEW c \in calls, clone_count(c)
  PROVE  CopiesInv'
<1> DEFINE i == c.image
           o == c.other
<1>0. image \in [Image -> ImageRecord]
  BY DEF IInv, TypeOK
<1>1. /\ c \in CallRecord /\ c.op = "CLONE" /\ i \in Image /\ o \in Image
      /\ image[i].state = "LOCKED" /\ image[i].cloning = o
      /\ \A d \in calls : d.op \in MakeOps /\ d.image = i => d = c
  BY CallParts, MadeByCall DEF clone_count, IInv, TypeOK, MakeOps, Makes
<1>2. Origin(i) = o /\ \A d \in calls : d.op = "UNCLONE" => d.image \in Image \ {i}
  BY <1>1, CallParts, NullAssumption DEF CopiesInv, Origin, Exists, IInv, TypeOK
<1>3. \A k \in Image : ~Counts(i, k)
  BY <1>1, <1>2 DEF Counts
<1>4. CASE CanClone(image[o])
  <2> DEFINE e == Call("CLONE_START", NoVM, i, o)
  <2>1. /\ image' = [image EXCEPT ![o] = Cloned(image[o], i)]
        /\ calls' = (calls \ {c}) \cup {e} /\ UNCHANGED driver
    BY <1>4 DEF clone_count, SetImage, Becomes
  <2>2. e.op = "CLONE_START" /\ e.image = i
    BY DEF Call
  <2> HIDE DEF e
  <2>3. /\ Cloned(image[o], i).clones = image[o].clones \cup {i}
        /\ Cloned(image[o], i).cloning = image[o].cloning
        /\ Cloned(image[o], i).state \notin {"NONE", "GONE", "LOCKED"}
    BY <1>0, <1>1, <1>4 DEF Cloned, CanClone, ImageRecord
  <2>4. /\ image'[o].clones = image[o].clones \cup {i} /\ image'[o].cloning = image[o].cloning
        /\ image'[o].state \notin {"NONE", "GONE", "LOCKED"}
        /\ \A k \in Image \ {o} : image'[k] = image[k]
    BY <1>0, <1>1, <2>1, <2>3
  <2>5. o # i /\ Origin(o) = NoImage /\ image[o].state # "NONE" /\ Exists(o)
    BY <1>1, <1>4, NoCopy DEF CanClone, Exists
  <2>6. \A k \in Image : Origin(k)' = Origin(k)
    BY <2>4, <2>5 DEF Origin, Exists
  <2>7. \A j, k \in Image : Counts(j, k)' <=> Counts(j, k) \/ (j = i /\ k = o)
    <3> TAKE j \in Image, k \in Image
    <3>1. CASE j = i /\ k = o
      <4>1. \A d \in calls' : d.op = "CLONE" => d.image # i
        BY <1>1, <2>1, <2>2 DEF MakeOps
      <4>2. QED BY <1>2, <2>6, <3>1, <4>1 DEF Counts
    <3>2. CASE j = i /\ k # o
      <4>1. ~Counts(i, k)'
        BY <1>1, <1>2, <2>1, <2>2, <2>6, <3>2 DEF Counts
      <4>2. QED BY <1>3, <3>2, <4>1
    <3>3. CASE j # i
      BY <1>1, <2>1, <2>2, <2>6, <3>3 DEF Counts
    <3>4. QED BY <3>1, <3>2, <3>3
  <2>8. \A j, k \in Image : j \in image'[k].clones <=> Counts(j, k)'
    <3> TAKE j \in Image, k \in Image
    <3>1. j \in image'[k].clones <=> j \in image[k].clones \/ (j = i /\ k = o)
      BY <2>4
    <3>2. QED BY <2>7, <3>1 DEF CopiesInv
  <2>9. \A k \in Image : InUse(image'[k])
    <3> TAKE k \in Image
    <3>1. CASE k = o
      BY <2>4, <3>1 DEF InUse
    <3>2. CASE k # o
      BY <2>4, <3>2 DEF CopiesInv
    <3>3. QED BY <3>1, <3>2
  <2>10. \A j \in Image : Origin(j)' # NoImage =>
          /\ image'[j].state = "LOCKED"
          /\ \/ \E d \in calls' : d.op \in CopyOps /\ d.image = j
             \/ <<"CLONE", j>> \in driver'
    <3> SUFFICES ASSUME NEW j \in Image, Origin(j)' # NoImage
                 PROVE  /\ image'[j].state = "LOCKED"
                        /\ \/ \E d \in calls' : d.op \in CopyOps /\ d.image = j
                           \/ <<"CLONE", j>> \in driver'
      OBVIOUS
    <3>1. j # o /\ Origin(j) # NoImage
      BY <2>5, <2>6
    <3>2. CASE j = i
      BY <1>1, <2>1, <2>2, <2>4, <3>1, <3>2 DEF CopyOps
    <3>3. CASE j # i
      BY <1>1, <2>1, <2>4, <3>1, <3>3 DEF CopiesInv
    <3>4. QED BY <3>2, <3>3
  <2>11. \A d \in calls' : d.op = "UNCLONE" => image'[d.image].state # "NONE" /\ Origin(d.image)' = NoImage
    BY <1>2, <2>1, <2>2, <2>4, <2>5, <2>6 DEF CopiesInv
  <2>12. QED BY <2>8, <2>9, <2>10, <2>11 DEF CopiesInv
<1>5. CASE ~CanClone(image[o])
  <2>1. image' = [image EXCEPT ![i] = Dropped] /\ calls' = calls \ {c} /\ UNCHANGED driver
    BY <1>5 DEF clone_count, SetImage, Goes
  <2>2. /\ image'[i].state = "GONE" /\ image'[i].clones = {} /\ image[i].clones = {}
        /\ \A k \in Image \ {i} : image'[k] = image[k]
    BY <1>0, <1>1, <2>1, NewFits, UnusedCountsNothing
  <2>3. Origin(i)' = NoImage /\ \A k \in Image \ {i} : Origin(k)' = Origin(k)
    BY <2>2 DEF Origin, Exists
  <2>4. \A j, k \in Image : Counts(j, k)' <=> Counts(j, k)
    <3> TAKE j \in Image, k \in Image
    <3>1. CASE j = i
      BY <1>2, <1>3, <2>1, <2>3, <3>1, NullAssumption DEF Counts
    <3>2. CASE j # i
      BY <1>1, <2>1, <2>3, <3>2 DEF Counts
    <3>3. QED BY <3>1, <3>2
  <2>5. \A k \in Image : InUse(image'[k]) /\ image'[k].clones = image[k].clones
    <3> TAKE k \in Image
    <3>1. CASE k = i
      BY <2>2, <3>1 DEF InUse
    <3>2. CASE k # i
      BY <2>2, <3>2 DEF CopiesInv
    <3>3. QED BY <3>1, <3>2
  <2>6. \A j \in Image : Origin(j)' # NoImage =>
          /\ image'[j].state = "LOCKED"
          /\ \/ \E d \in calls' : d.op \in CopyOps /\ d.image = j
             \/ <<"CLONE", j>> \in driver'
    <3> SUFFICES ASSUME NEW j \in Image, Origin(j)' # NoImage
                 PROVE  /\ image'[j].state = "LOCKED"
                        /\ \/ \E d \in calls' : d.op \in CopyOps /\ d.image = j
                           \/ <<"CLONE", j>> \in driver'
      OBVIOUS
    <3>1. j # i /\ Origin(j) # NoImage
      BY <2>3
    <3>2. QED BY <1>1, <2>1, <2>2, <3>1 DEF CopiesInv
  <2>7. \A d \in calls' : d.op = "UNCLONE" => image'[d.image].state # "NONE" /\ Origin(d.image)' = NoImage
    BY <1>2, <2>1, <2>2, <2>3 DEF CopiesInv
  <2>8. QED BY <2>4, <2>5, <2>6, <2>7 DEF CopiesInv
<1>6. QED BY <1>4, <1>5

(* clone_start: the driver makes the copy from now on.                     *)
LEMMA CloneStartCopies ==
  ASSUME IInv, CopiesInv, NEW c \in calls, clone_start(c)
  PROVE  CopiesInv'
<1>1. /\ c \in CallRecord /\ c.op = "CLONE_START" /\ c.op \in MakeOps /\ c.image \in Image
      /\ image[c.image].state = "LOCKED"
  BY MadeByCall DEF clone_start, IInv, TypeOK, MakeOps
<1>2. /\ driver' = driver \cup {<<"CLONE", c.image>>} /\ calls' = calls \ {c} /\ UNCHANGED image
  BY <1>1 DEF clone_start, Exists, Goes
<1>3. \A j, k \in Image : Counts(j, k)' <=> Counts(j, k)
  BY <1>1, <1>2 DEF Counts, Origin, Exists
<1>4. \A j \in Image : Origin(j)' = Origin(j)
  BY <1>2 DEF Origin, Exists
<1>5. \A j \in Image : Origin(j)' # NoImage =>
        /\ image'[j].state = "LOCKED"
        /\ \/ \E d \in calls' : d.op \in CopyOps /\ d.image = j
           \/ <<"CLONE", j>> \in driver'
  BY <1>1, <1>2, <1>4 DEF CopiesInv
<1>6. \A d \in calls' : d.op = "UNCLONE" => image'[d.image].state # "NONE" /\ Origin(d.image)' = NoImage
  BY <1>2 DEF CopiesInv, Origin, Exists
<1>7. QED BY <1>2, <1>3, <1>5, <1>6 DEF CopiesInv

(* release_cloning_image: the original counts it no more.                  *)
LEMMA UncloneCopies ==
  ASSUME IInv, CopiesInv, NEW c \in calls, unclone(c)
  PROVE  CopiesInv'
<1> DEFINE i == c.image
           o == c.other
<1>0. image \in [Image -> ImageRecord]
  BY DEF IInv, TypeOK
<1>1. /\ c.op = "UNCLONE" /\ i \in Image /\ o \in Image /\ image[i].state # "NONE" /\ Origin(i) = NoImage
      /\ c = Call("UNCLONE", NoVM, i, o)
  BY CallParts DEF unclone, IInv, TypeOK, CopiesInv
<1>2. /\ image' = [image EXCEPT ![o] = ReleasedCloning(image[o], i)]
      /\ calls' = calls \ {c} /\ UNCHANGED driver
  BY DEF unclone, SetImage, Goes
<1>3. i \in image[o].clones /\ image[o].state \in {"USED", "CLONE"}
  <2>1. Counts(i, o)
    BY <1>1 DEF Counts
  <2>2. QED BY <1>1, <2>1 DEF CopiesInv, IInv, CountersFit
<1>4. /\ image'[o].clones = image[o].clones \ {i} /\ image'[o].cloning = image[o].cloning
      /\ image'[o].vms = image[o].vms
      /\ image'[o].state = IF image[o].clones \ {i} = {} /\ image[o].vms = {} THEN "READY" ELSE image[o].state
      /\ \A k \in Image \ {o} : image'[k] = image[k]
  <2> DEFINE r == ReleasedCloning(image[o], i)
  <2>1. /\ r.clones = image[o].clones \ {i} /\ r.cloning = image[o].cloning /\ r.vms = image[o].vms
        /\ r.state = IF image[o].clones \ {i} = {} /\ image[o].vms = {} THEN "READY" ELSE image[o].state
    BY <1>0, <1>1, <1>3 DEF ReleasedCloning, ImageRecord
  <2> HIDE DEF r
  <2>2. image' = [image EXCEPT ![o] = r]
    BY <1>2 DEF r
  <2>3. image'[o] = r /\ \A k \in Image \ {o} : image'[k] = image[k]
    BY <1>0, <1>1, <2>2
  <2>4. QED BY <2>1, <2>3
<1>5. Origin(o) = NoImage /\ \A k \in Image : Origin(k)' = Origin(k)
  <2>1. Origin(o) = NoImage
    BY <1>1, <1>3, NoCopy
  <2>2. QED BY <1>3, <1>4, <2>1 DEF Origin, Exists
<1>6. \A d \in calls : d.op = "UNCLONE" /\ d.image = i /\ d.other = o => d = c
  BY <1>1, CallParts DEF IInv, TypeOK
<1>7. \A j, k \in Image : Counts(j, k)' <=> Counts(j, k) /\ ~(j = i /\ k = o)
  <2> TAKE j \in Image, k \in Image
  <2>1. CASE j = i /\ k = o
    BY <1>1, <1>2, <1>5, <1>6, <2>1, NullAssumption DEF Counts
  <2>2. CASE ~(j = i /\ k = o)
    BY <1>1, <1>2, <1>5, <2>2 DEF Counts
  <2>3. QED BY <2>1, <2>2
<1>8. \A j, k \in Image : j \in image'[k].clones <=> Counts(j, k)'
  <2> TAKE j \in Image, k \in Image
  <2>1. j \in image'[k].clones <=> j \in image[k].clones /\ ~(j = i /\ k = o)
    BY <1>4
  <2>2. QED BY <1>7, <2>1 DEF CopiesInv
<1>9. \A k \in Image : InUse(image'[k])
  <2> TAKE k \in Image
  <2>1. CASE k = o
    BY <1>4, <2>1 DEF InUse
  <2>2. CASE k # o
    BY <1>4, <2>2 DEF CopiesInv
  <2>3. QED BY <2>1, <2>2
<1>10. \A j \in Image : Origin(j)' # NoImage =>
        /\ image'[j].state = "LOCKED"
        /\ \/ \E d \in calls' : d.op \in CopyOps /\ d.image = j
           \/ <<"CLONE", j>> \in driver'
  <2> SUFFICES ASSUME NEW j \in Image, Origin(j)' # NoImage
               PROVE  /\ image'[j].state = "LOCKED"
                      /\ \/ \E d \in calls' : d.op \in CopyOps /\ d.image = j
                         \/ <<"CLONE", j>> \in driver'
    OBVIOUS
  <2>1. j # o /\ Origin(j) # NoImage
    BY <1>5
  <2>2. QED BY <1>1, <1>2, <1>4, <2>1 DEF CopiesInv, CopyOps
<1>11. \A d \in calls' : d.op = "UNCLONE" => image'[d.image].state # "NONE" /\ Origin(d.image)' = NoImage
  <2> SUFFICES ASSUME NEW d \in calls, d.op = "UNCLONE"
               PROVE  image'[d.image].state # "NONE" /\ Origin(d.image)' = NoImage
    BY <1>2
  <2>1. d.image \in Image /\ image[d.image].state # "NONE" /\ Origin(d.image) = NoImage
    BY CallParts DEF IInv, TypeOK, CopiesInv
  <2>2. QED BY <1>3, <1>4, <1>5, <2>1
<1>12. QED BY <1>8, <1>9, <1>10, <1>11 DEF CopiesInv

LEMMA CallStepCopies ==
  ASSUME IInv, CopiesInv, NEW v \in VM \cup {NoVM}, CallStep(v)
  PROVE  CopiesInv'
<1>1. PICK c \in calls :
        \/ register_image(c) \/ clone_count(c) \/ clone_start(c) \/ unclone(c)
        \/ set_up_attach_disk(c) \/ attach_back(c) \/ attach_refused(c) \/ attach_set(c)
        \/ release_image(c) \/ savedisk_allocate(c) \/ clear_saveas_state(c)
        \/ mkfs_saved(c) \/ save_failed(c) \/ saveas_hot_image(c)
  BY DEF CallStep
<1> DEFINE i == c.image
<1>0. /\ c \in CallRecord /\ image \in [Image -> ImageRecord]
      /\ c.op \in MakeOps => i \in Image /\ image[i] \in ImageRecord /\ image[i].state = "LOCKED"
  BY MadeByCall DEF IInv, TypeOK
<1>2. CASE register_image(c)
  <2>1. c.op = "REGISTER" /\ c.op \in MakeOps /\ Makes(c, i) /\ c.op \notin CopyOps
    BY <1>2 DEF register_image, MakeOps, Makes, CopyOps
  <2>2. Origin(i) = NoImage /\ Exists(i) /\ calls' = calls \ {c}
    BY <1>0, <1>2, <2>1, NoCopy DEF register_image, Exists, Goes
  <2>3. \A d \in calls \cup calls' : d.op \in CopyOps \cup {"UNCLONE"} => (d \in calls' <=> d \in calls)
    BY <2>1, <2>2 DEF CopyOps
  <2>4. CASE SetState(i, "READY") /\ UNCHANGED driver
    BY <1>0, <2>1, <2>2, <2>3, <2>4, StateKeepsCopies
  <2>5. CASE UNCHANGED image /\ driver \subseteq driver'
    BY <2>3, <2>5, CopiesUntouched
  <2>6. QED BY <1>2, <2>2, <2>4, <2>5 DEF register_image
<1>3. CASE set_up_attach_disk(c) \/ attach_back(c) \/ release_image(c)
  <2>1. /\ c.op \in {"ATTACH", "ATTACH_BACK", "RELEASE"} /\ c.op \in HoldOps \cup AttachOps
        /\ UNCHANGED driver
    BY <1>3 DEF set_up_attach_disk, attach_back, release_image, HoldOps, AttachOps
  <2>2. c.vm \in VM /\ i \in Image /\ (c.op # "ATTACH" => Holds(c.vm, i))
    BY <2>1, HoldCalls DEF HoldOps
  <2>3. PICK D : /\ calls' = (calls \ {c}) \cup D
                 /\ D \in {{}} \cup {{[c EXCEPT !.op = op]} : op \in AttachOps}
    BY <1>3, <2>1 DEF set_up_attach_disk, attach_back, release_image, Becomes, Goes, AttachOps
  <2>4. \A op \in AttachOps : [c EXCEPT !.op = op].op = op
    BY <1>0, <2>1 DEF CallRecord, Calls, AttachOps
  <2>5. \A d \in calls \cup calls' : d.op \in CopyOps \cup {"UNCLONE"} => (d \in calls' <=> d \in calls)
    BY <2>1, <2>3, <2>4 DEF CopyOps, AttachOps
  <2>6. CASE UNCHANGED image
    BY <2>1, <2>5, <2>6, CopiesUntouched
  <2>7. CASE CanAcquire(image[i]) /\ SetImage(i, Acquired(image[i], c.vm))
    BY <2>1, <2>2, <2>5, <2>7, UseKeepsCopies
  <2>8. CASE c.op # "ATTACH" /\ SetImage(i, Released(image[i], c.vm, FALSE))
    BY <2>1, <2>2, <2>5, <2>8, UseKeepsCopies
  <2>9. QED BY <1>3, <2>6, <2>7, <2>8 DEF set_up_attach_disk, attach_back, release_image
<1>4. CASE attach_refused(c) \/ attach_set(c) \/ clear_saveas_state(c) \/ mkfs_saved(c)
  <2>1. /\ UNCHANGED <<image, driver>> /\ c.op \in {"ATTACH_REFUSED", "ATTACH_SET", "CLEAR_SAVEAS", "SAVED"}
        /\ \/ calls' = calls \ {c}
           \/ calls' = (calls \ {c}) \cup {[c EXCEPT !.op = "SAVE_FAILED"]}
    BY <1>4 DEF attach_refused, attach_set, clear_saveas_state, mkfs_saved, Goes, Becomes
  <2>2. [c EXCEPT !.op = "SAVE_FAILED"].op = "SAVE_FAILED"
    BY <1>0 DEF CallRecord, Calls
  <2>3. \A d \in calls \cup calls' : d.op \in CopyOps \cup {"UNCLONE"} => (d \in calls' <=> d \in calls)
    BY <2>1, <2>2 DEF CopyOps
  <2>4. QED BY <2>1, <2>3, CopiesUntouched
<1>5. CASE savedisk_allocate(c)
  <2>0. \A op, w, j, k : Call(op, w, j, k).op = op
    BY DEF Call
  <2>1. \E d : calls' = (calls \ {c}) \cup {d} /\ d.op \in {"CLEAR_SAVEAS", "REGISTER"}
    <3>1. CASE calls' = (calls \ {c}) \cup {Call("CLEAR_SAVEAS", c.vm, NoImage, NoImage)}
      BY <2>0, <3>1
    <3>2. CASE \E k \in Image : calls' = (calls \ {c}) \cup {Call("REGISTER", c.vm, k, NoImage)}
      BY <2>0, <3>2
    <3>3. QED BY <1>5, <3>1, <3>2 DEF savedisk_allocate, Becomes
  <2>2. c.op = "SAVEDISK" /\ UNCHANGED driver
    BY <1>5 DEF savedisk_allocate
  <2>3. \A e \in calls \cup calls' : e.op \in CopyOps \cup {"UNCLONE"} => (e \in calls' <=> e \in calls)
    BY <2>1, <2>2 DEF CopyOps
  <2>4. CASE UNCHANGED image
    BY <2>2, <2>3, <2>4, CopiesUntouched
  <2>5. ASSUME NEW k \in Image, image[k].state = "NONE",
               SetImage(k, NewImage(FALSE, FALSE, NoImage, c.vm))
        PROVE  CopiesInv'
    <3>1. /\ image'[k].state = "LOCKED" /\ image'[k].cloning = NoImage /\ image'[k].clones = {}
          /\ \A j \in Image \ {k} : image'[j] = image[j]
      BY <1>0, <2>5 DEF SetImage, NewImage
    <3>2. image[k].clones = {} /\ Origin(k) = NoImage
      BY <2>5, UnusedCountsNothing, NoCopy
    <3>3. Origin(k)' = NoImage /\ InUse(image'[k])
      BY <3>1 DEF Origin, InUse
    <3>4. QED BY <2>2, <2>3, <3>1, <3>2, <3>3, CopiesKeptByOne
  <2>6. QED BY <1>5, <2>4, <2>5 DEF savedisk_allocate
<1>6. CASE save_failed(c) \/ saveas_hot_image(c)
  <2>1. /\ c.op \in MakeOps /\ Makes(c, i) /\ c.op \notin CopyOps \cup {"UNCLONE"} /\ UNCHANGED driver
    BY <1>6 DEF save_failed, saveas_hot_image, MakeOps, Makes, CopyOps
  <2>2. Origin(i) = NoImage /\ Exists(i)
    BY <1>0, <2>1, NoCopy DEF Exists
  <2>3. PICK s \in {"READY", "ERROR"} : SetState(i, s)
    BY <1>6, <2>2 DEF save_failed, saveas_hot_image
  <2>4. \/ calls' = calls \ {c}
        \/ calls' = (calls \ {c}) \cup {Call("CLEAR_SAVEAS", c.vm, NoImage, NoImage)}
    BY <1>6, <2>2 DEF save_failed, saveas_hot_image, Becomes, Goes
  <2>5. \A d \in calls \cup calls' : d.op \in CopyOps \cup {"UNCLONE"} => (d \in calls' <=> d \in calls)
    BY <2>1, <2>4 DEF CopyOps, Call
  <2>6. QED BY <1>0, <2>1, <2>2, <2>3, <2>5, StateKeepsCopies
<1>7. QED BY <1>1, <1>2, <1>3, <1>4, <1>5, <1>6, CloneCountCopies, CloneStartCopies, UncloneCopies

LEMMA VmStepCopies ==
  ASSUME IInv, CopiesInv, NEW v \in VM, VmRequest(v) \/ PoolStep(v) \/ DriverAnswer(v)
  PROVE  CopiesInv'
<1>1. ASSUME UNCHANGED <<image, driver>>,
             \/ UNCHANGED calls
             \/ \E d : Starts(d) /\ d.op \in {"HOT_READY", "HOT_ERROR", "ATTACH", "RELEASE", "SAVEDISK"}
      PROVE  CopiesInv'
  <2>1. \A e \in calls \cup calls' : e.op \in CopyOps \cup {"UNCLONE"} => (e \in calls' <=> e \in calls)
    BY <1>1 DEF CopyOps, Starts
  <2>2. QED BY <1>1, <2>1, CopiesUntouched
<1>2. \A op, w, i, j : Call(op, w, i, j).op = op
  BY DEF Call
<1>3. CASE VmRequest(v)
  <2>1. CASE vm_insert(v) \/ vm_fail(v) \/ finalize(v) \/ \E s \in Slots : detach(v, s)
    BY <1>1, <2>1 DEF vm_insert, vm_fail, finalize, detach
  <2>2. CASE vm_end(v)
    BY <1>1, <1>2, <2>2 DEF vm_end
  <2>3. ASSUME NEW i \in Image, attach(v, i) PROVE CopiesInv'
    BY <1>1, <1>2, <2>3 DEF attach
  <2>4. ASSUME NEW s \in Slots, NEW hot \in BOOLEAN, savedisk(v, s, hot) PROVE CopiesInv'
    BY <1>1, <1>2, <2>4 DEF savedisk
  <2>5. QED BY <1>3, <2>1, <2>2, <2>3, <2>4 DEF VmRequest
<1>4. CASE DriverAnswer(v)
  <2>1. CASE saveas_hot(v)
    BY <1>1, <1>2, <2>1 DEF saveas_hot
  <2>2. CASE attach_success(v)
    BY <1>1, <2>2 DEF attach_success
  <2>3. CASE attach_failure(v)
    BY <1>1, <1>2, <2>3 DEF attach_failure
  <2>4. QED BY <1>4, <2>1, <2>2, <2>3 DEF DriverAnswer
<1>5. CASE insert_end(v) \/ done_action(v) \/ release_end(v)
  BY <1>1, <1>5 DEF insert_end, done_action, release_end
<1>6. ASSUME NEW i \in Image, insert_disk(v, i) PROVE CopiesInv'
  <2>1. UNCHANGED <<calls, driver>> /\ (UNCHANGED image \/ (CanAcquire(image[i]) /\ SetImage(i, Acquired(image[i], v))))
    BY <1>6 DEF insert_disk
  <2>2. CASE UNCHANGED image
    BY <1>1, <2>1, <2>2
  <2>3. CASE CanAcquire(image[i]) /\ SetImage(i, Acquired(image[i], v))
    BY <2>1, <2>3, UseKeepsCopies
  <2>4. QED BY <2>1, <2>2, <2>3
<1>7. CASE release_disk(v)
  <2>1. PICK s \in Slots :
          \/ /\ vm[v].disk[s] # NoImage
             /\ SetImage(vm[v].disk[s], Released(image[vm[v].disk[s]], v, FailedRelease(v)))
          \/ /\ vm[v].save_as[s] # NoImage
             /\ SetImage(vm[v].save_as[s], Released(image[vm[v].save_as[s]], v, FailedRelease(v)))
    BY <1>7 DEF release_disk
  <2>2. /\ UNCHANGED <<calls, driver>> /\ FailedRelease(v) \in BOOLEAN
        /\ vm[v].disk[s] \in Image \cup {NoImage} /\ vm[v].save_as[s] \in Image \cup {NoImage}
        /\ s \in Saves /\ Saved(v, s) = vm[v].save_as[s]
    BY <1>7, MaxDisksAssumption
       DEF release_disk, FailedRelease, IInv, TypeOK, VmRecord, Slots, Saves, Saved
  <2>3. vm[v].disk[s] # NoImage => Holds(v, vm[v].disk[s])
    BY DEF Holds, Disks
  <2>4. CASE /\ vm[v].disk[s] # NoImage
             /\ SetImage(vm[v].disk[s], Released(image[vm[v].disk[s]], v, FailedRelease(v)))
    BY <2>2, <2>3, <2>4, UseKeepsCopies
  <2>5. CASE /\ vm[v].save_as[s] # NoImage
             /\ SetImage(vm[v].save_as[s], Released(image[vm[v].save_as[s]], v, FailedRelease(v)))
    BY <2>2, <2>5, UseKeepsCopies
  <2>6. QED BY <2>1, <2>4, <2>5
<1>8. QED BY <1>3, <1>4, <1>5, <1>6, <1>7 DEF PoolStep

(* With no call left, the clones an image counts are those made from it,   *)
(* and its counters imply its state.                                       *)
LEMMA CopiesClean == IInv /\ CopiesInv => FsckClean
<1> SUFFICES ASSUME IInv, CopiesInv, calls = {}, NEW i \in Image, Exists(i)
             PROVE  image[i].clones = Cloning(i) /\ FsckState(image[i]) = image[i].state
  BY DEF FsckClean, Quiet
<1>1. image[i] \in ImageRecord /\ CountersFit(image[i]) /\ InUse(image[i])
  BY DEF IInv, TypeOK, CopiesInv
<1>2. image[i].clones = Cloning(i)
  <2>1. \A j \in Image : j \in image[i].clones <=> Exists(j) /\ image[j].cloning = i
    BY NullAssumption DEF CopiesInv, Counts, Origin
  <2>2. QED BY <1>1, <2>1 DEF Cloning, ImageRecord
<1>3. FsckState(image[i]) = image[i].state
  <2> DEFINE r == image[i]
  <2>1. r.persistent \in BOOLEAN
    BY <1>1 DEF ImageRecord
  <2>2. CASE r.persistent = TRUE /\ r.vms # {}
    <3>1. r.state = "USED_PERS"
      BY <1>1, <2>2 DEF CountersFit
    <3>2. QED BY <2>2, <3>1 DEF FsckState
  <2>3. CASE r.persistent = TRUE /\ r.vms = {} /\ r.clones # {}
    <3>1. r.state = "CLONE"
      BY <1>1, <2>3 DEF CountersFit
    <3>2. QED BY <2>3, <3>1 DEF FsckState
  <2>4. CASE r.persistent = FALSE /\ (r.vms # {} \/ r.clones # {})
    <3>1. r.state = "USED"
      BY <1>1, <2>4 DEF CountersFit
    <3>2. QED BY <2>4, <3>1 DEF FsckState
  <2>5. CASE r.vms = {} /\ r.clones = {}
    <3>1. r.state \notin {"USED", "CLONE", "USED_PERS"}
      BY <1>1, <2>5 DEF CountersFit, InUse
    <3>2. QED BY <2>1, <2>5, <3>1 DEF FsckState
  <2>6. QED BY <2>1, <2>2, <2>3, <2>4, <2>5
<1>4. QED BY <1>2, <1>3

(* When nothing is under way, onedb fsck finds nothing to repair: the      *)
(* cloning_ops of an image are the images that are being cloned from it,   *)
(* and its state is the one its counters imply.                            *)
THEOREM FsckFindsNothing ==
  ASSUME Careful
  PROVE  Spec => []FsckClean
<1>1. Init => CopiesInv
  <2> SUFFICES ASSUME Init PROVE CopiesInv
    OBVIOUS
  <2>1. \A i \in Image : image[i].state = "NONE" /\ image[i].clones = {}
    BY DEF Init, Dropped, NewImage
  <2>2. calls = {}
    BY DEF Init
  <2>3. QED BY <2>1, <2>2, NullAssumption DEF CopiesInv, InUse, Counts, Origin, Exists
<1>2. IInv /\ CopiesInv /\ [Next]_vars => CopiesInv'
  <2> SUFFICES ASSUME IInv, CopiesInv, [Next]_vars PROVE CopiesInv'
    OBVIOUS
  <2>1. CASE UNCHANGED vars
    BY <2>1, CopiesUntouched DEF vars
  <2>2. QED BY <2>1, ImageRequestCopies, DatastoreAnswerCopies, CallStepCopies, VmStepCopies DEF Next
<1>3. IInv /\ [Next]_vars => IInv'
  BY NextKeeps
<1>4. QED BY <1>1, <1>2, <1>3, InitHolds, CopiesClean, PTL DEF Spec


-----------------------------------------------------------------------------
(* Images that are LOCKED, or being removed *)

Unready(i)    == image[i].state \in {"LOCKED", "DELETE"}
AllAwaited    == \A i \in Image : Unready(i) => Made(i)

(* Whoever makes an image goes on with that.                               *)
MakersLeft(i) ==
  /\ \A c \in calls : Makes(c, i) => c \in calls'
  /\ \A p \in MakeCmds : <<p, i>> \in driver => <<p, i>> \in driver'
  /\ \A v \in VM, s \in Saves : Saved(v, s) = i => Saved(v, s)' = i

LEMMA AwaitedStep ==
  ASSUME AllAwaited,
         \A i \in Image : \/ Unready(i)' => Made(i)'
                          \/ (Unready(i)' => Unready(i)) /\ MakersLeft(i)
  PROVE  AllAwaited'
BY DEF AllAwaited, MakersLeft, Made, Makes

(* What is under way for a save_as of a VM: a call, the making of the      *)
(* image by the datastore driver, or the copying by the transfer driver.   *)
SaveCalls     == {"SAVEDISK", "REGISTER", "SAVED", "SAVE_FAILED", "CLEAR_SAVEAS"}
Saving(c, v)  == c.vm = v /\ c.op \in SaveCalls
Formats(i, v) == <<"MKFS", i>> \in driver /\ image[i].saver = v
Under(v)      == \/ \E c \in calls : Saving(c, v)
                 \/ \E i \in Image : Formats(i, v)
                 \/ v \in copies

OneSave(v) ==
  /\ \A c, d \in calls : Saving(c, v) /\ Saving(d, v) => c = d
  /\ \A i, j \in Image : Formats(i, v) /\ Formats(j, v) => i = j
  /\ \A c \in calls, i \in Image : ~(Saving(c, v) /\ Formats(i, v))
  /\ v \in copies => (\A c \in calls : ~Saving(c, v)) /\ \A i \in Image : ~Formats(i, v)

(* A disk that is saved is there, and is saved once; a disk that comes or  *)
(* goes is none of these; and a VM that is DONE leaves nothing to save.    *)
SaveStates == {"SAVEAS", "ENDING", "RELEASING", "DONE"}
Ends       == {"ROLLBACK", "RELEASING", "RELEASING_FAILED"}
Marks(r) ==
  /\ r.state = "SAVEAS" =>
       r.saving \in Slots /\ r.save_as[r.saving] = NoImage /\ r.disk[r.saving] # NoImage
  /\ r.state = "DONE" => \A s \in Slots : r.save_as[s] = NoImage
  /\ r.state \notin Ends => \A s \in Slots : r.save_as[s] # NoImage => r.disk[s] # NoImage
  /\ r.attach # 0 => r.save_as[r.attach] = NoImage

SaveFits(v) ==
  /\ OneSave(v) /\ Marks(vm[v])
  /\ Under(v) => vm[v].state \in SaveStates
  /\ vm[v].hot_as # NoImage => v \in copies /\ vm[v].state = "SAVEAS"

SInv ==
  /\ \A v \in VM : SaveFits(v)
  /\ \A c \in calls : c.op = "REGISTER" => image[c.image].saver = c.vm
  /\ AllAwaited

(* A step that moves no save of another VM than v.                         *)
LEMMA SavesStep ==
  ASSUME SInv, NEW v \in VM,
         \A w \in VM \ {v} : vm'[w] = vm[w] /\ (w \in copies' <=> w \in copies),
         \A c \in calls' : c \in calls \/ c.op \notin SaveCalls \/ c.vm = v \/ c.vm \notin VM,
         \A i \in Image : <<"MKFS", i>> \in driver' =>
           \/ <<"MKFS", i>> \in driver /\ image'[i].saver = image[i].saver
           \/ image'[i].saver = v,
         \A c \in calls' : c.op = "REGISTER" => image'[c.image].saver = c.vm,
         SaveFits(v)', AllAwaited'
  PROVE  SInv'
<1>1. ASSUME NEW w \in VM, w # v PROVE SaveFits(w)'
  <2>1. SaveFits(w) /\ vm'[w] = vm[w] /\ (w \in copies' <=> w \in copies)
    BY <1>1 DEF SInv
  <2>2. /\ \A c \in calls' : Saving(c, w) => c \in calls
        /\ \A i \in Image : Formats(i, w)' => Formats(i, w)
    BY <1>1 DEF Saving, Formats
  <2>3. OneSave(w)' /\ (Under(w)' => Under(w))
    BY <2>1, <2>2 DEF SaveFits, OneSave, Under
  <2>4. QED BY <2>1, <2>3 DEF SaveFits
<1>2. QED BY <1>1 DEF SInv

(* A step that moves no save at all.                                       *)
LEMMA SavesUntouched ==
  ASSUME SInv, UNCHANGED <<vm, copies>>,
         \A c \in calls' : c \in calls \/ c.op \notin SaveCalls
                           \/ (c.op = "REGISTER" /\ c.vm = NoVM /\ image'[c.image].saver = NoVM),
         \A i \in Image : <<"MKFS", i>> \in driver' => <<"MKFS", i>> \in driver,
         \A i \in Image : \/ image'[i].saver = image[i].saver
                          \/ <<"MKFS", i>> \notin driver' /\ \A c \in calls : ~Makes(c, i)
                          \/ <<"MKFS", i>> \notin driver' /\ \A c \in calls' : ~Makes(c, i),
         calls \subseteq CallRecord, AllAwaited'
  PROVE  SInv'
<1>1. ASSUME NEW w \in VM PROVE SaveFits(w)'
  <2>1. SaveFits(w)
    BY DEF SInv
  <2>2. /\ \A c \in calls' : Saving(c, w) => c \in calls
        /\ \A i \in Image : Formats(i, w)' => Formats(i, w)
    BY NullAssumption DEF Saving, Formats
  <2>3. OneSave(w)' /\ (Under(w)' => Under(w))
    BY <2>1, <2>2 DEF SaveFits, OneSave, Under
  <2>4. QED BY <2>1, <2>3 DEF SaveFits
<1>2. \A c \in calls' : c.op = "REGISTER" => image'[c.image].saver = c.vm
  <2> SUFFICES ASSUME NEW c \in calls', c.op = "REGISTER" PROVE image'[c.image].saver = c.vm
    OBVIOUS
  <2>1. CASE c \in calls
    <3>1. c.image \in Image /\ Makes(c, c.image) /\ image[c.image].saver = c.vm
      BY <2>1, CallParts DEF SInv, Makes, MakeOps
    <3>2. QED BY <2>1, <3>1
  <2>2. CASE c \notin calls
    BY <2>2 DEF SaveCalls
  <2>3. QED BY <2>1, <2>2
<1>3. QED BY <1>1, <1>2 DEF SInv

(* A step of one VM that begins no save.                                   *)
LEMMA SavingVmStep ==
  ASSUME IInv, SInv, NEW v \in VM, NEW r \in VmRecord, vm' = [vm EXCEPT ![v] = r], UNCHANGED driver,
         copies' \in {copies, copies \ {v}},
         \A i \in Image : image'[i].saver = image[i].saver,
         \A c \in calls' : c \in calls \/ c.op \notin SaveCalls,
         Marks(r), Under(v) /\ Under(v)' => r.state \in SaveStates,
         r.hot_as # NoImage => v \in copies' /\ r.state = "SAVEAS",
         AllAwaited'
  PROVE  SInv'
<1>1. vm'[v] = r /\ \A w \in VM \ {v} : vm'[w] = vm[w]
  BY VmSet
<1>2. SaveFits(v)'
  <2>1. SaveFits(v)
    BY DEF SInv
  <2>2. /\ \A c \in calls' : Saving(c, v) => c \in calls
        /\ \A i \in Image : Formats(i, v)' => Formats(i, v)
        /\ v \in copies' => v \in copies
    BY DEF Saving, Formats
  <2>3. OneSave(v)' /\ (Under(v)' => Under(v))
    BY <2>1, <2>2 DEF SaveFits, OneSave, Under
  <2>4. QED BY <1>1, <2>3 DEF SaveFits
<1>3. \A c \in calls' : c.op = "REGISTER" => image'[c.image].saver = c.vm
  <2> SUFFICES ASSUME NEW c \in calls', c.op = "REGISTER" PROVE image'[c.image].saver = c.vm
    OBVIOUS
  <2>1. c \in calls
    BY DEF SaveCalls
  <2>2. c.image \in Image
    BY <2>1, CallParts DEF IInv, TypeOK, MakeOps
  <2>3. QED BY <2>1, <2>2 DEF SInv
<1>4. QED BY <1>1, <1>2, <1>3, SavesStep

(* A save moves from one hand to the next.                                 *)
LEMMA SaveMoves ==
  ASSUME IInv, SInv, NEW v \in VM, UNCHANGED <<vm, copies>>, Under(v), OneSave(v)',
         \A c \in calls' : c \in calls \/ c.op \notin SaveCalls \/ c.vm = v,
         \A i \in Image : <<"MKFS", i>> \in driver' =>
           \/ <<"MKFS", i>> \in driver /\ image'[i].saver = image[i].saver
           \/ image'[i].saver = v,
         \A c \in calls' : c.op = "REGISTER" => image'[c.image].saver = c.vm,
         AllAwaited'
  PROVE  SInv'
<1>1. SaveFits(v)'
  BY DEF SInv, SaveFits
<1>2. QED BY <1>1, SavesStep

LEMMA ImageRequestAwaited ==
  ASSUME Careful, IInv, SInv, NEW i \in Image, ImageRequest(i)
  PROVE  SInv'
<1>0. image \in [Image -> ImageRecord] /\ calls \subseteq CallRecord /\ UNCHANGED <<vm, copies>>
  BY DEF IInv, TypeOK, ImageRequest, image_allocate, image_delete, image_enable, image_disable,
         image_persistent, image_clone
<1>1. \A k \in Image : \A v \in VM, s \in Saves : Saved(v, s) = k => Saved(v, s)' = k
  BY <1>0 DEF Saved
<1>2. ASSUME NEW r, NEW d, d.op \in {"REGISTER", "CLONE"}, d.image = i, d.vm = NoVM,
             r.saver = NoVM, image[i].state = "NONE", SetImage(i, r), Starts(d), UNCHANGED driver
      PROVE  SInv'
  <2>1. image'[i] = r /\ (\A k \in Image \ {i} : image'[k] = image[k]) /\ calls' = calls \cup {d}
    BY <1>0, <1>2 DEF SetImage, Starts
  <2>2. /\ \A c \in calls : ~Makes(c, i)
        /\ <<"MKFS", i>> \notin driver
    BY <1>2, NotMade DEF Made, MakeCmds
  <2>3. Made(i)'
    BY <1>2, <2>1 DEF Made, Makes, MakeOps
  <2>4. \A k \in Image \ {i} : (Unready(k)' => Unready(k)) /\ MakersLeft(k)
    BY <1>1, <1>2, <2>1 DEF Unready, MakersLeft
  <2>5. AllAwaited'
    BY <2>3, <2>4, AwaitedStep DEF SInv
  <2>6. \A k \in Image : \/ image'[k].saver = image[k].saver
                         \/ <<"MKFS", k>> \notin driver' /\ \A c \in calls : ~Makes(c, k)
    BY <1>2, <2>1, <2>2
  <2>7. \A c \in calls' : c \in calls \/ c.op \notin SaveCalls
                           \/ (c.op = "REGISTER" /\ c.vm = NoVM /\ image'[c.image].saver = NoVM)
    BY <1>2, <2>1 DEF SaveCalls
  <2>8. QED BY <1>0, <1>2, <2>5, <2>6, <2>7, SavesUntouched
<1>3. CASE image_allocate(i)
  <2>1. PICK persistent \in BOOLEAN, source \in BOOLEAN : SetImage(i, NewImage(persistent, source, NoImage, NoVM))
    BY <1>3 DEF image_allocate
  <2>2. NewImage(persistent, source, NoImage, NoVM).saver = NoVM
    BY DEF NewImage
  <2> DEFINE d == Call("REGISTER", NoVM, i, NoImage)
  <2>3. d.op = "REGISTER" /\ d.image = i /\ d.vm = NoVM
    BY DEF Call
  <2> HIDE DEF d
  <2>4. image[i].state = "NONE" /\ Starts(d) /\ UNCHANGED driver
    BY <1>3 DEF image_allocate, d
  <2>5. QED BY <1>2, <2>1, <2>2, <2>3, <2>4
<1>4. ASSUME NEW source \in Image, image_clone(i, source) PROVE SInv'
  <2> DEFINE d == Call("CLONE", NoVM, i, source)
             r == NewImage(FALSE, FALSE, source, NoVM)
  <2>1. d.op = "CLONE" /\ d.image = i /\ d.vm = NoVM /\ r.saver = NoVM
    BY DEF Call, NewImage
  <2> HIDE DEF d, r
  <2>2. image[i].state = "NONE" /\ SetImage(i, r) /\ Starts(d) /\ UNCHANGED driver
    BY <1>4 DEF image_clone, d, r
  <2>3. QED BY <1>2, <2>1, <2>2
<1>5. ASSUME UNCHANGED <<calls, driver>>, image'[i].saver = image[i].saver, Unready(i)' => Unready(i),
             \A k \in Image \ {i} : image'[k] = image[k]
      PROVE  SInv'
  <2>1. \A k \in Image : (Unready(k)' => Unready(k)) /\ MakersLeft(k) /\ image'[k].saver = image[k].saver
    BY <1>1, <1>5 DEF Unready, MakersLeft
  <2>2. AllAwaited'
    BY <2>1, AwaitedStep DEF SInv
  <2>3. QED BY <1>0, <1>5, <2>1, <2>2, SavesUntouched
<1>6. CASE image_enable(i) \/ image_disable(i)
  <2>1. PICK s \in {"READY", "DISABLED"} : image' = [image EXCEPT ![i].state = s]
    BY <1>6 DEF image_enable, image_disable, SetState
  <2>2. /\ image'[i].saver = image[i].saver /\ image'[i].state = s
        /\ \A k \in Image \ {i} : image'[k] = image[k]
    BY <1>0, <2>1 DEF ImageRecord
  <2>3. QED BY <1>5, <1>6, <2>2 DEF Unready, image_enable, image_disable
<1>7. CASE image_persistent(i)
  <2>1. image' = [image EXCEPT ![i] = [image[i] EXCEPT !.persistent = ~@]]
    BY <1>7 DEF image_persistent, SetImage
  <2>2. /\ image'[i].saver = image[i].saver /\ image'[i].state = image[i].state
        /\ \A k \in Image \ {i} : image'[k] = image[k]
    BY <1>0, <2>1 DEF ImageRecord
  <2>3. QED BY <1>5, <1>7, <2>2 DEF Unready, image_persistent
<1>8. CASE image_delete(i)
  <2>1. /\ \/ image'[i].state = "DELETE" /\ driver' = driver \cup {<<"RM", i>>}
           \/ image'[i].state = "GONE" /\ UNCHANGED driver
        /\ \A k \in Image \ {i} : image'[k] = image[k]
    BY <1>8, DeletedImage
  <2>2. CanDelete(i)
    BY <1>8 DEF image_delete
  <2>3. \A c \in calls : ~Makes(c, i)
    BY <2>2, DeletedIsNotMade
  <2>4. <<"MKFS", i>> \notin driver
    <3>1. <<"MKFS", i>> \in driver => image[i].state = "LOCKED" /\ image[i].saver \in VM
      BY MadeByDriver DEF MakeCmds
    <3>2. QED BY <2>2, <3>1, NullAssumption DEF CanDelete, Careful
  <2>5. calls \subseteq calls' /\ \A c \in calls' : c \in calls \/ c.op = "UNCLONE"
    BY <1>8 DEF image_delete, Starts, Call
  <2>6. Unready(i)' => Made(i)'
    BY <2>1 DEF Unready, Made, MakeCmds
  <2>7. \A k \in Image \ {i} : (Unready(k)' => Unready(k)) /\ MakersLeft(k)
    BY <1>1, <2>1, <2>5 DEF Unready, MakersLeft
  <2>8. AllAwaited'
    BY <2>6, <2>7, AwaitedStep DEF SInv
  <2>9. \A k \in Image : /\ <<"MKFS", k>> \in driver' => <<"MKFS", k>> \in driver
                         /\ \/ image'[k].saver = image[k].saver
                            \/ <<"MKFS", k>> \notin driver' /\ \A c \in calls : ~Makes(c, k)
    BY <2>1, <2>3, <2>4
  <2>10. QED BY <1>0, <2>5, <2>8, <2>9, SavesUntouched DEF SaveCalls
<1>9. QED BY <1>3, <1>4, <1>6, <1>7, <1>8 DEF ImageRequest

LEMMA DatastoreAnswerAwaited ==
  ASSUME IInv, SInv, NEW i \in Image, DatastoreAnswer(i)
  PROVE  SInv'
<1>0. image \in [Image -> ImageRecord] /\ calls \subseteq CallRecord /\ UNCHANGED <<vm, copies>>
      /\ image[i] \in ImageRecord
  BY DEF IInv, TypeOK, DatastoreAnswer, cp_action, clone_action, mkfs_action, rm_action
<1>1. PICK cmd \in MakeCmds : Answered(cmd, i) /\ (cmd = "MKFS" <=> mkfs_action(i))
  BY DEF DatastoreAnswer, cp_action, clone_action, mkfs_action, rm_action, Answered, MakeCmds
<1>2. /\ \A k \in Image \ {i}, p \in MakeCmds : <<p, k>> \in driver => <<p, k>> \in driver'
      /\ \A k \in Image, p \in MakeCmds : <<p, k>> \in driver' => <<p, k>> \in driver
      /\ <<"MKFS", i>> \notin driver' /\ "MKFS" \in MakeCmds
  <2>1. <<cmd, i>> \in driver /\ driver' = driver \ {<<cmd, i>>}
    BY <1>1 DEF Answered
  <2>2. <<"MKFS", i>> \in driver => cmd = "MKFS"
    BY <2>1, MadeByDriver DEF MakeCmds
  <2>3. QED BY <2>1, <2>2 DEF MakeCmds
<1>3. \A k \in Image : \A v \in VM, s \in Saves : Saved(v, s) = k => Saved(v, s)' = k
  BY <1>0 DEF Saved
<1>4. \A c \in calls : ~Makes(c, i)
  BY <1>1, MadeByDriver DEF Answered
<1>5. ASSUME calls \subseteq calls', \A k \in Image \ {i} : image'[k] = image[k], Unready(i)' => Made(i)'
      PROVE  AllAwaited'
  <2>1. \A k \in Image \ {i} : (Unready(k)' => Unready(k)) /\ MakersLeft(k)
    BY <1>2, <1>3, <1>5 DEF Unready, MakersLeft
  <2>2. QED BY <1>5, <2>1, AwaitedStep DEF SInv
<1>6. ASSUME \A k \in Image \ {i} : image'[k] = image[k], ~Unready(i)',
             calls \subseteq calls', \A c \in calls' : c \in calls \/ c.op = "UNCLONE"
      PROVE  SInv'
  <2>1. AllAwaited'
    BY <1>5, <1>6
  <2>2. \A k \in Image : \/ image'[k].saver = image[k].saver
                         \/ <<"MKFS", k>> \notin driver' /\ \A c \in calls : ~Makes(c, k)
    BY <1>2, <1>4, <1>6
  <2>3. QED BY <1>0, <1>2, <1>6, <2>1, <2>2, SavesUntouched DEF SaveCalls
<1>7. CASE cp_action(i) \/ clone_action(i)
  <2>1. calls \subseteq calls' /\ \A c \in calls' : c \in calls \/ c.op = "UNCLONE"
    <3>1. calls' = calls \/ calls' = calls \cup {Call("UNCLONE", NoVM, i, image[i].cloning)}
      BY <1>7 DEF cp_action, clone_action, Starts
    <3>2. Call("UNCLONE", NoVM, i, image[i].cloning).op = "UNCLONE"
      BY DEF Call
    <3>3. QED BY <3>1, <3>2
  <2>2. CASE Exists(i)
    BY <1>6, <1>7, <2>1, <2>2, CopiedImage DEF Unready
  <2>3. CASE ~Exists(i)
    BY <1>6, <1>7, <2>1, <2>3 DEF Unready, Exists, cp_action, clone_action
  <2>4. QED BY <2>2, <2>3
<1>8. CASE rm_action(i)
  <2>1. calls' = calls
    BY <1>8 DEF rm_action
  <2>2. CASE Exists(i)
    <3>1. image' = [image EXCEPT ![i] = Dropped]
      BY <1>8, <2>2 DEF rm_action, SetImage
    <3>2. image'[i].state = "GONE" /\ \A k \in Image \ {i} : image'[k] = image[k]
      BY <1>0, <3>1, NewFits
    <3>3. QED BY <1>6, <2>1, <3>2 DEF Unready
  <2>3. CASE ~Exists(i)
    BY <1>6, <1>8, <2>1, <2>3 DEF Unready, Exists, rm_action
  <2>4. QED BY <2>2, <2>3
<1>9. CASE mkfs_action(i)
  <2>1. image[i].state = "LOCKED" /\ image[i].saver \in VM /\ Exists(i) /\ <<"MKFS", i>> \in driver
    <3>1. <<"MKFS", i>> \in driver
      BY <1>9 DEF mkfs_action, Answered
    <3>2. QED BY <3>1, MadeByDriver DEF Exists, MakeCmds
  <2>0. PICK v \in VM : v = image[i].saver
    BY <2>1
  <2>2. Formats(i, v) /\ Under(v) /\ OneSave(v)
    BY <2>0, <2>1 DEF Formats, Under, SInv, SaveFits
  <2>3. PICK d : /\ calls' = calls \cup {d} /\ d.vm = v /\ d.op \in {"SAVED", "CLEAR_SAVEAS"}
                 /\ d.op = "SAVED" => d.image = i
                 /\ d.op = "CLEAR_SAVEAS" => SetState(i, "ERROR")
                 /\ d.op = "SAVED" => SetImage(i, [image[i] EXCEPT !.source = TRUE])
    <3>1. \A op, w, k, o : LET d == Call(op, w, k, o) IN d.op = op /\ d.vm = w /\ d.image = k
      BY DEF Call
    <3>2. \/ /\ SetImage(i, [image[i] EXCEPT !.source = TRUE])
             /\ calls' = calls \cup {Call("SAVED", v, i, NoImage)}
          \/ /\ SetState(i, "ERROR")
             /\ calls' = calls \cup {Call("CLEAR_SAVEAS", v, NoImage, NoImage)}
      BY <1>9, <2>0, <2>1 DEF mkfs_action, Starts
    <3>3. QED BY <3>1, <3>2
  <2>4. /\ image'[i].saver = image[i].saver /\ \A k \in Image \ {i} : image'[k] = image[k]
        /\ d.op = "CLEAR_SAVEAS" => image'[i].state = "ERROR"
    <3>1. CASE d.op = "SAVED"
      BY <1>0, <2>3, <3>1 DEF SetImage, ImageRecord
    <3>2. CASE d.op = "CLEAR_SAVEAS"
      BY <1>0, <2>3, <3>2 DEF SetState, ImageRecord
    <3>3. QED BY <2>3, <3>1, <3>2
  <2>5. Unready(i)' => Made(i)'
    BY <2>3, <2>4 DEF Unready, Made, Makes, MakeOps
  <2>6. AllAwaited'
    BY <1>5, <2>3, <2>4, <2>5
  <2>7. \A k \in Image : ~Formats(k, v)'
    BY <1>2, <2>2, <2>4 DEF Formats, OneSave
  <2>8. OneSave(v)'
    BY <1>0, <2>2, <2>3, <2>7 DEF OneSave, Saving
  <2>9. \A c \in calls' : c.op = "REGISTER" => image'[c.image].saver = c.vm
    <3> SUFFICES ASSUME NEW c \in calls, c.op = "REGISTER" PROVE image'[c.image].saver = c.vm
      BY <2>3
    <3>1. c.image \in Image
      BY <1>0, CallParts DEF MakeOps
    <3>2. QED BY <2>4, <3>1 DEF SInv
  <2>10. QED BY <1>0, <1>2, <2>1, <2>2, <2>3, <2>4, <2>6, <2>8, <2>9, <2>0, SaveMoves
<1>10. QED BY <1>7, <1>8, <1>9 DEF DatastoreAnswer

(* An image that a VM begins or ceases to use, or saves no disk to.        *)
LEMMA UsedImage ==
  ASSUME IInv, NEW i \in Image, NEW v \in VM, NEW failed \in BOOLEAN,
         \/ CanAcquire(image[i]) /\ SetImage(i, Acquired(image[i], v))
         \/ /\ Holds(v, i) \/ \E s \in Saves : Saved(v, s) = i
            /\ SetImage(i, Released(image[i], v, failed))
  PROVE  /\ ~Unready(i)' /\ image'[i].saver = image[i].saver
         /\ \A k \in Image \ {i} : image'[k] = image[k]
<1>0. image \in [Image -> ImageRecord] /\ image[i] \in ImageRecord
  BY DEF IInv, TypeOK
<1>1. CASE CanAcquire(image[i]) /\ SetImage(i, Acquired(image[i], v))
  <2>1. image' = [image EXCEPT ![i] = Acquired(image[i], v)]
    BY <1>1 DEF SetImage
  <2>2. /\ Acquired(image[i], v).saver = image[i].saver
        /\ Acquired(image[i], v).state \in {"USED", "USED_PERS"}
    BY <1>0 DEF Acquired, ImageRecord
  <2>3. QED BY <1>0, <2>1, <2>2 DEF Unready
<1>2. CASE /\ Holds(v, i) \/ \E s \in Saves : Saved(v, s) = i
           /\ SetImage(i, Released(image[i], v, failed))
  <2>1. image' = [image EXCEPT ![i] = Released(image[i], v, failed)]
    BY <1>2 DEF SetImage
  <2>2. \/ image[i].state \in {"USED", "USED_PERS"}
        \/ image[i].state = "LOCKED" /\ image[i].saver # NoVM
    BY <1>2, HeldIsUsed, NullAssumption DEF IInv, MakersFit, MadeIsLocked, MadeForVM
  <2>3. /\ Released(image[i], v, failed).saver = image[i].saver
        /\ Released(image[i], v, failed).state \notin {"LOCKED", "DELETE"}
    <3>1. Idle(failed) \in {"ERROR", "READY"}
      BY DEF Idle
    <3>2. CASE image[i].state = "USED_PERS"
      BY <1>0, <3>1, <3>2 DEF Released, ImageRecord
    <3>3. CASE image[i].state = "USED"
      BY <1>0, <3>3 DEF Released, ImageRecord
    <3>4. CASE image[i].state = "LOCKED" /\ image[i].saver # NoVM
      BY <1>0, <3>1, <3>4 DEF Released, ImageRecord
    <3>5. QED BY <2>2, <3>2, <3>3, <3>4
  <2>4. QED BY <1>0, <2>1, <2>3 DEF Unready
<1>3. QED BY <1>1, <1>2

(* A call that changes at most one image, which is ready then or gone, or  *)
(* made by somebody else.                                                  *)
LEMMA CallDone ==
  ASSUME IInv, SInv, NEW c \in calls, NEW i \in Image,
         UNCHANGED <<vm, copies>>,
         \A k \in Image \ {i} : \/ image'[k] = image[k]
                                \/ ~Unready(k)' /\ image'[k].saver = image[k].saver,
         c.op \in MakeOps => c.image = i,
         calls \ {c} \subseteq calls', \A d \in calls' : d \in calls \/ d.op \notin SaveCalls,
         driver \subseteq driver', \A k \in Image : <<"MKFS", k>> \in driver' => <<"MKFS", k>> \in driver,
         Unready(i)' => Made(i)' \/ (c.op \notin MakeOps /\ image'[i] = image[i]),
         \/ image'[i].saver = image[i].saver
         \/ <<"MKFS", i>> \notin driver' /\ \A d \in calls' : ~Makes(d, i)
  PROVE  SInv'
<1>1. \A k \in Image : \A v \in VM, s \in Saves : Saved(v, s) = k => Saved(v, s)' = k
  BY DEF Saved
<1>2. \A k \in Image \ {i} : (Unready(k)' => Unready(k) /\ image'[k] = image[k])
  BY DEF Unready
<1>3. \A k \in Image \ {i} : \A d \in calls : Makes(d, k) => d \in calls'
  BY DEF Makes
<1>4. \A k \in Image \ {i} : (Unready(k)' => Unready(k)) /\ MakersLeft(k)
  BY <1>1, <1>2, <1>3 DEF MakersLeft
<1>5. c.op \notin MakeOps /\ image'[i] = image[i] => (Unready(i)' => Unready(i)) /\ MakersLeft(i)
  BY <1>1 DEF MakersLeft, Makes, Unready
<1>6. AllAwaited'
  BY <1>4, <1>5, AwaitedStep DEF SInv
<1>7. \A k \in Image : \/ image'[k].saver = image[k].saver
                       \/ <<"MKFS", k>> \notin driver' /\ \A d \in calls' : ~Makes(d, k)
  OBVIOUS
<1>8. calls \subseteq CallRecord
  BY DEF IInv, TypeOK
<1>9. QED BY <1>6, <1>7, <1>8, SavesUntouched

LEMMA CloneCallAwaited ==
  ASSUME IInv, SInv, NEW c \in calls, clone_count(c) \/ clone_start(c) \/ unclone(c)
  PROVE  SInv'
<1> DEFINE i == c.image
           o == c.other
<1>0. image \in [Image -> ImageRecord] /\ calls \subseteq CallRecord /\ UNCHANGED <<vm, copies>>
  BY DEF IInv, TypeOK, clone_count, clone_start, unclone
<1>1. c.op \in {"CLONE", "CLONE_START", "UNCLONE"} /\ i \in Image /\ o \in Image
  BY <1>0, CallParts DEF clone_count, clone_start, unclone
<1>2. CASE clone_count(c)
  <2>1. image[i].state = "LOCKED" /\ c.op = "CLONE" /\ c.op \in MakeOps /\ UNCHANGED driver
        /\ (\A d \in calls : Makes(d, i) => d = c) /\ <<"MKFS", i>> \notin driver
    BY <1>2, MadeByCall DEF clone_count, MakeOps, MakeCmds
  <2>2. CASE CanClone(image[o])
    <3> DEFINE e == Call("CLONE_START", NoVM, i, o)
    <3>1. /\ image' = [image EXCEPT ![o] = Cloned(image[o], i)]
          /\ calls' = (calls \ {c}) \cup {e}
      BY <1>2, <2>2 DEF clone_count, SetImage, Becomes
    <3>2. e.op = "CLONE_START" /\ e.image = i
      BY DEF Call
    <3> HIDE DEF e
    <3>3. /\ Cloned(image[o], i).saver = image[o].saver
          /\ Cloned(image[o], i).state \notin {"LOCKED", "DELETE"}
      BY <1>0, <1>1, <2>2 DEF Cloned, CanClone, ImageRecord
    <3>4. /\ image'[o].saver = image[o].saver /\ ~Unready(o)'
          /\ \A k \in Image \ {o} : image'[k] = image[k]
      BY <1>0, <1>1, <3>1, <3>3 DEF Unready
    <3>5. o # i /\ image'[i] = image[i]
      BY <1>1, <2>1, <2>2, <3>4 DEF CanClone
    <3>6. Made(i)'
      BY <3>1, <3>2 DEF Made, Makes, MakeOps
    <3>7. \A d \in calls' : d \in calls \/ d.op \notin SaveCalls
      BY <3>1, <3>2 DEF SaveCalls
    <3>8. QED BY <1>0, <1>1, <2>1, <3>1, <3>4, <3>5, <3>6, <3>7, CallDone
  <2>3. CASE ~CanClone(image[o])
    <3>1. image' = [image EXCEPT ![i] = Dropped] /\ calls' = calls \ {c}
      BY <1>2, <2>3 DEF clone_count, SetImage, Goes
    <3>2. image'[i].state = "GONE" /\ \A k \in Image \ {i} : image'[k] = image[k]
      BY <1>0, <1>1, <3>1, NewFits
    <3>3. ~Unready(i)' /\ \A d \in calls' : ~Makes(d, i)
      BY <2>1, <3>1, <3>2 DEF Unready
    <3>4. QED BY <1>0, <1>1, <2>1, <3>1, <3>2, <3>3, CallDone
  <2>4. QED BY <2>2, <2>3
<1>3. CASE clone_start(c)
  <2>1. image[i].state = "LOCKED" /\ c.op = "CLONE_START" /\ c.op \in MakeOps
    BY <1>3, MadeByCall DEF clone_start, MakeOps
  <2>2. driver' = driver \cup {<<"CLONE", i>>} /\ calls' = calls \ {c} /\ UNCHANGED image
    BY <1>3, <2>1 DEF clone_start, Exists, Goes
  <2>3. Made(i)'
    BY <2>2 DEF Made, MakeCmds
  <2>4. /\ driver \subseteq driver' /\ \A k \in Image : <<"MKFS", k>> \in driver' => <<"MKFS", k>> \in driver
        /\ calls \ {c} \subseteq calls' /\ \A d \in calls' : d \in calls
        /\ \A k \in Image \ {i} : image'[k] = image[k]
        /\ image'[i].saver = image[i].saver
    BY <2>2
  <2>5. QED BY <1>0, <1>1, <2>1, <2>3, <2>4, CallDone
<1>4. CASE unclone(c)
  <2>1. /\ image' = [image EXCEPT ![o] = ReleasedCloning(image[o], i)] /\ c.op = "UNCLONE"
        /\ calls' = calls \ {c} /\ UNCHANGED driver
    BY <1>4 DEF unclone, SetImage, Goes
  <2>2. \A k \in Image \ {o} : image'[k] = image[k]
    BY <1>0, <2>1
  <2>3. CASE image[o].state \in {"USED", "CLONE"}
    <3>1. /\ ReleasedCloning(image[o], i).saver = image[o].saver
          /\ ReleasedCloning(image[o], i).state \notin {"LOCKED", "DELETE"}
      BY <1>0, <1>1, <2>3 DEF ReleasedCloning, ImageRecord
    <3>2. image'[o].saver = image[o].saver /\ ~Unready(o)'
      BY <1>0, <1>1, <2>1, <3>1 DEF Unready
    <3>3. QED BY <1>0, <1>1, <2>1, <2>2, <3>2, CallDone DEF MakeOps
  <2>4. CASE image[o].state \notin {"USED", "CLONE"}
    <3>1. image'[o] = image[o]
      BY <1>0, <1>1, <2>1, <2>4 DEF ReleasedCloning
    <3>2. QED BY <1>0, <1>1, <2>1, <2>2, <3>1, CallDone DEF MakeOps
  <2>5. QED BY <2>3, <2>4
<1>5. QED BY <1>2, <1>3, <1>4

LEMMA UseCallAwaited ==
  ASSUME IInv, SInv, NEW c \in calls,
         \/ set_up_attach_disk(c) \/ attach_back(c) \/ release_image(c) \/ saveas_hot_image(c)
  PROVE  SInv'
<1> DEFINE i == c.image
<1>0. image \in [Image -> ImageRecord] /\ calls \subseteq CallRecord /\ UNCHANGED <<vm, copies, driver>>
  BY DEF IInv, TypeOK, set_up_attach_disk, attach_back, release_image, saveas_hot_image
<1>1. CASE saveas_hot_image(c)
  <2>1. c.op \in MakeOps /\ i \in Image /\ image[i].state = "LOCKED" /\ calls' = calls \ {c}
    BY <1>1, MadeByCall DEF saveas_hot_image, MakeOps, Goes
  <2>2. PICK s \in {"READY", "ERROR"} : image' = [image EXCEPT ![i].state = s]
    BY <1>1, <2>1 DEF saveas_hot_image, Exists, SetState
  <2>3. /\ image'[i].saver = image[i].saver /\ image'[i].state = s
        /\ \A k \in Image \ {i} : image'[k] = image[k]
    BY <1>0, <2>1, <2>2 DEF ImageRecord
  <2>4. ~Unready(i)'
    BY <2>3 DEF Unready
  <2>5. QED BY <1>0, <2>1, <2>3, <2>4, CallDone
<1>2. CASE set_up_attach_disk(c) \/ attach_back(c) \/ release_image(c)
  <2>1. /\ c.op \in {"ATTACH", "ATTACH_BACK", "RELEASE"} /\ c.op \in HoldOps \cup AttachOps
        /\ c.op \notin MakeOps
    BY <1>2 DEF set_up_attach_disk, attach_back, release_image, HoldOps, AttachOps, MakeOps
  <2>2. c.vm \in VM /\ i \in Image /\ (c.op # "ATTACH" => Holds(c.vm, i)) /\ c \in CallRecord
    BY <2>1, HoldCalls DEF HoldOps
  <2>3. PICK D : /\ calls' = (calls \ {c}) \cup D
                 /\ D \in {{}} \cup {{[c EXCEPT !.op = op]} : op \in AttachOps}
    BY <1>2, <2>1 DEF set_up_attach_disk, attach_back, release_image, Becomes, Goes, AttachOps
  <2>4. \A op \in AttachOps : [c EXCEPT !.op = op].op = op
    BY <2>2 DEF CallRecord, Calls, AttachOps
  <2>5. calls \ {c} \subseteq calls' /\ \A d \in calls' : d \in calls \/ d.op \notin SaveCalls
    BY <2>3, <2>4 DEF SaveCalls, AttachOps
  <2>6. CASE UNCHANGED image
    BY <1>0, <2>1, <2>2, <2>5, <2>6, CallDone
  <2>7. CASE ~Unready(i)' /\ image'[i].saver = image[i].saver /\ \A k \in Image \ {i} : image'[k] = image[k]
    BY <1>0, <2>1, <2>2, <2>5, <2>7, CallDone
  <2>8. CASE CanAcquire(image[i]) /\ SetImage(i, Acquired(image[i], c.vm))
    BY <2>2, <2>7, <2>8, UsedImage
  <2>9. CASE c.op # "ATTACH" /\ SetImage(i, Released(image[i], c.vm, FALSE))
    BY <2>2, <2>7, <2>9, UsedImage
  <2>10. QED BY <1>2, <2>6, <2>8, <2>9 DEF set_up_attach_disk, attach_back, release_image
<1>3. QED BY <1>1, <1>2

(* The calls of a save_as.                                                 *)
LEMMA RegisterAwaited ==
  ASSUME IInv, SInv, NEW c \in calls, register_image(c)
  PROVE  SInv'
<1> DEFINE i == c.image
<1>0. image \in [Image -> ImageRecord] /\ calls \subseteq CallRecord /\ UNCHANGED <<vm, copies>>
  BY DEF IInv, TypeOK, register_image
<1>1. /\ c.op = "REGISTER" /\ c.op \in MakeOps /\ i \in Image /\ image[i].state = "LOCKED" /\ Exists(i)
      /\ image[i].saver = c.vm /\ image[i] \in ImageRecord
  BY MadeByCall DEF register_image, MakeOps, Exists, SInv
<1>2. calls' = calls \ {c}
  BY <1>1 DEF register_image, Goes
<1>3. CASE SetState(i, "READY") /\ UNCHANGED driver
  <2>1. image'[i].saver = image[i].saver /\ image'[i].state = "READY" /\ \A k \in Image \ {i} : image'[k] = image[k]
    BY <1>0, <1>1, <1>3 DEF SetState, ImageRecord
  <2>2. ~Unready(i)'
    BY <2>1 DEF Unready
  <2>3. QED BY <1>0, <1>1, <1>2, <1>3, <2>1, <2>2, CallDone
<1>4. ASSUME NEW cmd \in {"CP", "MKFS"}, driver' = driver \cup {<<cmd, i>>}, UNCHANGED image,
             cmd = "CP" <=> image[i].saver = NoVM
      PROVE  SInv'
  <2>1. Made(i)'
    BY <1>4 DEF Made, MakeCmds
  <2>2. CASE cmd = "CP"
    <3>1. /\ driver \subseteq driver' /\ \A k \in Image : <<"MKFS", k>> \in driver' => <<"MKFS", k>> \in driver
          /\ calls \ {c} \subseteq calls' /\ \A d \in calls' : d \in calls
          /\ \A k \in Image \ {i} : image'[k] = image[k]
          /\ image'[i].saver = image[i].saver
      BY <1>2, <1>4, <2>2
    <3>2. QED BY <1>0, <1>1, <2>1, <3>1, CallDone
  <2>3. CASE cmd = "MKFS"
    <3>1. PICK v \in VM : v = image[i].saver
      BY <1>1, <1>4, <2>3 DEF ImageRecord
    <3>2. Saving(c, v) /\ Under(v) /\ OneSave(v)
      BY <1>1, <3>1 DEF Saving, SaveCalls, Under, SInv, SaveFits
    <3>3. /\ \A k \in Image : <<"MKFS", k>> \in driver' <=> <<"MKFS", k>> \in driver \/ k = i
          /\ \A k \in Image, p \in MakeCmds : <<p, k>> \in driver => <<p, k>> \in driver'
      BY <1>4, <2>3
    <3>4. /\ \A d \in calls' : ~Saving(d, v)
          /\ \A k \in Image : Formats(k, v)' => k = i
          /\ v \notin copies'
      BY <1>0, <1>2, <1>4, <3>2, <3>3 DEF OneSave, Formats
    <3>5. OneSave(v)'
      BY <3>4 DEF OneSave
    <3>6. \A k \in Image \ {i} : (Unready(k)' => Unready(k)) /\ MakersLeft(k)
      BY <1>0, <1>2, <1>4, <3>3 DEF Unready, MakersLeft, Makes, Saved
    <3>7. AllAwaited'
      BY <2>1, <3>6, AwaitedStep DEF SInv
    <3>8. \A d \in calls' : d.op = "REGISTER" => image'[d.image].saver = d.vm
      BY <1>2, <1>4 DEF SInv
    <3>9. QED BY <1>0, <1>2, <1>4, <3>1, <3>2, <3>3, <3>5, <3>7, <3>8, SaveMoves
  <2>4. QED BY <2>2, <2>3
<1>5. QED BY <1>1, <1>3, <1>4 DEF register_image

LEMMA SavediskAllocateAwaited ==
  ASSUME IInv, SInv, NEW c \in calls, savedisk_allocate(c)
  PROVE  SInv'
<1>0. /\ image \in [Image -> ImageRecord] /\ calls \subseteq CallRecord /\ UNCHANGED <<vm, copies, driver>>
      /\ c.op = "SAVEDISK" /\ c.op \notin MakeOps
  BY DEF IInv, TypeOK, savedisk_allocate, MakeOps
<1>1. PICK v \in VM : v = c.vm
  BY <1>0, CallParts
<1>2. Saving(c, v) /\ Under(v) /\ OneSave(v)
  BY <1>0, <1>1 DEF Saving, SaveCalls, Under, SInv, SaveFits
<1>3. ASSUME NEW d, d.vm = v, calls' = (calls \ {c}) \cup {d},
             \A k \in Image : Formats(k, v)' => Formats(k, v)
      PROVE  OneSave(v)'
  BY <1>0, <1>2, <1>3 DEF OneSave
<1>4. \A e \in calls : e.op = "REGISTER" => Makes(e, e.image) /\ e.image \in Image /\ image[e.image].saver = e.vm
  BY <1>0, CallParts DEF SInv, Makes, MakeOps
<1>5. CASE Becomes(c, Call("CLEAR_SAVEAS", v, NoImage, NoImage)) /\ UNCHANGED image
  <2> DEFINE d == Call("CLEAR_SAVEAS", v, NoImage, NoImage)
  <2>1. calls' = (calls \ {c}) \cup {d} /\ d.vm = v /\ d.op = "CLEAR_SAVEAS"
    BY <1>5 DEF Becomes, Call
  <2> HIDE DEF d
  <2>2. OneSave(v)'
    BY <1>0, <1>3, <1>5, <2>1 DEF Formats
  <2>3. \A k \in Image : (Unready(k)' => Unready(k)) /\ MakersLeft(k)
    BY <1>0, <1>5, <2>1 DEF Unready, MakersLeft, Makes, Saved
  <2>4. AllAwaited'
    BY <2>3, AwaitedStep DEF SInv
  <2>5. QED BY <1>0, <1>2, <1>4, <1>5, <2>1, <2>2, <2>4, SaveMoves
<1>6. ASSUME NEW i \in Image, image[i].state = "NONE", SetImage(i, NewImage(FALSE, FALSE, NoImage, v)),
             Becomes(c, Call("REGISTER", v, i, NoImage))
      PROVE  SInv'
  <2> DEFINE d == Call("REGISTER", v, i, NoImage)
  <2>1. calls' = (calls \ {c}) \cup {d} /\ d.vm = v /\ d.op = "REGISTER" /\ d.image = i
    BY <1>6 DEF Becomes, Call
  <2> HIDE DEF d
  <2>2. /\ image'[i].saver = v /\ \A k \in Image \ {i} : image'[k] = image[k]
    BY <1>0, <1>6 DEF SetImage, NewImage
  <2>3. (\A e \in calls : ~Makes(e, i)) /\ <<"MKFS", i>> \notin driver
    BY <1>6, NotMade DEF Made, MakeCmds
  <2>4. OneSave(v)'
    <3>1. \A k \in Image : Formats(k, v)' => Formats(k, v)
      BY <1>0, <2>2, <2>3 DEF Formats
    <3>2. QED BY <1>3, <2>1, <3>1
  <2>5. Made(i)'
    BY <2>1 DEF Made, Makes, MakeOps
  <2>6. \A k \in Image \ {i} : (Unready(k)' => Unready(k)) /\ MakersLeft(k)
    BY <1>0, <2>1, <2>2 DEF Unready, MakersLeft, Makes, Saved
  <2>7. AllAwaited'
    BY <2>5, <2>6, AwaitedStep DEF SInv
  <2>8. \A e \in calls' : e.op = "REGISTER" => image'[e.image].saver = e.vm
    BY <1>4, <2>1, <2>2, <2>3
  <2>9. \A k \in Image : <<"MKFS", k>> \in driver' => <<"MKFS", k>> \in driver /\ image'[k].saver = image[k].saver
    BY <1>0, <2>2, <2>3
  <2>10. QED BY <1>0, <1>2, <2>1, <2>4, <2>7, <2>8, <2>9, SaveMoves
<1>7. QED BY <1>1, <1>5, <1>6 DEF savedisk_allocate

LEMMA SaveFailedAwaited ==
  ASSUME IInv, SInv, NEW c \in calls, save_failed(c)
  PROVE  SInv'
<1> DEFINE i == c.image
<1>0. /\ image \in [Image -> ImageRecord] /\ calls \subseteq CallRecord /\ UNCHANGED <<vm, copies, driver>>
      /\ c.op = "SAVE_FAILED" /\ c.op \in MakeOps
  BY DEF IInv, TypeOK, save_failed, MakeOps
<1>1. i \in Image /\ image[i].state = "LOCKED" /\ Exists(i) /\ c.vm \in VM
  BY <1>0, MadeByCall, CallParts DEF Exists
<1>2. PICK v \in VM : v = c.vm
  BY <1>1
<1>3. Saving(c, v) /\ Under(v) /\ OneSave(v)
  BY <1>0, <1>2 DEF Saving, SaveCalls, Under, SInv, SaveFits
<1> DEFINE d == Call("CLEAR_SAVEAS", v, NoImage, NoImage)
<1>4. SetState(i, "ERROR") /\ calls' = (calls \ {c}) \cup {d} /\ d.vm = v /\ d.op = "CLEAR_SAVEAS"
  BY <1>1, <1>2 DEF save_failed, Becomes, Call
<1> HIDE DEF d
<1>5. image'[i].saver = image[i].saver /\ image'[i].state = "ERROR" /\ \A k \in Image \ {i} : image'[k] = image[k]
  BY <1>0, <1>1, <1>4 DEF SetState, ImageRecord
<1>6. OneSave(v)'
  <2>1. \A k \in Image : Formats(k, v)' => Formats(k, v)
    BY <1>0, <1>5 DEF Formats
  <2>2. QED BY <1>0, <1>3, <1>4, <2>1 DEF OneSave
<1>7. /\ ~Unready(i)'
      /\ \A k \in Image \ {i} : (Unready(k)' => Unready(k)) /\ MakersLeft(k)
  BY <1>0, <1>4, <1>5 DEF Unready, MakersLeft, Makes, Saved
<1>8. AllAwaited'
  BY <1>7, AwaitedStep DEF SInv
<1>9. \A e \in calls' : e.op = "REGISTER" => image'[e.image].saver = e.vm
  <2> SUFFICES ASSUME NEW e \in calls, e.op = "REGISTER" PROVE image'[e.image].saver = e.vm
    BY <1>4
  <2>1. e.image \in Image
    BY <1>0, CallParts DEF MakeOps
  <2>2. QED BY <1>5, <2>1 DEF SInv
<1>10. QED BY <1>0, <1>3, <1>4, <1>5, <1>6, <1>8, <1>9, SaveMoves

-----------------------------------------------------------------------------
(* Steps of a VM *)

(* A VM goes on saving what it saved, or another makes that image now, or  *)
(* it is LOCKED no longer.                                                 *)
LEMMA VmStepAwaited ==
  ASSUME IInv, SInv, NEW v \in VM, NEW r \in VmRecord, vm' = [vm EXCEPT ![v] = r], UNCHANGED driver,
         copies' \in {copies, copies \ {v}},
         \A i \in Image : image'[i].saver = image[i].saver /\ (Unready(i)' => Unready(i)),
         \A c \in calls' : c \in calls \/ c.op \notin SaveCalls,
         \A c \in calls : c.op \in MakeOps => c \in calls',
         \A i \in Image : vm[v].hot_as = i => r.hot_as = i \/ Made(i)',
         \A i \in Image, s \in Slots : vm[v].save_as[s] = i => r.save_as[s] = i \/ ~Unready(i)',
         Marks(r), Under(v) /\ Under(v)' => r.state \in SaveStates,
         r.hot_as # NoImage => v \in copies' /\ r.state = "SAVEAS"
  PROVE  SInv'
<1>1. vm'[v] = r /\ \A w \in VM \ {v} : vm'[w] = vm[w]
  BY VmSet
<1>2. \A i \in Image : Unready(i)' => Made(i)' \/ MakersLeft(i)
  <2> SUFFICES ASSUME NEW i \in Image, Unready(i)', ~Made(i)' PROVE MakersLeft(i)
    OBVIOUS
  <2>1. \A w \in VM, s \in Saves : Saved(w, s) = i => Saved(w, s)' = i
    <3> TAKE w \in VM, s \in Saves
    <3>1. s = 0 \/ s \in Slots
      BY MaxDisksAssumption DEF Saves, Slots
    <3>2. QED BY <1>1, <3>1 DEF Saved
  <2>2. QED BY <2>1 DEF MakersLeft, Makes
<1>3. AllAwaited'
  BY <1>2, AwaitedStep DEF SInv
<1>4. QED BY <1>3, SavingVmStep

(* The state alone changes.                                                *)
LEMMA VmStatesAwaited ==
  ASSUME IInv, SInv, NEW v \in VM,
         \/ vm_insert(v) \/ insert_end(v) \/ release_end(v) \/ vm_fail(v) \/ done_action(v)
         \/ finalize(v) \/ \E i \in Image : attach(v, i)
  PROVE  SInv'
<1> DEFINE x == vm[v]
<1>0. x \in VmRecord /\ SaveFits(v)
  BY DEF IInv, TypeOK, SInv
<1>1. UNCHANGED <<image, driver, copies>>
  BY DEF vm_insert, insert_end, release_end, vm_fail, done_action, finalize, attach
<1>2. PICK s \in VmState :
        /\ SetVmState(v, s) /\ x.state # "SAVEAS"
        /\ s \notin {"NONE", "SAVEAS"} /\ (x.state \in SaveStates => s \in SaveStates)
        /\ s = "DONE" => x.save_as = NoDisks
        /\ x.state \in Ends => s \in {"GONE", "DONE"} /\ x.save_as = NoDisks
  BY DEF vm_insert, insert_end, release_end, vm_fail, done_action, finalize, attach, VmState,
         SaveStates, Ends, Releasing
<1>3. /\ \A c \in calls' : c \in calls \/ c.op \notin SaveCalls
      /\ calls \subseteq calls'
  <2>1. \/ calls' = calls
        \/ \E i \in Image : calls' = calls \cup {Call("ATTACH", v, i, NoImage)}
    BY DEF vm_insert, insert_end, release_end, vm_fail, done_action, finalize, attach, Starts
  <2>2. \A i : Call("ATTACH", v, i, NoImage).op = "ATTACH"
    BY DEF Call
  <2>3. QED BY <2>1, <2>2 DEF SaveCalls
<1> DEFINE r == [vm[v] EXCEPT !.state = s]
<1>4. vm' = [vm EXCEPT ![v] = r]
  BY <1>2 DEF SetVmState, IInv, TypeOK
<1>5. /\ r \in VmRecord /\ r.disk = x.disk /\ r.attach = x.attach /\ r.saving = x.saving
      /\ r.save_as = x.save_as /\ r.hot_as = x.hot_as /\ r.state = s
  BY <1>0 DEF VmRecord
<1> HIDE DEF r
<1>6. x.save_as = NoDisks => \A t \in Slots : x.save_as[t] = NoImage
  BY DEF NoDisks
<1>7. Marks(r)
  BY <1>0, <1>2, <1>5, <1>6 DEF SaveFits, Marks
<1>8. r.hot_as = NoImage /\ (Under(v) => r.state \in SaveStates)
  BY <1>0, <1>2, <1>5 DEF SaveFits
<1>9. \A i \in Image : image'[i].saver = image[i].saver /\ (Unready(i)' => Unready(i))
  BY <1>1 DEF Unready
<1>10. QED BY <1>1, <1>3, <1>4, <1>5, <1>7, <1>8, <1>9, VmStepAwaited

LEMMA VmEndAwaited ==
  ASSUME IInv, SInv, NEW v \in VM, vm_end(v)
  PROVE  SInv'
<1> DEFINE x == vm[v]
           y == [x EXCEPT !.state = "ENDING"]
           z == cancel_saveas_disk(y)
           r == clear_attach_disk(z)
<1>0. x \in VmRecord /\ SaveFits(v) /\ x.state \notin Ends /\ x.state # "DONE"
  BY DEF IInv, TypeOK, SInv, vm_end, Ends
<1>1. vm' = [vm EXCEPT ![v] = r] /\ UNCHANGED <<image, driver, copies>>
  BY DEF vm_end, SetVM
<1>2. 0 \in 0..MaxDisks
  BY MaxDisksAssumption
<1>3. y \in VmRecord /\ y.disk = x.disk /\ y.save_as = x.save_as /\ y.state = "ENDING"
  BY <1>0 DEF VmRecord, VmState
<1> HIDE DEF y
<1>4. z \in VmRecord /\ z.disk = y.disk /\ z.save_as = y.save_as /\ z.state = y.state /\ z.hot_as = NoImage
  <2>1. z \in VmRecord
    BY <1>2, <1>3 DEF cancel_saveas_disk, VmRecord
  <2>2. QED BY <1>3, <2>1 DEF cancel_saveas_disk, VmRecord
<1> HIDE DEF z
<1>5. /\ r \in VmRecord /\ r.disk = z.disk /\ r.save_as = z.save_as /\ r.state = z.state
      /\ r.hot_as = z.hot_as /\ r.attach = 0
  BY <1>2, <1>4 DEF clear_attach_disk, VmRecord
<1> HIDE DEF r
<1>6. /\ \A c \in calls' : c \in calls \/ c.op \notin SaveCalls
      /\ calls \subseteq calls'
      /\ \A i \in Image : x.hot_as = i => Made(i)'
  <2>1. CASE x.hot_as = NoImage
    BY <2>1, NullAssumption DEF vm_end
  <2>2. CASE x.hot_as # NoImage
    <3> DEFINE d == Call("HOT_ERROR", NoVM, x.hot_as, NoImage)
    <3>1. calls' = calls \cup {d}
      BY <2>2 DEF vm_end, Starts
    <3>2. d.op = "HOT_ERROR" /\ d.image = x.hot_as
      BY DEF Call
    <3> HIDE DEF d
    <3>3. \A i \in Image : x.hot_as = i => Made(i)'
      BY <3>1, <3>2 DEF Made, Makes, MakeOps
    <3>4. QED BY <3>1, <3>2, <3>3 DEF SaveCalls
  <2>3. QED BY <2>1, <2>2
<1>7. Marks(r) /\ r.state \in SaveStates
  BY <1>0, <1>3, <1>4, <1>5 DEF SaveFits, Marks, SaveStates, Ends
<1>8. \A i \in Image : image'[i].saver = image[i].saver /\ (Unready(i)' => Unready(i))
  BY <1>1 DEF Unready
<1>9. \A i \in Image, s \in Slots : vm[v].save_as[s] = i => r.save_as[s] = i
  BY <1>3, <1>4, <1>5
<1>10. QED BY <1>1, <1>4, <1>5, <1>6, <1>7, <1>8, <1>9, VmStepAwaited

(* A VM that saves nothing: disks may come, but none of those to be saved  *)
(* goes.                                                                   *)
LEMMA DiskStepAwaited ==
  ASSUME IInv, SInv, NEW v \in VM, NEW r \in VmRecord, vm' = [vm EXCEPT ![v] = r], UNCHANGED <<driver, copies>>,
         vm[v].state \in {"INSERT", "RUNNING", "HOTPLUG"},
         r.state \in {"INSERT", "ROLLBACK", "RUNNING", "HOTPLUG"},
         r.hot_as = vm[v].hot_as, \A s \in Slots : r.save_as[s] = vm[v].save_as[s],
         \A s \in Slots : vm[v].save_as[s] # NoImage /\ vm[v].disk[s] # NoImage => r.disk[s] # NoImage,
         r.attach # 0 => r.save_as[r.attach] = NoImage,
         \A i \in Image : image'[i].saver = image[i].saver /\ (Unready(i)' => Unready(i)),
         \A c \in calls' : c \in calls \/ c.op \notin SaveCalls,
         \A c \in calls : c.op \in MakeOps => c \in calls'
  PROVE  SInv'
<1>1. SaveFits(v)
  BY DEF SInv
<1>2. vm[v].hot_as = NoImage /\ ~Under(v)
  BY <1>1 DEF SaveFits, SaveStates
<1>3. Marks(r)
  BY <1>1 DEF SaveFits, Marks, Ends
<1>4. QED BY <1>2, <1>3, VmStepAwaited

LEMMA InsertDiskAwaited ==
  ASSUME IInv, SInv, NEW v \in VM, NEW i \in Image, insert_disk(v, i)
  PROVE  SInv'
<1> DEFINE x == vm[v]
<1>1. x.state = "INSERT" /\ FreeSlots(v) # {} /\ UNCHANGED <<calls, driver, copies>> /\ x \in VmRecord
      /\ SaveFits(v)
  BY DEF insert_disk, IInv, TypeOK, SInv
<1>2. x.attach # 0 => x.save_as[x.attach] = NoImage
  BY <1>1 DEF SaveFits, Marks
<1>3. CASE SetVmState(v, "ROLLBACK") /\ UNCHANGED image
  <2> DEFINE r == [x EXCEPT !.state = "ROLLBACK"]
  <2>1. vm' = [vm EXCEPT ![v] = r]
    BY <1>3 DEF SetVmState, IInv, TypeOK
  <2>2. /\ r \in VmRecord /\ r.disk = x.disk /\ r.attach = x.attach
        /\ r.save_as = x.save_as /\ r.hot_as = x.hot_as /\ r.state = "ROLLBACK"
    BY <1>1 DEF VmRecord, VmState
  <2> HIDE DEF r
  <2>3. \A k \in Image : image'[k].saver = image[k].saver /\ (Unready(k)' => Unready(k))
    BY <1>3 DEF Unready
  <2>4. QED BY <1>1, <1>2, <2>1, <2>2, <2>3, DiskStepAwaited
<1>4. ASSUME NEW s \in FreeSlots(v), CanAcquire(image[i]),
             SetImage(i, Acquired(image[i], v)), SetVM(v, Put(v, s, i))
      PROVE  SInv'
  <2> DEFINE r == Put(v, s, i)
  <2>1. s \in Slots
    BY DEF FreeSlots
  <2>2. /\ r \in VmRecord /\ \A t \in Slots : r.disk[t] = IF t = s THEN i ELSE x.disk[t]
        /\ r.save_as = x.save_as /\ r.hot_as = x.hot_as /\ r.attach = x.attach
        /\ r.state = "INSERT" /\ vm' = [vm EXCEPT ![v] = r]
    BY <1>1, <1>4, <2>1, PutRecord DEF SetVM
  <2> HIDE DEF r
  <2>3. /\ ~Unready(i)' /\ image'[i].saver = image[i].saver
        /\ \A k \in Image \ {i} : image'[k] = image[k]
    BY <1>4, UsedImage
  <2>4. \A k \in Image : image'[k].saver = image[k].saver /\ (Unready(k)' => Unready(k))
    BY <2>3 DEF Unready
  <2>5. \A t \in Slots : x.disk[t] # NoImage => r.disk[t] # NoImage
    BY <2>2, NullAssumption
  <2>6. /\ vm[v].state \in {"INSERT", "RUNNING", "HOTPLUG"}
        /\ r.state \in {"INSERT", "ROLLBACK", "RUNNING", "HOTPLUG"}
        /\ r.hot_as = vm[v].hot_as /\ \A t \in Slots : r.save_as[t] = vm[v].save_as[t]
        /\ \A t \in Slots : vm[v].save_as[t] # NoImage /\ vm[v].disk[t] # NoImage => r.disk[t] # NoImage
        /\ r.attach # 0 => r.save_as[r.attach] = NoImage
    BY <1>1, <1>2, <2>2, <2>5
  <2>7. /\ \A c \in calls' : c \in calls \/ c.op \notin SaveCalls
        /\ \A c \in calls : c.op \in MakeOps => c \in calls'
    BY <1>1
  <2>8. QED BY <1>1, <2>2, <2>4, <2>6, <2>7, DiskStepAwaited
<1>5. QED BY <1>1, <1>3, <1>4, FirstFree DEF insert_disk

LEMMA ReleaseDiskAwaited ==
  ASSUME IInv, SInv, NEW v \in VM, release_disk(v)
  PROVE  SInv'
<1> DEFINE x == vm[v]
<1>1. /\ x.state \in Ends /\ UNCHANGED <<calls, driver, copies>> /\ x \in VmRecord /\ SaveFits(v)
      /\ FailedRelease(v) \in BOOLEAN
  BY DEF release_disk, IInv, TypeOK, SInv, Releasing, Ends, FailedRelease
<1>2. x.hot_as = NoImage
  BY <1>1 DEF SaveFits, Ends
<1>3. ASSUME NEW r \in VmRecord, vm' = [vm EXCEPT ![v] = r], r.hot_as = x.hot_as, r.attach = x.attach,
             r.state = x.state, NEW j \in Image,
             \A s \in Slots : r.save_as[s] = x.save_as[s] \/ (x.save_as[s] = j /\ r.save_as[s] = NoImage),
             ~Unready(j)', image'[j].saver = image[j].saver, \A k \in Image \ {j} : image'[k] = image[k]
      PROVE  SInv'
  <2>1. \A k \in Image : image'[k].saver = image[k].saver /\ (Unready(k)' => Unready(k))
    BY <1>3 DEF Unready
  <2>2. \A k \in Image, s \in Slots : x.save_as[s] = k => r.save_as[s] = k \/ ~Unready(k)'
    BY <1>3
  <2>3. Marks(r)
    <3>1. x.attach # 0 => x.attach \in Slots
      BY <1>1, MaxDisksAssumption DEF VmRecord, Slots
    <3>2. QED BY <1>1, <1>3, <3>1 DEF SaveFits, Marks, Ends
  <2>4. Under(v) => r.state \in SaveStates
    BY <1>1, <1>3 DEF SaveFits
  <2>5. QED BY <1>1, <1>2, <1>3, <2>1, <2>2, <2>3, <2>4, VmStepAwaited
<1>4. ASSUME NEW s \in Slots, x.disk[s] # NoImage, SetVM(v, Put(v, s, NoImage)),
             SetImage(x.disk[s], Released(image[x.disk[s]], v, FailedRelease(v)))
      PROVE  SInv'
  <2>1. PICK j \in Image : j = x.disk[s]
    BY <1>1, <1>4 DEF VmRecord
  <2>2. Holds(v, j)
    BY <2>1, NullAssumption DEF Holds, Disks
  <2>3. /\ ~Unready(j)' /\ image'[j].saver = image[j].saver
        /\ \A k \in Image \ {j} : image'[k] = image[k]
    BY <1>1, <1>4, <2>1, <2>2, UsedImage
  <2> DEFINE r == Put(v, s, NoImage)
  <2>4. /\ r \in VmRecord /\ r.save_as = x.save_as /\ r.hot_as = x.hot_as /\ r.attach = x.attach
        /\ r.state = x.state /\ vm' = [vm EXCEPT ![v] = r]
    BY <1>4, PutRecord DEF SetVM
  <2> HIDE DEF r
  <2>5. QED BY <1>3, <2>3, <2>4
<1>5. ASSUME NEW s \in Slots, x.save_as[s] # NoImage, SetVM(v, [x EXCEPT !.save_as[s] = NoImage]),
             SetImage(x.save_as[s], Released(image[x.save_as[s]], v, FailedRelease(v)))
      PROVE  SInv'
  <2>1. PICK j \in Image : j = x.save_as[s]
    BY <1>1, <1>5 DEF VmRecord
  <2>2. s \in Saves /\ Saved(v, s) = j
    BY <2>1, MaxDisksAssumption DEF Slots, Saves, Saved
  <2>3. /\ ~Unready(j)' /\ image'[j].saver = image[j].saver
        /\ \A k \in Image \ {j} : image'[k] = image[k]
    BY <1>1, <1>5, <2>1, <2>2, UsedImage
  <2> DEFINE r == [x EXCEPT !.save_as[s] = NoImage]
  <2>4. /\ r \in VmRecord /\ r.hot_as = x.hot_as /\ r.attach = x.attach /\ r.state = x.state
        /\ \A t \in Slots : r.save_as[t] = IF t = s THEN NoImage ELSE x.save_as[t]
        /\ vm' = [vm EXCEPT ![v] = r]
    BY <1>1, <1>5 DEF SetVM, VmRecord
  <2> HIDE DEF r
  <2>5. QED BY <1>3, <2>1, <2>3, <2>4
<1>6. QED BY <1>4, <1>5 DEF release_disk

LEMMA HotplugAwaited ==
  ASSUME Careful, "DETACH_SAVED" \notin Rash, IInv, SInv, NEW v \in VM,
         \/ attach_success(v) \/ attach_failure(v) \/ \E s \in Slots : detach(v, s)
  PROVE  SInv'
<1> DEFINE x == vm[v]
<1>1. /\ x \in VmRecord /\ SaveFits(v) /\ UNCHANGED <<image, driver, copies>>
      /\ 0 \in 0..MaxDisks /\ "RUNNING" \in VmState /\ "HOTPLUG" \in VmState
  BY MaxDisksAssumption DEF IInv, TypeOK, SInv, attach_success, attach_failure, detach, VmState
<1>2. \A i \in Image : image'[i].saver = image[i].saver /\ (Unready(i)' => Unready(i))
  BY <1>1 DEF Unready
<1>3. CASE attach_success(v)
  <2> DEFINE r == clear_attach_disk([x EXCEPT !.state = "RUNNING"])
  <2>1. x.state = "HOTPLUG" /\ UNCHANGED calls /\ vm' = [vm EXCEPT ![v] = r]
    BY <1>3 DEF attach_success, SetVM
  <2>2. /\ r \in VmRecord /\ r.disk = x.disk /\ r.attach = 0 /\ r.state = "RUNNING"
        /\ r.save_as = x.save_as /\ r.hot_as = x.hot_as
    BY <1>1 DEF VmRecord, clear_attach_disk
  <2> HIDE DEF r
  <2>3. QED BY <1>1, <1>2, <2>1, <2>2, DiskStepAwaited
<1>4. ASSUME NEW s \in Slots, detach(v, s) PROVE SInv'
  <2> DEFINE r == set_attach_disk([x EXCEPT !.state = "HOTPLUG"], s)
  <2>1. /\ x.state = "RUNNING" /\ UNCHANGED calls /\ vm' = [vm EXCEPT ![v] = r] /\ s \in 0..MaxDisks
        /\ x.save_as[s] = NoImage
    BY <1>4, MaxDisksAssumption DEF detach, SetVM, Slots
  <2>2. /\ r \in VmRecord /\ r.disk = x.disk /\ r.attach = s /\ r.state = "HOTPLUG"
        /\ r.save_as = x.save_as /\ r.hot_as = x.hot_as
    BY <1>1, <2>1 DEF VmRecord, set_attach_disk
  <2> HIDE DEF r
  <2>3. QED BY <1>1, <1>2, <2>1, <2>2, DiskStepAwaited
<1>5. CASE attach_failure(v)
  <2>0. x.state = "HOTPLUG" /\ x.attach # 0
    BY <1>5 DEF attach_failure
  <2>1. PICK s \in Slots : s = x.attach
    BY <1>1, <2>0, MaxDisksAssumption DEF VmRecord, Slots
  <2>2. x.save_as[s] = NoImage
    BY <1>1, <2>0, <2>1 DEF SaveFits, Marks
  <2> DEFINE r == delete_attach_disk([x EXCEPT !.state = "RUNNING"])
             d == Call("RELEASE", v, x.disk[s], NoImage)
  <2>3. vm' = [vm EXCEPT ![v] = r] /\ calls' = calls \cup {d} /\ d.op = "RELEASE"
    BY <1>5, <2>1 DEF attach_failure, SetVM, Starts, Call
  <2>4. /\ r \in VmRecord /\ \A t \in Slots : r.disk[t] = IF t = s THEN NoImage ELSE x.disk[t]
        /\ \A t \in Slots : r.save_as[t] = IF t = s THEN NoImage ELSE x.save_as[t]
        /\ r.attach = 0 /\ r.hot_as = x.hot_as /\ r.state = "RUNNING"
    BY <1>1, <2>1 DEF delete_attach_disk, clear_attach_disk, VmRecord
  <2> HIDE DEF r, d
  <2>5. /\ \A c \in calls' : c \in calls \/ c.op \notin SaveCalls
        /\ calls \subseteq calls'
    BY <2>3 DEF SaveCalls
  <2>6. /\ \A t \in Slots : r.save_as[t] = x.save_as[t]
        /\ \A t \in Slots : x.save_as[t] # NoImage /\ x.disk[t] # NoImage => r.disk[t] # NoImage
    BY <2>2, <2>4
  <2>7. QED BY <1>1, <1>2, <2>0, <2>3, <2>4, <2>5, <2>6, DiskStepAwaited
<1>6. QED BY <1>3, <1>4, <1>5

LEMMA AttachEndAwaited ==
  ASSUME IInv, SInv, NEW c \in calls, attach_refused(c) \/ attach_set(c)
  PROVE  SInv'
<1>1. /\ c \in CallRecord /\ c.vm \in VM /\ c.image \in Image /\ c.op \in AttachOps
      /\ UNCHANGED <<image, driver, copies>> /\ calls' = calls \ {c} /\ c.op \notin MakeOps
  BY HoldCalls DEF attach_refused, attach_set, AttachOps, MakeOps, Goes
<1>2. PICK v \in VM : v = c.vm
  BY <1>1
<1>3. /\ vm[v] \in VmRecord /\ vm[v].state = "HOTPLUG" /\ vm[v].attach = 0 /\ SaveFits(v)
  BY <1>1, <1>2 DEF IInv, TypeOK, HoldingFits, AttachAlone, SInv
<1>4. \A i \in Image : image'[i].saver = image[i].saver /\ (Unready(i)' => Unready(i))
  BY <1>1 DEF Unready
<1>5. CASE attach_refused(c)
  <2> DEFINE r == SetsRunning(vm[v])
  <2>1. vm' = [vm EXCEPT ![v] = r]
    BY <1>2, <1>5 DEF attach_refused, SetVM
  <2>2. /\ r \in VmRecord /\ r.disk = vm[v].disk /\ r.attach = vm[v].attach /\ r.state = "RUNNING"
        /\ r.save_as = vm[v].save_as /\ r.hot_as = vm[v].hot_as
    BY <1>3 DEF VmRecord, VmState, SetsRunning
  <2> HIDE DEF r
  <2>3. QED BY <1>1, <1>3, <1>4, <2>1, <2>2, DiskStepAwaited
<1>6. CASE attach_set(c)
  <2>1. PICK i \in Image : i = c.image
    BY <1>1
  <2>2. PICK s \in FreeSlots(v) : vm' = [vm EXCEPT ![v] = set_attach_disk(Put(v, s, i), s)]
    BY <1>2, <1>6, <2>1 DEF attach_set, SetVM
  <2>3. s \in Slots /\ vm[v].disk[s] = NoImage /\ s \in 0..MaxDisks
    BY MaxDisksAssumption DEF FreeSlots, Slots
  <2> DEFINE u == Put(v, s, i)
             r == set_attach_disk(u, s)
  <2>4. /\ u \in VmRecord /\ \A t \in Slots : u.disk[t] = IF t = s THEN i ELSE vm[v].disk[t]
        /\ u.save_as = vm[v].save_as /\ u.hot_as = vm[v].hot_as /\ u.state = vm[v].state
    BY <2>3, PutRecord
  <2>5. vm' = [vm EXCEPT ![v] = r]
    BY <2>2
  <2> HIDE DEF u
  <2>6. /\ r \in VmRecord /\ r.disk = u.disk /\ r.attach = s /\ r.save_as = vm[v].save_as
        /\ r.hot_as = vm[v].hot_as /\ r.state = "HOTPLUG"
    BY <1>3, <2>3, <2>4 DEF set_attach_disk, VmRecord
  <2> HIDE DEF r
  <2>7. vm[v].save_as[s] = NoImage
    BY <1>3, <2>3 DEF SaveFits, Marks, Ends
  <2>8. \A t \in Slots : vm[v].disk[t] # NoImage => r.disk[t] # NoImage
    BY <2>4, <2>6, NullAssumption
  <2>9. QED BY <1>1, <1>3, <1>4, <2>5, <2>6, <2>7, <2>8, DiskStepAwaited
<1>7. QED BY <1>5, <1>6

(* A VM begins to save a disk; the save is given up; or the image for it   *)
(* is there; and the driver has copied the disk, or could not.             *)
LEMMA SavediskAwaited ==
  ASSUME IInv, SInv, NEW v \in VM, NEW s \in Slots, NEW hot \in BOOLEAN, savedisk(v, s, hot)
  PROVE  SInv'
<1> DEFINE x == vm[v]
           r == [x EXCEPT !.state = "SAVEAS", !.saving = s, !.hot = hot]
<1>1. /\ x \in VmRecord /\ x.state = "RUNNING" /\ x.disk[s] # NoImage /\ x.save_as[s] = NoImage
      /\ s \in 0..MaxDisks /\ SaveFits(v) /\ UNCHANGED <<image, driver, copies>>
      /\ vm' = [vm EXCEPT ![v] = r]
  BY MaxDisksAssumption DEF savedisk, get_image_from_disk, SetVM, IInv, TypeOK, SInv, Slots
<1>2. /\ r \in VmRecord /\ r.disk = x.disk /\ r.attach = x.attach /\ r.state = "SAVEAS"
      /\ r.save_as = x.save_as /\ r.hot_as = x.hot_as /\ r.saving = s
  BY <1>1 DEF VmRecord, VmState
<1> HIDE DEF r
<1>3. vm'[v] = r /\ \A w \in VM \ {v} : vm'[w] = vm[w]
  BY <1>1, <1>2, VmSet
<1>4. ~Under(v) /\ x.hot_as = NoImage
  BY <1>1 DEF SaveFits, SaveStates
<1>5. Marks(r)
  BY <1>1, <1>2 DEF SaveFits, Marks, Ends
<1>6. PICK d : calls' = calls \cup {d} /\ d.op = "SAVEDISK" /\ d.vm = v
  <2>1. calls' = calls \cup {Call("SAVEDISK", v, x.disk[s], NoImage)}
    BY DEF savedisk, Starts
  <2>2. /\ Call("SAVEDISK", v, x.disk[s], NoImage).op = "SAVEDISK"
        /\ Call("SAVEDISK", v, x.disk[s], NoImage).vm = v
    BY DEF Call
  <2>3. QED BY <2>1, <2>2
<1>7. SaveFits(v)'
  <2>1. /\ \A c \in calls' : Saving(c, v) => c = d
        /\ \A i \in Image : ~Formats(i, v)'
        /\ v \notin copies'
    BY <1>1, <1>4, <1>6 DEF Under, Formats
  <2>2. OneSave(v)'
    BY <2>1 DEF OneSave
  <2>3. QED BY <1>2, <1>3, <1>4, <1>5, <2>2 DEF SaveFits, SaveStates
<1>8. \A i \in Image : (Unready(i)' => Unready(i)) /\ MakersLeft(i)
  <2> TAKE i \in Image
  <2>1. \A w \in VM, t \in Saves : Saved(w, t) = i => Saved(w, t)' = i
    BY <1>2, <1>3 DEF Saved
  <2>2. QED BY <1>1, <1>6, <2>1 DEF Unready, MakersLeft
<1>9. AllAwaited'
  BY <1>8, AwaitedStep DEF SInv
<1>10. \A c \in calls' : c.op = "REGISTER" => image'[c.image].saver = c.vm
  BY <1>1, <1>6 DEF SInv
<1>11. QED BY <1>1, <1>3, <1>6, <1>7, <1>9, <1>10, SavesStep

LEMMA ClearedMarks ==
  ASSUME NEW r \in VmRecord, Marks(r), NEW q \in VmRecord, q.disk = r.disk, q.attach = r.attach,
         q.save_as = r.save_as, q.state = IF r.state = "SAVEAS" THEN "RUNNING" ELSE r.state
  PROVE  Marks(q)
BY DEF Marks, Ends

LEMMA ClearSaveasAwaited ==
  ASSUME IInv, SInv, NEW c \in calls, clear_saveas_state(c)
  PROVE  SInv'
<1>1. c.op = "CLEAR_SAVEAS" /\ c.vm \in VM /\ c.op \notin MakeOps /\ UNCHANGED <<image, driver, copies>>
  BY CallParts DEF clear_saveas_state, MakeOps, IInv, TypeOK
<1>2. PICK v \in VM : v = c.vm
  BY <1>1
<1> DEFINE x == vm[v]
           r == ClearSaveas(x)
<1>3. x \in VmRecord /\ SaveFits(v) /\ vm' = [vm EXCEPT ![v] = r] /\ calls' = calls \ {c}
  BY <1>2 DEF clear_saveas_state, SetVM, Goes, IInv, TypeOK, SInv
<1>4. /\ r \in VmRecord /\ r.disk = x.disk /\ r.attach = x.attach
      /\ r.save_as = x.save_as /\ r.hot_as = NoImage
      /\ r.state = IF x.state = "SAVEAS" THEN "RUNNING" ELSE x.state
  BY <1>3, SavesCancelled
<1> HIDE DEF r
<1>5. Saving(c, v)
  BY <1>1, <1>2 DEF Saving, SaveCalls
<1>6. x.hot_as = NoImage
  BY <1>3, <1>5 DEF SaveFits, OneSave
<1>7. ~Under(v)'
  BY <1>1, <1>3, <1>5 DEF SaveFits, OneSave, Under, Formats
<1>8. Marks(r)
  BY <1>3, <1>4, ClearedMarks DEF SaveFits
<1>9. \A i \in Image : image'[i].saver = image[i].saver /\ (Unready(i)' => Unready(i))
  BY <1>1 DEF Unready
<1>10. /\ \A i \in Image : x.hot_as = i => r.hot_as = i
       /\ \A i \in Image, s \in Slots : x.save_as[s] = i => r.save_as[s] = i
       /\ \A d \in calls : d.op \in MakeOps => d \in calls'
       /\ \A d \in calls' : d \in calls
  BY <1>1, <1>3, <1>4, <1>6, NullAssumption
<1>11. QED BY <1>1, <1>3, <1>4, <1>7, <1>8, <1>9, <1>10, VmStepAwaited

LEMMA SaveasHotAwaited ==
  ASSUME IInv, SInv, NEW v \in VM, saveas_hot(v)
  PROVE  SInv'
<1> DEFINE x == vm[v]
           r == ClearSaveas(x)
<1>1. /\ x \in VmRecord /\ SaveFits(v) /\ vm' = [vm EXCEPT ![v] = r] /\ v \in copies
      /\ UNCHANGED <<image, driver>> /\ copies' = copies \ {v}
  BY DEF saveas_hot, SetVM, IInv, TypeOK, SInv
<1>2. /\ r \in VmRecord /\ r.disk = x.disk /\ r.attach = x.attach
      /\ r.save_as = x.save_as /\ r.hot_as = NoImage
      /\ r.state = IF x.state = "SAVEAS" THEN "RUNNING" ELSE x.state
  BY <1>1, SavesCancelled
<1> HIDE DEF r
<1>3. /\ calls \subseteq calls' /\ \A d \in calls' : d \in calls \/ d.op \in {"HOT_READY", "HOT_ERROR"}
      /\ \A i \in Image : x.hot_as = i => Made(i)'
  <2>1. CASE x.state = "SAVEAS" /\ x.hot_as # NoImage
    <3>1. PICK op \in {"HOT_READY", "HOT_ERROR"} : calls' = calls \cup {Call(op, NoVM, x.hot_as, NoImage)}
      BY <2>1 DEF saveas_hot, Starts
    <3> DEFINE d == Call(op, NoVM, x.hot_as, NoImage)
    <3>2. d.op = op /\ d.image = x.hot_as
      BY DEF Call
    <3>3. calls' = calls \cup {d}
      BY <3>1
    <3> HIDE DEF d
    <3>4. \A i \in Image : x.hot_as = i => Made(i)'
      BY <3>2, <3>3 DEF Made, Makes, MakeOps
    <3>5. QED BY <3>2, <3>3, <3>4
  <2>2. CASE ~(x.state = "SAVEAS" /\ x.hot_as # NoImage)
    <3>1. x.hot_as = NoImage
      BY <1>1, <2>2 DEF SaveFits
    <3>2. calls' = calls
      BY <2>2 DEF saveas_hot
    <3>3. QED BY <3>1, <3>2, NullAssumption
  <2>3. QED BY <2>1, <2>2
<1>4. ~Under(v)'
  <2>1. \A d \in calls' : ~Saving(d, v)
    BY <1>1, <1>3 DEF SaveFits, OneSave, Saving, SaveCalls
  <2>2. QED BY <1>1, <2>1 DEF SaveFits, OneSave, Under, Formats
<1>5. Marks(r)
  BY <1>1, <1>2, ClearedMarks DEF SaveFits
<1>6. /\ \A i \in Image : image'[i].saver = image[i].saver /\ (Unready(i)' => Unready(i))
      /\ \A d \in calls' : d \in calls \/ d.op \notin SaveCalls
  BY <1>1, <1>3 DEF Unready, SaveCalls
<1>7. QED BY <1>1, <1>2, <1>3, <1>4, <1>5, <1>6, VmStepAwaited

LEMMA MkfsSavedAwaited ==
  ASSUME IInv, SInv, NEW c \in calls, mkfs_saved(c)
  PROVE  SInv'
<1>0. c.op = "SAVED" /\ c.op \in MakeOps /\ c.vm \in VM /\ c.image \in Image /\ UNCHANGED <<image, driver>>
      /\ c \in CallRecord
  BY CallParts DEF mkfs_saved, MakeOps, IInv, TypeOK
<1>1. PICK v \in VM, i \in Image : v = c.vm /\ i = c.image
  BY <1>0
<1> DEFINE x == vm[v]
<1>2. x \in VmRecord /\ SaveFits(v) /\ Saving(c, v) /\ Under(v)
  BY <1>0, <1>1 DEF IInv, TypeOK, SInv, Saving, SaveCalls, Under
<1>3. /\ \A d \in calls : Saving(d, v) => d = c
      /\ \A k \in Image : ~Formats(k, v)' /\ ~Formats(k, v)
      /\ v \notin copies /\ x.hot_as = NoImage
  BY <1>0, <1>2 DEF SaveFits, OneSave, Formats
<1>4. \A k \in Image : image'[k].saver = image[k].saver /\ (Unready(k)' => Unready(k))
  BY <1>0 DEF Unready
<1>5. ASSUME NEW r \in VmRecord, vm' = [vm EXCEPT ![v] = r], calls' = calls \ {c}, Marks(r),
             \A s \in Slots : x.save_as[s] # NoImage => r.save_as[s] = x.save_as[s],
             \/ r.hot_as = i /\ r.state = "SAVEAS" /\ copies' = copies \cup {v}
             \/ r.hot_as = NoImage /\ (\E s \in Slots : r.save_as[s] = i) /\ UNCHANGED copies
      PROVE  SInv'
  <2>1. vm'[v] = r /\ \A w \in VM \ {v} : vm'[w] = vm[w]
    BY <1>5, VmSet
  <2>2. OneSave(v)' /\ (Under(v)' => v \in copies')
    BY <1>3, <1>5 DEF OneSave, Under
  <2>3. SaveFits(v)'
    BY <1>3, <1>5, <2>1, <2>2 DEF SaveFits, SaveStates
  <2>4. Made(i)'
    <3>1. \E s \in Saves : Saved(v, s)' = i
      <4>1. CASE r.hot_as = i
        <5>1. 0 \in Saves
          BY MaxDisksAssumption DEF Saves
        <5>2. QED BY <2>1, <4>1, <5>1 DEF Saved
      <4>2. ASSUME NEW s \in Slots, r.save_as[s] = i PROVE \E t \in Saves : Saved(v, t)' = i
        <5>1. s \in Saves /\ s # 0
          BY MaxDisksAssumption DEF Saves, Slots
        <5>2. QED BY <2>1, <4>2, <5>1 DEF Saved
      <4>3. QED BY <1>5, <4>1, <4>2
    <3>2. QED BY <3>1 DEF Made
  <2>5. \A k \in Image \ {i} : (Unready(k)' => Unready(k)) /\ MakersLeft(k)
    <3> TAKE k \in Image \ {i}
    <3>1. \A w \in VM, s \in Saves : Saved(w, s) = k => Saved(w, s)' = k
      <4> TAKE w \in VM, s \in Saves
      <4>1. s = 0 \/ s \in Slots
        BY MaxDisksAssumption DEF Saves, Slots
      <4>2. QED BY <1>3, <1>5, <2>1, <4>1, NullAssumption DEF Saved
    <3>2. QED BY <1>0, <1>1, <1>4, <1>5, <3>1 DEF MakersLeft, Makes
  <2>6. AllAwaited'
    BY <2>4, <2>5, AwaitedStep DEF SInv
  <2>7. \A d \in calls' : d.op = "REGISTER" => image'[d.image].saver = d.vm
    BY <1>0, <1>5 DEF SInv
  <2>8. QED BY <1>0, <1>5, <2>1, <2>3, <2>6, <2>7, SavesStep
<1>6. CASE x.state = "SAVEAS" /\ SetVM(v, save_disk_hot(x, i)) /\ copies' = copies \cup {v} /\ Goes(c)
  <2> DEFINE r == save_disk_hot(x, i)
  <2>1. r \in VmRecord /\ r.disk = x.disk /\ r.attach = x.attach /\ r.hot_as = i /\ r.save_as = x.save_as
        /\ r.state = x.state /\ r.saving = x.saving
    BY <1>2 DEF save_disk_hot, VmRecord
  <2>2. vm' = [vm EXCEPT ![v] = r] /\ calls' = calls \ {c}
    BY <1>6 DEF SetVM, Goes
  <2> HIDE DEF r
  <2>3. Marks(r)
    BY <1>2, <2>1 DEF SaveFits, Marks, Ends
  <2>4. QED BY <1>5, <1>6, <2>1, <2>2, <2>3
<1>7. CASE x.state = "SAVEAS" /\ SetVM(v, ClearSaveas(save_disk(x, i))) /\ UNCHANGED copies /\ Goes(c)
  <2> DEFINE u == save_disk(x, i)
             r == ClearSaveas(u)
  <2>1. u \in VmRecord /\ u.disk = x.disk /\ u.attach = x.attach /\ u.state = x.state
        /\ \A s \in Slots : u.save_as[s] = IF s = x.saving THEN i ELSE x.save_as[s]
    BY <1>2 DEF save_disk, VmRecord
  <2> HIDE DEF u
  <2>2. r \in VmRecord /\ r.disk = x.disk /\ r.attach = x.attach /\ r.hot_as = NoImage
        /\ r.save_as = u.save_as /\ r.state = "RUNNING"
    BY <1>7, <2>1, SavesCancelled
  <2>3. vm' = [vm EXCEPT ![v] = r] /\ calls' = calls \ {c}
    BY <1>7 DEF SetVM, Goes, u
  <2> HIDE DEF r
  <2>4. x.saving \in Slots /\ x.save_as[x.saving] = NoImage /\ x.disk[x.saving] # NoImage
    BY <1>2, <1>7 DEF SaveFits, Marks
  <2>5. x.attach = 0
    BY <1>7 DEF IInv, HoldingFits, AttachAlone
  <2>6. Marks(r)
    BY <1>2, <1>7, <2>1, <2>2, <2>4, <2>5 DEF SaveFits, Marks, Ends
  <2>7. /\ \A s \in Slots : x.save_as[s] # NoImage => r.save_as[s] = x.save_as[s]
        /\ \E s \in Slots : r.save_as[s] = i
    BY <2>1, <2>2, <2>4
  <2>8. QED BY <1>5, <1>7, <2>2, <2>3, <2>6, <2>7
<1>8. CASE Becomes(c, [c EXCEPT !.op = "SAVE_FAILED"]) /\ UNCHANGED <<vm, copies>>
  <2> DEFINE d == [c EXCEPT !.op = "SAVE_FAILED"]
  <2>1. d.op = "SAVE_FAILED" /\ d.vm = v /\ d.image = i
    BY <1>0, <1>1 DEF CallRecord, Calls
  <2>2. calls' = (calls \ {c}) \cup {d}
    BY <1>8 DEF Becomes
  <2> HIDE DEF d
  <2>3. OneSave(v)'
    BY <1>3, <1>8, <2>2 DEF OneSave
  <2>4. Made(i)'
    BY <2>1, <2>2 DEF Made, Makes, MakeOps
  <2>5. \A k \in Image \ {i} : (Unready(k)' => Unready(k)) /\ MakersLeft(k)
    BY <1>0, <1>1, <1>4, <1>8, <2>2 DEF MakersLeft, Makes, Saved
  <2>6. AllAwaited'
    BY <2>4, <2>5, AwaitedStep DEF SInv
  <2>7. \A e \in calls' : e.op = "REGISTER" => image'[e.image].saver = e.vm
    BY <1>0, <2>1, <2>2 DEF SInv
  <2>8. QED BY <1>0, <1>2, <1>8, <2>1, <2>2, <2>3, <2>6, <2>7, SaveMoves
<1>9. QED BY <1>1, <1>6, <1>7, <1>8 DEF mkfs_saved

-----------------------------------------------------------------------------
(* An image that is LOCKED is awaited by whoever makes it: by the call, by *)
(* the driver, or by the VM that copies to it or will.                     *)
LEMMA AwaitedIsLocked == IInv /\ SInv => LockedIsAwaited
<1> SUFFICES ASSUME IInv, SInv, NEW i \in Image
    PROVE  /\ image[i].state = "LOCKED" =>
                \/ \E c \in calls : c.image = i /\ c.op # "UNCLONE"
                \/ \E op \in {"CP", "MKFS", "CLONE"} : <<op, i>> \in driver
                \/ \E v \in VM : \/ vm[v].hot_as = i /\ v \in copies
                                 \/ vm[v].state # "DONE" /\ \E s \in Slots : vm[v].save_as[s] = i
           /\ image[i].state = "DELETE" => <<"RM", i>> \in driver
  BY DEF LockedIsAwaited
<1>1. ASSUME NEW v \in VM, NEW s \in Saves, Saved(v, s) = i
      PROVE  /\ image[i].state = "LOCKED"
             /\ \/ vm[v].hot_as = i /\ v \in copies
                \/ vm[v].state # "DONE" /\ \E t \in Slots : vm[v].save_as[t] = i
  <2>1. image[i].state = "LOCKED"
    BY <1>1 DEF IInv, MakersFit, MadeIsLocked, MadeForVM
  <2>2. SaveFits(v)
    BY DEF SInv
  <2>3. CASE s = 0
    BY <1>1, <2>1, <2>2, <2>3, NullAssumption DEF Saved, SaveFits
  <2>4. CASE s # 0
    <3>1. s \in Slots /\ vm[v].save_as[s] = i
      BY <1>1, <2>4, MaxDisksAssumption DEF Saved, Saves, Slots
    <3>2. vm[v].state # "DONE"
      BY <2>2, <3>1, NullAssumption DEF SaveFits, Marks
    <3>3. QED BY <2>1, <3>1, <3>2
  <2>5. QED BY <2>3, <2>4
<1>2. ASSUME NEW c \in calls, Makes(c, i)
      PROVE  image[i].state = "LOCKED" /\ c.image = i /\ c.op # "UNCLONE"
  BY <1>2, MadeByCall DEF Makes, MakeOps
<1>3. ASSUME NEW p \in MakeCmds, <<p, i>> \in driver
      PROVE  /\ image[i].state = "LOCKED" => p \in {"CP", "MKFS", "CLONE"}
             /\ image[i].state = "DELETE" => p = "RM"
  BY <1>3, MadeByDriver DEF MakeCmds
<1>4. Unready(i) => Made(i)
  BY DEF SInv, AllAwaited
<1>5. QED BY <1>1, <1>2, <1>3, <1>4 DEF Unready, Made

(* Every call of another thread keeps the saves awaited.                   *)
LEMMA CallStepAwaited ==
  ASSUME IInv, SInv, NEW v \in VM \cup {NoVM}, CallStep(v)
  PROVE  SInv'
<1>1. PICK c \in calls :
        \/ register_image(c) \/ clone_count(c) \/ clone_start(c) \/ unclone(c)
        \/ set_up_attach_disk(c) \/ attach_back(c) \/ attach_refused(c) \/ attach_set(c)
        \/ release_image(c) \/ savedisk_allocate(c) \/ clear_saveas_state(c)
        \/ mkfs_saved(c) \/ save_failed(c) \/ saveas_hot_image(c)
  BY DEF CallStep
<1>2. CASE register_image(c)
  BY <1>2, RegisterAwaited
<1>3. CASE clone_count(c) \/ clone_start(c) \/ unclone(c)
  BY <1>3, CloneCallAwaited
<1>4. CASE set_up_attach_disk(c) \/ attach_back(c) \/ release_image(c) \/ saveas_hot_image(c)
  BY <1>4, UseCallAwaited
<1>5. CASE attach_refused(c) \/ attach_set(c)
  BY <1>5, AttachEndAwaited
<1>6. CASE savedisk_allocate(c)
  BY <1>6, SavediskAllocateAwaited
<1>7. CASE clear_saveas_state(c)
  BY <1>7, ClearSaveasAwaited
<1>8. CASE mkfs_saved(c)
  BY <1>8, MkfsSavedAwaited
<1>9. CASE save_failed(c)
  BY <1>9, SaveFailedAwaited
<1>10. QED BY <1>1, <1>2, <1>3, <1>4, <1>5, <1>6, <1>7, <1>8, <1>9

(* So does every step of a VM.                                             *)
LEMMA VmAwaited ==
  ASSUME Careful, "DETACH_SAVED" \notin Rash, IInv, SInv, NEW v \in VM,
         VmRequest(v) \/ PoolStep(v) \/ DriverAnswer(v)
  PROVE  SInv'
<1>1. CASE \/ vm_insert(v) \/ insert_end(v) \/ release_end(v) \/ vm_fail(v) \/ done_action(v)
           \/ finalize(v) \/ \E i \in Image : attach(v, i)
  BY <1>1, VmStatesAwaited
<1>2. CASE vm_end(v)
  BY <1>2, VmEndAwaited
<1>3. CASE attach_success(v) \/ attach_failure(v) \/ \E s \in Slots : detach(v, s)
  BY <1>3, HotplugAwaited
<1>4. ASSUME NEW s \in Slots, NEW hot \in BOOLEAN, savedisk(v, s, hot) PROVE SInv'
  BY <1>4, SavediskAwaited
<1>5. CASE saveas_hot(v)
  BY <1>5, SaveasHotAwaited
<1>6. ASSUME NEW i \in Image, insert_disk(v, i) PROVE SInv'
  BY <1>6, InsertDiskAwaited
<1>7. CASE release_disk(v)
  BY <1>7, ReleaseDiskAwaited
<1>8. QED BY <1>1, <1>2, <1>3, <1>4, <1>5, <1>6, <1>7 DEF VmRequest, PoolStep, DriverAnswer

(* Unless a disk that is to be saved may be detached, no image is left     *)
(* LOCKED or in DELETE for good: a call, a command of the datastore driver *)
(* or a disk of a VM is always still there to end that.                    *)
THEOREM LockedImagesAreAwaited ==
  ASSUME Careful, "DETACH_SAVED" \notin Rash
  PROVE  Spec => []LockedIsAwaited
<1>1. Init => SInv
  <2> SUFFICES ASSUME Init PROVE SInv
    OBVIOUS
  <2>1. calls = {} /\ driver = {} /\ copies = {} /\ \A v \in VM : vm[v] = NewVM
    BY DEF Init
  <2>2. \A i \in Image : image[i].state = "NONE"
    BY DEF Init, Dropped, NewImage
  <2>3. ASSUME NEW v \in VM PROVE SaveFits(v)
    <3>1. Marks(vm[v]) /\ vm[v].hot_as = NoImage
      BY <2>1 DEF NewVM, Marks, Ends
    <3>2. OneSave(v) /\ ~Under(v)
      BY <2>1 DEF OneSave, Under, Formats
    <3>3. QED BY <3>1, <3>2 DEF SaveFits
  <2>4. AllAwaited
    BY <2>2 DEF AllAwaited, Unready
  <2>5. QED BY <2>1, <2>3, <2>4 DEF SInv
<1>2. IInv /\ SInv /\ [Next]_vars => SInv'
  <2> SUFFICES ASSUME IInv, SInv, [Next]_vars PROVE SInv'
    OBVIOUS
  <2>1. CASE UNCHANGED vars
    BY <2>1 DEF vars, SInv, SaveFits, OneSave, Under, Saving, Formats, AllAwaited, Unready, Made,
                Makes, Saved
  <2>2. ASSUME NEW i \in Image, ImageRequest(i) \/ DatastoreAnswer(i) PROVE SInv'
    BY <2>2, ImageRequestAwaited, DatastoreAnswerAwaited
  <2>3. ASSUME NEW v \in VM, VmRequest(v) \/ PoolStep(v) \/ DriverAnswer(v) PROVE SInv'
    BY <2>3, VmAwaited
  <2>4. ASSUME NEW v \in VM \cup {NoVM}, CallStep(v) PROVE SInv'
    BY <2>4, CallStepAwaited
  <2>5. QED BY <2>1, <2>2, <2>3, <2>4 DEF Next
<1>3. IInv /\ [Next]_vars => IInv'
  BY NextKeeps
<1>4. QED BY <1>1, <1>2, <1>3, InitHolds, AwaitedIsLocked, PTL DEF Spec
=============================================================================
