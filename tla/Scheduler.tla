------------------------------ MODULE Scheduler ------------------------------
(***************************************************************************)
(* The scheduler, a process of its own that reads VMs and hosts through    *)
(* the XML-RPC interface, and in each cycle does the scheduled actions of  *)
(* VMs, matches VMs that wait with hosts, ranks these and sends VMs to     *)
(* them.  It goes by its copies: of VMs, with their templates, which it    *)
(* also writes back, and of hosts.                                         *)
(*                                                                         *)
(* What a VM needs is one unit of a host; May has the hosts that the owner *)
(* of a VM has rights to manage, Fulfil those that its SCHED_REQUIREMENTS  *)
(* hold of, RankOf the values of its SCHED_RANK.                           *)
(***************************************************************************)
EXTENDS Integers, FiniteSets, FiniteSetsExt

CONSTANTS Job,                  \* the VMs, by number
          Node, NoNode,         \* the hosts
          Room,                 \* what a host has room for
          May, Fulfil, RankOf,
          Planned,              \* the VMs that have a scheduled action
          MAX_VM, MAX_DISPATCH, MAX_HOST,
          MaxMoves,             \* bound: what users do
          Meddling              \* what happens although it goes wrong

ASSUME SchedulerAssumption ==
  /\ Job \subseteq Nat /\ IsFiniteSet(Job) /\ NoNode \notin Node
  /\ {May, Fulfil} \subseteq [Job -> SUBSET Node] /\ RankOf \in [Job -> [Node -> Int]]
  /\ {Room, MAX_VM, MAX_DISPATCH, MAX_HOST, MaxMoves} \subseteq Nat

(* The kinds of Meddling: a template is edited while the scheduler has a   *)
(* copy that it writes back, and a call to write it back fails.            *)
MeddlingKinds == {"EDITED_MEANWHILE", "UPDATE_LOST"}

VARIABLES job,      \* the VMs: state, host, flag, user template
          due,      \* the VMs for whose action the time has come
          cycle,    \* the scheduler
          done,     \* how often the action of a VM was done
          moves     \* bound: what users have done
sched_vars == <<job, due, cycle, done, moves>>

Reasons   == {"NONE", "NOT_AUTHORIZED", "NO_HOST_MEETS", "NO_CAPACITY"}
Template  == [edit : 0..MaxMoves,                      \* what the user wrote last
              action : {"NONE", "WAITS", "DONE"},      \* SCHED_ACTION, with its DONE
              message : Reasons]                       \* SCHED_MESSAGE
JobRecord == [state : {"PENDING", "HOLD", "RUNNING", "POWEROFF", "DONE"},
              host : Node \cup {NoNode}, resched : BOOLEAN, template : Template]
NewJob    == [state |-> "PENDING", host |-> NoNode, resched |-> FALSE,
              template |-> [edit |-> 0, action |-> "NONE", message |-> "NONE"]]
Rest      == [at |-> "REST", vms |-> {}, todo |-> {}, copy |-> [v \in Job |-> NewJob],
              hosts |-> [v \in Job |-> {}], free |-> [h \in Node |-> 0],
              sent |-> [h \in Node |-> 0], dispatched |-> 0]
SchedTypeOK ==
  /\ job \in [Job -> JobRecord] /\ due \subseteq Job
  /\ done \in [Job -> Nat] /\ moves \in 0..MaxMoves
  /\ cycle \in [at : {"REST", "ACTION", "UPDATE", "VMS", "HOSTS", "MATCH", "DISPATCH"},
                vms : SUBSET Job, todo : SUBSET Job, copy : [Job -> JobRecord], hosts : [Job -> SUBSET Node],
                free : [Node -> Int], sent : [Node -> Nat], dispatched : Nat]

Turn(v)    == cycle.todo # {} /\ v = Min(cycle.todo)      \* maps go by the number
First(n, S) == {v \in S : Cardinality({w \in S : w < v}) < n}
Read_untemplated(s, vms) ==   \* mutant
  cycle' = [Rest EXCEPT !.at = IF vms = {} THEN (IF s = "ACTION" THEN "VMS" ELSE "REST") ELSE s,
                        !.vms = vms, !.todo = vms,
                        !.copy = [v \in Job |-> IF v \in vms THEN [job[v] EXCEPT !.template.edit = 0] ELSE NewJob]]
Copy(v) == job[v]
Read(s, vms) ==
  cycle' = [Rest EXCEPT !.at = IF vms = {} THEN (IF s = "ACTION" THEN "VMS" ELSE "REST") ELSE s,
                        !.vms = vms, !.todo = vms, !.copy = [v \in Job |-> IF v \in vms THEN Copy(v) ELSE NewJob]]
Onward(c, v, here, after) ==
  IF c.todo # {v} THEN [c EXCEPT !.at = here, !.todo = @ \ {v}]
  ELSE IF after = "DISPATCH" THEN [c EXCEPT !.at = after, !.todo = c.vms]
  ELSE [Rest EXCEPT !.at = after]
Change(v, x) == job' = [job EXCEPT ![v] = x]

-----------------------------------------------------------------------------
(* Scheduled actions *)

HasAction(v) == job[v].state # "DONE" /\ job[v].template.action = "WAITS" /\ v \in due
actions_set_up ==
  /\ cycle.at = "REST"
  /\ Read("ACTION", First(MAX_VM, {v \in Job : HasAction(v)}))
  /\ UNCHANGED <<job, due, done, moves>>

scheduled_action_unnoted(v) ==   \* mutant
  /\ cycle.at = "ACTION" /\ Turn(v)
  /\ \/ /\ job[v].state = "RUNNING"
        /\ Change(v, [job[v] EXCEPT !.state = "POWEROFF", !.resched = FALSE])
        /\ done' = [done EXCEPT ![v] = @ + 1]
        /\ cycle' = [cycle EXCEPT !.at = "UPDATE"]
     \/ /\ job[v].state # "RUNNING"
        /\ cycle' = [cycle EXCEPT !.at = "UPDATE"]
        /\ UNCHANGED <<job, done>>
  /\ UNCHANGED <<due, moves>>
(* The action, a poweroff, is taken only of a running VM.  Its outcome is  *)
(* noted in the copy.                                                      *)
scheduled_action(v) ==
  /\ cycle.at = "ACTION" /\ Turn(v)
  /\ \/ /\ job[v].state = "RUNNING"
        /\ Change(v, [job[v] EXCEPT !.state = "POWEROFF", !.resched = FALSE])
        /\ done' = [done EXCEPT ![v] = @ + 1]
        /\ cycle' = [cycle EXCEPT !.at = "UPDATE", !.copy[v].template.action = "DONE"]
     \/ /\ job[v].state # "RUNNING"
        /\ cycle' = [cycle EXCEPT !.at = "UPDATE"]
        /\ UNCHANGED <<job, done>>
  /\ UNCHANGED <<due, moves>>

Written(v, template) ==
  \E lost \in {FALSE, "UPDATE_LOST" \in Meddling} :
    job' = IF lost THEN job ELSE [job EXCEPT ![v].template = template]

update_template(v) ==
  /\ cycle.at = "UPDATE" /\ Turn(v)
  /\ Written(v, cycle.copy[v].template)
  /\ cycle' = Onward(cycle, v, "ACTION", "VMS")
  /\ UNCHANGED <<due, done, moves>>

-----------------------------------------------------------------------------
(* VMs and hosts are read, and matched. *)

Waiting(v) == job[v].state = "PENDING" \/ (job[v].state = "RUNNING" /\ job[v].resched)
vms_set_up ==
  /\ cycle.at = "VMS"
  /\ Read("HOSTS", First(MAX_VM, {v \in Job : Waiting(v)}))
  /\ UNCHANGED <<job, due, done, moves>>

On_node(h) == {v \in Job : job[v].host = h}
hosts_set_up ==
  /\ cycle.at = "HOSTS"
  /\ cycle' = [cycle EXCEPT !.at = "MATCH", !.free = [h \in Node |-> Room - Cardinality(On_node(h))]]
  /\ UNCHANGED <<job, due, done, moves>>

Needs(h)    == cycle.free[h] >= 1                      \* test_capacity
Authorized(v) == May[v]
Matched(v)    == {h \in Authorized(v) : h \in Fulfil[v]}
Matching(v)   == {h \in Matched(v) : Needs(h)}
Reason(v)     == IF Authorized(v) = {} THEN "NOT_AUTHORIZED"
                 ELSE IF Matched(v) = {} THEN "NO_HOST_MEETS" ELSE "NO_CAPACITY"
add_host(v) == Matching(v) \ IF cycle.copy[v].resched THEN {cycle.copy[v].host} ELSE {}

(* A VM for which there is no host is told so, in the template.            *)
match(v) ==
  /\ cycle.at = "MATCH" /\ Turn(v)
  /\ IF Matching(v) = {}
     THEN Written(v, [cycle.copy[v].template EXCEPT !.message = Reason(v)])
     ELSE UNCHANGED job
  /\ cycle' = Onward([cycle EXCEPT !.hosts[v] = add_host(v)], v, "MATCH", "DISPATCH")
  /\ UNCHANGED <<due, done, moves>>

-----------------------------------------------------------------------------
(* VMs are sent to the best of their hosts. *)

Left(v) == {h \in cycle.hosts[v] : Needs(h) /\ cycle.sent[h] < MAX_HOST}
Rank(v, h) == RankOf[v][h]
Best(v) == {h \in Left(v) : \A k \in Left(v) : Rank(v, k) <= Rank(v, h)}
Limited == MAX_DISPATCH > 0 /\ cycle.dispatched >= MAX_DISPATCH

(* The core takes a deploy of a VM that is pending, and a migrate of one   *)
(* that runs, wherever that now is; it clears the flag.                    *)
Accepted(v, h) ==
  IF cycle.copy[v].resched THEN job[v].state = "RUNNING" /\ job[v].host # h
  ELSE job[v].state = "PENDING"

dispatch_to(v, h) ==
  /\ cycle' = Onward([cycle EXCEPT !.free[h] = @ - 1, !.sent[h] = @ + 1,
                         !.dispatched = IF Accepted(v, h) /\ ~cycle.copy[v].resched THEN @ + 1 ELSE @],
                     v, "DISPATCH", "REST")
  /\ IF Accepted(v, h)
     THEN Change(v, [job[v] EXCEPT !.state = "RUNNING", !.host = h, !.resched = FALSE])
     ELSE UNCHANGED job

dispatch(v) ==
  /\ cycle.at = "DISPATCH" /\ Turn(v) /\ ~Limited
  /\ \/ \E h \in Best(v) : dispatch_to(v, h)
     \/ Left(v) = {} /\ cycle' = Onward(cycle, v, "DISPATCH", "REST") /\ UNCHANGED job
  /\ UNCHANGED <<due, done, moves>>

end_dispatch ==
  /\ cycle.at = "DISPATCH" /\ Limited
  /\ cycle' = Rest
  /\ UNCHANGED <<job, due, done, moves>>
-----------------------------------------------------------------------------
(* Users and time *)

InCycle(v) == v \in cycle.vms
UserDoes(v, x) ==
  /\ moves < MaxMoves /\ moves' = moves + 1
  /\ Change(v, x)
  /\ UNCHANGED <<due, cycle, done>>

edit(v) ==
  /\ InCycle(v) => "EDITED_MEANWHILE" \in Meddling
  /\ UserDoes(v, [job[v] EXCEPT !.template.edit = @ + 1])
hold(v)     == job[v].state = "PENDING" /\ UserDoes(v, [job[v] EXCEPT !.state = "HOLD"])
release(v)  == job[v].state = "HOLD" /\ UserDoes(v, [job[v] EXCEPT !.state = "PENDING"])
poweroff(v) == job[v].state = "RUNNING"
               /\ UserDoes(v, [job[v] EXCEPT !.state = "POWEROFF", !.resched = FALSE])
resume(v)   == job[v].state = "POWEROFF" /\ UserDoes(v, [job[v] EXCEPT !.state = "RUNNING"])
resched(v)  == job[v].state = "RUNNING" /\ UserDoes(v, [job[v] EXCEPT !.resched = ~@])
finish(v)   == job[v].state \in {"RUNNING", "POWEROFF"}
               /\ UserDoes(v, [job[v] EXCEPT !.state = "DONE", !.host = NoNode, !.resched = FALSE])
action_time(v) == v \in Planned \ due /\ due' = due \cup {v} /\ UNCHANGED <<job, cycle, done, moves>>

UserMoves(v) ==
  \/ edit(v) \/ hold(v) \/ release(v) \/ poweroff(v) \/ resume(v) \/ resched(v) \/ finish(v)
  \/ action_time(v)

Cycle(v)  == scheduled_action(v) \/ update_template(v) \/ match(v) \/ dispatch(v)
Sets_up   == actions_set_up \/ vms_set_up \/ hosts_set_up \/ end_dispatch
SchedStep == Sets_up \/ \E v \in Job : Cycle(v)

SchedBegin(state) ==
  /\ job = [v \in Job |-> [NewJob EXCEPT !.state = state,
                           !.template.action = IF v \in Planned THEN "WAITS" ELSE "NONE"]]
  /\ due = {} /\ cycle = Rest
  /\ done = [v \in Job |-> 0] /\ moves = 0
SchedInit == SchedBegin("PENDING")
SchedNext == SchedStep \/ \E v \in Job : UserMoves(v)
SchedSpec == SchedInit /\ [][SchedNext]_sched_vars /\ WF_sched_vars(SchedStep)

-----------------------------------------------------------------------------
(* What the scheduler does by copies that are no longer true does no harm: *)
(* a scheduled action is done once, and no host gets more VMs than it has  *)
(* room for.                                                               *)
CopiesHarmless ==
  /\ SchedTypeOK
  /\ \A v \in Job : done[v] <= 1
  /\ \A h \in Node : Cardinality(On_node(h)) <= Room

(* No edit of a template is undone by the scheduler.                       *)
EditsKept == [][\A v \in Job : job'[v].template.edit >= job[v].template.edit]_sched_vars

(* Whoever can be served is, in a later cycle: a VM that waits and whom a  *)
(* host would take, and an action whose time has come.                     *)
Takes(v) == {h \in Matched(v) \ {job[v].host} : Cardinality(On_node(h)) < Room}
Served(v)   == ~(Waiting(v) /\ Takes(v) # {})
Acted_on(v) == ~(HasAction(v) /\ job[v].state = "RUNNING")
VmsServed   == (\A v \in Job : []<>Served(v)) /\ (\A v \in Planned : []<>Acted_on(v))
=============================================================================
