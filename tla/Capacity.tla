------------------------------ MODULE Capacity ------------------------------
(***************************************************************************)
(* The capacity of hosts: what deploy, migrate and resize requests, the    *)
(* scheduler and the life cycle of VMs take of the shares and give back.   *)
(*                                                                         *)
(* Of the life cycle (VMLifecycle) only the steps that change a share, or  *)
(* what may be asked for, are told apart.  The cpu of a VM is in           *)
(* thousandths, a share is in hundredths.                                  *)
(***************************************************************************)
EXTENDS Hosts, Totals

CONSTANTS User,
          CPU,          \* what VMs may ask for
          MaxHost,      \* MAX_HOST of the scheduler: VMs sent to a host in a cycle
          Rash,         \* what users do although it goes wrong
          Bounds,       \* bounds: requests at a time, with the hosts whose state changes
          NoHost, NoVM

ASSUME CapacityAssumption ==
  /\ CPU \subseteq Nat /\ MaxHost \in Nat /\ NoHost \notin Host /\ NoVM \notin VM
  /\ IsFiniteSet(VM) /\ IsFiniteSet(User)
  /\ Bounds \subseteq [askers : Nat, watched : SUBSET Host]

(* The kinds of Rash: a VM is changed while a request about it waits, and  *)
(* it is resized by fractions of a percent.                                *)
RashKinds == {"CHANGED_MEANWHILE", "FRACTIONS"}

VARIABLES vm,        \* VM: state, cpu and the hosts of the last two records
          req,       \* the request of each user
          sched,     \* the scheduler: its own copies of VMs and hosts
          contended, \* (history) hosts that were promised to two at a time,
                     \* or without a check: see Promised
          bound      \* the bounds of this behaviour, which never change

vars == <<host_vars, vm, req, sched, contended, bound>>

VmState  == {"PENDING", "DEPLOYING",    \* ACTIVE, the LCM has yet to handle the DEPLOY
             "RUNNING", "MIGRATE",      \* the LCM has yet to handle the MIGRATE
             "MIGRATING", "POWEROFF", "FAILED", "DONE"}
Vms      == [state : VmState, cpu : CPU, host : Host \cup {NoHost}, from : Host \cup {NoHost}]
Stage    == {"IDLE",
             "CHECK",    \* deploy and migrate, to call check_host
             "MOVE",     \* to add the record
             "SHARE",    \* resize, to update the share
             "RESIZE"}   \* to change the VM
Idle     == [at |-> "IDLE", vm |-> NoVM, state |-> "DONE", cpu |-> 0, new |-> 0, host |-> NoHost]
Request  == [at : Stage, vm : VM \cup {NoVM}, state : VmState, cpu : CPU \cup {0}, new : CPU \cup {0},
             host : Host \cup {NoHost}]
Resting  == [at |-> "REST", vms |-> {}, cpu |-> [v \in VM |-> 0],
             free |-> [h \in Host |-> 0], sent |-> [h \in Host |-> 0]]

TypeOK ==
  /\ host \in [Host -> HostShare] /\ asked \in [Host -> 0..MaxAsked]
  /\ vm \in [VM -> Vms]
  /\ req \in [User -> Request]
  /\ sched \in [at : {"REST", "HOSTS", "DISPATCH"}, vms : SUBSET VM, cpu : [VM -> CPU \cup {0}],
                free : [Host -> Int], sent : [Host -> 0..MaxHost]]
  /\ contended \subseteq Host

(* Conversions to int cut the fraction off.                                *)
Cut(x, d)   == IF x >= 0 THEN x \div d ELSE -((-x) \div d)
Percent(c)  == Cut(c, 10)
Units(c)    == Cut(c, 1000)

Required(v) == Percent(vm[v].cpu)                  \* get_requirements
Added(v, h)   == host' = [host EXCEPT ![h] = add_capacity(@, v, Required(v))]
Deleted(v, h) == host' = [host EXCEPT ![h] = del_capacity(@, v, Required(v))]

AskedFor(v) == {u \in User : req[u].vm = v}
Free(v)     == AskedFor(v) # {} => "CHANGED_MEANWHILE" \in Rash

(* A host is promised from when it is found to have room until the LCM     *)
(* adds the VM to its share, which shows nothing of it in between: to a    *)
(* deploy or migrate request that was checked, to a VM that was placed,    *)
(* and to the scheduler, which goes by its copy of all hosts.  Nothing     *)
(* keeps a promised host from being promised again.                        *)
Waiting(h)  == \/ \E v \in VM : vm[v].state \in {"DEPLOYING", "MIGRATE"} /\ vm[v].host = h
               \/ \E u \in User : req[u].at = "MOVE" /\ req[u].host = h
Promised(h) == Waiting(h) \/ sched.at = "DISPATCH"
Contend(S)  == contended' = contended \cup S
If(P, h)    == IF P THEN {h} ELSE {}

Bare(x) == [x EXCEPT !.host = NoHost, !.from = NoHost]

-----------------------------------------------------------------------------
(* The life cycle *)

To(v, x) == vm' = [vm EXCEPT ![v] = x]

deploy_action(v) ==
  /\ vm[v].state = "DEPLOYING"
  /\ To(v, [vm[v] EXCEPT !.state = "RUNNING"])
  /\ Added(v, vm[v].host)
  /\ UNCHANGED <<asked, req, sched, contended>>

migrate_action(v) ==
  /\ vm[v].state = "MIGRATE"
  /\ To(v, [vm[v] EXCEPT !.state = "MIGRATING"])
  /\ Added(v, vm[v].host)
  /\ UNCHANGED <<asked, req, sched, contended>>

(* The VM leaves one of the hosts, by success or failure of the migration. *)
migrated(v) ==
  /\ vm[v].state = "MIGRATING"
  /\ \/ /\ Deleted(v, vm[v].from)
        /\ To(v, [vm[v] EXCEPT !.state = "RUNNING", !.from = NoHost])
     \/ /\ Deleted(v, vm[v].host)
        /\ To(v, [vm[v] EXCEPT !.state = "RUNNING", !.host = vm[v].from, !.from = NoHost])
  /\ UNCHANGED <<asked, req, sched, contended>>

poweroff(v) ==
  /\ vm[v].state = "RUNNING" /\ Free(v)
  /\ To(v, [vm[v] EXCEPT !.state = "POWEROFF"])
  /\ UNCHANGED <<host_vars, req, sched, contended>>
resume(v) ==
  /\ vm[v].state = "POWEROFF" /\ Free(v)
  /\ To(v, [vm[v] EXCEPT !.state = "RUNNING"])
  /\ UNCHANGED <<host_vars, req, sched, contended>>

(* A failure, a resubmit or a delete takes the VM off its host.            *)
leave(v) ==
  /\ vm[v].state \in {"RUNNING", "POWEROFF"} /\ Free(v)
  /\ \E s \in {"PENDING", "FAILED", "DONE"} :
       /\ s = "FAILED" => vm[v].state = "RUNNING"
       /\ To(v, Bare([vm[v] EXCEPT !.state = s]))
  /\ Deleted(v, vm[v].host)
  /\ UNCHANGED <<asked, req, sched, contended>>
leave_nothing(v) ==
  /\ vm[v].state \in {"PENDING", "FAILED"} /\ Free(v)
  /\ \E s \in {"PENDING", "DONE"} :
       /\ s = "PENDING" => vm[v].state = "FAILED"
       /\ To(v, [vm[v] EXCEPT !.state = s])
  /\ UNCHANGED <<host_vars, req, sched, contended>>

LifeCycle(v) ==
  \/ deploy_action(v) \/ migrate_action(v) \/ migrated(v)
  \/ poweroff(v) \/ resume(v) \/ leave(v) \/ leave_nothing(v)

-----------------------------------------------------------------------------
(* Deploy and migrate *)

Ask(u, x)   == req' = [req EXCEPT ![u] = x]
CanAsk(u)   == req[u] = Idle /\ Cardinality({w \in User : req[w] # Idle}) < bound.askers

ask_move(u) ==
  /\ CanAsk(u)
  /\ \E v \in VM, h \in Host :
       /\ vm[v].state = "PENDING" \/ (vm[v].state = "RUNNING" /\ vm[v].host # h)
       /\ Free(v)
       /\ \E enforce \in BOOLEAN :
            /\ Contend(If(~enforce, h))
            /\ Ask(u, [at |-> IF enforce THEN "CHECK" ELSE "MOVE", vm |-> v, state |-> vm[v].state,
                       cpu |-> vm[v].cpu, new |-> 0, host |-> h])
  /\ UNCHANGED <<host_vars, vm, sched>>

check_host(u) ==
  /\ req[u].at = "CHECK"
  /\ LET fits == test_capacity(host[req[u].host], Percent(req[u].cpu)) IN
     /\ Ask(u, IF fits THEN [req[u] EXCEPT !.at = "MOVE"] ELSE Idle)
     /\ Contend(If(fits /\ Promised(req[u].host), req[u].host))
  /\ UNCHANGED <<host_vars, vm, sched>>

(* The state is not looked at again before the record is added; the DM     *)
(* then does nothing in a wrong state.                                     *)
Placed(x, h) == IF x.state = "PENDING" THEN [x EXCEPT !.state = "DEPLOYING", !.host = h]
                ELSE [x EXCEPT !.state = "MIGRATE", !.host = h, !.from = x.host]
move(u) ==
  /\ req[u].at = "MOVE"
  /\ LET x == vm[req[u].vm] IN
     To(req[u].vm, IF x.state = req[u].state THEN Placed(x, req[u].host) ELSE [x EXCEPT !.host = req[u].host])
  /\ Ask(u, Idle)
  /\ UNCHANGED <<host_vars, sched, contended>>

-----------------------------------------------------------------------------
(* Resize.  Quotas, checked in between, are in Quotas. *)

CanResize == {"PENDING", "POWEROFF", "FAILED"}

ask_resize_forgets_host(u) ==   \* mutant
  /\ CanAsk(u)
  /\ \E v \in VM, new \in CPU :
       /\ vm[v].state \in CanResize /\ Free(v)
       /\ Ask(u, [at |-> "RESIZE", vm |-> v, state |-> vm[v].state, cpu |-> vm[v].cpu, new |-> new,
                  host |-> NoHost])
  /\ UNCHANGED <<host_vars, vm, sched, contended>>
(* What is not given (0) stays as it is.                                   *)
ask_resize(u) ==
  /\ CanAsk(u)
  /\ \E v \in VM, new \in CPU :
       /\ vm[v].state \in CanResize /\ Free(v)
       /\ Percent(new - vm[v].cpu) # Percent(new) - Percent(vm[v].cpu) => "FRACTIONS" \in Rash
       /\ Ask(u, [at |-> IF vm[v].state = "POWEROFF" THEN "SHARE" ELSE "RESIZE", vm |-> v,
                  state |-> vm[v].state, cpu |-> vm[v].cpu, new |-> new,
                  host |-> IF vm[v].state = "POWEROFF" THEN vm[v].host ELSE NoHost])
  /\ UNCHANGED <<host_vars, vm, sched, contended>>

Updated(h, cpu) == host' = [host EXCEPT ![h].usage = @ + cpu]
Delta(u)        == req[u].new - req[u].cpu
update_capacity(u) ==
  /\ req[u].at = "SHARE"
  /\ LET h    == req[u].host
         cpu  == Percent(Delta(u))
         fits == test_capacity(host[h], cpu) IN
     \E enforce \in BOOLEAN :
       \/ /\ fits \/ ~enforce
          /\ Updated(h, cpu)
          /\ Ask(u, [req[u] EXCEPT !.at = "RESIZE"])
          /\ Contend(If(~fits \/ (cpu > 0 /\ Promised(h)), h))
       \/ /\ enforce /\ ~fits
          /\ Ask(u, Idle) /\ UNCHANGED <<host, contended>>
  /\ UNCHANGED <<asked, vm, sched>>

(* The rollback is in units of cpu where the share is in percent.          *)
Rollback(u) == IF req[u].host = NoHost THEN UNCHANGED host ELSE Updated(req[u].host, Units(-Delta(u)))
resize(u) ==
  /\ req[u].at = "RESIZE"
  /\ IF vm[req[u].vm].state \in CanResize
     THEN vm' = [vm EXCEPT ![req[u].vm].cpu = req[u].new] /\ UNCHANGED host
     ELSE Rollback(u) /\ UNCHANGED vm
  /\ Ask(u, Idle)
  /\ UNCHANGED <<asked, sched, contended>>

Requests(u) ==
  ask_move(u) \/ check_host(u) \/ move(u) \/ ask_resize(u) \/ update_capacity(u) \/ resize(u)

-----------------------------------------------------------------------------
(* The scheduler *)

(* It reads the pending VMs, and then the hosts it can use.                *)
set_up_vms ==
  /\ sched.at = "REST"
  /\ LET pending == {v \in VM : vm[v].state = "PENDING"} IN
     /\ pending # {}
     /\ sched' = [sched EXCEPT !.at = "HOSTS", !.vms = pending,
                               !.cpu = [v \in VM |-> IF v \in pending THEN vm[v].cpu ELSE 0]]
  /\ UNCHANGED <<host_vars, vm, req, contended>>

Suitable(h) == host[h].state \in {"MONITORED", "MONITORING_MONITORED"}
set_up_hosts ==
  /\ sched.at = "HOSTS"
  /\ Contend({h \in Host : Waiting(h)})
  /\ sched' = [sched EXCEPT !.at = "DISPATCH",
                 !.free = [h \in Host |-> IF Suitable(h) THEN host[h].max - host[h].usage ELSE -1]]
  /\ UNCHANGED <<host_vars, vm, req>>

(* A VM that is sent is charged to the copy with what it needed when it    *)
(* was read; the core checks only that it is still pending.                *)
Hosts(v) == {h \in Host : sched.free[h] >= Percent(sched.cpu[v]) /\ sched.sent[h] < MaxHost}
Sent(v, h) ==
  IF vm[v].state = "PENDING"
  THEN Free(v) /\ To(v, Placed(vm[v], h)) /\ Contend(If(vm[v].cpu # sched.cpu[v], h))
  ELSE UNCHANGED <<vm, contended>>
dispatch_uncharged(v) ==   \* mutant
  /\ sched.at = "DISPATCH" /\ v \in sched.vms
  /\ \E h \in Hosts(v) :
       /\ sched' = [sched EXCEPT !.vms = @ \ {v}, !.cpu[v] = 0, !.sent[h] = @ + 1]
       /\ Sent(v, h)
  /\ UNCHANGED <<host_vars, req>>
dispatch(v) ==
  /\ sched.at = "DISPATCH" /\ v \in sched.vms
  /\ \E h \in Hosts(v) :
       /\ sched' = [sched EXCEPT !.vms = @ \ {v}, !.cpu[v] = 0, !.sent[h] = @ + 1,
                                 !.free[h] = @ - Percent(sched.cpu[v])]
       /\ Sent(v, h)
  /\ UNCHANGED <<host_vars, req>>

(* VMs without a host, and those over MAX_DISPATCH, wait for another cycle.*)
end_cycle ==
  /\ sched.at = "DISPATCH"
  /\ sched' = Resting
  /\ UNCHANGED <<host_vars, vm, req, contended>>

Cycle == set_up_vms \/ set_up_hosts \/ end_cycle \/ \E v \in VM : dispatch(v)

-----------------------------------------------------------------------------
Init ==
  /\ HostInit
  /\ vm \in [VM -> {Bare([state |-> "PENDING", cpu |-> c, host |-> NoHost, from |-> NoHost]) : c \in CPU}]
  /\ req = [u \in User |-> Idle]
  /\ sched = Resting
  /\ contended = {}
  /\ bound \in Bounds

HostStep(h) ==
  /\ h \in bound.watched
  /\ Monitoring(h) \/ enable(h) \/ disable(h)
  /\ UNCHANGED <<vm, req, sched, contended>>

Step ==
  \/ \E h \in Host : HostStep(h)
  \/ \E v \in VM : LifeCycle(v)
  \/ \E u \in User : Requests(u)
  \/ Cycle
Next == Step /\ UNCHANGED bound

Spec == Init /\ [][Next]_vars

-----------------------------------------------------------------------------
(* What fsck computes: a host counts the VMs that are on it, and for each  *)
(* what it needs; a resize that is under way has yet to change the VM.     *)
On(h) == {v \in VM :
            \/ vm[v].state \in {"RUNNING", "MIGRATING", "POWEROFF"} /\ vm[v].host = h
            \/ vm[v].state \in {"MIGRATE", "MIGRATING"} /\ vm[v].from = h}
Resizing(h) == {u \in User : req[u].at = "RESIZE" /\ req[u].host = h}
NeededOn(h)  == [v \in VM |-> IF v \in On(h) THEN Required(v) ELSE 0]
ChangedOn(h) == [u \in User |-> IF u \in Resizing(h) THEN Percent(Delta(u)) ELSE 0]
FsckHosts ==
  /\ TypeOK
  /\ \A h \in Host : /\ host[h].vms = On(h)
                     /\ host[h].usage = Total(NeededOn(h), VM) + Total(ChangedOn(h), User)

(* A host is overfilled only when it was promised to two at a time: two    *)
(* requests, a request and the scheduler, or either and a VM that was      *)
(* placed and is not in the share yet; or by what was not checked at all.  *)
WithinCapacity == \A h \in Host \ contended : host[h].usage <= TOTAL
=============================================================================
