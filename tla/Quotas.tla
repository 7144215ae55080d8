-------------------------------- MODULE Quotas --------------------------------
(***************************************************************************)
(* What users and groups are charged for their virtual machines.           *)
(*                                                                         *)
(* Every user and group has a ledger of its own, changed under its own     *)
(* lock, and no request holds two locks at a time: it charges the user,    *)
(* then the group, then goes to the VM, and gives back what it has charged *)
(* when a later part refuses.  A call is such a request between two locks. *)
(*                                                                         *)
(* Metrics are the number of VMs, their CPU (memory is charged the same    *)
(* way; in hundredths, as they are written) and the leases of one virtual  *)
(* network (RVMS of an image is charged the same way).  Administrators set *)
(* limits meanwhile.  Of a VM the module keeps the owner, what it uses,    *)
(* and as much of its state as the requests look at.                       *)
(***************************************************************************)
EXTENDS Totals

CONSTANTS User, Group, VM,
          GroupOf,    \* the group of each user
          FirstLimits, \* the limits of accounts, and the default ones, at the start
          Askers,     \* the owners, if any, of who asks for a resize
          Settings,   \* what administrators set: limits of a family of metrics
          Cpus,       \* bound: the CPU a VM may ask for
          MaxNics,    \* bound: NICs of a VM
          MaxCalls,   \* bound: requests under way
          MaxSlips,   \* bound: resizes rolled back; after the last of them
                      \* nothing is asked for any more
          Rash,       \* what users do although it goes wrong, see below
          NoAccount, NoVM

(* The kinds of Rash: two requests about a VM of which one changes its     *)
(* owner or size; a deletion between the halves of an attach; a new owner  *)
(* for a VM that is DONE; a NIC attached by someone who does not own the   *)
(* VM.                                                                     *)
RashKinds == {"OVERLAP", "DELETE_ATTACHING", "CHOWN_DONE", "ATTACH_FOREIGN"}

VARIABLES vm,      \* the VM pool
          usage,   \* the _USED counters of every account
          limits,  \* the limits of every account, and the default ones
          kept,    \* the quotas an account has an attribute for
          calls,   \* requests under way
          slips,   \* how many resizes were rolled back
          amiss    \* the accounts whose ledgers these leave wrong

vars == <<vm, usage, limits, kept, calls, slips, amiss>>
slip_vars  == <<slips, amiss>>
quota_vars == <<usage, limits, kept>>

Account  == User \cup Group
Default  == {"USERS", "GROUPS"}      \* the holders of the default limits
Metric   == {"VMS", "CPU", "LEASES"}
Family   == {"VM", "NETWORK"}        \* metrics in one attribute
MetricsOf(f) == IF f = "VM" THEN {"VMS", "CPU"} ELSE {"LEASES"}
FamilyOf(m)  == IF m = "LEASES" THEN "NETWORK" ELSE "VM"

(* A limit: of that many, of none, or the default one.                     *)
Unlimited   == 0
TheDefault  == -1
NoLimit     == -2                    \* negative, or no number

(* A setting is what a command gives: whose limits, and of which metrics.  *)
ASSUME QuotasAssumption ==
  /\ User \cap Group = {} /\ Account \cap Default = {} /\ NoAccount \notin Account
  /\ IsFiniteSet(VM) /\ NoVM \notin VM
  /\ GroupOf \in [User -> Group]
  /\ Askers \subseteq [uid : User \cup {NoAccount}, gid : Group \cup {NoAccount}]
  /\ Cpus \subseteq Nat /\ {MaxNics, MaxCalls, MaxSlips} \subseteq Nat
  /\ FirstLimits \in [Account \cup Default -> [Metric -> Int]]
  /\ \A s \in Settings : /\ s.to \in Account \cup Default /\ s.family \in Family
                          /\ s.limit \in [MetricsOf(s.family) -> Int]

VmState  == {"NONE", "POWEROFF", "RUNNING", "HOTPLUG", "DONE"}
Alive(v) == vm[v].state \in {"POWEROFF", "RUNNING", "HOTPLUG"}

(* What is asked for: a function on the metrics that are charged.          *)
Whole(cpu, nics) == [m \in Metric |-> IF m = "VMS" THEN 1 ELSE IF m = "CPU" THEN cpu ELSE nics]
Needs(v)         == Whole(vm[v].cpu, vm[v].nics)
Lease            == [m \in {"LEASES"} |-> 1]
CpuChange(d)     == [m \in {"CPU"} |-> d]
Of(need, m)      == IF m \in DOMAIN need THEN need[m] ELSE 0

-----------------------------------------------------------------------------
(* Ledgers *)

DefaultOf(a)  == IF a \in User THEN "USERS" ELSE "GROUPS"
LimitOf(a, m) == IF limits[a][m] = TheDefault THEN limits[DefaultOf(a)][m] ELSE limits[a][m]

FitsIn_used(a, m, n) == LimitOf(a, m) = Unlimited \/ usage[a][m] < LimitOf(a, m)   \* mutant
FitsIn(a, m, n)      == LimitOf(a, m) = Unlimited \/ usage[a][m] + n <= LimitOf(a, m)

(* Leases are checked once for each NIC, so not at all for none.           *)
Asked(need)    == {m \in DOMAIN need : m # "LEASES" \/ need[m] > 0}
Families(need) == {FamilyOf(m) : m \in Asked(need)}

check_quota(a, need) == \A m \in Asked(need) : FitsIn(a, m, need[m])
add_to_quota(a, need) ==
  /\ usage' = [usage EXCEPT ![a] = [m \in Metric |-> @[m] + Of(need, m)]]
  /\ kept' = [kept EXCEPT ![a] = @ \cup Families(need)]
  /\ UNCHANGED limits

(* cleanup_quota: an attribute that says nothing goes.  (The default ones, *)
(* which count nothing, go with their limits.)                             *)
SaysNothing(used, limit, f)  == \A m \in MetricsOf(f) : used[m] = 0 /\ limit[m] = TheDefault

(* del_quota: what has no attribute is not given back.                     *)
Left(a, need) ==
  [m \in Metric |-> IF FamilyOf(m) \in kept[a] THEN usage[a][m] - Of(need, m) ELSE usage[a][m]]
quota_del(a, need) ==
  /\ usage' = [usage EXCEPT ![a] = Left(a, need)]
  /\ kept' = [kept EXCEPT ![a] = @ \ {f \in Families(need) : SaysNothing(Left(a, need), limits[a], f)}]
  /\ UNCHANGED limits

(* QuotaNetwork::check charges the NICs one by one and stops at the first  *)
(* that does not fit; those before it stay charged.  When it is the VMs    *)
(* that do not fit, the NICs are given back.                               *)
Charged_before(a, n) == {k \in 0..n : FitsIn(a, "LEASES", k) /\ ~FitsIn(a, "LEASES", k + 1)}
leases_refused(a, need) ==
  LET n == Of(need, "LEASES") IN
  /\ "LEASES" \in Asked(need) /\ ~FitsIn(a, "LEASES", n)
  /\ usage' = IF Charged_before(a, n) = {} THEN usage
              ELSE [usage EXCEPT ![a]["LEASES"] = @ + (CHOOSE k \in Charged_before(a, n) : TRUE)]
  /\ kept' = [kept EXCEPT ![a] = @ \cup {"NETWORK"}]
vms_refused(a, need) ==
  /\ "LEASES" \in Asked(need) => FitsIn(a, "LEASES", need["LEASES"])
  /\ \E m \in Asked(need) \ {"LEASES"} : ~FitsIn(a, m, need[m])
  /\ kept' = [kept EXCEPT ![a] =
       (@ \cup {"VM"}) \ {f \in Families(need) \ {"VM"} : SaysNothing(usage[a], limits[a], f)}]
  /\ UNCHANGED usage
quota_refused(a, need) == (leases_refused(a, need) \/ vms_refused(a, need)) /\ UNCHANGED limits

-----------------------------------------------------------------------------
(* Quotas::set.  A limit is set in a new attribute only if all of them are *)
(* limits; in one that is there, up to the first that is not.              *)

Refused(to, n)   == n < (IF to \in Default THEN Unlimited ELSE TheDefault)
Metrics_before(m) == IF m = "CPU" THEN {"VMS"} ELSE {}
HasAttribute(s) == IF s.to \in Default THEN \E m \in MetricsOf(s.family) : limits[s.to][m] # Unlimited
                   ELSE s.family \in kept[s.to]

new_quota(s)     == IF \E m \in MetricsOf(s.family) : Refused(s.to, s.limit[m]) THEN {}
                    ELSE MetricsOf(s.family)
update_limits(s) == {m \in MetricsOf(s.family) :
                       \A k \in {m} \cup Metrics_before(m) : ~Refused(s.to, s.limit[k])}
Taken(s)         == IF HasAttribute(s) THEN update_limits(s) ELSE new_quota(s)

set_quota(s) ==
  /\ limits' = [limits EXCEPT ![s.to] = [m \in Metric |-> IF m \in Taken(s) THEN s.limit[m] ELSE @[m]]]
  /\ kept' = IF s.to \in Default \/ Taken(s) # MetricsOf(s.family) THEN kept
             ELSE [kept EXCEPT ![s.to] =
                     (@ \cup {s.family}) \ {f \in {s.family} : SaysNothing(usage[s.to], s.limit, f)}]
  /\ UNCHANGED <<vm, usage, calls, slip_vars>>

UserSetQuota(s)  == s.to \in User /\ set_quota(s)
GroupSetQuota(s) == s.to \in Group /\ set_quota(s)
QuotaUpdate(s)   == s.to \in Default /\ set_quota(s)

-----------------------------------------------------------------------------
(* Calls: uid and gid are the accounts of the present step; other those of *)
(* the other half of a chown, and who asks for a resize.                   *)

Owner(u, g) == [uid |-> u, gid |-> g]
Nobody      == Owner(NoAccount, NoAccount)
Call(op, job, v, owner, need, other, cpu) ==
  [op |-> op, job |-> job, vm |-> v, uid |-> owner.uid, gid |-> owner.gid,
   need |-> need, other |-> other, cpu |-> cpu, copy |-> 0]

(* calls is a bag: equal calls differ in copy.                             *)
With(cs, c)   == cs \cup {[c EXCEPT !.copy = CHOOSE i \in 1..MaxCalls : [c EXCEPT !.copy = i] \notin cs]}
Starts(c)     == slips < MaxSlips /\ Cardinality(calls) < MaxCalls /\ calls' = With(calls, c)
Goes(c)       == calls' = calls \ {c}
Becomes(c, d) == calls' = With(calls \ {c}, d)
Gives(c)      == Becomes(c, [c EXCEPT !.op = "GIVE_USER", !.job = "END"])

Under_way(v, jobs) == \E c \in calls : c.vm = v /\ c.job \in jobs
Undisturbed(v, jobs) == Under_way(v, jobs) => "OVERLAP" \in Rash

(* quota_authorization                                                     *)
user_quota_authorization(c) ==
  /\ c.op = "CHECK_USER"
  /\ \/ /\ c.uid # NoAccount /\ check_quota(c.uid, c.need)
        /\ add_to_quota(c.uid, c.need)
        /\ Becomes(c, [c EXCEPT !.op = "CHECK_GROUP"])
     \/ /\ c.uid # NoAccount /\ quota_refused(c.uid, c.need)
        /\ Goes(c)
     \/ /\ c.uid = NoAccount
        /\ Becomes(c, [c EXCEPT !.op = "CHECK_GROUP"])
        /\ UNCHANGED quota_vars
  /\ UNCHANGED <<vm, slip_vars>>

(* What the job goes on with once it is charged: a chown gives back what   *)
(* the old owner was charged.                                              *)
Charged  == [ALLOCATE |-> "INSERT", ATTACH |-> "HOTPLUG", RESIZE |-> "RESIZE"]
Authorized(c) ==
  IF c.job = "CHOWN"
  THEN [c EXCEPT !.op = "GIVE_USER", !.uid = c.other.uid, !.gid = c.other.gid,
                 !.other = Owner(c.uid, c.gid)]
  ELSE [c EXCEPT !.op = Charged[c.job]]

(* The roll-back of a resize goes to one owner, whoever has been charged,  *)
(* and takes a VM off VMS_USED as QuotaVirtualMachine::del does whatever   *)
(* the template it is given holds; what a smaller size was to free it      *)
(* charges, unchecked.                                                     *)
OneLess(need) == [m \in {"VMS", "CPU"} |-> IF m = "VMS" THEN 1 ELSE need["CPU"]]
rollback(c, owner, charged) ==
  /\ slips < MaxSlips /\ slips' = slips + 1
  /\ amiss' = (amiss \cup {owner.uid, owner.gid} \cup charged) \ {NoAccount}
  /\ Becomes(c, [c EXCEPT !.op = "GIVE_USER", !.job = "ROLLBACK", !.need = OneLess(@),
                          !.uid = owner.uid, !.gid = owner.gid, !.other = Nobody])

group_refuses(c) ==
  /\ c.gid # NoAccount /\ quota_refused(c.gid, c.need)
  /\ IF c.job = "RESIZE" THEN rollback(c, Owner(c.uid, NoAccount), {})
     ELSE /\ Becomes(c, [c EXCEPT !.op = "GIVE_USER", !.job = "END", !.gid = NoAccount])
          /\ UNCHANGED slip_vars

group_quota_authorization(c) ==
  /\ c.op = "CHECK_GROUP"
  /\ \/ /\ c.gid # NoAccount /\ check_quota(c.gid, c.need)
        /\ add_to_quota(c.gid, c.need)
        /\ Becomes(c, Authorized(c)) /\ UNCHANGED slip_vars
     \/ group_refuses(c)
     \/ /\ c.gid = NoAccount
        /\ Becomes(c, Authorized(c))
        /\ UNCHANGED <<quota_vars, slip_vars>>
  /\ UNCHANGED vm

(* quota_rollback, and Quotas::quota_del                                   *)
user_quota_del(c) ==
  /\ c.op = "GIVE_USER"
  /\ IF c.uid = NoAccount THEN UNCHANGED quota_vars ELSE quota_del(c.uid, c.need)
  /\ Becomes(c, [c EXCEPT !.op = "GIVE_GROUP"])
  /\ UNCHANGED <<vm, slip_vars>>

group_quota_del(c) ==
  /\ c.op = "GIVE_GROUP"
  /\ IF c.gid = NoAccount THEN UNCHANGED quota_vars ELSE quota_del(c.gid, c.need)
  /\ IF c.job = "CHOWN" THEN Becomes(c, [c EXCEPT !.op = "SET_OWNER"]) ELSE Goes(c)
  /\ UNCHANGED <<vm, slip_vars>>

-----------------------------------------------------------------------------
(* Requests *)

(* VirtualMachineAllocate, and VMTemplateInstantiate likewise: the quotas, *)
(* then the insertion, which fails when an image or a lease cannot be had. *)
vm_allocate(u) ==
  /\ \E cpu \in Cpus, nics \in 0..MaxNics :
       Starts(Call("CHECK_USER", "ALLOCATE", NoVM, Owner(u, GroupOf[u]),
                   Whole(cpu, nics), Nobody, cpu))
  /\ UNCHANGED <<vm, quota_vars, slip_vars>>

pool_allocate(c) ==
  /\ c.op = "INSERT"
  /\ \/ \E v \in VM :
          /\ vm[v].state = "NONE"
          /\ vm' = [vm EXCEPT ![v] = [state |-> "POWEROFF", uid |-> c.uid, gid |-> c.gid,
                                      cpu |-> c.cpu, nics |-> c.need["LEASES"], attach |-> FALSE]]
          /\ Goes(c)
     \/ Gives(c) /\ UNCHANGED vm
  /\ UNCHANGED <<quota_vars, slip_vars>>

vm_start(v) ==
  /\ vm[v].state = "POWEROFF"
  /\ vm' = [vm EXCEPT ![v].state = "RUNNING"]
  /\ UNCHANGED <<quota_vars, calls, slip_vars>>

vm_poweroff(v) ==
  /\ vm[v].state = "RUNNING"
  /\ vm' = [vm EXCEPT ![v].state = "POWEROFF"]
  /\ UNCHANGED <<quota_vars, calls, slip_vars>>

(* VirtualMachineResize, asked for by a user or by oneadmin, who has no    *)
(* quotas.  The change is computed from the VM of the moment and charged   *)
(* to its owner.  Then the host of the VM, which is left to Capacity, may  *)
(* refuse, the VM may be gone or started; otherwise it is set to the size  *)
(* that was asked for.                                                     *)
vm_resize(v, asker) ==
  /\ vm[v].state = "POWEROFF"
  /\ Undisturbed(v, {"RESIZE", "CHOWN"})
  /\ \E cpu \in Cpus :
       Starts(Call("CHECK_USER", "RESIZE", v, Owner(vm[v].uid, vm[v].gid),
                   CpuChange(cpu - vm[v].cpu), asker, cpu))
  /\ UNCHANGED <<vm, quota_vars, slip_vars>>

resize(c) ==
  /\ c.op = "RESIZE"
  /\ \/ /\ vm[c.vm].state = "POWEROFF"
        /\ vm' = [vm EXCEPT ![c.vm].cpu = c.cpu] /\ Goes(c)
        /\ UNCHANGED slip_vars
     \/ rollback(c, c.other, {c.uid, c.gid}) /\ UNCHANGED vm
  /\ UNCHANGED quota_vars

(* VirtualMachineAttachNic charges who asks; afterwards a NIC is given     *)
(* back to the owner of its VM.                                            *)
vm_attach_nic(u, v) ==
  /\ vm[v].state \notin {"NONE", "DONE"}
  /\ vm[v].nics + Cardinality({c \in calls : c.vm = v /\ c.job = "ATTACH"}) < MaxNics
  /\ Undisturbed(v, {"CHOWN"})
  /\ vm[v].uid # u \/ vm[v].gid # GroupOf[u] => "ATTACH_FOREIGN" \in Rash
  /\ Starts(Call("CHECK_USER", "ATTACH", v, Owner(u, GroupOf[u]), Lease, Nobody, 0))
  /\ UNCHANGED <<vm, quota_vars, slip_vars>>

attach_nic(c) ==
  /\ c.op = "HOTPLUG"
  /\ IF vm[c.vm].state = "RUNNING"
     THEN /\ vm' = [vm EXCEPT ![c.vm].state = "HOTPLUG"]
          /\ Becomes(c, [c EXCEPT !.op = "SET_NIC"])
     ELSE Gives(c) /\ UNCHANGED vm
  /\ UNCHANGED <<quota_vars, slip_vars>>

set_attach_nic_keeps(c) ==   \* mutant
  /\ c.op = "SET_NIC"
  /\ \/ vm' = [vm EXCEPT ![c.vm].nics = @ + 1, ![c.vm].attach = TRUE]
     \/ vm' = [vm EXCEPT ![c.vm].state = IF @ = "HOTPLUG" THEN "RUNNING" ELSE @]
  /\ Goes(c)
  /\ UNCHANGED <<quota_vars, slip_vars>>
set_attach_nic(c) ==
  /\ c.op = "SET_NIC"
  /\ \/ /\ vm' = [vm EXCEPT ![c.vm].nics = @ + 1, ![c.vm].attach = TRUE]
        /\ Goes(c)
     \/ /\ vm' = [vm EXCEPT ![c.vm].state = IF @ = "HOTPLUG" THEN "RUNNING" ELSE @]
        /\ Gives(c)
  /\ UNCHANGED <<quota_vars, slip_vars>>

detach_nic(v) ==
  /\ vm[v].state = "RUNNING" /\ vm[v].nics > 0
  /\ Undisturbed(v, {"CHOWN"})
  /\ vm' = [vm EXCEPT ![v].state = "HOTPLUG", ![v].attach = TRUE]
  /\ UNCHANGED <<quota_vars, calls, slip_vars>>

(* attach_nic_success_action, and attach_nic_failure_action, which gives   *)
(* the NIC back; the other way round for a detach.                         *)
nic_stays(v) ==
  /\ vm[v].state = "HOTPLUG" /\ vm[v].attach
  /\ vm' = [vm EXCEPT ![v].state = "RUNNING", ![v].attach = FALSE]
  /\ UNCHANGED <<quota_vars, calls, slip_vars>>

nic_goes(v) ==
  /\ vm[v].state = "HOTPLUG" /\ vm[v].attach
  /\ vm' = [vm EXCEPT ![v].state = "RUNNING", ![v].attach = FALSE, ![v].nics = @ - 1]
  /\ Starts(Call("GIVE_USER", "END", v, Owner(vm[v].uid, vm[v].gid), Lease, Nobody, 0))
  /\ UNCHANGED <<quota_vars, slip_vars>>

(* done_action and finalize: the VM is DONE, then its quota is given back. *)
Attaching(v) == \E c \in calls : c.op = "SET_NIC" /\ c.vm = v
vm_del(v) ==
  /\ Alive(v)
  /\ Undisturbed(v, {"CHOWN"})
  /\ Attaching(v) => "DELETE_ATTACHING" \in Rash
  /\ vm' = [vm EXCEPT ![v].state = "DONE", ![v].attach = FALSE]
  /\ Starts(Call("GIVE_USER", "END", v, Owner(vm[v].uid, vm[v].gid), Needs(v), Nobody, 0))
  /\ UNCHANGED <<quota_vars, slip_vars>>

(* Chown: get_and_quota charges the new owner and gives back to the old    *)
(* one what it has read from the VM, then takes the VM again.              *)
vm_chown(v, new) ==
  /\ vm[v].state # "NONE"
  /\ Undisturbed(v, {"CHOWN", "RESIZE", "ATTACH"})
  /\ vm[v].state = "HOTPLUG" => "OVERLAP" \in Rash
  /\ vm[v].state = "DONE" => "CHOWN_DONE" \in Rash
  /\ LET old == Owner(IF new.uid = NoAccount THEN NoAccount ELSE vm[v].uid,
                      IF new.gid = NoAccount THEN NoAccount ELSE vm[v].gid) IN
     Starts(Call("CHECK_USER", "CHOWN", v, new, Needs(v), old, 0))
  /\ UNCHANGED <<vm, quota_vars, slip_vars>>

set_owner(c) ==
  /\ c.op = "SET_OWNER"
  /\ vm' = [vm EXCEPT ![c.vm].uid = IF c.other.uid = NoAccount THEN @ ELSE c.other.uid,
                      ![c.vm].gid = IF c.other.gid = NoAccount THEN @ ELSE c.other.gid]
  /\ Goes(c)
  /\ UNCHANGED <<quota_vars, slip_vars>>

-----------------------------------------------------------------------------
Init ==
  /\ vm = [v \in VM |-> [state |-> "NONE", uid |-> NoAccount, gid |-> NoAccount,
                         cpu |-> 0, nics |-> 0, attach |-> FALSE]]
  /\ usage = [a \in Account |-> [m \in Metric |-> 0]]
  /\ limits = FirstLimits
  /\ kept = [a \in Account |-> {f \in Family : ~SaysNothing(usage[a], limits[a], f)}]
  /\ calls = {} /\ slips = 0 /\ amiss = {}

CallStep(c) ==
  \/ user_quota_authorization(c) \/ group_quota_authorization(c)
  \/ user_quota_del(c) \/ group_quota_del(c)
  \/ pool_allocate(c) \/ resize(c) \/ attach_nic(c) \/ set_attach_nic(c) \/ set_owner(c)

Owners == {Owner(u, g) : u \in User \cup {NoAccount}, g \in Group \cup {NoAccount}} \ {Nobody}

Next ==
  \/ \E u \in User : vm_allocate(u) \/ \E v \in VM : vm_attach_nic(u, v)
  \/ \E v \in VM : \/ vm_start(v) \/ vm_poweroff(v) \/ detach_nic(v)
                   \/ nic_stays(v) \/ nic_goes(v) \/ vm_del(v)
                   \/ \E asker \in Askers : vm_resize(v, asker)
                   \/ \E new \in Owners : vm_chown(v, new)
  \/ \E c \in calls : CallStep(c)
  \/ \E s \in Settings : UserSetQuota(s) \/ GroupSetQuota(s) \/ QuotaUpdate(s)

Spec == Init /\ [][Next]_vars

-----------------------------------------------------------------------------
CallRecord ==
  [op : {"CHECK_USER", "CHECK_GROUP", "GIVE_USER", "GIVE_GROUP", "INSERT", "RESIZE",
         "HOTPLUG", "SET_NIC", "SET_OWNER"},
   job : {"ALLOCATE", "RESIZE", "ATTACH", "CHOWN", "END", "ROLLBACK"}, vm : VM \cup {NoVM},
   uid : User \cup {NoAccount}, gid : Group \cup {NoAccount}, need : [Metric -> Int],
   other : [uid : User \cup {NoAccount}, gid : Group \cup {NoAccount}],
   cpu : Cpus \cup {0}, copy : 1..MaxCalls]
(* Types; a VM that exists has an owner and a group, and a call has a VM   *)
(* from its insertion on.                                                  *)
TypeOK ==
  /\ vm \in [VM -> [state : VmState, uid : User \cup {NoAccount}, gid : Group \cup {NoAccount},
                    cpu : Nat, nics : 0..MaxNics, attach : BOOLEAN]]
  /\ usage \in [Account -> [Metric -> Int]]
  /\ limits \in [Account \cup Default -> [Metric -> Int]]
  /\ kept \in [Account -> SUBSET Family]
  /\ slips \in 0..MaxSlips /\ amiss \subseteq Account
  /\ \A c \in calls :
       /\ [c EXCEPT !.need = [m \in Metric |-> Of(c.need, m)]] \in CallRecord
       /\ DOMAIN c.need \subseteq Metric
  /\ \A c \in calls : c.op \in {"RESIZE", "HOTPLUG", "SET_NIC", "SET_OWNER"} => c.vm \in VM
  /\ \A v \in VM : vm[v].state # "NONE" => vm[v].uid \in User /\ vm[v].gid \in Group

(* calculate_quotas of onedb fsck: what the VMs of an account that are not *)
(* DONE add up to.                                                         *)
Owns(a, v) == Alive(v) /\ a \in {vm[v].uid, vm[v].gid}
calculate_quotas(a, m) == Total([v \in VM |-> IF Owns(a, v) THEN Needs(v)[m] ELSE 0], VM)

(* A request under way has charged an account, and has not given it back,  *)
(* or the other way round: it has given back what the VM still needs.      *)
Holds(c, a) ==
  \/ c.op = "CHECK_GROUP" /\ a = c.uid
  \/ c.op \in {"INSERT", "RESIZE", "HOTPLUG", "SET_NIC"} /\ a \in {c.uid, c.gid}
  \/ c.op = "GIVE_USER" /\ c.job # "CHOWN" /\ a \in {c.uid, c.gid}
  \/ c.op = "GIVE_GROUP" /\ c.job # "CHOWN" /\ a = c.gid
  \/ c.op \in {"GIVE_USER", "GIVE_GROUP", "SET_OWNER"} /\ c.job = "CHOWN" /\ a \in {c.other.uid, c.other.gid}
GivenBack(c, a) ==
  /\ c.job = "CHOWN"
  /\ \/ c.op = "GIVE_GROUP" /\ a = c.uid
     \/ c.op = "SET_OWNER" /\ a \in {c.uid, c.gid}

Pays(a, v)    == Owns(a, v) /\ ~\E c \in calls : c.vm = v /\ GivenBack(c, a)
ForVMs(a, m)  == [v \in VM |-> IF Pays(a, v) THEN Needs(v)[m] ELSE 0]
ForCall(c, a, m) == IF Holds(c, a) THEN Of(c.need, m) ELSE 0
ForCalls(cs, a, m) == [c \in cs |-> ForCall(c, a, m)]

(* The ledgers are exact at every moment: an account is charged for the    *)
(* VMs it owns and for what its requests under way have charged; and an    *)
(* attribute that has gone said nothing.  Only the accounts that a resize  *)
(* charged, or its roll-back was given to, may have it otherwise.          *)
LedgersExact ==
  /\ TypeOK
  /\ \A a \in Account \ amiss, m \in Metric :
       /\ usage[a][m] = Total(ForVMs(a, m), VM) + Total(ForCalls(calls, a, m), calls)
       /\ FamilyOf(m) \notin kept[a] => usage[a][m] = 0 /\ limits[a][m] = TheDefault

(* No account is charged beyond its quota but by the roll-back of a resize *)
(* to less: however requests interleave and limits change, the check and   *)
(* the charge are one step of each ledger, and go by the limit of that     *)
(* moment.                                                                 *)
Charges(a, m)  == usage'[a][m] > usage[a][m]
Rolls_back(c)  == c.job = "ROLLBACK" /\ c \notin calls'
LimitKept == [][\A a \in Account, m \in Metric :
                  Charges(a, m) => \/ LimitOf(a, m) = Unlimited \/ usage'[a][m] <= LimitOf(a, m)
                                   \/ \E c \in calls : Rolls_back(c) /\ Of(c.need, m) < 0]_vars

(* When no request is under way, fsck finds the counters it calculates.    *)
FsckQuotas == calls = {} =>
  \A a \in Account \ amiss, m \in Metric : usage[a][m] = calculate_quotas(a, m)
=============================================================================
