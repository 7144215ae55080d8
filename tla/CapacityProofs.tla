---------------------------- MODULE CapacityProofs ----------------------------
(***************************************************************************)
(* FsckHosts and WithinCapacity, for any hosts, VMs, users, amounts of CPU *)
(* and kinds of interleaving, as long as VMs are not changed under a       *)
(* request nor resized by fractions (Rash = {}).                           *)
(*                                                                         *)
(* That a host has room is an invariant of what it has committed: what its *)
(* VMs use, what is still to be added for those that were placed, and what *)
(* a request has been told there is, or the scheduler goes by.  As long as *)
(* a host is not contended, one at a time holds a promise of it.           *)
(***************************************************************************)
EXTENDS Capacity, TotalsProofs

-----------------------------------------------------------------------------
(* VMs and requests by themselves                                          *)

IsOn(x, h)   == \/ x.state \in {"RUNNING", "MIGRATING", "POWEROFF"} /\ x.host = h
                \/ x.state \in {"MIGRATE", "MIGRATING"} /\ x.from = h
Need(x, h)   == IF IsOn(x, h) THEN Percent(x.cpu) ELSE 0
Waits(x)     == x.state \in {"DEPLOYING", "MIGRATE"}
Wait(x, h)   == IF Waits(x) /\ x.host = h THEN Percent(x.cpu) ELSE 0
Change(r, h) == IF r.at = "RESIZE" /\ r.host = h THEN Percent(r.new - r.cpu) ELSE 0

PlacedWell(x) ==
  /\ x.state \in {"PENDING", "FAILED", "DONE"} => x.host = NoHost /\ x.from = NoHost
  /\ x.state \in {"DEPLOYING", "RUNNING", "POWEROFF"} => x.host \in Host /\ x.from = NoHost
  /\ x.state \in {"MIGRATE", "MIGRATING"} => x.host \in Host /\ x.from \in Host /\ x.host # x.from

(* What a request has seen of its VM is so, and it can be done.            *)
Fits(r, x) ==
  /\ x.state = r.state /\ x.cpu = r.cpu
  /\ r.at \in {"CHECK", "MOVE"} => r.state \in {"PENDING", "RUNNING"} /\ r.host \in Host /\ x.host # r.host
  /\ r.at \in {"SHARE", "RESIZE"} =>
       /\ r.state \in CanResize /\ r.new \in CPU /\ r.host = x.host
       /\ Percent(r.new - r.cpu) = Percent(r.new) - Percent(r.cpu)
  /\ r.at = "SHARE" => r.host \in Host

NeedSum(f, h)   == Total([v \in VM |-> Need(f[v], h)], VM)
WaitSum(f, h)   == Total([v \in VM |-> Wait(f[v], h)], VM)
ChangeSum(q, h) == Total([u \in User |-> Change(q[u], h)], User)

-----------------------------------------------------------------------------
(* The inductive invariant                                                 *)

Placing == \A v \in VM : PlacedWell(vm[v])
Asking ==
  \A u \in User :
    IF req[u].at = "IDLE" THEN req[u] = Idle
    ELSE /\ req[u].vm \in VM /\ Fits(req[u], vm[req[u].vm])
         /\ \A w \in User \ {u} : req[w].vm # req[u].vm
(* Only one request, or the scheduler, was told that the host has room.    *)
Told(r, h) == r.at = "MOVE" /\ r.host = h
Alone ==
  \A h \in Host \ contended :
    /\ \A u, w \in User : Told(req[u], h) /\ Told(req[w], h) => u = w
    /\ sched.at = "DISPATCH" => \A u \in User : ~Told(req[u], h)
Committed(h) == host[h].usage + WaitSum(vm, h)
Room ==
  \A h \in Host \ contended :
    /\ Committed(h) <= TOTAL
    /\ sched.at = "DISPATCH" /\ sched.free[h] >= 0 => Committed(h) + sched.free[h] <= TOTAL
    /\ \A u \in User : Told(req[u], h) => Committed(h) + Percent(req[u].cpu) <= TOTAL
Shares == \A h \in Host : /\ host[h].vms = {v \in VM : IsOn(vm[v], h)}
                          /\ host[h].usage = NeedSum(vm, h) + ChangeSum(req, h)

CInv == TypeOK /\ Placing /\ Asking /\ Alone /\ Room /\ Shares

-----------------------------------------------------------------------------
(* Amounts                                                                 *)

LEMMA PercentIs ==
  /\ \A c \in Int : Percent(c) \in Int
  /\ \A c \in Nat : Percent(c) \in Nat
  BY DEF Percent, Cut

LEMMA CPUs == CPU \subseteq Nat /\ CPU \cup {0} \subseteq Nat
  BY CapacityAssumption

LEMMA VmIs ==
  ASSUME NEW x \in Vms, NEW h
  PROVE  /\ x.cpu \in CPU /\ x.cpu \in Nat /\ x.state \in VmState
         /\ x.host \in Host \cup {NoHost} /\ x.from \in Host \cup {NoHost}
         /\ Percent(x.cpu) \in Nat /\ Need(x, h) \in Nat /\ Wait(x, h) \in Nat
<1>1. /\ x.cpu \in CPU /\ x.cpu \in Nat /\ x.state \in VmState
      /\ x.host \in Host \cup {NoHost} /\ x.from \in Host \cup {NoHost}
  BY CPUs DEF Vms
<1>2. Percent(x.cpu) \in Nat
  BY <1>1, PercentIs
<1> QED BY <1>1, <1>2 DEF Need, Wait

LEMMA RequestIs ==
  ASSUME NEW r \in Request, NEW h
  PROVE  /\ r.cpu \in Nat /\ r.new \in Nat /\ Percent(r.cpu) \in Nat /\ Percent(r.new) \in Nat
         /\ Percent(r.new - r.cpu) \in Int /\ Change(r, h) \in Int
<1>1. r.cpu \in Nat /\ r.new \in Nat
  BY CPUs DEF Request
<1>2. r.new - r.cpu \in Int
  BY <1>1
<1>3. Percent(r.cpu) \in Nat /\ Percent(r.new) \in Nat /\ Percent(r.new - r.cpu) \in Int
  BY <1>1, <1>2, PercentIs
<1> QED BY <1>1, <1>3 DEF Change

LEMMA SumTypes ==
  ASSUME NEW f \in [VM -> Vms], NEW h
  PROVE  NeedSum(f, h) \in Nat /\ WaitSum(f, h) \in Nat /\ \A v \in VM : Wait(f[v], h) <= WaitSum(f, h)
<1> PICK n, w : n = [v \in VM |-> Need(f[v], h)] /\ w = [v \in VM |-> Wait(f[v], h)]
  OBVIOUS
<1>1. \A v \in VM : n[v] \in Nat /\ w[v] \in Nat /\ w[v] = Wait(f[v], h)
  BY VmIs
<1>2. Total(n, VM) \in Nat /\ Total(w, VM) \in Nat /\ \A v \in VM : w[v] <= Total(w, VM)
  BY <1>1, TotalBounds, CapacityAssumption
<1> QED BY <1>1, <1>2 DEF NeedSum, WaitSum

LEMMA ChangeSumType ==
  ASSUME NEW q \in [User -> Request], NEW h PROVE ChangeSum(q, h) \in Int
<1> PICK n : n = [u \in User |-> Change(q[u], h)]
  OBVIOUS
<1>1. \A u \in User : n[u] \in Int
  BY RequestIs
<1>2. Total(n, User) \in Int
  BY <1>1, TotalType, CapacityAssumption
<1> QED BY <1>2 DEF ChangeSum

(* One VM changes.                                                         *)
LEMMA VMSums ==
  ASSUME NEW f \in [VM -> Vms], NEW v \in VM, NEW y \in Vms, NEW h
  PROVE  /\ NeedSum([f EXCEPT ![v] = y], h) = NeedSum(f, h) + (Need(y, h) - Need(f[v], h))
         /\ WaitSum([f EXCEPT ![v] = y], h) = WaitSum(f, h) + (Wait(y, h) - Wait(f[v], h))
<1> PICK g : g = [f EXCEPT ![v] = y]
  OBVIOUS
<1>1. g \in [VM -> Vms] /\ g[v] = y /\ \A w \in VM \ {v} : g[w] = f[w]
  OBVIOUS
<1> PICK n, m : n = [w \in VM |-> Need(f[w], h)] /\ m = [w \in VM |-> Need(g[w], h)]
  OBVIOUS
<1>2. /\ \A w \in VM : n[w] \in Int /\ m[w] \in Int
      /\ \A w \in VM \ {v} : m[w] = n[w]
      /\ m[v] = Need(y, h) /\ n[v] = Need(f[v], h)
  BY <1>1, VmIs
<1>3. Total(m, VM) = Total(n, VM) + (m[v] - n[v])
  BY <1>2, TotalChanged, CapacityAssumption
<1> PICK i, j : i = [w \in VM |-> Wait(f[w], h)] /\ j = [w \in VM |-> Wait(g[w], h)]
  OBVIOUS
<1>4. /\ \A w \in VM : i[w] \in Int /\ j[w] \in Int
      /\ \A w \in VM \ {v} : j[w] = i[w]
      /\ j[v] = Wait(y, h) /\ i[v] = Wait(f[v], h)
  BY <1>1, VmIs
<1>5. Total(j, VM) = Total(i, VM) + (j[v] - i[v])
  BY <1>4, TotalChanged, CapacityAssumption
<1> QED BY <1>2, <1>3, <1>4, <1>5 DEF NeedSum, WaitSum

LEMMA ChangeSums ==
  ASSUME NEW q \in [User -> Request], NEW u \in User, NEW r \in Request, NEW h
  PROVE  ChangeSum([q EXCEPT ![u] = r], h) = ChangeSum(q, h) + (Change(r, h) - Change(q[u], h))
<1> PICK g : g = [q EXCEPT ![u] = r]
  OBVIOUS
<1>1. g \in [User -> Request] /\ g[u] = r /\ \A w \in User \ {u} : g[w] = q[w]
  OBVIOUS
<1> PICK n, m : n = [w \in User |-> Change(q[w], h)] /\ m = [w \in User |-> Change(g[w], h)]
  OBVIOUS
<1>2. /\ \A w \in User : n[w] \in Int /\ m[w] \in Int
      /\ \A w \in User \ {u} : m[w] = n[w]
      /\ m[u] = Change(r, h) /\ n[u] = Change(q[u], h)
  BY <1>1, RequestIs
<1>3. Total(m, User) = Total(n, User) + (m[u] - n[u])
  BY <1>2, TotalChanged, CapacityAssumption
<1> QED BY <1>2, <1>3 DEF ChangeSum

-----------------------------------------------------------------------------
(* A VM moves on                                                           *)

(* What must hold of a host after a VM changed from x to y.                *)
Counts(h, v, x, y) ==
  /\ host'[h].vms = IF IsOn(y, h) THEN host[h].vms \cup {v} ELSE host[h].vms \ {v}
  /\ host'[h].usage = host[h].usage + (Need(y, h) - Need(x, h))

LEMMA Sized ==
  ASSUME CInv, NEW h \in Host
  PROVE  /\ host[h].usage \in Int /\ NeedSum(vm, h) \in Int /\ WaitSum(vm, h) \in Nat /\ ChangeSum(req, h) \in Int
         /\ Committed(h) \in Int /\ (h \notin contended => host[h].usage <= TOTAL)
<1>1. host[h].usage \in Int /\ vm \in [VM -> Vms] /\ req \in [User -> Request] /\ TOTAL \in Nat
  BY HostAssumption DEF CInv, TypeOK, HostShare
<1>2. NeedSum(vm, h) \in Nat /\ WaitSum(vm, h) \in Nat /\ ChangeSum(req, h) \in Int
  BY <1>1, SumTypes, ChangeSumType
<1>3. h \notin contended => host[h].usage + WaitSum(vm, h) <= TOTAL
  BY DEF CInv, Room, Committed
<1> QED BY <1>1, <1>2, <1>3 DEF Committed

LEMMA AskingStays ==
  ASSUME Asking, req' = req,
         \A u \in User : req[u].at # "IDLE" => vm'[req[u].vm] = vm[req[u].vm]
  PROVE  Asking'
<1> SUFFICES ASSUME NEW u \in User, req[u].at # "IDLE"
             PROVE  /\ req[u].vm \in VM /\ Fits(req[u], vm'[req[u].vm])
                    /\ \A w \in User \ {u} : req[w].vm # req[u].vm
  BY DEF Asking, Fits, CanResize
<1> QED BY DEF Asking

(* A host that has not more committed than before, and was as good as      *)
(* promised to nobody else, has room.                                      *)
LEMMA RoomStays ==
  ASSUME CInv, UNCHANGED <<req, sched>>, contended \subseteq contended',
         \A h \in Host : host'[h].usage + WaitSum(vm', h) \in Int /\ host'[h].usage + WaitSum(vm', h) <= Committed(h)
  PROVE  Room'
<1> SUFFICES ASSUME NEW h \in Host \ contended
             PROVE  /\ host'[h].usage + WaitSum(vm', h) <= TOTAL
                    /\ sched.at = "DISPATCH" /\ sched.free[h] >= 0 =>
                         (host'[h].usage + WaitSum(vm', h)) + sched.free[h] <= TOTAL
                    /\ \A u \in User : Told(req[u], h) =>
                         (host'[h].usage + WaitSum(vm', h)) + Percent(req[u].cpu) <= TOTAL
  BY DEF Room, Committed, WaitSum, Told
<1> PICK n : n = host'[h].usage + WaitSum(vm', h)
  OBVIOUS
<1>1. n \in Int /\ n <= Committed(h) /\ Committed(h) \in Int /\ Committed(h) <= TOTAL /\ TOTAL \in Int
      /\ sched.free[h] \in Int
  BY Sized, HostAssumption DEF CInv, Room, TypeOK
<1>2. \A u \in User : Percent(req[u].cpu) \in Nat
  BY RequestIs DEF CInv, TypeOK
<1>3. /\ sched.at = "DISPATCH" /\ sched.free[h] >= 0 => Committed(h) + sched.free[h] <= TOTAL
      /\ \A u \in User : Told(req[u], h) => Committed(h) + Percent(req[u].cpu) <= TOTAL
  BY DEF CInv, Room
<1>4. n <= TOTAL /\ (sched.at = "DISPATCH" /\ sched.free[h] >= 0 => n + sched.free[h] <= TOTAL)
  BY <1>1, <1>3
<1>5. ASSUME NEW u \in User, Told(req[u], h) PROVE n + Percent(req[u].cpu) <= TOTAL
  BY <1>1, <1>2, <1>3, <1>5
<1> QED BY <1>4, <1>5

LEMMA VMStep ==
  ASSUME CInv, NEW v \in VM, NEW y \in Vms, vm' = [vm EXCEPT ![v] = y],
         UNCHANGED <<asked, req, sched, contended>>, y.cpu = vm[v].cpu, PlacedWell(y), Waits(y) => Waits(vm[v]),
         \A u \in User : req[u].vm # v, host' \in [Host -> HostShare],
         \A h \in Host : /\ Counts(h, v, vm[v], y)
                         /\ Need(y, h) + Wait(y, h) <= Need(vm[v], h) + Wait(vm[v], h)
  PROVE  CInv'
<1>1. vm \in [VM -> Vms] /\ req \in [User -> Request]
  BY DEF CInv, TypeOK
<1>2. vm' \in [VM -> Vms] /\ vm'[v] = y /\ \A w \in VM \ {v} : vm'[w] = vm[w]
  BY <1>1
<1>3. TypeOK'
  BY <1>2 DEF CInv, TypeOK
<1>4. Placing'
  BY <1>2 DEF CInv, Placing, PlacedWell
<1>5. Asking'
  <2>1. \A u \in User : req[u].at # "IDLE" => req[u].vm \in VM \ {v}
    BY DEF CInv, Asking
  <2> QED BY <1>2, <2>1, AskingStays DEF CInv
<1>6. Alone'
  BY DEF CInv, Alone, Told
<1>7. ASSUME NEW h \in Host 
      PROVE  /\ Committed(h)' <= Committed(h) /\ Committed(h)' \in Int
             /\ host'[h].vms = {w \in VM : IsOn(vm'[w], h)}
             /\ host'[h].usage = NeedSum(vm', h) + ChangeSum(req', h)
  <2>1. /\ NeedSum(vm', h) = NeedSum(vm, h) + (Need(y, h) - Need(vm[v], h))
        /\ WaitSum(vm', h) = WaitSum(vm, h) + (Wait(y, h) - Wait(vm[v], h))
    BY <1>1, VMSums
  <2>2. /\ Need(y, h) \in Nat /\ Wait(y, h) \in Nat /\ Need(vm[v], h) \in Nat /\ Wait(vm[v], h) \in Nat
    BY <1>1, VmIs
  <2>3. /\ host'[h].vms = IF IsOn(y, h) THEN host[h].vms \cup {v} ELSE host[h].vms \ {v}
        /\ host'[h].usage = host[h].usage + (Need(y, h) - Need(vm[v], h))
        /\ Need(y, h) + Wait(y, h) <= Need(vm[v], h) + Wait(vm[v], h)
    BY DEF Counts
  <2>4. host[h].vms = {w \in VM : IsOn(vm[w], h)} /\ host[h].usage = NeedSum(vm, h) + ChangeSum(req, h)
    BY DEF CInv, Shares
  <2>5. Committed(h)' = host'[h].usage + WaitSum(vm', h)
    BY DEF Committed, WaitSum
  <2>6. host'[h].vms = {w \in VM : IsOn(vm'[w], h)}
    BY <1>2, <2>3, <2>4
  <2>7. host'[h].usage = NeedSum(vm', h) + ChangeSum(req', h)
    BY <2>1, <2>2, <2>3, <2>4, Sized
  <2>8. Committed(h)' <= Committed(h) /\ Committed(h)' \in Int
    BY <2>1, <2>2, <2>3, <2>5, Sized DEF Committed
  <2> QED BY <2>6, <2>7, <2>8
<1>8. Shares'
  BY <1>7 DEF Shares, NeedSum, ChangeSum
<1>9. Room'
  <2>1. \A h \in Host : Committed(h)' = host'[h].usage + WaitSum(vm', h)
    BY DEF Committed, WaitSum
  <2> QED BY <1>7, <2>1, RoomStays
<1> QED BY <1>3, <1>4, <1>5, <1>6, <1>8, <1>9 DEF CInv

(* A VM is added to the share of a host that does not count it, and taken  *)
(* off one that does.                                                      *)
LEMMA AddedIs ==
  ASSUME CInv, NEW v \in VM, NEW k \in Host, Added(v, k), ~IsOn(vm[v], k)
  PROVE  /\ host' \in [Host -> HostShare]
         /\ \A h \in Host : h # k => host'[h] = host[h]
         /\ host'[k].vms = host[k].vms \cup {v} /\ host'[k].usage = host[k].usage + Percent(vm[v].cpu)
<1>1. host \in [Host -> HostShare] /\ v \notin host[k].vms /\ vm[v] \in Vms
  BY DEF CInv, TypeOK, Shares
<1>2. Percent(vm[v].cpu) \in Nat
  BY <1>1, VmIs
<1> PICK p \in Nat : p = Percent(vm[v].cpu)
  BY <1>2
<1> DEFINE x == [host[k] EXCEPT !.vms = @ \cup {v}, !.usage = @ + p]
<1>3. x \in HostShare /\ x.vms = host[k].vms \cup {v} /\ x.usage = host[k].usage + p
  <2>1. host[k] \in HostShare
    BY <1>1
  <2>2. host[k].usage \in Int /\ host[k].usage + p \in Int
    BY <2>1 DEF HostShare
  <2>3. host[k].vms \cup {v} \in SUBSET VM
    BY <2>1 DEF HostShare
  <2> QED BY <2>1, <2>2, <2>3 DEF HostShare
<1>4. host' = [host EXCEPT ![k] = x]
  BY <1>1 DEF Added, add_capacity, Required
<1> HIDE DEF x
<1> QED BY <1>1, <1>3, <1>4

LEMMA DeletedIs ==
  ASSUME CInv, NEW v \in VM, NEW k \in Host, Deleted(v, k), IsOn(vm[v], k)
  PROVE  /\ host' \in [Host -> HostShare]
         /\ \A h \in Host : h # k => host'[h] = host[h]
         /\ host'[k].vms = host[k].vms \ {v} /\ host'[k].usage = host[k].usage - Percent(vm[v].cpu)
<1>1. host \in [Host -> HostShare] /\ v \in host[k].vms /\ vm[v] \in Vms
  BY DEF CInv, TypeOK, Shares
<1>2. Percent(vm[v].cpu) \in Nat
  BY <1>1, VmIs
<1> PICK p \in Nat : p = Percent(vm[v].cpu)
  BY <1>2
<1> DEFINE x == [host[k] EXCEPT !.vms = @ \ {v}, !.usage = @ - p]
<1>3. x \in HostShare /\ x.vms = host[k].vms \ {v} /\ x.usage = host[k].usage - p
  <2>1. host[k] \in HostShare
    BY <1>1
  <2>2. host[k].usage \in Int /\ host[k].usage - p \in Int
    BY <2>1 DEF HostShare
  <2>3. host[k].vms \ {v} \in SUBSET VM
    BY <2>1 DEF HostShare
  <2> QED BY <2>1, <2>2, <2>3 DEF HostShare
<1>4. host' = [host EXCEPT ![k] = x]
  BY <1>1 DEF Deleted, del_capacity, Required
<1> HIDE DEF x
<1> QED BY <1>1, <1>3, <1>4

(* A VM that leaves all shares as they are.                                *)
LEMMA CountsSame ==
  ASSUME CInv, NEW v \in VM, NEW y \in Vms, UNCHANGED host, NEW h \in Host,
         Need(y, h) = Need(vm[v], h), IsOn(y, h) <=> IsOn(vm[v], h)
  PROVE  Counts(h, v, vm[v], y)
<1>1. host[h].usage \in Int /\ vm[v] \in Vms
  BY Sized DEF CInv, TypeOK
<1>2. host[h].vms = {w \in VM : IsOn(vm[w], h)} /\ Need(vm[v], h) \in Nat
  BY <1>1, VmIs DEF CInv, Shares
<1> QED BY <1>1, <1>2 DEF Counts

LEMMA NotAsked ==
  ASSUME CInv, NEW v \in VM,
         vm[v].state \notin {"PENDING", "RUNNING", "POWEROFF", "FAILED"} \/ (Rash = {} /\ Free(v))
  PROVE  \A u \in User : req[u].vm # v
<1> SUFFICES ASSUME NEW u \in User, req[u].vm = v PROVE FALSE
  OBVIOUS
<1>1. req[u].at # "IDLE"
  BY CapacityAssumption DEF CInv, Asking, Idle
<1>2. req[u].at \in {"CHECK", "MOVE", "SHARE", "RESIZE"}
  BY <1>1 DEF CInv, TypeOK, Request, Stage
<1>3. vm[v].state \in {"PENDING", "RUNNING", "POWEROFF", "FAILED"}
  BY <1>1, <1>2 DEF CInv, Asking, Fits, CanResize
<1> QED BY <1>3 DEF Free, AskedFor

LEMMA deploy_action_keeps ==
  ASSUME CInv, NEW v \in VM, deploy_action(v) \/ migrate_action(v) PROVE CInv'
<1> DEFINE x == vm[v]
           y == [x EXCEPT !.state = IF x.state = "DEPLOYING" THEN "RUNNING" ELSE "MIGRATING"]
<1>1. x \in Vms /\ PlacedWell(x) /\ x.state \in {"DEPLOYING", "MIGRATE"} /\ Added(v, x.host) 
      /\ vm' = [vm EXCEPT ![v] = y] /\ UNCHANGED <<asked, req, sched, contended>>
  BY DEF CInv, TypeOK, Placing, deploy_action, migrate_action, To
<1>2. /\ y \in Vms /\ y.cpu = x.cpu /\ y.host = x.host /\ y.from = x.from
      /\ y.state = IF x.state = "DEPLOYING" THEN "RUNNING" ELSE "MIGRATING"
  BY <1>1 DEF Vms, VmState
<1> HIDE DEF x, y
<1>3. PlacedWell(y) /\ ~Waits(y) /\ x.host \in Host /\ ~IsOn(x, x.host)
  BY <1>1, <1>2 DEF PlacedWell, Waits, IsOn
<1>4. /\ host' \in [Host -> HostShare]
      /\ \A h \in Host : h # x.host => host'[h] = host[h]
      /\ host'[x.host].vms = host[x.host].vms \cup {v}
      /\ host'[x.host].usage = host[x.host].usage + Percent(x.cpu)
  BY <1>1, <1>3, AddedIs DEF x
<1>5. \A u \in User : req[u].vm # v
  BY <1>1, NotAsked DEF x
<1>6. ASSUME NEW h \in Host
      PROVE  Counts(h, v, x, y) /\ Need(y, h) + Wait(y, h) <= Need(x, h) + Wait(x, h)
  <2>1. IsOn(y, h) <=> h = x.host \/ IsOn(x, h)
    BY <1>1, <1>2 DEF IsOn, PlacedWell
  <2>2. Percent(x.cpu) \in Nat /\ host[h].usage \in Int /\ host[h].vms = {w \in VM : IsOn(vm[w], h)}
    BY <1>1, VmIs, Sized DEF CInv, Shares
  <2>3. Wait(x, h) = (IF h = x.host THEN Percent(x.cpu) ELSE 0) /\ Wait(y, h) = 0
    BY <1>1, <1>2, <1>3 DEF Wait, Waits
  <2>4. Need(x, h) = (IF IsOn(x, h) THEN Percent(x.cpu) ELSE 0)
        /\ Need(y, h) = (IF h = x.host \/ IsOn(x, h) THEN Percent(x.cpu) ELSE 0)
    BY <1>2, <2>1 DEF Need
  <2>5. CASE h = x.host
    <3>1. ~IsOn(x, h) /\ IsOn(y, h)
      BY <1>3, <2>1, <2>5
    <3>2. Need(x, h) = 0 /\ Need(y, h) = Percent(x.cpu) /\ Wait(x, h) = Percent(x.cpu)
      BY <2>3, <2>4, <2>5, <3>1
    <3>3. host'[h].vms = host[h].vms \cup {v} /\ host'[h].usage = host[h].usage + Percent(x.cpu)
      BY <1>4, <2>5
    <3>4. Counts(h, v, x, y)
      BY <2>2, <3>1, <3>2, <3>3 DEF Counts
    <3> QED BY <2>2, <2>3, <3>2, <3>4
  <2>6. CASE h # x.host
    <3>1. host'[h] = host[h] /\ (v \in host[h].vms <=> IsOn(x, h)) /\ (IsOn(y, h) <=> IsOn(x, h))
      BY <1>4, <2>1, <2>2, <2>6 DEF x
    <3>2. Need(y, h) = Need(x, h) /\ Need(x, h) \in Nat /\ Wait(x, h) = 0
      BY <2>2, <2>3, <2>4, <2>6
    <3>3. Counts(h, v, x, y)
      <4>1. host[h].usage = host[h].usage + (Need(y, h) - Need(x, h))
        BY <2>2, <3>2
      <4>2. host[h].vms = IF IsOn(y, h) THEN host[h].vms \cup {v} ELSE host[h].vms \ {v}
        <5> PICK s : s = host[h].vms
          OBVIOUS
        <5> QED BY <3>1
      <4> QED BY <3>1, <4>1, <4>2 DEF Counts
    <3> QED BY <2>3, <3>2, <3>3
  <2> QED BY <2>5, <2>6
<1> QED BY <1>1, <1>2, <1>3, <1>4, <1>5, <1>6, VMStep DEF x

(* A VM leaves a host, for another it is counted on already or for none.   *)
LEMMA LeavesHost ==
  ASSUME CInv, NEW v \in VM, NEW y \in Vms, vm' = [vm EXCEPT ![v] = y], UNCHANGED <<asked, req, sched, contended>>,
         y.cpu = vm[v].cpu, PlacedWell(y), ~Waits(y), \A u \in User : req[u].vm # v,
         NEW k \in Host, Deleted(v, k), IsOn(vm[v], k), ~IsOn(y, k),
         \A h \in Host : h # k => (IsOn(y, h) <=> IsOn(vm[v], h))
  PROVE  CInv'
<1>1. vm[v] \in Vms
  BY DEF CInv, TypeOK
<1>2. /\ host' \in [Host -> HostShare]
      /\ \A h \in Host : h # k => host'[h] = host[h]
      /\ host'[k].vms = host[k].vms \ {v} /\ host'[k].usage = host[k].usage - Percent(vm[v].cpu)
  BY DeletedIs
<1>3. ASSUME NEW h \in Host
      PROVE  Counts(h, v, vm[v], y) /\ Need(y, h) + Wait(y, h) <= Need(vm[v], h) + Wait(vm[v], h)
  <2>1. Percent(vm[v].cpu) \in Nat /\ host[h].usage \in Int /\ host[h].vms = {w \in VM : IsOn(vm[w], h)}
        /\ Wait(vm[v], h) \in Nat
    BY <1>1, VmIs, Sized DEF CInv, Shares
  <2>2. Wait(y, h) = 0
    BY DEF Wait
  <2>3. Need(y, h) = (IF IsOn(y, h) THEN Percent(vm[v].cpu) ELSE 0)
        /\ Need(vm[v], h) = (IF IsOn(vm[v], h) THEN Percent(vm[v].cpu) ELSE 0)
    BY DEF Need
  <2>4. v \in host[h].vms <=> IsOn(vm[v], h)
    BY <2>1
  <2>5. CASE h = k
    <3>1. Need(y, h) = 0 /\ Need(vm[v], h) = Percent(vm[v].cpu) /\ ~IsOn(y, h)
      BY <2>3, <2>5
    <3>2. Counts(h, v, vm[v], y)
      <4>1. host'[h].vms = host[h].vms \ {v} /\ host'[h].usage = host[h].usage - Percent(vm[v].cpu)
        BY <1>2, <2>5
      <4> QED BY <2>1, <3>1, <4>1 DEF Counts
    <3> QED BY <2>1, <2>2, <3>1, <3>2
  <2>6. CASE h # k
    <3>1. host'[h] = host[h] /\ (IsOn(y, h) <=> IsOn(vm[v], h))
      BY <1>2, <2>6
    <3>2. Need(y, h) = Need(vm[v], h) /\ Need(y, h) \in Nat
      BY <2>1, <2>3, <3>1
    <3>3. Counts(h, v, vm[v], y)
      <4>1. host[h].usage = host[h].usage + (Need(y, h) - Need(vm[v], h))
        BY <2>1, <3>2
      <4>2. host[h].vms = IF IsOn(y, h) THEN host[h].vms \cup {v} ELSE host[h].vms \ {v}
        <5> PICK s : s = host[h].vms
          OBVIOUS
        <5> QED BY <2>4, <3>1
      <4> QED BY <3>1, <4>1, <4>2 DEF Counts
    <3> QED BY <2>1, <2>2, <3>2, <3>3
  <2> QED BY <2>5, <2>6
<1> QED BY <1>2, <1>3, VMStep

LEMMA migrated_keeps ==
  ASSUME CInv, NEW v \in VM, migrated(v) PROVE CInv'
<1>1. vm[v] \in Vms /\ PlacedWell(vm[v]) /\ vm[v].state = "MIGRATING" /\ UNCHANGED <<asked, req, sched, contended>>
  BY DEF CInv, TypeOK, Placing, migrated
<1>2. vm[v].host \in Host /\ vm[v].from \in Host /\ vm[v].host # vm[v].from
  BY <1>1 DEF PlacedWell
<1>3. \A u \in User : req[u].vm # v
  BY <1>1, NotAsked
<1>4. CASE /\ Deleted(v, vm[v].from)
           /\ To(v, [vm[v] EXCEPT !.state = "RUNNING", !.from = NoHost])
  <2> DEFINE y == [vm[v] EXCEPT !.state = "RUNNING", !.from = NoHost]
  <2>1. y \in Vms /\ y.cpu = vm[v].cpu /\ y.state = "RUNNING" /\ y.host = vm[v].host /\ y.from = NoHost
    BY <1>1 DEF Vms, VmState
  <2>2. vm' = [vm EXCEPT ![v] = y]
    BY <1>4 DEF To
  <2> HIDE DEF y
  <2>3. PlacedWell(y) /\ ~Waits(y) /\ IsOn(vm[v], vm[v].from) /\ ~IsOn(y, vm[v].from)
        /\ \A h \in Host : h # vm[v].from => (IsOn(y, h) <=> IsOn(vm[v], h))
    BY <1>1, <1>2, <2>1 DEF PlacedWell, Waits, IsOn
  <2> QED BY <1>1, <1>2, <1>3, <1>4, <2>1, <2>2, <2>3, LeavesHost
<1>5. CASE /\ Deleted(v, vm[v].host)
           /\ To(v, [vm[v] EXCEPT !.state = "RUNNING", !.host = vm[v].from, !.from = NoHost])
  <2> DEFINE y == [vm[v] EXCEPT !.state = "RUNNING", !.host = vm[v].from, !.from = NoHost]
  <2>1. y \in Vms /\ y.cpu = vm[v].cpu /\ y.state = "RUNNING" /\ y.host = vm[v].from /\ y.from = NoHost
    BY <1>1 DEF Vms, VmState
  <2>2. vm' = [vm EXCEPT ![v] = y]
    BY <1>5 DEF To
  <2> HIDE DEF y
  <2>3. PlacedWell(y) /\ ~Waits(y) /\ IsOn(vm[v], vm[v].host) /\ ~IsOn(y, vm[v].host)
        /\ \A h \in Host : h # vm[v].host => (IsOn(y, h) <=> IsOn(vm[v], h))
    BY <1>1, <1>2, <2>1 DEF PlacedWell, Waits, IsOn
  <2> QED BY <1>1, <1>2, <1>3, <1>5, <2>1, <2>2, <2>3, LeavesHost
<1> QED BY <1>4, <1>5 DEF migrated

LEMMA leave_keeps ==
  ASSUME Rash = {}, CInv, NEW v \in VM, leave(v) PROVE CInv'
<1>1. vm[v] \in Vms /\ PlacedWell(vm[v]) /\ vm[v].state \in {"RUNNING", "POWEROFF"} /\ Free(v)
      /\ UNCHANGED <<asked, req, sched, contended>> /\ Deleted(v, vm[v].host)
  BY DEF CInv, TypeOK, Placing, leave
<1>2. PICK s \in {"PENDING", "FAILED", "DONE"} : To(v, Bare([vm[v] EXCEPT !.state = s]))
  BY DEF leave
<1> DEFINE y == [vm[v] EXCEPT !.state = s, !.host = NoHost, !.from = NoHost]
<1>3. y \in Vms /\ y.cpu = vm[v].cpu /\ y.state = s /\ y.host = NoHost /\ y.from = NoHost
  BY <1>1 DEF Vms, VmState
<1>4. vm' = [vm EXCEPT ![v] = y]
  BY <1>1, <1>2 DEF To, Bare, Vms
<1> HIDE DEF y
<1>5. vm[v].host \in Host /\ PlacedWell(y) /\ ~Waits(y) /\ IsOn(vm[v], vm[v].host)
      /\ \A h \in Host : ~IsOn(y, h) /\ (h # vm[v].host => ~IsOn(vm[v], h))
  BY <1>1, <1>3, CapacityAssumption DEF PlacedWell, Waits, IsOn
<1>6. \A u \in User : req[u].vm # v
  BY <1>1, NotAsked
<1> QED BY <1>1, <1>3, <1>4, <1>5, <1>6, LeavesHost

(* A VM changes its state and stays on its host, or on none.               *)
LEMMA StateStep ==
  ASSUME Rash = {}, CInv, NEW v \in VM, poweroff(v) \/ resume(v) \/ leave_nothing(v) PROVE CInv'
<1>1. vm[v] \in Vms /\ PlacedWell(vm[v]) /\ Free(v) /\ UNCHANGED <<host, asked, req, sched, contended>>
  BY DEF CInv, TypeOK, Placing, poweroff, resume, leave_nothing, host_vars
<1>2. PICK s \in VmState :
        /\ vm' = [vm EXCEPT ![v] = [vm[v] EXCEPT !.state = s]]
        /\ \/ {vm[v].state, s} \subseteq {"RUNNING", "POWEROFF"}
           \/ {vm[v].state, s} \subseteq {"PENDING", "FAILED", "DONE"}
  BY DEF poweroff, resume, leave_nothing, To, VmState
<1> DEFINE y == [vm[v] EXCEPT !.state = s]
<1>3. y \in Vms /\ y.cpu = vm[v].cpu /\ y.state = s /\ y.host = vm[v].host /\ y.from = vm[v].from
  BY <1>1 DEF Vms
<1>4. vm' = [vm EXCEPT ![v] = y]
  BY <1>2
<1> HIDE DEF y
<1>5. PlacedWell(y) /\ ~Waits(y) /\ ~Waits(vm[v]) /\ \A h \in Host : IsOn(y, h) <=> IsOn(vm[v], h)
  BY <1>1, <1>2, <1>3 DEF PlacedWell, Waits, IsOn
<1>6. \A u \in User : req[u].vm # v
  BY <1>1, NotAsked
<1>7. ASSUME NEW h \in Host
      PROVE  Counts(h, v, vm[v], y) /\ Need(y, h) + Wait(y, h) <= Need(vm[v], h) + Wait(vm[v], h)
  <2>1. Need(y, h) = Need(vm[v], h) /\ Wait(y, h) = 0 /\ Wait(vm[v], h) = 0 /\ Need(y, h) \in Nat
    BY <1>3, <1>5, VmIs DEF Need, Wait
  <2> QED BY <1>1, <1>3, <1>5, <2>1, CountsSame
<1>8. host' \in [Host -> HostShare]
  BY <1>1 DEF CInv, TypeOK
<1> QED BY <1>1, <1>3, <1>4, <1>5, <1>6, <1>7, <1>8, VMStep

-----------------------------------------------------------------------------
(* Requests                                                                *)

LEMMA NoneWaits ==
  ASSUME CInv, NEW h \in Host, \A v \in VM : Waits(vm[v]) => vm[v].host # h
  PROVE  Committed(h) = host[h].usage
<1> PICK w : w = [v \in VM |-> Wait(vm[v], h)]
  OBVIOUS
<1>1. \A v \in VM : w[v] = 0
  BY DEF Wait
<1>2. Total(w, VM) = 0
  BY <1>1, TotalOfNothing, CapacityAssumption
<1> QED BY <1>2, Sized DEF Committed, WaitSum

(* A host that is not promised has committed what it uses, and a test of   *)
(* its share tells the truth.                                              *)
LEMMA NotPromised ==
  ASSUME CInv, NEW h \in Host, NEW c \in Int, test_capacity(host[h], c), ~Promised(h)
  PROVE  /\ \A u \in User : ~Told(req[u], h)
         /\ sched.at # "DISPATCH"
         /\ Committed(h) = host[h].usage /\ Committed(h) + c <= TOTAL
<1>1. /\ \A u \in User : ~Told(req[u], h)
      /\ sched.at # "DISPATCH"
      /\ \A v \in VM : Waits(vm[v]) => vm[v].host # h
  BY DEF Promised, Waiting, Told, Waits
<1>2. Committed(h) = host[h].usage
  BY <1>1, NoneWaits
<1>3. host[h].max - host[h].usage >= c /\ host[h].max \in {0, TOTAL} /\ host[h].usage \in Int
  BY DEF test_capacity, CInv, TypeOK, HostShare
<1> QED BY <1>1, <1>2, <1>3, HostAssumption

(* What may be asked: a request stands alone and has seen what is so.      *)
MayAsk(u, r) ==
  \/ r = Idle
  \/ /\ r.at # "IDLE" /\ r.vm \in VM /\ Fits(r, vm[r.vm])
     /\ \A w \in User \ {u} : req[w].vm # r.vm

LEMMA IdleIs ==
  /\ Idle \in Request /\ Idle.at = "IDLE" /\ \A h : ~Told(Idle, h)
  /\ Idle.vm \notin VM /\ \A h \in Host : Change(Idle, h) = 0
  BY CapacityAssumption DEF Idle, Request, Stage, VmState, Told, Change

LEMMA AskingAsks ==
  ASSUME CInv, NEW u \in User, NEW r \in Request, MayAsk(u, r), 
         UNCHANGED vm, req' = [req EXCEPT ![u] = r]
  PROVE  Asking'
<1>1. req \in [User -> Request] /\ Asking
  BY DEF CInv, TypeOK
<1>2. req'[u] = r /\ \A w \in User \ {u} : req'[w] = req[w]
  BY <1>1
<1> SUFFICES ASSUME NEW w \in User
             PROVE  IF req'[w].at = "IDLE" THEN req'[w] = Idle
                    ELSE /\ req'[w].vm \in VM /\ Fits(req'[w], vm[req'[w].vm])
                         /\ \A o \in User \ {w} : req'[o].vm # req'[w].vm
  BY DEF Asking, Fits, CanResize
<1>3. CASE w = u
  <2>1. CASE r = Idle
    BY <1>2, <1>3, <2>1, IdleIs
  <2>2. CASE r # Idle
    <3>1. /\ r.at # "IDLE" /\ r.vm \in VM /\ Fits(r, vm[r.vm])
          /\ \A o \in User \ {u} : req[o].vm # r.vm
      BY <2>2 DEF MayAsk
    <3> QED BY <1>2, <1>3, <3>1
  <2> QED BY <2>1, <2>2
<1>4. CASE w # u
  <2>1. req'[w] = req[w]
    BY <1>2, <1>4
  <2>2. CASE req[w].at = "IDLE"
    BY <1>1, <2>1, <2>2 DEF Asking
  <2>3. CASE req[w].at # "IDLE"
    <3>1. /\ req[w].vm \in VM /\ Fits(req[w], vm[req[w].vm])
          /\ \A o \in User \ {w} : req[o].vm # req[w].vm
      BY <1>1, <2>3 DEF Asking
    <3>2. r.vm # req[w].vm
      BY <1>4, <3>1, IdleIs DEF MayAsk
    <3> QED BY <1>2, <2>1, <2>3, <3>1, <3>2
  <2> QED BY <2>2, <2>3
<1> QED BY <1>3, <1>4

(* Who is told that a host has room is the only one.                       *)
OnlyTold(u, r) ==
  \A h \in Host \ contended' :
    Told(r, h) => /\ \A w \in User \ {u} : ~Told(req[w], h)
                  /\ sched.at # "DISPATCH"
                  /\ Committed(h) + Percent(r.cpu) <= TOTAL

LEMMA AloneAsks ==
  ASSUME CInv, NEW u \in User, NEW r \in Request, OnlyTold(u, r), contended \subseteq contended',
         UNCHANGED sched, req' = [req EXCEPT ![u] = r]
  PROVE  Alone'
<1>1. req \in [User -> Request]
  BY DEF CInv, TypeOK
<1>2. req'[u] = r /\ \A w \in User \ {u} : req'[w] = req[w]
  BY <1>1
<1> SUFFICES ASSUME NEW h \in Host \ contended'
             PROVE  /\ \A o, w \in User : Told(req'[o], h) /\ Told(req'[w], h) => o = w
                    /\ sched.at = "DISPATCH" => \A w \in User : ~Told(req'[w], h)
  BY DEF Alone, Told
<1>3. /\ \A o, w \in User : Told(req[o], h) /\ Told(req[w], h) => o = w
      /\ sched.at = "DISPATCH" => \A w \in User : ~Told(req[w], h)
  BY DEF CInv, Alone
<1>4. Told(r, h) => sched.at # "DISPATCH" /\ \A w \in User \ {u} : ~Told(req[w], h)
  BY DEF OnlyTold
<1> QED BY <1>2, <1>3, <1>4

LEMMA RequestStep ==
  ASSUME CInv, NEW u \in User, NEW r \in Request, MayAsk(u, r), OnlyTold(u, r),
         contended \subseteq contended', contended' \subseteq Host,
         \A h \in Host : Change(r, h) = Change(req[u], h),
         UNCHANGED <<host, asked, vm, sched>>, req' = [req EXCEPT ![u] = r]
  PROVE  CInv'
<1>1. req \in [User -> Request]
  BY DEF CInv, TypeOK
<1>2. req' \in [User -> Request] /\ req'[u] = r /\ \A w \in User \ {u} : req'[w] = req[w]
  BY <1>1
<1>3. TypeOK' /\ Placing'
  BY <1>2 DEF CInv, TypeOK, Placing, PlacedWell
<1>4. Asking' /\ Alone'
  BY AskingAsks, AloneAsks
<1>5. Room'
  <2> SUFFICES ASSUME NEW h \in Host \ contended'
               PROVE  /\ Committed(h) <= TOTAL
                      /\ sched.at = "DISPATCH" /\ sched.free[h] >= 0 => Committed(h) + sched.free[h] <= TOTAL
                      /\ \A w \in User : Told(req'[w], h) => Committed(h) + Percent(req'[w].cpu) <= TOTAL
    BY DEF Room, Committed, WaitSum, Told
  <2>1. /\ Committed(h) <= TOTAL
        /\ sched.at = "DISPATCH" /\ sched.free[h] >= 0 => Committed(h) + sched.free[h] <= TOTAL
        /\ \A w \in User : Told(req[w], h) => Committed(h) + Percent(req[w].cpu) <= TOTAL
    BY DEF CInv, Room
  <2>2. Told(r, h) => Committed(h) + Percent(r.cpu) <= TOTAL
    BY DEF OnlyTold
  <2> QED BY <1>2, <2>1, <2>2
<1>6. ASSUME NEW h \in Host PROVE ChangeSum(req', h) = ChangeSum(req, h)
  <2>1. ChangeSum(req', h) = ChangeSum(req, h) + (Change(r, h) - Change(req[u], h))
    BY <1>1, ChangeSums
  <2>2. Change(r, h) \in Int /\ ChangeSum(req, h) \in Int /\ Change(r, h) = Change(req[u], h)
    BY <1>1, ChangeSumType, RequestIs
  <2> QED BY <2>1, <2>2
<1>7. Shares'
  BY <1>6 DEF CInv, Shares, NeedSum, ChangeSum
<1> QED BY <1>3, <1>4, <1>5, <1>7 DEF CInv

LEMMA IdleStep ==
  ASSUME CInv, NEW u \in User, \A h \in Host : Change(req[u], h) = 0,
         UNCHANGED <<host, asked, vm, sched, contended>>, req' = [req EXCEPT ![u] = Idle]
  PROVE  CInv'
<1>1. (\A h \in Host : Change(Idle, h) = Change(req[u], h)) /\ MayAsk(u, Idle) /\ OnlyTold(u, Idle)
  BY IdleIs DEF MayAsk, OnlyTold
<1>2. contended \subseteq contended' /\ contended' \subseteq Host /\ Idle \in Request
  BY IdleIs DEF CInv, TypeOK
<1> QED BY <1>1, <1>2, RequestStep

LEMMA AskedForNone ==
  ASSUME Rash = {}, CInv, NEW u \in User, NEW v \in VM, Free(v)
  PROVE  \A w \in User \ {u} : req[w].vm # v
  BY DEF Free, AskedFor

(* What a request that is under way knows.                                 *)
LEMMA UnderWay ==
  ASSUME CInv, NEW u \in User, req[u].at # "IDLE"
  PROVE  /\ req[u].vm \in VM /\ Fits(req[u], vm[req[u].vm])
         /\ \A w \in User \ {u} : req[w].vm # req[u].vm
         /\ req[u] \in Request /\ vm[req[u].vm] \in Vms /\ PlacedWell(vm[req[u].vm])
  BY DEF CInv, Asking, TypeOK, Placing

LEMMA ask_move_keeps ==
  ASSUME Rash = {}, CInv, NEW u \in User, ask_move(u) PROVE CInv'
<1>1. PICK v \in VM, h \in Host, enforce \in BOOLEAN :
       /\ vm[v].state = "PENDING" \/ (vm[v].state = "RUNNING" /\ vm[v].host # h)
       /\ Free(v)
       /\ contended' = contended \cup If(~enforce, h)
       /\ req' = [req EXCEPT ![u] = [at |-> IF enforce THEN "CHECK" ELSE "MOVE", vm |-> v, state |-> vm[v].state,
                                     cpu |-> vm[v].cpu, new |-> 0, host |-> h]]
  BY DEF ask_move, Ask, Contend
<1>2. req[u] = Idle /\ UNCHANGED <<host, asked, vm, sched>> /\ vm[v] \in Vms /\ PlacedWell(vm[v])
  BY DEF ask_move, CanAsk, host_vars, CInv, TypeOK, Placing
<1> DEFINE r == [at |-> IF enforce THEN "CHECK" ELSE "MOVE", vm |-> v, state |-> vm[v].state,
                 cpu |-> vm[v].cpu, new |-> 0, host |-> h]
<1>3. /\ r.at = (IF enforce THEN "CHECK" ELSE "MOVE")
      /\ r.vm = v /\ r.state = vm[v].state /\ r.cpu = vm[v].cpu /\ r.host = h
      /\ r \in Request
  BY <1>2 DEF Request, Stage, Vms
<1>4. req' = [req EXCEPT ![u] = r]
  BY <1>1
<1> HIDE DEF r
<1>5. vm[v].host # h
  BY <1>1, <1>2, CapacityAssumption DEF PlacedWell
<1>6. Fits(r, vm[v])
  BY <1>1, <1>3, <1>5 DEF Fits
<1>7. MayAsk(u, r)
  <2>1. \A w \in User \ {u} : req[w].vm # v
    BY <1>1, AskedForNone
  <2> QED BY <1>3, <1>6, <2>1 DEF MayAsk
<1>8. contended \subseteq contended' /\ contended' \subseteq Host /\ OnlyTold(u, r)
  BY <1>1, <1>3 DEF OnlyTold, Told, If, CInv, TypeOK
<1>9. \A k \in Host : Change(r, k) = Change(req[u], k)
  BY <1>2, <1>3, IdleIs DEF Change
<1> QED BY <1>2, <1>3, <1>4, <1>7, <1>8, <1>9, RequestStep

LEMMA check_host_keeps ==
  ASSUME CInv, NEW u \in User, check_host(u) PROVE CInv'
<1>1. req[u].at = "CHECK" /\ UNCHANGED <<host, asked, vm, sched>>
  BY DEF check_host, host_vars
<1>2. \A h \in Host : Change(req[u], h) = 0
  BY <1>1 DEF Change
<1> DEFINE fits == test_capacity(host[req[u].host], Percent(req[u].cpu))
<1>3. /\ req' = [req EXCEPT ![u] = IF fits THEN [req[u] EXCEPT !.at = "MOVE"] ELSE Idle]
      /\ contended' = contended \cup If(fits /\ Promised(req[u].host), req[u].host)
  BY DEF check_host, Ask, Contend
<1>4. CASE fits
  <2> DEFINE r == [req[u] EXCEPT !.at = "MOVE"]
  <2>1. req' = [req EXCEPT ![u] = r]
    BY <1>3, <1>4
  <2>2. /\ r \in Request /\ r.at = "MOVE" /\ r.vm = req[u].vm /\ r.state = req[u].state /\ r.cpu = req[u].cpu
        /\ r.host = req[u].host
    BY <1>1, UnderWay DEF Request, Stage
  <2> HIDE DEF r
  <2>3. MayAsk(u, r) /\ r.host \in Host
    BY <1>1, <2>2, UnderWay DEF MayAsk, Fits
  <2>4. contended \subseteq contended' /\ contended' \subseteq Host
    BY <1>3, <2>2, <2>3 DEF If, CInv, TypeOK
  <2>5. OnlyTold(u, r)
    <3> SUFFICES ASSUME r.host \notin contended'
                 PROVE  /\ \A w \in User \ {u} : ~Told(req[w], r.host)
                        /\ sched.at # "DISPATCH"
                        /\ Committed(r.host) + Percent(r.cpu) <= TOTAL
      BY DEF OnlyTold, Told
    <3>1. ~Promised(r.host)
      BY <1>3, <1>4, <2>2 DEF If
    <3>2. Percent(r.cpu) \in Int
      BY <2>2, RequestIs
    <3> QED BY <1>4, <2>2, <2>3, <3>1, <3>2, NotPromised
  <2>6. \A h \in Host : Change(r, h) = Change(req[u], h)
    BY <1>2, <2>2 DEF Change
  <2> QED BY <1>1, <2>1, <2>2, <2>3, <2>4, <2>5, <2>6, RequestStep
<1>5. CASE ~fits
  <2>1. contended' = contended
    BY <1>3, <1>5 DEF If
  <2> QED BY <1>1, <1>2, <1>3, <1>5, <2>1, IdleStep
<1> QED BY <1>4, <1>5

LEMMA ask_resize_keeps ==
  ASSUME Rash = {}, CInv, NEW u \in User, ask_resize(u) PROVE CInv'
<1>1. PICK v \in VM, new \in CPU :
       /\ vm[v].state \in CanResize /\ Free(v)
       /\ Percent(new - vm[v].cpu) = Percent(new) - Percent(vm[v].cpu)
       /\ req' = [req EXCEPT ![u] = 
                   [at |-> IF vm[v].state = "POWEROFF" THEN "SHARE" ELSE "RESIZE", vm |-> v,
                    state |-> vm[v].state, cpu |-> vm[v].cpu, new |-> new,
                    host |-> IF vm[v].state = "POWEROFF" THEN vm[v].host ELSE NoHost]]
  BY DEF ask_resize, Ask
<1>2. req[u] = Idle /\ UNCHANGED <<host, asked, vm, sched, contended>> /\ vm[v] \in Vms /\ PlacedWell(vm[v])
  BY DEF ask_resize, CanAsk, host_vars, CInv, TypeOK, Placing
<1> DEFINE r == [at |-> IF vm[v].state = "POWEROFF" THEN "SHARE" ELSE "RESIZE", vm |-> v,
                 state |-> vm[v].state, cpu |-> vm[v].cpu, new |-> new,
                 host |-> IF vm[v].state = "POWEROFF" THEN vm[v].host ELSE NoHost]
<1>3. /\ r.at = (IF vm[v].state = "POWEROFF" THEN "SHARE" ELSE "RESIZE")
      /\ r.vm = v /\ r.state = vm[v].state /\ r.cpu = vm[v].cpu /\ r.new = new
      /\ r.host = (IF vm[v].state = "POWEROFF" THEN vm[v].host ELSE NoHost)
      /\ r \in Request
  BY <1>2 DEF Request, Stage, Vms
<1>4. req' = [req EXCEPT ![u] = r]
  BY <1>1
<1> HIDE DEF r
<1>5. r.host = vm[v].host /\ (r.at = "SHARE" => r.host \in Host)
  BY <1>1, <1>2, <1>3 DEF PlacedWell, CanResize
<1>6. Fits(r, vm[v])
  BY <1>1, <1>3, <1>5 DEF Fits
<1>7. MayAsk(u, r)
  <2>1. \A w \in User \ {u} : req[w].vm # v
    BY <1>1, AskedForNone
  <2> QED BY <1>1, <1>3, <1>6, <2>1 DEF MayAsk
<1>8. contended \subseteq contended' /\ contended' \subseteq Host /\ OnlyTold(u, r)
  BY <1>2, <1>3 DEF OnlyTold, Told, CInv, TypeOK
<1>9. \A k \in Host : Change(r, k) = Change(req[u], k)
  BY <1>2, <1>3, IdleIs, CapacityAssumption DEF Change
<1> QED BY <1>2, <1>3, <1>4, <1>7, <1>8, <1>9, RequestStep

LEMMA update_capacity_keeps ==
  ASSUME Rash = {}, CInv, NEW u \in User, update_capacity(u) PROVE CInv'
<1> DEFINE k == req[u].host
           d == Percent(req[u].new - req[u].cpu)
           fits == test_capacity(host[k], d)
<1>1. req[u].at = "SHARE" /\ UNCHANGED <<asked, vm, sched>> /\ \A h \in Host : Change(req[u], h) = 0
  BY DEF update_capacity, Change
<1>2. k \in Host /\ d \in Int /\ req[u] \in Request /\ host \in [Host -> HostShare] /\ req \in [User -> Request]
      /\ contended \subseteq Host
  BY <1>1, UnderWay, RequestIs DEF Fits, CInv, TypeOK
<1>3. CASE UNCHANGED <<host, contended>> /\ Ask(u, Idle)
  BY <1>1, <1>3, IdleStep DEF Ask
<1>4. CASE /\ Updated(k, d) /\ Ask(u, [req[u] EXCEPT !.at = "RESIZE"])
           /\ Contend(If(~fits \/ (d > 0 /\ Promised(k)), k))
  <2> DEFINE r == [req[u] EXCEPT !.at = "RESIZE"]
             x == [host[k] EXCEPT !.usage = @ + d]
  <2>1. /\ r \in Request /\ r.at = "RESIZE" /\ r.vm = req[u].vm /\ r.state = req[u].state
        /\ r.cpu = req[u].cpu /\ r.new = req[u].new /\ r.host = k
    BY <1>2 DEF Request, Stage
  <2>2. req' = [req EXCEPT ![u] = r] /\ host' = [host EXCEPT ![k] = x]
    BY <1>2, <1>4 DEF Ask, Updated
  <2>3. /\ contended \subseteq contended' /\ contended' \subseteq Host
        /\ k \notin contended' => fits /\ (d > 0 => ~Promised(k))
    BY <1>2, <1>4 DEF Contend, If
  <2> HIDE DEF r
  <2>4. x \in HostShare /\ x.vms = host[k].vms /\ x.usage = host[k].usage + d
    <3> PICK n : n = d
      OBVIOUS
    <3>1. host[k] \in HostShare /\ n \in Int
      BY <1>2
    <3>2. host[k].usage + n \in Int
      BY <3>1 DEF HostShare
    <3>3. [host[k] EXCEPT !.usage = @ + n] \in HostShare
      BY <3>1, <3>2 DEF HostShare
    <3> QED BY <3>1, <3>3 DEF HostShare
  <2> HIDE DEF x, d, k
  <2>5. /\ host' \in [Host -> HostShare] /\ host'[k] = x /\ \A h \in Host : h # k => host'[h] = host[h]
        /\ req' \in [User -> Request] /\ req'[u] = r /\ \A w \in User \ {u} : req'[w] = req[w]
    BY <1>2, <2>1, <2>2, <2>4
  <2>6. TypeOK' /\ Placing'
    BY <1>1, <2>3, <2>5 DEF CInv, TypeOK, Placing, PlacedWell
  <2>7. \A h : ~Told(r, h)
    BY <2>1 DEF Told
  <2>8. Asking' /\ Alone'
    <3>1. MayAsk(u, r)
      BY <1>1, <2>1, UnderWay DEF MayAsk, Fits, k
    <3>2. OnlyTold(u, r)
      BY <2>7 DEF OnlyTold
    <3> QED BY <1>1, <2>1, <2>2, <2>3, <3>1, <3>2, AskingAsks, AloneAsks
  <2>9. ASSUME NEW h \in Host
        PROVE  host'[h].usage + WaitSum(vm, h) = Committed(h) + (IF h = k THEN d ELSE 0)
    <3>1. host[h].usage \in Int /\ WaitSum(vm, h) \in Int /\ Committed(h) = host[h].usage + WaitSum(vm, h)
      BY Sized DEF Committed
    <3>2. host'[h].usage = host[h].usage + (IF h = k THEN d ELSE 0)
      BY <1>2, <2>4, <2>5, <3>1
    <3> QED BY <1>2, <3>1, <3>2
  <2>10. ASSUME NEW h \in Host \ contended'
         PROVE  /\ host'[h].usage + WaitSum(vm, h) <= TOTAL
                /\ sched.at = "DISPATCH" /\ sched.free[h] >= 0 =>
                     (host'[h].usage + WaitSum(vm, h)) + sched.free[h] <= TOTAL
                /\ \A w \in User : Told(req[w], h) =>
                     (host'[h].usage + WaitSum(vm, h)) + Percent(req[w].cpu) <= TOTAL
    <3> PICK n : n = host'[h].usage + WaitSum(vm, h)
      OBVIOUS
    <3>1. n = Committed(h) + (IF h = k THEN d ELSE 0)
      BY <2>9
    <3>2. /\ Committed(h) \in Int /\ Committed(h) <= TOTAL /\ TOTAL \in Int /\ sched.free[h] \in Int
          /\ sched.at = "DISPATCH" /\ sched.free[h] >= 0 => Committed(h) + sched.free[h] <= TOTAL
          /\ \A w \in User : Told(req[w], h) => Committed(h) + Percent(req[w].cpu) <= TOTAL
          /\ \A w \in User : Percent(req[w].cpu) \in Nat
      <4>1. Committed(h) \in Int /\ TOTAL \in Int /\ sched.free[h] \in Int
        BY Sized, HostAssumption DEF CInv, TypeOK
      <4>2. \A w \in User : Percent(req[w].cpu) \in Nat
        BY <1>2, RequestIs
      <4>3. h \in Host \ contended
        BY <2>3
      <4>4. /\ Committed(h) <= TOTAL
            /\ sched.at = "DISPATCH" /\ sched.free[h] >= 0 => Committed(h) + sched.free[h] <= TOTAL
            /\ \A w \in User : Told(req[w], h) => Committed(h) + Percent(req[w].cpu) <= TOTAL
        BY <4>3 DEF CInv, Room
      <4> QED BY <4>1, <4>2, <4>4
    <3>3. CASE h # k \/ d <= 0
      <4>1. n <= Committed(h) /\ n \in Int
        BY <1>2, <3>1, <3>2, <3>3
      <4>2. n <= TOTAL /\ (sched.at = "DISPATCH" /\ sched.free[h] >= 0 => n + sched.free[h] <= TOTAL)
        BY <3>2, <4>1
      <4>3. ASSUME NEW w \in User, Told(req[w], h) PROVE n + Percent(req[w].cpu) <= TOTAL
        <5>1. Committed(h) + Percent(req[w].cpu) <= TOTAL /\ Percent(req[w].cpu) \in Nat
          BY <3>2, <4>3
        <5> QED BY <3>2, <4>1, <5>1
      <4> QED BY <4>2, <4>3
    <3>4. CASE ~(h # k \/ d <= 0)
      <4>1. h = k /\ d > 0
        BY <1>2, <3>4
      <4>2. test_capacity(host[h], d) /\ ~Promised(h)
        BY <2>3, <4>1
      <4>3. /\ \A w \in User : ~Told(req[w], h)
            /\ sched.at # "DISPATCH" /\ Committed(h) + d <= TOTAL
        BY <1>2, <4>2, NotPromised
      <4> QED BY <3>1, <4>1, <4>3
    <3> QED BY <3>3, <3>4
  <2>11. Room'
    <3>1. \A w \in User, h \in Host : Told(req'[w], h) => Told(req[w], h) /\ req'[w] = req[w]
      BY <2>5, <2>7
    <3>2. \A h \in Host \ contended' :
            /\ host'[h].usage + WaitSum(vm', h) <= TOTAL
            /\ sched'.at = "DISPATCH" /\ sched'.free[h] >= 0 =>
                 (host'[h].usage + WaitSum(vm', h)) + sched'.free[h] <= TOTAL
            /\ \A w \in User : Told(req'[w], h) =>
                 (host'[h].usage + WaitSum(vm', h)) + Percent(req'[w].cpu) <= TOTAL
      BY <1>1, <2>10, <3>1
    <3> QED BY <3>2 DEF Room, Committed, WaitSum, Told
  <2>12. ASSUME NEW h \in Host
        PROVE  host'[h].vms = {v \in VM : IsOn(vm'[v], h)} /\ host'[h].usage = NeedSum(vm', h) + ChangeSum(req', h)
    <3>1. ChangeSum(req', h) = ChangeSum(req, h) + (Change(r, h) - Change(req[u], h))
      BY <1>2, <2>1, <2>2, ChangeSums
    <3>2. Change(r, h) = IF h = k THEN d ELSE 0
      BY <2>1 DEF Change, d
    <3>3. host'[h].vms = host[h].vms /\ host'[h].usage = host[h].usage + (IF h = k THEN d ELSE 0)
      BY <1>2, <2>4, <2>5, Sized
    <3>4. host[h].vms = {v \in VM : IsOn(vm[v], h)} /\ host[h].usage = NeedSum(vm, h) + ChangeSum(req, h)
      BY DEF CInv, Shares
    <3>5. ChangeSum(req', h) = ChangeSum(req, h) + (IF h = k THEN d ELSE 0)
      BY <1>1, <1>2, <3>1, <3>2, Sized
    <3>6. host'[h].usage = NeedSum(vm, h) + ChangeSum(req', h)
      BY <1>2, <3>3, <3>4, <3>5, Sized
    <3> QED BY <1>1, <3>3, <3>4, <3>6
  <2>13. Shares'
    BY <2>12 DEF Shares, NeedSum, ChangeSum
  <2> QED BY <2>6, <2>8, <2>11, <2>13 DEF CInv
<1>5. \/ UNCHANGED <<host, contended>> /\ Ask(u, Idle)
      \/ /\ Updated(k, d) /\ Ask(u, [req[u] EXCEPT !.at = "RESIZE"])
         /\ Contend(If(~fits \/ (d > 0 /\ Promised(k)), k))
  BY DEF update_capacity, Delta
<1> QED BY <1>3, <1>4, <1>5

(* The request that is done leaves the others as they are.                 *)
LEMMA DoneAsking ==
  ASSUME CInv, NEW u \in User, req[u].at # "IDLE", req' = [req EXCEPT ![u] = Idle], UNCHANGED sched,
         NEW y, vm' = [vm EXCEPT ![req[u].vm] = y]
  PROVE  Asking'
<1>1. req \in [User -> Request] /\ Asking /\ vm \in [VM -> Vms]
  BY DEF CInv, TypeOK
<1>2. req'[u] = Idle /\ \A w \in User \ {u} : req'[w] = req[w]
  BY <1>1
<1> SUFFICES ASSUME NEW w \in User
             PROVE  IF req'[w].at = "IDLE" THEN req'[w] = Idle
                    ELSE /\ req'[w].vm \in VM /\ Fits(req'[w], vm'[req'[w].vm])
                         /\ \A o \in User \ {w} : req'[o].vm # req'[w].vm
  BY DEF Asking, Fits, CanResize
<1>3. CASE w = u
  BY <1>2, <1>3, IdleIs
<1>4. CASE w # u
  <2>1. req'[w] = req[w]
    BY <1>2, <1>4
  <2>2. CASE req[w].at = "IDLE"
    BY <1>1, <2>1, <2>2 DEF Asking
  <2>3. CASE req[w].at # "IDLE"
    <3>1. /\ req[w].vm \in VM /\ Fits(req[w], vm[req[w].vm])
          /\ \A o \in User \ {w} : req[o].vm # req[w].vm
      BY <1>1, <2>3 DEF Asking
    <3>2. vm'[req[w].vm] = vm[req[w].vm]
      BY <1>1, <1>4, <3>1
    <3>3. Idle.vm # req[w].vm
      BY <3>1, IdleIs
    <3> QED BY <1>2, <2>1, <2>3, <3>1, <3>2, <3>3
  <2> QED BY <2>2, <2>3
<1> QED BY <1>3, <1>4

(* What is committed stays, and nobody else is told.                       *)
LEMMA RoomOfFewer ==
  ASSUME CInv, UNCHANGED <<sched, contended>>,
         \A w \in User, h \in Host : Told(req'[w], h) => Told(req[w], h) /\ req'[w] = req[w],
         \A h \in Host : host'[h].usage + WaitSum(vm', h) = Committed(h)
  PROVE  Room'
<1> SUFFICES ASSUME NEW h \in Host \ contended
             PROVE  /\ host'[h].usage + WaitSum(vm', h) <= TOTAL
                    /\ sched.at = "DISPATCH" /\ sched.free[h] >= 0 =>
                         (host'[h].usage + WaitSum(vm', h)) + sched.free[h] <= TOTAL
                    /\ \A w \in User : Told(req'[w], h) =>
                         (host'[h].usage + WaitSum(vm', h)) + Percent(req'[w].cpu) <= TOTAL
  BY DEF Room, Committed, WaitSum, Told
<1>1. /\ Committed(h) <= TOTAL
      /\ sched.at = "DISPATCH" /\ sched.free[h] >= 0 => Committed(h) + sched.free[h] <= TOTAL
      /\ \A w \in User : Told(req[w], h) => Committed(h) + Percent(req[w].cpu) <= TOTAL
  BY DEF CInv, Room
<1>2. host'[h].usage + WaitSum(vm', h) = Committed(h)
  OBVIOUS
<1>3. ASSUME NEW w \in User, Told(req'[w], h)
      PROVE  (host'[h].usage + WaitSum(vm', h)) + Percent(req'[w].cpu) <= TOTAL
  BY <1>1, <1>2, <1>3
<1> QED BY <1>1, <1>2, <1>3

LEMMA resize_keeps ==
  ASSUME CInv, NEW u \in User, resize(u) PROVE CInv'
<1> DEFINE v == req[u].vm
           x == vm[v]
           y == [x EXCEPT !.cpu = req[u].new]
<1>1. /\ req[u].at = "RESIZE" /\ UNCHANGED <<asked, sched, contended>> /\ req' = [req EXCEPT ![u] = Idle]
      /\ v \in VM /\ Fits(req[u], x) /\ req[u] \in Request /\ x \in Vms /\ PlacedWell(x)
  BY UnderWay DEF resize, Ask
<1>2. x.state \in CanResize /\ x.host = req[u].host /\ x.cpu = req[u].cpu /\ req[u].new \in CPU
      /\ Percent(req[u].new - req[u].cpu) = Percent(req[u].new) - Percent(req[u].cpu)
  BY <1>1 DEF Fits
<1>3. vm' = [vm EXCEPT ![v] = y] /\ UNCHANGED host
  BY <1>1, <1>2 DEF resize, CInv, TypeOK
<1>4. y \in Vms /\ y.state = x.state /\ y.cpu = req[u].new /\ y.host = x.host /\ y.from = x.from
  BY <1>1, <1>2 DEF Vms
<1>5. vm \in [VM -> Vms] /\ req \in [User -> Request]
  BY DEF CInv, TypeOK
<1> HIDE DEF y, x, v
<1>6. vm' \in [VM -> Vms] /\ vm'[v] = y /\ \A w \in VM \ {v} : vm'[w] = vm[w]
  BY <1>1, <1>3, <1>4, <1>5
<1>7. req' \in [User -> Request] /\ req'[u] = Idle /\ \A w \in User \ {u} : req'[w] = req[w]
  BY <1>1, <1>5, IdleIs
<1>8. TypeOK'
  BY <1>1, <1>3, <1>6, <1>7 DEF CInv, TypeOK
<1>9. Placing'
  BY <1>1, <1>4, <1>6 DEF CInv, Placing, PlacedWell, x
<1>10. Asking'
  BY <1>1, <1>3, DoneAsking DEF v
<1>11. Alone'
  <2>1. \A w \in User, h \in Host : Told(req'[w], h) => Told(req[w], h)
    BY <1>7, IdleIs
  <2> QED BY <1>1, <2>1 DEF CInv, Alone, Told
<1>12. ASSUME NEW h \in Host
       PROVE  /\ Committed(h)' = Committed(h)
              /\ host'[h].vms = {w \in VM : IsOn(vm'[w], h)}
              /\ host'[h].usage = NeedSum(vm', h) + ChangeSum(req', h)
  <2>1. /\ NeedSum(vm', h) = NeedSum(vm, h) + (Need(y, h) - Need(x, h))
        /\ WaitSum(vm', h) = WaitSum(vm, h) + (Wait(y, h) - Wait(x, h))
        /\ ChangeSum(req', h) = ChangeSum(req, h) + (Change(Idle, h) - Change(req[u], h))
    <3>1. /\ NeedSum(vm', h) = NeedSum(vm, h) + (Need(y, h) - Need(vm[v], h))
          /\ WaitSum(vm', h) = WaitSum(vm, h) + (Wait(y, h) - Wait(vm[v], h))
      <4>1. v \in VM /\ y \in Vms /\ vm' = [vm EXCEPT ![v] = y] /\ vm \in [VM -> Vms]
        BY <1>1, <1>3, <1>4, <1>5
      <4> QED BY ONLY <4>1, VMSums
    <3>2. ChangeSum(req', h) = ChangeSum(req, h) + (Change(Idle, h) - Change(req[u], h))
      BY <1>1, <1>5, ChangeSums, IdleIs
    <3> QED BY <3>1, <3>2 DEF x
  <2>2. Wait(x, h) = 0 /\ Wait(y, h) = 0 /\ (IsOn(y, h) <=> IsOn(x, h))
    BY <1>2, <1>4 DEF Wait, Waits, IsOn, CanResize
  <2>3. IsOn(x, h) <=> x.host = h
    BY <1>1, <1>2, CapacityAssumption DEF IsOn, PlacedWell, CanResize
  <2>4. Change(req[u], h) = IF x.host = h THEN Percent(req[u].new) - Percent(req[u].cpu) ELSE 0
    BY <1>1, <1>2 DEF Change
  <2>5. /\ Need(y, h) = IF x.host = h THEN Percent(req[u].new) ELSE 0
        /\ Need(x, h) = IF x.host = h THEN Percent(req[u].cpu) ELSE 0
    BY <1>2, <1>4, <2>2, <2>3 DEF Need
  <2>6. Percent(req[u].new) \in Nat /\ Percent(req[u].cpu) \in Nat
    BY <1>1, RequestIs
  <2>7. Need(y, h) - Need(x, h) = Change(req[u], h) /\ Change(req[u], h) \in Int
    BY <2>4, <2>5, <2>6
  <2>8. NeedSum(vm', h) = NeedSum(vm, h) + Change(req[u], h)
    BY <2>1, <2>7
  <2>9. ChangeSum(req', h) = ChangeSum(req, h) - Change(req[u], h)
    BY <2>1, <2>7, Sized, IdleIs
  <2>10. host[h].usage = NeedSum(vm, h) + ChangeSum(req, h) /\ host[h].vms = {w \in VM : IsOn(vm[w], h)}
    BY DEF CInv, Shares
  <2>11. host'[h].usage = NeedSum(vm', h) + ChangeSum(req', h)
    BY <1>3, <2>7, <2>8, <2>9, <2>10, Sized
  <2>12. host'[h].vms = {w \in VM : IsOn(vm'[w], h)}
    BY <1>3, <1>6, <2>2, <2>10 DEF x
  <2>13. WaitSum(vm', h) = WaitSum(vm, h)
    BY <2>1, <2>2, Sized
  <2> QED BY <1>3, <2>11, <2>12, <2>13 DEF Committed, WaitSum
<1>13. Shares'
  BY <1>12 DEF Shares, NeedSum, ChangeSum
<1>14. Room'
  <2>1. \A w \in User, h \in Host : Told(req'[w], h) => Told(req[w], h) /\ req'[w] = req[w]
    BY <1>7, IdleIs
  <2>2. \A h \in Host : host'[h].usage + WaitSum(vm', h) = Committed(h)
    BY <1>12 DEF Committed, WaitSum
  <2> QED BY <1>1, <2>1, <2>2, RoomOfFewer
<1> QED BY <1>8, <1>9, <1>10, <1>11, <1>13, <1>14 DEF CInv

-----------------------------------------------------------------------------
(* A VM is sent to a host: it waits for it, and is counted where it was.   *)

LEMMA PlacedIs ==
  ASSUME CInv, NEW v \in VM, NEW k \in Host, vm[v].state \in {"PENDING", "RUNNING"}, vm[v].host # k,
         vm' = [vm EXCEPT ![v] = Placed(vm[v], k)], UNCHANGED host
  PROVE  /\ vm' \in [VM -> Vms] /\ Placing' /\ \A w \in VM \ {v} : vm'[w] = vm[w]
         /\ vm'[v].cpu = vm[v].cpu
         /\ \A h \in Host :
              /\ host'[h].usage + WaitSum(vm', h) = Committed(h) + (IF h = k THEN Percent(vm[v].cpu) ELSE 0)
              /\ host'[h].vms = {w \in VM : IsOn(vm'[w], h)}
              /\ NeedSum(vm', h) = NeedSum(vm, h)
<1> DEFINE x == vm[v]
           y == Placed(x, k)
<1>1. x \in Vms /\ PlacedWell(x) /\ vm \in [VM -> Vms] /\ x.state \in {"PENDING", "RUNNING"} /\ x.host # k
  BY DEF CInv, TypeOK, Placing
<1>2. /\ y \in Vms /\ y.cpu = x.cpu /\ y.host = k
      /\ y.state = (IF x.state = "PENDING" THEN "DEPLOYING" ELSE "MIGRATE")
      /\ y.from = (IF x.state = "PENDING" THEN x.from ELSE x.host)
  BY <1>1 DEF Placed, Vms, VmState
<1>3. vm' = [vm EXCEPT ![v] = y]
  OBVIOUS
<1> HIDE DEF x, y
<1>4. vm' \in [VM -> Vms] /\ vm'[v] = y /\ \A w \in VM \ {v} : vm'[w] = vm[w]
  BY <1>1, <1>2, <1>3
<1>5. PlacedWell(y)
  BY <1>1, <1>2 DEF PlacedWell
<1>6. Placing'
  BY <1>4, <1>5 DEF CInv, Placing, PlacedWell
<1>7. ASSUME NEW h \in Host
      PROVE  /\ host'[h].usage + WaitSum(vm', h) = Committed(h) + (IF h = k THEN Percent(x.cpu) ELSE 0)
             /\ host'[h].vms = {w \in VM : IsOn(vm'[w], h)}
             /\ NeedSum(vm', h) = NeedSum(vm, h)
  <2>1. /\ NeedSum(vm', h) = NeedSum(vm, h) + (Need(y, h) - Need(x, h))
        /\ WaitSum(vm', h) = WaitSum(vm, h) + (Wait(y, h) - Wait(x, h))
    <3>1. y \in Vms /\ vm' = [vm EXCEPT ![v] = y] /\ vm \in [VM -> Vms]
      BY <1>1, <1>2, <1>3
    <3>2. /\ NeedSum(vm', h) = NeedSum(vm, h) + (Need(y, h) - Need(vm[v], h))
          /\ WaitSum(vm', h) = WaitSum(vm, h) + (Wait(y, h) - Wait(vm[v], h))
      BY ONLY v \in VM, <3>1, VMSums
    <3> QED BY <3>2 DEF x
  <2>2. IsOn(y, h) <=> IsOn(x, h)
    BY <1>1, <1>2, CapacityAssumption DEF IsOn, PlacedWell
  <2>3. Need(y, h) = Need(x, h) /\ Need(x, h) \in Nat
    BY <1>1, <1>2, <2>2, VmIs DEF Need
  <2>4. Wait(x, h) = 0 /\ Wait(y, h) = IF h = k THEN Percent(x.cpu) ELSE 0
    BY <1>1, <1>2 DEF Wait, Waits
  <2>5. Percent(x.cpu) \in Nat
    BY <1>1, VmIs
  <2>6. NeedSum(vm', h) = NeedSum(vm, h)
    BY <2>1, <2>3, Sized
  <2>7. WaitSum(vm', h) = WaitSum(vm, h) + (IF h = k THEN Percent(x.cpu) ELSE 0)
    BY <2>1, <2>4, <2>5, Sized
  <2>8. host'[h].vms = {w \in VM : IsOn(vm'[w], h)}
    BY <1>4, <2>2 DEF x, CInv, Shares
  <2>9. Committed(h) = host[h].usage + WaitSum(vm, h)
    BY DEF Committed
  <2> QED BY <2>5, <2>6, <2>7, <2>8, <2>9, Sized
<1> QED BY <1>2, <1>4, <1>6, <1>7 DEF x

LEMMA move_keeps ==
  ASSUME CInv, NEW u \in User, move(u) PROVE CInv'
<1> DEFINE v == req[u].vm
           k == req[u].host
<1>1. /\ req[u].at = "MOVE" /\ UNCHANGED <<host, asked, sched, contended>> /\ req' = [req EXCEPT ![u] = Idle]
      /\ v \in VM /\ Fits(req[u], vm[v]) /\ req[u] \in Request
  BY UnderWay DEF move, Ask, host_vars
<1>2. /\ vm[v].state = req[u].state /\ vm[v].cpu = req[u].cpu /\ req[u].state \in {"PENDING", "RUNNING"}
      /\ k \in Host /\ vm[v].host # k
  BY <1>1 DEF Fits
<1>3. vm' = [vm EXCEPT ![v] = Placed(vm[v], k)]
  BY <1>1, <1>2 DEF move, To
<1>4. req \in [User -> Request] /\ \A h \in Host : Told(req[u], h) <=> h = k
  BY <1>1, <1>2 DEF CInv, TypeOK, Told
<1> HIDE DEF v, k
<1>5. /\ vm' \in [VM -> Vms] /\ Placing' /\ \A w \in VM \ {v} : vm'[w] = vm[w]
      /\ vm'[v].cpu = vm[v].cpu
      /\ \A h \in Host :
           /\ host'[h].usage + WaitSum(vm', h) = Committed(h) + (IF h = k THEN Percent(vm[v].cpu) ELSE 0)
           /\ host'[h].vms = {w \in VM : IsOn(vm'[w], h)}
           /\ NeedSum(vm', h) = NeedSum(vm, h)
  BY <1>1, <1>2, <1>3, PlacedIs
<1>6. req' \in [User -> Request] /\ req'[u] = Idle /\ \A w \in User \ {u} : req'[w] = req[w]
  BY <1>1, <1>4, IdleIs
<1>7. TypeOK'
  BY <1>1, <1>5, <1>6 DEF CInv, TypeOK
<1>8. Asking'
  BY <1>1, <1>3, DoneAsking DEF v
<1>9. \A w \in User, h \in Host : Told(req'[w], h) => w # u /\ Told(req[w], h) /\ req'[w] = req[w]
  BY <1>6, IdleIs
<1>10. Alone'
  BY <1>1, <1>9 DEF CInv, Alone, Told
<1>11. Room'
  <2>1. ASSUME NEW h \in Host \ contended
        PROVE  /\ host'[h].usage + WaitSum(vm', h) <= TOTAL
               /\ sched.at = "DISPATCH" /\ sched.free[h] >= 0 =>
                    (host'[h].usage + WaitSum(vm', h)) + sched.free[h] <= TOTAL
               /\ \A w \in User : Told(req'[w], h) =>
                    (host'[h].usage + WaitSum(vm', h)) + Percent(req'[w].cpu) <= TOTAL
    <3>1. /\ Committed(h) <= TOTAL /\ Committed(h) \in Int
          /\ sched.at = "DISPATCH" /\ sched.free[h] >= 0 => Committed(h) + sched.free[h] <= TOTAL
          /\ \A w \in User : Told(req[w], h) => Committed(h) + Percent(req[w].cpu) <= TOTAL
      BY Sized DEF CInv, Room
    <3>2. CASE h = k
      <4>1. sched.at # "DISPATCH" /\ \A w \in User : ~Told(req'[w], h)
        BY <1>4, <1>9, <3>2 DEF CInv, Alone
      <4>2. host'[h].usage + WaitSum(vm', h) = Committed(h) + Percent(req[u].cpu)
        BY <1>2, <1>5, <3>2
      <4> QED BY <1>4, <3>1, <3>2, <4>1, <4>2
    <3>3. CASE h # k
      <4>1. host'[h].usage + WaitSum(vm', h) = Committed(h)
        BY <1>5, <3>1, <3>3
      <4> QED BY <1>9, <3>1, <4>1
    <3> QED BY <3>2, <3>3
  <2> QED BY <1>1, <2>1 DEF Room, Committed, WaitSum, Told
<1>12. ASSUME NEW h \in Host
       PROVE  host'[h].vms = {w \in VM : IsOn(vm'[w], h)} /\ host'[h].usage = NeedSum(vm', h) + ChangeSum(req', h)
  <2>1. ChangeSum(req', h) = ChangeSum(req, h) + (Change(Idle, h) - Change(req[u], h))
    BY <1>1, <1>4, ChangeSums, IdleIs
  <2>2. Change(req[u], h) = 0 /\ Change(Idle, h) = 0
    BY <1>1, IdleIs DEF Change
  <2>3. ChangeSum(req', h) = ChangeSum(req, h)
    BY <2>1, <2>2, Sized
  <2> QED BY <1>1, <1>5, <2>3 DEF CInv, Shares
<1>13. Shares'
  BY <1>12 DEF Shares, NeedSum, ChangeSum
<1> QED BY <1>5, <1>7, <1>8, <1>10, <1>11, <1>13 DEF CInv

-----------------------------------------------------------------------------
(* The scheduler                                                           *)

SchedType == [at : {"REST", "HOSTS", "DISPATCH"}, vms : SUBSET VM, cpu : [VM -> CPU \cup {0}],
              free : [Host -> Int], sent : [Host -> 0..MaxHost]]

LEMMA RestingIs ==
  Resting \in SchedType /\ Resting.at = "REST" /\ Resting.vms = {}
<1>1. [v \in VM |-> 0] \in [VM -> CPU \cup {0}] /\ [h \in Host |-> 0] \in [Host -> Int]
      /\ [h \in Host |-> 0] \in [Host -> 0..MaxHost]
  BY CapacityAssumption
<1> QED BY <1>1 DEF Resting, SchedType

(* A step of the scheduler that sends nothing.                             *)
LEMMA CycleStep ==
  ASSUME CInv, UNCHANGED <<host, asked, vm, req>>, sched' \in SchedType,
         contended \subseteq contended', contended' \subseteq Host,
         sched'.at = "DISPATCH" =>
           \A h \in Host \ contended' : /\ sched'.free[h] >= 0 => Committed(h) + sched'.free[h] <= TOTAL
                                        /\ \A u \in User : ~Told(req[u], h)
  PROVE  CInv'
<1>1. TypeOK' /\ Placing'
  BY DEF CInv, TypeOK, SchedType, Placing, PlacedWell
<1>2. Asking'
  BY AskingStays DEF CInv
<1>3. Alone'
  BY DEF CInv, Alone, Told
<1>4. Room'
  BY DEF CInv, Room, Committed, WaitSum, Told
<1>5. Shares'
  BY DEF CInv, Shares, NeedSum, ChangeSum
<1> QED BY <1>1, <1>2, <1>3, <1>4, <1>5 DEF CInv

LEMMA set_up_vms_keeps ==
  ASSUME CInv, set_up_vms PROVE CInv'
<1> DEFINE pending == {v \in VM : vm[v].state = "PENDING"}
           cpu == [v \in VM |-> IF v \in pending THEN vm[v].cpu ELSE 0]
<1>1. /\ UNCHANGED <<host, asked, vm, req, contended>>
      /\ sched' = [sched EXCEPT !.at = "HOSTS", !.vms = pending, !.cpu = cpu]
  BY DEF set_up_vms, host_vars
<1>2. cpu \in [VM -> CPU \cup {0}]
  BY VmIs DEF CInv, TypeOK
<1>3. sched \in SchedType /\ contended \subseteq Host
  BY DEF CInv, TypeOK, SchedType
<1> HIDE DEF cpu
<1>4. sched'.at = "HOSTS" /\ sched' \in SchedType
  BY <1>1, <1>2, <1>3 DEF SchedType
<1> QED BY <1>1, <1>3, <1>4, CycleStep

LEMMA set_up_hosts_keeps ==
  ASSUME CInv, set_up_hosts PROVE CInv'
<1> DEFINE free == [h \in Host |-> IF Suitable(h) THEN host[h].max - host[h].usage ELSE -1]
<1>1. /\ sched.at = "HOSTS" /\ UNCHANGED <<host, asked, vm, req>>
      /\ contended' = contended \cup {h \in Host : Waiting(h)}
      /\ sched' = [sched EXCEPT !.at = "DISPATCH", !.free = free]
  BY DEF set_up_hosts, host_vars, Contend
<1>2. host \in [Host -> HostShare] /\ sched \in SchedType /\ contended \subseteq Host
  BY DEF CInv, TypeOK, SchedType
<1>3. \A h \in Host : host[h].max \in {0, TOTAL} /\ host[h].usage \in Int
  BY <1>2 DEF HostShare
<1>4. free \in [Host -> Int]
  BY <1>3, HostAssumption
<1>5. \A h \in Host : free[h] >= 0 => host[h].usage + free[h] <= TOTAL
  BY <1>3, HostAssumption
<1> HIDE DEF free
<1>6. sched'.at = "DISPATCH" /\ sched'.free = free /\ sched' \in SchedType
  BY <1>1, <1>2, <1>4 DEF SchedType
<1>7. contended \subseteq contended' /\ contended' \subseteq Host
  BY <1>1, <1>2
<1>8. ASSUME NEW h \in Host \ contended'
      PROVE  /\ sched'.free[h] >= 0 => Committed(h) + sched'.free[h] <= TOTAL
             /\ \A u \in User : ~Told(req[u], h)
  <2>1. ~Waiting(h)
    BY <1>1
  <2>2. \A v \in VM : Waits(vm[v]) => vm[v].host # h
    BY <2>1 DEF Waiting, Waits
  <2>3. Committed(h) = host[h].usage
    BY <2>2, NoneWaits
  <2> QED BY <1>5, <1>6, <2>1, <2>3 DEF Waiting, Told
<1> QED BY <1>1, <1>6, <1>7, <1>8, CycleStep

LEMMA end_cycle_keeps ==
  ASSUME CInv, end_cycle PROVE CInv'
<1>1. sched' = Resting /\ UNCHANGED <<host, asked, vm, req, contended>> /\ contended \subseteq Host
  BY DEF end_cycle, host_vars, CInv, TypeOK
<1> QED BY <1>1, RestingIs, CycleStep

LEMMA dispatch_keeps ==
  ASSUME Rash = {}, CInv, NEW v \in VM, dispatch(v) PROVE CInv'
<1>1. PICK k \in Hosts(v) :
       /\ sched' = [sched EXCEPT !.vms = @ \ {v}, !.cpu[v] = 0, !.sent[k] = @ + 1,
                                 !.free[k] = @ - Percent(sched.cpu[v])]
       /\ Sent(v, k)
  BY DEF dispatch
<1>2. sched.at = "DISPATCH" /\ v \in sched.vms /\ UNCHANGED <<host, asked, req>> /\ sched \in SchedType
      /\ sched.cpu[v] \in Nat /\ vm[v] \in Vms /\ contended \subseteq Host
  BY CPUs DEF dispatch, host_vars, CInv, TypeOK, SchedType
<1> PICK p \in Nat : p = Percent(sched.cpu[v])
  BY <1>2, PercentIs
<1>3. k \in Host /\ sched.free[k] >= p /\ sched.sent[k] < MaxHost
  BY <1>1, <1>2 DEF Hosts
<1>4. sched' = [sched EXCEPT !.vms = @ \ {v}, !.cpu[v] = 0, !.sent[k] = @ + 1, !.free[k] = @ - p]
  BY <1>1, <1>2
<1>5. /\ sched' \in SchedType /\ sched'.at = "DISPATCH"
      /\ \A h \in Host : sched'.free[h] = IF h = k THEN sched.free[h] - p ELSE sched.free[h]
  <2>1. /\ sched.free \in [Host -> Int] /\ sched.sent \in [Host -> 0..MaxHost] /\ sched.vms \in SUBSET VM
        /\ sched.cpu \in [VM -> CPU \cup {0}]
    BY <1>2 DEF SchedType
  <2>2. [sched.free EXCEPT ![k] = @ - p] \in [Host -> Int]
        /\ \A h \in Host : [sched.free EXCEPT ![k] = @ - p][h] = IF h = k THEN sched.free[h] - p ELSE sched.free[h]
    BY <1>3, <2>1
  <2>3. [sched.sent EXCEPT ![k] = @ + 1] \in [Host -> 0..MaxHost] /\ [sched.cpu EXCEPT ![v] = 0] \in [VM -> CPU \cup {0}]
    <3>1. sched.sent[k] + 1 \in 0..MaxHost
      BY <1>3, <2>1, CapacityAssumption
    <3> QED BY <2>1, <3>1
  <2>4. sched' = [sched EXCEPT !.vms = sched.vms \ {v}, !.cpu = [sched.cpu EXCEPT ![v] = 0],
                               !.sent = [sched.sent EXCEPT ![k] = @ + 1],
                               !.free = [sched.free EXCEPT ![k] = @ - p]]
    BY <1>2, <1>4 DEF SchedType
  <2> PICK f, n, c : /\ f = [sched.free EXCEPT ![k] = @ - p] /\ n = [sched.sent EXCEPT ![k] = @ + 1]
                     /\ c = [sched.cpu EXCEPT ![v] = 0]
    OBVIOUS
  <2>5. f \in [Host -> Int] /\ n \in [Host -> 0..MaxHost] /\ c \in [VM -> CPU \cup {0}]
        /\ \A h \in Host : f[h] = IF h = k THEN sched.free[h] - p ELSE sched.free[h]
    BY <2>2, <2>3
  <2>6. sched' = [sched EXCEPT !.vms = sched.vms \ {v}, !.cpu = c, !.sent = n, !.free = f]
    BY <2>4
  <2> QED BY <1>2, <2>1, <2>5, <2>6 DEF SchedType
<1>6. \A h \in Host \ contended : \A u \in User : ~Told(req[u], h)
  BY <1>2 DEF CInv, Alone
<1>7. \A h \in Host : sched.free[h] \in Int /\ Committed(h) \in Int
  BY <1>2, Sized DEF SchedType
<1>8. \A h \in Host \ contended : /\ Committed(h) <= TOTAL
                                  /\ sched.free[h] >= 0 => Committed(h) + sched.free[h] <= TOTAL
  BY <1>2 DEF CInv, Room
<1>9. CASE vm[v].state = "PENDING"
  <2>1. vm[v].host # k
    BY <1>3, <1>9, CapacityAssumption DEF CInv, Placing, PlacedWell
  <2>2. vm' = [vm EXCEPT ![v] = Placed(vm[v], k)] /\ \A u \in User : req[u].vm # v
    BY <1>1, <1>9 DEF Sent, To, Free, AskedFor
  <2>3. /\ contended \subseteq contended' /\ contended' \subseteq Host
        /\ k \notin contended' => Percent(vm[v].cpu) = p
    BY <1>1, <1>2, <1>3, <1>9 DEF Sent, Contend, If
  <2>4. /\ vm' \in [VM -> Vms] /\ Placing' /\ \A w \in VM \ {v} : vm'[w] = vm[w]
        /\ vm'[v].cpu = vm[v].cpu
        /\ \A h \in Host :
             /\ host'[h].usage + WaitSum(vm', h) = Committed(h) + (IF h = k THEN Percent(vm[v].cpu) ELSE 0)
             /\ host'[h].vms = {w \in VM : IsOn(vm'[w], h)}
             /\ NeedSum(vm', h) = NeedSum(vm, h)
    BY <1>2, <1>3, <1>9, <2>1, <2>2, PlacedIs
  <2>5. TypeOK'
    BY <1>2, <1>5, <2>3, <2>4 DEF CInv, TypeOK, SchedType
  <2>6. Asking'
    <3>1. \A u \in User : req[u].at # "IDLE" => vm'[req[u].vm] = vm[req[u].vm]
      BY <2>2, <2>4, UnderWay
    <3> QED BY <1>2, <3>1, AskingStays DEF CInv
  <2>7. Alone'
    BY <1>2, <1>6, <2>3 DEF Alone, Told
  <2>8. ASSUME NEW h \in Host \ contended'
        PROVE  /\ host'[h].usage + WaitSum(vm', h) <= TOTAL
               /\ sched'.free[h] >= 0 => (host'[h].usage + WaitSum(vm', h)) + sched'.free[h] <= TOTAL
               /\ \A u \in User : ~Told(req'[u], h)
    <3>1. /\ Committed(h) <= TOTAL /\ Committed(h) \in Int /\ sched.free[h] \in Int
          /\ sched.free[h] >= 0 => Committed(h) + sched.free[h] <= TOTAL
          /\ \A u \in User : ~Told(req[u], h)
      BY <1>6, <1>7, <1>8, <2>3
    <3>2. CASE h = k
      <4>1. host'[h].usage + WaitSum(vm', h) = Committed(h) + p /\ sched'.free[h] = sched.free[h] - p
        BY <1>5, <2>3, <2>4, <3>2
      <4> QED BY <1>2, <1>3, <3>1, <3>2, <4>1, HostAssumption
    <3>3. CASE h # k
      BY <1>2, <1>5, <2>4, <3>1, <3>3
    <3> QED BY <3>2, <3>3
  <2>9. Room'
    BY <2>8 DEF Room, Committed, WaitSum, Told
  <2>10. \A h \in Host : /\ host'[h].vms = {w \in VM : IsOn(vm'[w], h)}
                         /\ host'[h].usage = NeedSum(vm', h) + ChangeSum(req', h)
    BY <1>2, <2>4 DEF CInv, Shares
  <2>11. Shares'
    BY <2>10 DEF Shares, NeedSum, ChangeSum
  <2> QED BY <2>4, <2>5, <2>6, <2>7, <2>9, <2>11 DEF CInv
<1>10. CASE vm[v].state # "PENDING"
  <2>1. UNCHANGED <<vm, contended>>
    BY <1>1, <1>10 DEF Sent
  <2>2. ASSUME NEW h \in Host \ contended, sched'.free[h] >= 0 PROVE Committed(h) + sched'.free[h] <= TOTAL
    BY <1>3, <1>5, <1>7, <1>8, <2>2, HostAssumption
  <2> QED BY <1>2, <1>5, <1>6, <2>1, <2>2, CycleStep
<1> QED BY <1>9, <1>10

-----------------------------------------------------------------------------
(* The hosts, the first state, and every step                              *)

LEMMA HostKept ==
  ASSUME NEW x \in HostShare
  PROVE  \A y \in {set_monitoring_state(x), touch(x, TRUE), touch(x, FALSE), update_info(x),
                   [x EXCEPT !.state = "ERROR"], [x EXCEPT !.state = "INIT"],
                   [x EXCEPT !.state = "DISABLED", !.max = 0]} :
           y \in HostShare /\ y.usage = x.usage /\ y.vms = x.vms
<1>1. \A s \in HostState : /\ [x EXCEPT !.state = s] \in HostShare
                           /\ [x EXCEPT !.state = s].usage = x.usage /\ [x EXCEPT !.state = s].vms = x.vms
  BY DEF HostShare
<1>2. set_monitoring_state(x) = x \/ \E s \in HostState : set_monitoring_state(x) = [x EXCEPT !.state = s]
  <2>1. CASE isMonitoring(x)
    BY <2>1 DEF set_monitoring_state
  <2>2. CASE ~isMonitoring(x)
    <3>1. x.state \in {"INIT", "MONITORED", "ERROR", "DISABLED"}
      BY <2>2 DEF isMonitoring, HostShare, HostState
    <3>2. MonitoringOf[x.state] \in HostState
      BY <3>1 DEF MonitoringOf, HostState
    <3> QED BY <2>2, <3>2 DEF set_monitoring_state
  <2> QED BY <2>1, <2>2
<1>3. \A b \in BOOLEAN : touch(x, b) = x \/ \E s \in HostState : touch(x, b) = [x EXCEPT !.state = s]
  BY DEF touch, HostState
<1>4. ASSUME NEW y \in HostShare, y.usage = x.usage, y.vms = x.vms
      PROVE  [y EXCEPT !.max = TOTAL] \in HostShare /\ [y EXCEPT !.max = TOTAL].usage = x.usage
             /\ [y EXCEPT !.max = TOTAL].vms = x.vms
  BY <1>4 DEF HostShare
<1>5. \A b \in BOOLEAN : touch(x, b) \in HostShare /\ touch(x, b).usage = x.usage /\ touch(x, b).vms = x.vms
  <2> SUFFICES ASSUME NEW b \in BOOLEAN
               PROVE  touch(x, b) \in HostShare /\ touch(x, b).usage = x.usage /\ touch(x, b).vms = x.vms
    OBVIOUS
  <2>1. CASE touch(x, b) = x
    BY <2>1
  <2>2. CASE touch(x, b) # x
    <3>1. PICK s \in HostState : touch(x, b) = [x EXCEPT !.state = s]
      BY <1>3, <2>2
    <3> QED BY ONLY <1>1, <3>1
  <2> QED BY <2>1, <2>2
<1>6. update_info(x) \in HostShare /\ update_info(x).usage = x.usage /\ update_info(x).vms = x.vms
  BY <1>4, <1>5 DEF update_info
<1>7. set_monitoring_state(x) \in HostShare /\ set_monitoring_state(x).usage = x.usage
      /\ set_monitoring_state(x).vms = x.vms
  <2>1. CASE set_monitoring_state(x) = x
    BY <2>1
  <2>2. CASE set_monitoring_state(x) # x
    <3>1. PICK s \in HostState : set_monitoring_state(x) = [x EXCEPT !.state = s]
      BY <1>2, <2>2
    <3> QED BY ONLY <1>1, <3>1
  <2> QED BY <2>1, <2>2
<1>8. [x EXCEPT !.state = "DISABLED", !.max = 0] \in HostShare
      /\ [x EXCEPT !.state = "DISABLED", !.max = 0].usage = x.usage
      /\ [x EXCEPT !.state = "DISABLED", !.max = 0].vms = x.vms
  BY DEF HostShare, HostState
<1>9. "ERROR" \in HostState /\ "INIT" \in HostState
  BY DEF HostState
<1> QED BY <1>1, <1>5, <1>6, <1>7, <1>8, <1>9

LEMMA HostStepIs ==
  ASSUME CInv, NEW h \in Host, HostStep(h)
  PROVE  /\ host' \in [Host -> HostShare] /\ asked' \in [Host -> 0..MaxAsked]
         /\ \A k \in Host : host'[k].usage = host[k].usage /\ host'[k].vms = host[k].vms
<1> DEFINE New == {set_monitoring_state(host[h]), touch(host[h], TRUE), touch(host[h], FALSE), update_info(host[h]),
                   [host[h] EXCEPT !.state = "ERROR"], [host[h] EXCEPT !.state = "INIT"],
                   [host[h] EXCEPT !.state = "DISABLED", !.max = 0]}
<1>1. host \in [Host -> HostShare] /\ asked \in [Host -> 0..MaxAsked] /\ MaxAsked \in Nat
  BY HostAssumption DEF CInv, TypeOK
<1>2. \A y \in New : y \in HostShare /\ y.usage = host[h].usage /\ y.vms = host[h].vms
  BY <1>1, HostKept
<1>3. UNCHANGED host \/ \E y \in New : host' = [host EXCEPT ![h] = y]
  BY <1>1 DEF HostStep, Monitoring, timer_action, monitor, touch_disabled, driver_lost, answer, enable, disable
<1>4. asked' \in [Host -> 0..MaxAsked]
  <2>1. UNCHANGED asked \/ \E n \in 0..MaxAsked : asked' = [asked EXCEPT ![h] = n]
    <3>1. asked[h] \in 0..MaxAsked
      BY <1>1
    <3>2. CASE monitor(h)
      BY <1>1, <3>1, <3>2 DEF monitor
    <3>3. CASE touch_disabled(h) \/ enable(h) \/ disable(h)
      BY <3>3 DEF touch_disabled, enable, disable
    <3>4. CASE driver_lost(h)
      <4>1. asked' = [asked EXCEPT ![h] = 0] /\ 0 \in 0..MaxAsked
        BY <1>1, <3>4 DEF driver_lost
      <4> QED BY <4>1
    <3>5. CASE \E success \in BOOLEAN : answer(h, success)
      <4>1. asked' = [asked EXCEPT ![h] = asked[h] - 1] /\ asked[h] - 1 \in 0..MaxAsked
        <5>1. asked[h] > 0 /\ asked' = [asked EXCEPT ![h] = @ - 1]
          BY <3>5 DEF answer
        <5> QED BY <1>1, <3>1, <5>1
      <4> QED BY <4>1
    <3> QED BY <3>2, <3>3, <3>4, <3>5 DEF HostStep, Monitoring, timer_action
  <2> QED BY <1>1, <2>1
<1> HIDE DEF New
<1>5. host' \in [Host -> HostShare] /\ \A k \in Host : host'[k].usage = host[k].usage /\ host'[k].vms = host[k].vms
  BY <1>1, <1>2, <1>3
<1> QED BY <1>4, <1>5

LEMMA SharesStay ==
  ASSUME CInv, UNCHANGED <<vm, req, sched, contended>>,
         host' \in [Host -> HostShare], asked' \in [Host -> 0..MaxAsked],
         \A k \in Host : host'[k].usage = host[k].usage /\ host'[k].vms = host[k].vms
  PROVE  CInv'
<1>1. UNCHANGED <<vm, req, sched, contended>>
  OBVIOUS
<1>2. /\ host' \in [Host -> HostShare] /\ asked' \in [Host -> 0..MaxAsked]
      /\ \A k \in Host : host'[k].usage = host[k].usage /\ host'[k].vms = host[k].vms
  OBVIOUS
<1>3. TypeOK' /\ Placing' /\ Alone'
  BY <1>1, <1>2 DEF CInv, TypeOK, Placing, PlacedWell, Alone, Told
<1>4. Asking'
  BY <1>1, AskingStays DEF CInv
<1>5. Shares'
  BY <1>1, <1>2 DEF CInv, Shares, NeedSum, ChangeSum
<1>6. Room'
  <2>1. \A k \in Host : host'[k].usage + WaitSum(vm', k) = Committed(k)
    BY <1>1, <1>2 DEF Committed, WaitSum
  <2> QED BY <1>1, <2>1, RoomOfFewer
<1> QED BY <1>3, <1>4, <1>5, <1>6 DEF CInv

LEMMA HostStepKeeps ==
  ASSUME CInv, NEW h \in Host, HostStep(h) PROVE CInv'
<1>1. UNCHANGED <<vm, req, sched, contended>>
  BY DEF HostStep
<1> QED BY <1>1, HostStepIs, SharesStay

LEMMA InitCounts == ASSUME Init PROVE CInv
<1>1. /\ \A v \in VM : \E c \in CPU : vm[v] = [state |-> "PENDING", cpu |-> c, host |-> NoHost, from |-> NoHost]
      /\ vm \in [VM -> Vms]
  <2> DEFINE new(c) == [state |-> "PENDING", cpu |-> c, host |-> NoHost, from |-> NoHost]
  <2>1. ASSUME NEW c \in CPU PROVE new(c) \in Vms /\ Bare(new(c)) = new(c)
    <3>1. new(c) \in Vms /\ new(c).host = NoHost /\ new(c).from = NoHost
      BY DEF Vms, VmState
    <3> HIDE DEF new
    <3>2. [new(c) EXCEPT !.host = NoHost, !.from = NoHost] = new(c)
      BY <3>1 DEF Vms
    <3> QED BY <3>1, <3>2 DEF Bare
  <2>2. vm \in [VM -> {Bare(new(c)) : c \in CPU}]
    BY DEF Init
  <2>3. ASSUME NEW v \in VM PROVE vm[v] \in Vms /\ \E c \in CPU : vm[v] = new(c)
    <3> HIDE DEF new
    <3>1. PICK c \in CPU : vm[v] = Bare(new(c))
      BY <2>2
    <3> QED BY <2>1, <3>1
  <2> QED BY <2>2, <2>3
<1>2. \A v \in VM : vm[v].state = "PENDING" /\ vm[v].host = NoHost /\ vm[v].from = NoHost
  BY <1>1
<1>3. \A u \in User : req[u] = Idle
  BY DEF Init
<1>4. host \in [Host -> HostShare] /\ \A h \in Host : host[h].usage = 0 /\ host[h].vms = {}
  <2>1. \A x \in {NewHost, KnownHost} : x \in HostShare /\ x.usage = 0 /\ x.vms = {}
    BY DEF NewHost, KnownHost, HostShare, HostState
  <2>2. host \in [Host -> {NewHost, KnownHost}]
    BY DEF Init, HostInit
  <2> QED BY <2>1, <2>2
<1>5. asked \in [Host -> 0..MaxAsked] /\ req \in [User -> Request] /\ sched \in SchedType
      /\ sched.at = "REST" /\ contended = {}
  BY IdleIs, RestingIs, HostAssumption DEF Init, HostInit
<1>6. TypeOK /\ Placing /\ Asking /\ Alone
  BY <1>1, <1>2, <1>3, <1>4, <1>5, IdleIs
  DEF TypeOK, SchedType, Placing, PlacedWell, Asking, Alone, Told
<1>7. ASSUME NEW h \in Host
      PROVE  NeedSum(vm, h) = 0 /\ WaitSum(vm, h) = 0 /\ ChangeSum(req, h) = 0 /\ {v \in VM : IsOn(vm[v], h)} = {}
  <2>1. \A v \in VM : Need(vm[v], h) = 0 /\ Wait(vm[v], h) = 0 /\ ~IsOn(vm[v], h)
    BY <1>2 DEF Need, Wait, Waits, IsOn
  <2>2. \A u \in User : Change(req[u], h) = 0
    BY <1>3, IdleIs
  <2> PICK n, w, c : /\ n = [v \in VM |-> Need(vm[v], h)] /\ w = [v \in VM |-> Wait(vm[v], h)]
                     /\ c = [u \in User |-> Change(req[u], h)]
    OBVIOUS
  <2>3. (\A v \in VM : n[v] = 0 /\ w[v] = 0) /\ \A u \in User : c[u] = 0
    BY <2>1, <2>2
  <2>4. Total(n, VM) = 0 /\ Total(w, VM) = 0 /\ Total(c, User) = 0
    BY <2>3, TotalOfNothing, CapacityAssumption
  <2> QED BY <2>1, <2>4 DEF NeedSum, WaitSum, ChangeSum
<1>8. Shares
  BY <1>4, <1>7 DEF Shares
<1>9. Room
  <2>1. \A h \in Host : Committed(h) <= TOTAL
    BY <1>4, <1>7, HostAssumption DEF Committed
  <2>2. sched.at # "DISPATCH" /\ \A u \in User, h \in Host : ~Told(req[u], h)
    BY <1>3, <1>5, IdleIs
  <2> QED BY <2>1, <2>2 DEF Room
<1> QED BY <1>6, <1>8, <1>9 DEF CInv

LEMMA NextKeeps == ASSUME Rash = {}, CInv, [Next]_vars PROVE CInv'
<1>1. CASE UNCHANGED vars
  <2>1. UNCHANGED <<host, asked, vm, req, sched, contended>>
    BY <1>1 DEF vars, host_vars
  <2>2. host \in [Host -> HostShare] /\ asked \in [Host -> 0..MaxAsked]
    BY DEF CInv, TypeOK
  <2> QED BY <2>1, <2>2, SharesStay
<1>2. ASSUME NEW h \in Host, HostStep(h) PROVE CInv'
  BY <1>2, HostStepKeeps
<1>3. ASSUME NEW v \in VM, LifeCycle(v) PROVE CInv'
  BY <1>3, deploy_action_keeps, migrated_keeps, leave_keeps, StateStep DEF LifeCycle
<1>4. ASSUME NEW u \in User, Requests(u) PROVE CInv'
  BY <1>4, ask_move_keeps, check_host_keeps, move_keeps, ask_resize_keeps, update_capacity_keeps, resize_keeps
  DEF Requests
<1>5. ASSUME Cycle PROVE CInv'
  BY <1>5, set_up_vms_keeps, set_up_hosts_keeps, end_cycle_keeps, dispatch_keeps DEF Cycle
<1> QED BY <1>1, <1>2, <1>3, <1>4, <1>5 DEF Next, Step

(* What the hosts count is what fsck would find.                           *)
LEMMA CountsAreFsck == ASSUME CInv PROVE FsckHosts
<1> SUFFICES ASSUME NEW h \in Host
             PROVE  /\ host[h].vms = On(h)
                    /\ host[h].usage = Total(NeededOn(h), VM) + Total(ChangedOn(h), User)
  BY DEF FsckHosts, CInv
<1>1. host[h].vms = {v \in VM : IsOn(vm[v], h)} /\ host[h].usage = NeedSum(vm, h) + ChangeSum(req, h)
  BY DEF CInv, Shares
<1>2. On(h) = {v \in VM : IsOn(vm[v], h)}
  BY DEF On, IsOn
<1>3. \A v \in VM : (IF v \in On(h) THEN Required(v) ELSE 0) = Need(vm[v], h)
  BY <1>2 DEF Need, Required
<1>4. \A u \in User : (IF u \in Resizing(h) THEN Percent(Delta(u)) ELSE 0) = Change(req[u], h)
  BY DEF Resizing, Change, Delta
<1>5. NeededOn(h) = [v \in VM |-> Need(vm[v], h)] /\ ChangedOn(h) = [u \in User |-> Change(req[u], h)]
  BY <1>3, <1>4 DEF NeededOn, ChangedOn
<1> QED BY <1>1, <1>2, <1>5 DEF NeedSum, ChangeSum

-----------------------------------------------------------------------------
LEMMA CapacityInvariant == ASSUME Rash = {} PROVE Spec => []CInv
<1>1. Init => CInv
  BY InitCounts
<1>2. CInv /\ [Next]_vars => CInv'
  BY NextKeeps
<1> QED BY <1>1, <1>2, PTL DEF Spec

(* What a host counts is what fsck counts: the VMs that are on it, and the *)
(* sum of what they need, with the resizes that are under way - however    *)
(* requests, the scheduler, the life cycle and the monitoring interleave,  *)
(* as long as a VM is not changed under a request that waits for the host  *)
(* or the quotas, and is not resized by fractions of a percent.            *)
THEOREM SharesAreExact == ASSUME Rash = {} PROVE Spec => []FsckHosts
<1>1. CInv => FsckHosts
  BY CountsAreFsck
<1> QED BY <1>1, CapacityInvariant, PTL

(* A host has more than its room only after it was promised to two at a    *)
(* time (or without a check): the share is tested before the VM is added,  *)
(* by requests and by a scheduler that goes by its copy, and two promises  *)
(* of one host at a time are the only way these tests can be wrong.        *)
THEOREM HostsHaveRoom == ASSUME Rash = {} PROVE Spec => []WithinCapacity
<1>1. CInv => WithinCapacity
  BY Sized DEF WithinCapacity
<1> QED BY <1>1, CapacityInvariant, PTL
=============================================================================
