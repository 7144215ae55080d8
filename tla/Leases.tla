-------------------------------- MODULE Leases --------------------------------
(***************************************************************************)
(* Virtual networks and the leases that the NICs of VMs have of them.      *)
(*                                                                         *)
(* A network keeps a map of leases by address, a counter of those in use   *)
(* and a cursor from which it looks for the next free one.  In a FIXED     *)
(* network the addresses are listed and a lease stays in the map when it   *)
(* is given back; in a RANGED one the map has the leases in use.  VMs take *)
(* and give back leases NIC by NIC, under the lock of the network alone,   *)
(* at their insertion and end and in hotplug requests that overlap.        *)
(*                                                                         *)
(* Addresses count from the first one of the network.  MACs and IPv6       *)
(* addresses follow from them.                                             *)
(***************************************************************************)
EXTENDS Integers, FiniteSets

CONSTANTS Net, VM,
          Size,        \* addresses of a network
          MaxNics,     \* bound: NICs of a VM
          Rash,        \* what users do although it goes wrong, see below
          Absent, Free, Held, NoNet, AnyIp

ASSUME LeasesAssumption ==
  /\ NoNet \notin Net
  /\ Size \in Nat \ {0} /\ MaxNics \in Nat /\ AnyIp \notin Int
  /\ Absent # Free /\ Absent # Held /\ Free # Held
  /\ VM \cap {Absent, Free, Held} = {}

(* The kinds of Rash: a VM is deleted between the halves of an attach, a   *)
(* network is deleted that has leases in use, and a lease is removed that  *)
(* the cursor is at (the iterator then dangles).                           *)
RashKinds == {"DELETE_ATTACHING", "DELETE_USED", "REMOVE_CURRENT"}

VARIABLES networks,  \* the networks that exist
          type,      \* FIXED or RANGED
          leases,    \* what the map has at an address: Absent, Free, Held or the VM
          n_used, size, current,
          state,     \* of each VM
          nic        \* the NICs of each VM

net_vars == <<networks, type, leases, n_used, size, current>>
vm_vars  == <<state, nic>>
vars     == <<networks, type, leases, n_used, size, current, state, nic>>

Address == 0..(Size - 1)
End     == Size              \* leases.end()
Nic     == 1..MaxNics
Stage   == {"NONE",     \* no NIC
            "WANTED",   \* asked for, not in the network yet
            "GOT",      \* leased by an attach request, not in the template yet
            "REFUSED",  \* an attach request that got no lease
            "LEASED",   \* in the template
            "RELEASE"}  \* taken out, the lease is to be given back
NicRecord == [stage : Stage, net : Net \cup {NoNet}, ip : Address \cup {AnyIp}, attach : BOOLEAN]
NoNic     == [stage |-> "NONE", net |-> NoNet, ip |-> AnyIp, attach |-> FALSE]
Wanted(n, ip) == [stage |-> "WANTED", net |-> n, ip |-> ip, attach |-> FALSE]

-----------------------------------------------------------------------------
(* Leases of a network *)

Fixed(n)    == type[n] = "FIXED"
Used(n)     == {a \in Address : leases[n][a] \notin {Absent, Free}}
Present(n)  == {a \in Address : leases[n][a] # Absent}
check(n, a) == a \in Used(n)
Unused(n)   == (IF Fixed(n) THEN Present(n) ELSE Address) \ Used(n)
Released(n) == IF Fixed(n) THEN Free ELSE Absent

(* get walks from the cursor, over the map or over the range, and wraps;   *)
(* it looks at size leases and no more.                                    *)
Distance(n, a)     == IF a >= current[n] THEN a - current[n] ELSE a - current[n] + Size
Before(n, a)       == {b \in (IF Fixed(n) THEN Present(n) ELSE Address) :
                         Distance(n, b) < Distance(n, a)}
Found(n, a) ==
  /\ a \in Unused(n)
  /\ Cardinality(Before(n, a)) < size[n]
  /\ \A b \in Before(n, a) : b \notin Unused(n)
CursorValid(n) == current[n] \in (IF Fixed(n) THEN Present(n) ELSE Address) \cup {End}

After(n, a) == {b \in Present(n) : b > a}
Moved(n, a) ==
  IF ~Fixed(n) THEN a
  ELSE IF After(n, a) = {} THEN End
  ELSE CHOOSE b \in After(n, a) : \A c \in After(n, a) : b <= c

Lease(n, a, owner) ==
  /\ leases' = [leases EXCEPT ![n][a] = owner]
  /\ n_used' = [n_used EXCEPT ![n] = @ + 1]
  /\ UNCHANGED <<networks, type, size>>

get(n, v, a) ==
  /\ n \in networks /\ CursorValid(n) /\ Found(n, a)
  /\ Lease(n, a, v)
  /\ current' = [current EXCEPT ![n] = Moved(n, a)]

set(n, v, a) ==
  /\ n \in networks /\ a \in Unused(n)
  /\ Lease(n, a, v)
  /\ UNCHANGED current

Grants(n, ip, v, a) ==
  \/ ip = AnyIp /\ get(n, v, a)
  \/ ip = a /\ set(n, v, a)
Refuses(n, ip) ==
  \/ n \notin networks
  \/ ip = AnyIp /\ ~\E a \in Address : Found(n, a)
  \/ ip # AnyIp /\ ip \notin Unused(n)

release(n, a) ==
  /\ leases' = [leases EXCEPT ![n][a] = Released(n)]
  /\ n_used' = [n_used EXCEPT ![n] = @ - 1]
  /\ UNCHANGED <<networks, type, size, current>>

-----------------------------------------------------------------------------
(* Requests on networks *)

add_leases_keeps_size(n, a) ==   \* mutant
  /\ n \in networks /\ Fixed(n) /\ leases[n][a] = Absent
  /\ leases' = [leases EXCEPT ![n][a] = Free]
  /\ UNCHANGED <<networks, type, n_used, size, current, vm_vars>>
add_leases(n, a) ==
  /\ n \in networks /\ Fixed(n) /\ leases[n][a] = Absent
  /\ leases' = [leases EXCEPT ![n][a] = Free]
  /\ size' = [size EXCEPT ![n] = Cardinality(Present(n)) + 1]
  /\ UNCHANGED <<networks, type, n_used, current, vm_vars>>

remove_leases(n, a) ==
  /\ n \in networks /\ Fixed(n) /\ leases[n][a] = Free
  /\ current[n] = a => "REMOVE_CURRENT" \in Rash
  /\ leases' = [leases EXCEPT ![n][a] = Absent]
  /\ size' = [size EXCEPT ![n] = Cardinality(Present(n)) - 1]
  /\ UNCHANGED <<networks, type, n_used, current, vm_vars>>

hold_leases(n, a) == set(n, Held, a) /\ UNCHANGED vm_vars

free_leases(n, a) ==
  /\ n \in networks /\ leases[n][a] = Held
  /\ release(n, a)
  /\ UNCHANGED vm_vars

vnet_delete(n) ==
  /\ n \in networks
  /\ Used(n) # {} => "DELETE_USED" \in Rash
  /\ networks' = networks \ {n}
  /\ leases' = [leases EXCEPT ![n] = [a \in Address |-> Absent]]
  /\ n_used' = [n_used EXCEPT ![n] = 0]
  /\ UNCHANGED <<type, size, current, vm_vars>>

(* The network leaves the cache of the pool and is read again.             *)
select(n) ==
  /\ n \in networks
  /\ current' = [current EXCEPT ![n] = IF Fixed(n) THEN End ELSE 0]
  /\ n_used' = [n_used EXCEPT ![n] = Cardinality(Used(n))]
  /\ size' = [size EXCEPT ![n] = IF Fixed(n) THEN Cardinality(Present(n)) ELSE Size]
  /\ UNCHANGED <<networks, type, leases, vm_vars>>

-----------------------------------------------------------------------------
(* NICs of VMs *)

SetNic(v, i, x)   == nic' = [nic EXCEPT ![v][i] = x]
SetState(v, s)    == state' = [state EXCEPT ![v] = s]
Stages(v)         == {nic[v][i].stage : i \in Nic}
ReleaseAll(v, ss) ==
  nic' = [nic EXCEPT ![v] = [i \in Nic |-> IF @[i].stage \in ss
                                           THEN [@[i] EXCEPT !.stage = "RELEASE"] ELSE @[i]]]

vm_allocate(v) ==
  /\ state[v] = "NONE"
  /\ SetState(v, "INSERTING")
  /\ \E num \in 0..MaxNics, n \in [Nic -> networks], ip \in [Nic -> Address \cup {AnyIp}] :
       nic' = [nic EXCEPT ![v] = [i \in Nic |-> IF i <= num THEN Wanted(n[i], ip[i]) ELSE NoNic]]
  /\ UNCHANGED net_vars

(* The NICs get their leases one after the other.  When one is refused all *)
(* those in the template are given back, the refused one included: it may  *)
(* name an address that someone else has.                                  *)
get_network_leases(v, i) ==
  /\ state[v] = "INSERTING" /\ nic[v][i].stage = "WANTED"
  /\ \A j \in 1..(i - 1) : nic[v][j].stage # "WANTED"
  /\ \/ \E a \in Address :
          /\ Grants(nic[v][i].net, nic[v][i].ip, v, a)
          /\ SetNic(v, i, [nic[v][i] EXCEPT !.stage = "LEASED", !.ip = a])
          /\ UNCHANGED state
     \/ /\ Refuses(nic[v][i].net, nic[v][i].ip)
        /\ ReleaseAll(v, {"WANTED", "LEASED"})
        /\ SetState(v, "ROLLBACK")
        /\ UNCHANGED net_vars

(* The rest of the insertion: images, context, requirements.               *)
insert(v) ==
  /\ state[v] = "INSERTING" /\ "WANTED" \notin Stages(v)
  /\ \/ SetState(v, "RUNNING") /\ UNCHANGED nic
     \/ SetState(v, "ROLLBACK") /\ ReleaseAll(v, {"LEASED"})
  /\ UNCHANGED net_vars

release_network_leases_unowned(v, i) ==   \* mutant
  /\ nic[v][i].stage = "RELEASE"
  /\ LET n == nic[v][i].net a == nic[v][i].ip IN
     IF n \in networks /\ a # AnyIp /\ check(n, a)
     THEN release(n, a) ELSE UNCHANGED net_vars
  /\ SetNic(v, i, NoNic)
  /\ UNCHANGED state
release_network_leases(v, i) ==
  /\ nic[v][i].stage = "RELEASE"
  /\ LET n == nic[v][i].net a == nic[v][i].ip IN
     IF n \in networks /\ a # AnyIp /\ leases[n][a] = v
     THEN release(n, a) ELSE UNCHANGED net_vars
  /\ SetNic(v, i, NoNic)
  /\ UNCHANGED state

insert_failed(v) ==
  /\ state[v] = "ROLLBACK" /\ Stages(v) \subseteq {"NONE"}
  /\ SetState(v, "NONE")
  /\ UNCHANGED <<net_vars, nic>>

(* attach_nic: the VM is HOTPLUG_NIC, the request goes for a lease without *)
(* the lock of the VM and takes it again.                                  *)
attach_nic(v, i) ==
  /\ state[v] = "RUNNING" /\ nic[v][i].stage = "NONE"
  /\ SetState(v, "HOTPLUG")
  /\ \E n \in Net, ip \in Address \cup {AnyIp} : SetNic(v, i, Wanted(n, ip))
  /\ UNCHANGED net_vars

set_up_attach_nic(v, i) ==
  /\ state[v] # "INSERTING" /\ nic[v][i].stage = "WANTED"
  /\ \/ \E a \in Address :
          /\ Grants(nic[v][i].net, nic[v][i].ip, v, a)
          /\ SetNic(v, i, [nic[v][i] EXCEPT !.stage = "GOT", !.ip = a])
     \/ /\ Refuses(nic[v][i].net, nic[v][i].ip)
        /\ SetNic(v, i, [nic[v][i] EXCEPT !.stage = "REFUSED"])
        /\ UNCHANGED net_vars
  /\ UNCHANGED state

set_attach_nic(v, i) ==
  /\ \/ /\ nic[v][i].stage = "GOT"
        /\ SetNic(v, i, [nic[v][i] EXCEPT !.stage = "LEASED", !.attach = TRUE])
        /\ UNCHANGED state
     \/ /\ nic[v][i].stage = "REFUSED"
        /\ SetNic(v, i, NoNic)
        /\ SetState(v, IF state[v] = "DONE" THEN "DONE" ELSE "RUNNING")
  /\ UNCHANGED net_vars

detach_nic(v, i) ==
  /\ state[v] = "RUNNING" /\ nic[v][i].stage = "LEASED"
  /\ SetNic(v, i, [nic[v][i] EXCEPT !.attach = TRUE])
  /\ SetState(v, "HOTPLUG")
  /\ UNCHANGED net_vars

(* The end of a hotplug request, by an answer of the driver (which may be  *)
(* late, for an earlier request) or by recover: clear_attach_nic and       *)
(* delete_attach_nic take one NIC that is marked, if there is one.         *)
Marked(v) == {i \in Nic : nic[v][i].stage = "LEASED" /\ nic[v][i].attach}

attach_nic_success(v) ==
  /\ state[v] = "HOTPLUG"
  /\ IF Marked(v) = {} THEN UNCHANGED nic
     ELSE \E i \in Marked(v) : SetNic(v, i, [nic[v][i] EXCEPT !.attach = FALSE])
  /\ SetState(v, "RUNNING")
  /\ UNCHANGED net_vars

attach_nic_failure(v) ==
  /\ state[v] = "HOTPLUG"
  /\ IF Marked(v) = {} THEN UNCHANGED nic
     ELSE \E i \in Marked(v) : SetNic(v, i, [nic[v][i] EXCEPT !.stage = "RELEASE"])
  /\ SetState(v, "RUNNING")
  /\ UNCHANGED net_vars

done_action(v) ==
  /\ state[v] \in {"RUNNING", "HOTPLUG"}
  /\ Stages(v) \cap {"WANTED", "GOT", "REFUSED"} # {} => "DELETE_ATTACHING" \in Rash
  /\ SetState(v, "DONE")
  /\ ReleaseAll(v, {"LEASED"})
  /\ UNCHANGED net_vars

-----------------------------------------------------------------------------
Init ==
  /\ networks = Net
  /\ type \in [Net -> {"FIXED", "RANGED"}]
  /\ leases = [n \in Net |-> [a \in Address |-> Released(n)]]
  /\ n_used = [n \in Net |-> 0]
  /\ size = [n \in Net |-> Size]
  /\ current = [n \in Net |-> IF Fixed(n) THEN End ELSE 0]
  /\ state = [v \in VM |-> "NONE"]
  /\ nic = [v \in VM |-> [i \in Nic |-> NoNic]]

NetStep(n) ==
  \/ \E a \in Address : \/ add_leases(n, a) \/ remove_leases(n, a)
                        \/ hold_leases(n, a) \/ free_leases(n, a)
  \/ vnet_delete(n) \/ select(n)

NicStep(v, i) ==
  \/ get_network_leases(v, i) \/ release_network_leases(v, i)
  \/ attach_nic(v, i) \/ set_up_attach_nic(v, i) \/ set_attach_nic(v, i) \/ detach_nic(v, i)

VmStep(v) ==
  \/ vm_allocate(v) \/ insert(v) \/ insert_failed(v)
  \/ attach_nic_success(v) \/ attach_nic_failure(v) \/ done_action(v)

Next ==
  \/ \E n \in Net : NetStep(n)
  \/ \E v \in VM : VmStep(v) \/ \E i \in Nic : NicStep(v, i)

Spec == Init /\ [][Next]_vars

-----------------------------------------------------------------------------
(* Types; the cursor of a range is one of its addresses.                   *)
TypeOK ==
  /\ networks \subseteq Net
  /\ type \in [Net -> {"FIXED", "RANGED"}]
  /\ leases \in [Net -> [Address -> {Absent, Free, Held} \cup VM]]
  /\ n_used \in [Net -> Int]
  /\ size \in [Net -> Int]
  /\ current \in [Net -> 0..Size]
  /\ \A n \in Net : ~Fixed(n) => current[n] # End
  /\ state \in [VM -> {"NONE", "INSERTING", "ROLLBACK", "RUNNING", "HOTPLUG", "DONE"}]
  /\ nic \in [VM -> [Nic -> NicRecord]]

(* Every NIC in a template, or about to be, has the lease of its address,  *)
(* however requests overlap and whoever gives addresses back.              *)
HasLease(v, i) == nic[v][i].stage \in {"GOT", "LEASED"}
NicsOwnLeases == \A v \in VM, i \in Nic : HasLease(v, i) =>
  /\ nic[v][i].net \in networks
  /\ nic[v][i].ip # AnyIp /\ leases[nic[v][i].net][nic[v][i].ip] = v
  /\ \A j \in Nic \ {i} : HasLease(v, j) => <<nic[v][i].net, nic[v][i].ip>> # <<nic[v][j].net, nic[v][j].ip>>

(* No lease stays with a VM that has no NIC for it, or will not give it    *)
(* back (fsck: "has used lease but it is free").                           *)
LeasesHaveNics == \A n \in networks, a \in Address : leases[n][a] \in VM =>
  \E i \in Nic : LET x == nic[leases[n][a]][i] IN
    /\ x.net = n /\ x.ip = a
    /\ \/ x.stage = "RELEASE"
       \/ x.stage \in {"GOT", "LEASED"} /\ state[leases[n][a]] # "DONE"

(* TOTAL_LEASES, counted up and down by every call, is the number of       *)
(* leases in use.                                                          *)
TotalLeases == \A n \in Net : n_used[n] = Cardinality(Used(n))

(* What fsck checks of the table of leases, whatever the order in which    *)
(* requests and the end of VMs take and give back.                         *)
FsckLeases == TypeOK /\ NicsOwnLeases /\ LeasesHaveNics /\ TotalLeases

(* An address is refused only by a network that has none left: the walk    *)
(* from the cursor meets every free lease, wherever earlier calls, added   *)
(* and removed leases and the cache have left cursor and size.             *)
FreeAddressFound == \A n \in networks :
  Unused(n) # {} => CursorValid(n) /\ \E a \in Address : Found(n, a)
=============================================================================
