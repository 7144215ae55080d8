----------------------------- MODULE LeasesProofs -----------------------------
(***************************************************************************)
(* The leases of networks and the NICs of VMs agree, for any number of     *)
(* networks, addresses, VMs and NICs, as long as no VM is deleted between  *)
(* the halves of an attach and no network that has leases in use.  What    *)
(* makes it inductive is what a NIC that is being given back still owns,   *)
(* and which stages of NICs a VM has while it is inserted and rolled back. *)
(***************************************************************************)
EXTENDS Leases, FiniteSetTheorems, TLAPS

Careful == "DELETE_ATTACHING" \notin Rash /\ "DELETE_USED" \notin Rash

(* A NIC owns its lease from the grant until it is given back.  The NICs   *)
(* of an insertion that failed may name an address of someone else.        *)
Owning(v, i) == \/ nic[v][i].stage \in {"GOT", "LEASED"}
                \/ nic[v][i].stage = "RELEASE" /\ state[v] # "ROLLBACK"
OwnersHaveLeases == \A v \in VM, i \in Nic : Owning(v, i) =>
  /\ nic[v][i].net \in networks /\ nic[v][i].ip \in Address
  /\ leases[nic[v][i].net][nic[v][i].ip] = v
  /\ \A j \in Nic \ {i} : Owning(v, j) =>
       nic[v][i].net # nic[v][j].net \/ nic[v][i].ip # nic[v][j].ip

StagesOfStates == \A v \in VM, i \in Nic :
  /\ state[v] = "NONE" => nic[v][i].stage = "NONE"
  /\ state[v] = "INSERTING" => nic[v][i].stage \in {"NONE", "WANTED", "LEASED"}
  /\ state[v] \in {"ROLLBACK", "DONE"} => nic[v][i].stage \in {"NONE", "RELEASE"}

IInv == TypeOK /\ OwnersHaveLeases /\ StagesOfStates /\ LeasesHaveNics /\ TotalLeases

-----------------------------------------------------------------------------
(* Counting *)

(* A set of addresses is finite and its size is a number.                  *)
LEMMA AddressSets ==
  ASSUME NEW S \in SUBSET Address
  PROVE  IsFiniteSet(S) /\ Cardinality(S) \in Nat
<1>1. IsFiniteSet(Address)
  BY FS_Interval, LeasesAssumption DEF Address
<1>2. QED BY <1>1, FS_Subset, FS_CardinalityType

(* A set of addresses that is not empty has a first one.                   *)
LEMMA FirstAddress ==
  ASSUME NEW S \in SUBSET Address, S # {}
  PROVE  \E b \in S : \A c \in S : b <= c
<1> DEFINE Less == {p \in Nat \X Nat : p[1] < p[2]}
<1>1. S \subseteq Nat
  BY LeasesAssumption DEF Address
<1>2. IsWellFoundedOn(Less, Nat)
  BY NatLessThanWellFounded DEF OpToRel
<1> HIDE DEF Less
<1>3. PICK b \in S : \A c \in S : <<c, b>> \notin Less
  BY <1>1, <1>2, WFMin
<1>4. \A c \in S : ~ c < b
  BY <1>1, <1>3 DEF Less
<1>5. QED BY <1>1, <1>4

(* What changing the lease of one address does to the set of those in use. *)
LEMMA UsedOfOne ==
  ASSUME NEW n \in Net, NEW a \in Address, UNCHANGED type,
         \A m \in Net, b \in Address :
           m # n \/ b # a => leases'[m][b] = leases[m][b]
  PROVE  /\ \A m \in Net \ {n} : Used(m)' = Used(m)
         /\ leases'[n][a] \notin {Absent, Free} => Used(n)' = Used(n) \cup {a}
         /\ leases'[n][a] \in {Absent, Free} => Used(n)' = Used(n) \ {a}
BY DEF Used, Address

-----------------------------------------------------------------------------
(* What the helpers of the actions change *)

LEMMA SetNicSets ==
  ASSUME TypeOK, NEW v \in VM, NEW i \in Nic, NEW x \in NicRecord, SetNic(v, i, x)
  PROVE  /\ nic' \in [VM -> [Nic -> NicRecord]]
         /\ nic'[v][i] = x
         /\ \A w \in VM, j \in Nic : w # v \/ j # i => nic'[w][j] = nic[w][j]
BY DEF TypeOK, SetNic

States == {"NONE", "INSERTING", "ROLLBACK", "RUNNING", "HOTPLUG", "DONE"}

LEMMA SetStateSets ==
  ASSUME TypeOK, NEW v \in VM, NEW s \in States, SetState(v, s)
  PROVE  /\ state' \in [VM -> States]
         /\ state'[v] = s
         /\ \A w \in VM \ {v} : state'[w] = state[w]
BY DEF TypeOK, SetState, States

LEMMA ReleaseAllSets ==
  ASSUME TypeOK, NEW v \in VM, NEW ss \in SUBSET Stage, ReleaseAll(v, ss)
  PROVE  /\ nic' \in [VM -> [Nic -> NicRecord]]
         /\ \A w \in VM \ {v}, j \in Nic : nic'[w][j] = nic[w][j]
         /\ \A j \in Nic :
              /\ nic'[v][j].net = nic[v][j].net /\ nic'[v][j].ip = nic[v][j].ip
              /\ nic'[v][j].stage = IF nic[v][j].stage \in ss THEN "RELEASE" ELSE nic[v][j].stage
<1>1. nic' = [nic EXCEPT ![v] = [i \in Nic |-> IF nic[v][i].stage \in ss
                       THEN [nic[v][i] EXCEPT !.stage = "RELEASE"] ELSE nic[v][i]]]
  BY DEF ReleaseAll
<1>2. \A j \in Nic : nic[v][j] \in NicRecord
  BY DEF TypeOK
<1>3. \A j \in Nic : [nic[v][j] EXCEPT !.stage = "RELEASE"] \in NicRecord
  BY <1>2 DEF NicRecord, Stage
<1>4. \A j \in Nic : nic'[v][j] = IF nic[v][j].stage \in ss
                       THEN [nic[v][j] EXCEPT !.stage = "RELEASE"] ELSE nic[v][j]
  BY <1>1 DEF TypeOK
<1>5. \A w \in VM \ {v}, j \in Nic : nic'[w][j] = nic[w][j]
  BY <1>1 DEF TypeOK
<1>6. nic' \in [VM -> [Nic -> NicRecord]]
  BY <1>1, <1>2, <1>3 DEF TypeOK
<1>7. QED BY <1>2, <1>4, <1>5, <1>6 DEF NicRecord

(* A lease that is granted was free, and its network has one more in use.  *)
LEMMA UnusedIsFree ==
  ASSUME TypeOK, NEW n \in Net, NEW a \in Unused(n)
  PROVE  a \in Address /\ leases[n][a] \in {Absent, Free}
BY DEF Unused, Used, Present

LEMMA GrantSets ==
  ASSUME TypeOK, TotalLeases, NEW n \in Net, NEW a \in Unused(n), NEW owner \in {Held} \cup VM,
         Lease(n, a, owner)
  PROVE  /\ leases' \in [Net -> [Address -> {Absent, Free, Held} \cup VM]]
         /\ n_used' \in [Net -> Int]
         /\ leases'[n][a] = owner
         /\ \A m \in Net, b \in Address : m # n \/ b # a => leases'[m][b] = leases[m][b]
         /\ TotalLeases'
<1>1. a \in Address /\ leases[n][a] \in {Absent, Free} /\ a \notin Used(n)
  BY UnusedIsFree DEF Unused
<1>2. /\ leases' \in [Net -> [Address -> {Absent, Free, Held} \cup VM]]
      /\ n_used' \in [Net -> Int]
      /\ leases'[n][a] = owner
      /\ \A m \in Net, b \in Address : m # n \/ b # a => leases'[m][b] = leases[m][b]
  BY <1>1 DEF TypeOK, Lease
<1>3. owner \notin {Absent, Free}
  BY LeasesAssumption
<1>4. (\A m \in Net \ {n} : Used(m)' = Used(m)) /\ Used(n)' = Used(n) \cup {a}
  BY <1>1, <1>2, <1>3, UsedOfOne DEF Lease
<1>5. Cardinality(Used(n)') = Cardinality(Used(n)) + 1
  <2>1. IsFiniteSet(Used(n))
    BY AddressSets DEF Used
  <2>2. QED BY <1>1, <1>4, <2>1, FS_AddElement
<1>6. n_used'[n] = n_used[n] + 1 /\ \A m \in Net \ {n} : n_used'[m] = n_used[m]
  BY DEF TypeOK, Lease
<1>7. TotalLeases'
  BY <1>4, <1>5, <1>6 DEF TotalLeases
<1>8. QED BY <1>2, <1>7

(* One that is given back leaves it.                                       *)
LEMMA ReleaseSets ==
  ASSUME TypeOK, TotalLeases, NEW n \in Net, NEW a \in Address, leases[n][a] \in {Held} \cup VM,
         release(n, a)
  PROVE  /\ leases' \in [Net -> [Address -> {Absent, Free, Held} \cup VM]]
         /\ n_used' \in [Net -> Int]
         /\ leases'[n][a] \in {Absent, Free}
         /\ \A m \in Net, b \in Address : m # n \/ b # a => leases'[m][b] = leases[m][b]
         /\ TotalLeases'
<1>1. a \in Used(n)
  BY LeasesAssumption DEF Used
<1>2. Released(n) \in {Absent, Free}
  BY DEF Released
<1>3. /\ leases' \in [Net -> [Address -> {Absent, Free, Held} \cup VM]]
      /\ n_used' \in [Net -> Int]
      /\ leases'[n][a] = Released(n)
      /\ \A m \in Net, b \in Address : m # n \/ b # a => leases'[m][b] = leases[m][b]
  BY <1>2 DEF TypeOK, release
<1>4. (\A m \in Net \ {n} : Used(m)' = Used(m)) /\ Used(n)' = Used(n) \ {a}
  BY <1>2, <1>3, UsedOfOne DEF release
<1>5. Cardinality(Used(n)') = Cardinality(Used(n)) - 1
  <2>1. IsFiniteSet(Used(n))
    BY AddressSets DEF Used
  <2>2. QED BY <1>1, <1>4, <2>1, FS_RemoveElement
<1>6. n_used'[n] = n_used[n] - 1 /\ \A m \in Net \ {n} : n_used'[m] = n_used[m]
  BY DEF TypeOK, release
<1>7. TotalLeases'
  BY <1>4, <1>5, <1>6 DEF TotalLeases
<1>8. QED BY <1>2, <1>3, <1>7

-----------------------------------------------------------------------------
(* Requests on networks *)

(* The owners do not mind a step that keeps the leases of VMs.             *)
LEMMA VmsKeepLeases ==
  ASSUME IInv, UNCHANGED vm_vars,
         \A m \in networks, b \in Address : leases[m][b] \in VM =>
           m \in networks' /\ leases'[m][b] = leases[m][b],
         \A m \in networks', b \in Address : leases'[m][b] \in VM =>
           m \in networks /\ leases[m][b] = leases'[m][b]
  PROVE  OwnersHaveLeases' /\ StagesOfStates' /\ LeasesHaveNics'
<1>1. nic' = nic /\ state' = state
  BY DEF vm_vars
<1>2. OwnersHaveLeases'
  BY <1>1 DEF IInv, OwnersHaveLeases, Owning
<1>3. StagesOfStates'
  BY <1>1 DEF IInv, StagesOfStates
<1>4. LeasesHaveNics'
  BY <1>1 DEF IInv, LeasesHaveNics
<1>5. QED BY <1>2, <1>3, <1>4

LEMMA CardinalityPresent ==
  ASSUME NEW n \in Net
  PROVE  Cardinality(Present(n)) \in Nat /\ Cardinality(Used(n)) \in Nat
BY AddressSets DEF Present, Used

LEMMA AddOrRemoveKeeps ==
  ASSUME IInv, NEW n \in Net, NEW a \in Address, add_leases(n, a) \/ remove_leases(n, a)
  PROVE  IInv'
<1>1. /\ leases[n][a] \in {Absent, Free} /\ leases'[n][a] \in {Absent, Free}
      /\ leases' \in [Net -> [Address -> {Absent, Free, Held} \cup VM]]
      /\ \A m \in Net, b \in Address : m # n \/ b # a => leases'[m][b] = leases[m][b]
  <2>1. leases[n][a] \in {Absent, Free}
    BY DEF add_leases, remove_leases
  <2>2. PICK x \in {Absent, Free} : leases' = [leases EXCEPT ![n][a] = x]
    BY DEF add_leases, remove_leases
  <2>3. QED BY <2>1, <2>2 DEF IInv, TypeOK
<1>2. UNCHANGED <<networks, type, n_used, current, vm_vars>>
  BY DEF add_leases, remove_leases
<1>3. size' \in [Net -> Int]
  BY CardinalityPresent DEF IInv, TypeOK, add_leases, remove_leases
<1>4. TypeOK'
  BY <1>1, <1>2, <1>3 DEF IInv, TypeOK, vm_vars, Fixed
<1>5. TotalLeases'
  <2>1. Used(n)' = Used(n) \ {a} /\ (\A m \in Net \ {n} : Used(m)' = Used(m))
    BY <1>1, <1>2, UsedOfOne
  <2>2. a \notin Used(n)
    BY <1>1 DEF Used
  <2>3. QED BY <1>2, <2>1, <2>2 DEF IInv, TotalLeases
<1>6. OwnersHaveLeases' /\ StagesOfStates' /\ LeasesHaveNics'
  <2>1. leases[n][a] \notin VM /\ leases'[n][a] \notin VM
    BY <1>1, LeasesAssumption
  <2>2. networks \subseteq Net
    BY DEF IInv, TypeOK
  <2>3. QED BY <1>1, <1>2, <2>1, <2>2, VmsKeepLeases
<1>7. QED BY <1>4, <1>5, <1>6 DEF IInv

LEMMA HoldKeeps ==
  ASSUME IInv, NEW n \in Net, NEW a \in Address, hold_leases(n, a)
  PROVE  IInv'
<1>1. /\ n \in networks /\ a \in Unused(n) /\ Lease(n, a, Held) /\ UNCHANGED <<current, vm_vars>>
      /\ UNCHANGED <<networks, type, size>>
  BY DEF hold_leases, set, Lease
<1>2. /\ leases' \in [Net -> [Address -> {Absent, Free, Held} \cup VM]]
      /\ n_used' \in [Net -> Int]
      /\ leases'[n][a] = Held
      /\ \A m \in Net, b \in Address : m # n \/ b # a => leases'[m][b] = leases[m][b]
      /\ TotalLeases'
  BY <1>1, GrantSets DEF IInv
<1>3. TypeOK'
  BY <1>1, <1>2 DEF IInv, TypeOK, vm_vars, Fixed
<1>4. leases[n][a] \notin VM /\ leases'[n][a] \notin VM
  BY <1>1, <1>2, UnusedIsFree, LeasesAssumption DEF IInv
<1>5. OwnersHaveLeases' /\ StagesOfStates' /\ LeasesHaveNics'
  BY <1>1, <1>2, <1>4, VmsKeepLeases DEF IInv, TypeOK
<1>6. QED BY <1>2, <1>3, <1>5 DEF IInv

LEMMA FreeKeeps ==
  ASSUME IInv, NEW n \in Net, NEW a \in Address, free_leases(n, a)
  PROVE  IInv'
<1>1. /\ n \in networks /\ leases[n][a] = Held /\ release(n, a)
      /\ UNCHANGED <<networks, type, size, current, vm_vars>>
  BY DEF free_leases, release
<1>2. /\ leases' \in [Net -> [Address -> {Absent, Free, Held} \cup VM]]
      /\ n_used' \in [Net -> Int]
      /\ leases'[n][a] \in {Absent, Free}
      /\ \A m \in Net, b \in Address : m # n \/ b # a => leases'[m][b] = leases[m][b]
      /\ TotalLeases'
  BY <1>1, ReleaseSets DEF IInv
<1>3. TypeOK'
  BY <1>1, <1>2 DEF IInv, TypeOK, vm_vars, Fixed
<1>4. leases[n][a] \notin VM /\ leases'[n][a] \notin VM
  BY <1>1, <1>2, LeasesAssumption
<1>5. OwnersHaveLeases' /\ StagesOfStates' /\ LeasesHaveNics'
  BY <1>1, <1>2, <1>4, VmsKeepLeases DEF IInv, TypeOK
<1>6. QED BY <1>2, <1>3, <1>5 DEF IInv

LEMMA DeleteKeeps ==
  ASSUME IInv, Careful, NEW n \in Net, vnet_delete(n)
  PROVE  IInv'
<1>1. /\ Used(n) = {} /\ networks' = networks \ {n}
      /\ leases' = [leases EXCEPT ![n] = [a \in Address |-> Absent]]
      /\ n_used' = [n_used EXCEPT ![n] = 0]
      /\ UNCHANGED <<type, size, current, vm_vars>>
  BY DEF vnet_delete, Careful
<1>2. /\ \A b \in Address : leases[n][b] \in {Absent, Free} /\ leases'[n][b] = Absent
      /\ \A m \in Net \ {n} : leases'[m] = leases[m]
  BY <1>1 DEF IInv, TypeOK, Used
<1>3. TypeOK'
  BY <1>1 DEF IInv, TypeOK, vm_vars, Fixed
<1>4. TotalLeases'
  <2>1. Used(n)' = {} /\ (\A m \in Net \ {n} : Used(m)' = Used(m))
    BY <1>2 DEF Used, Address
  <2>2. Cardinality(Used(n)') = 0
    BY <2>1, FS_EmptySet
  <2>3. n_used'[n] = 0 /\ \A m \in Net \ {n} : n_used'[m] = n_used[m]
    BY <1>1 DEF IInv, TypeOK
  <2>4. QED BY <2>1, <2>2, <2>3 DEF IInv, TotalLeases
<1>5. OwnersHaveLeases' /\ StagesOfStates' /\ LeasesHaveNics'
  <2>1. \A b \in Address : leases[n][b] \notin VM /\ leases'[n][b] \notin VM
    BY <1>2, LeasesAssumption
  <2>2. networks \subseteq Net
    BY DEF IInv, TypeOK
  <2>3. QED BY <1>1, <1>2, <2>1, <2>2, VmsKeepLeases
<1>6. QED BY <1>3, <1>4, <1>5 DEF IInv

LEMMA SelectKeeps ==
  ASSUME IInv, NEW n \in Net, select(n)
  PROVE  IInv'
<1>1. Cardinality(Used(n)) \in Int /\ Cardinality(Present(n)) \in Int /\ Size \in Int /\ Size > 0
  BY CardinalityPresent, LeasesAssumption
<1>2. UNCHANGED <<networks, type, leases, vm_vars>>
  BY DEF select
<1>3. TypeOK'
  <2>1. size' \in [Net -> Int] /\ n_used' \in [Net -> Int]
    BY <1>1 DEF IInv, TypeOK, select
  <2>2. current' \in [Net -> 0..Size] /\ \A m \in Net : ~Fixed(m) => current'[m] # End
    BY <1>1 DEF IInv, TypeOK, select, End
  <2>3. QED BY <1>2, <2>1, <2>2 DEF IInv, TypeOK, vm_vars, Fixed, End
<1>4. TotalLeases'
  BY <1>2 DEF IInv, TypeOK, TotalLeases, select, Used
<1>5. OwnersHaveLeases' /\ StagesOfStates' /\ LeasesHaveNics'
  BY <1>2, VmsKeepLeases
<1>6. QED BY <1>3, <1>4, <1>5 DEF IInv

-----------------------------------------------------------------------------
(* Steps of a VM that leave the networks alone *)

(* The NICs whose lease is in the template or will be given back.          *)
Accounted(v, i) == \/ nic[v][i].stage = "RELEASE"
                   \/ nic[v][i].stage \in {"GOT", "LEASED"} /\ state[v] # "DONE"

LEMMA VmStepKeeps ==
  ASSUME IInv, NEW v \in VM, UNCHANGED net_vars,
         nic' \in [VM -> [Nic -> NicRecord]], state' \in [VM -> States],
         \A w \in VM \ {v} : state'[w] = state[w] /\ \A j \in Nic : nic'[w][j] = nic[w][j],
         \A j \in Nic : Owning(v, j)' =>
           Owning(v, j) /\ nic'[v][j].net = nic[v][j].net /\ nic'[v][j].ip = nic[v][j].ip,
         \A j \in Nic : Accounted(v, j) =>
           Accounted(v, j)' /\ nic'[v][j].net = nic[v][j].net /\ nic'[v][j].ip = nic[v][j].ip,
         \A j \in Nic :
           /\ state'[v] = "NONE" => nic'[v][j].stage = "NONE"
           /\ state'[v] = "INSERTING" => nic'[v][j].stage \in {"NONE", "WANTED", "LEASED"}
           /\ state'[v] \in {"ROLLBACK", "DONE"} => nic'[v][j].stage \in {"NONE", "RELEASE"}
  PROVE  IInv'
<1>1. networks' = networks /\ type' = type /\ leases' = leases /\ n_used' = n_used
      /\ size' = size /\ current' = current
  BY DEF net_vars
<1>2. TypeOK'
  BY <1>1 DEF IInv, TypeOK, Fixed, States
<1>3. OwnersHaveLeases'
  <2>1. \A w \in VM, j \in Nic : Owning(w, j)' =>
          Owning(w, j) /\ nic'[w][j].net = nic[w][j].net /\ nic'[w][j].ip = nic[w][j].ip
    BY DEF Owning
  <2>2. QED BY <1>1, <2>1 DEF IInv, OwnersHaveLeases
<1>4. StagesOfStates'
  BY DEF IInv, StagesOfStates
<1>5. LeasesHaveNics'
  <2>1. \A w \in VM, j \in Nic : Accounted(w, j) =>
          Accounted(w, j)' /\ nic'[w][j].net = nic[w][j].net /\ nic'[w][j].ip = nic[w][j].ip
    BY DEF Accounted
  <2>2. QED BY <1>1, <2>1 DEF IInv, LeasesHaveNics, Accounted
<1>6. TotalLeases'
  <2>1. \A m \in Net : Used(m)' = Used(m)
    BY <1>1 DEF Used
  <2>2. QED BY <1>1, <2>1 DEF IInv, TotalLeases
<1>7. QED BY <1>2, <1>3, <1>4, <1>5, <1>6 DEF IInv

LEMMA AllocateKeeps ==
  ASSUME IInv, NEW v \in VM, vm_allocate(v)
  PROVE  IInv'
<1>1. PICK num \in 0..MaxNics, n \in [Nic -> networks], ip \in [Nic -> Address \cup {AnyIp}] :
        nic' = [nic EXCEPT ![v] = [i \in Nic |-> IF i <= num THEN Wanted(n[i], ip[i]) ELSE NoNic]]
  BY DEF vm_allocate
<1>2. networks \subseteq Net
  BY DEF IInv, TypeOK
<1>3. \A i \in Nic : /\ Wanted(n[i], ip[i]) \in NicRecord /\ NoNic \in NicRecord
                    /\ Wanted(n[i], ip[i]).stage = "WANTED" /\ NoNic.stage = "NONE"
  BY <1>2 DEF Wanted, NoNic, NicRecord, Stage
<1>4. \A i \in Nic : nic'[v][i] \in NicRecord /\ nic'[v][i].stage \in {"NONE", "WANTED"}
  <2>1. \A i \in Nic : nic'[v][i] = IF i <= num THEN Wanted(n[i], ip[i]) ELSE NoNic
    BY <1>1 DEF IInv, TypeOK
  <2>2. QED BY <1>3, <2>1
<1>5. nic' \in [VM -> [Nic -> NicRecord]]
      /\ \A w \in VM \ {v}, j \in Nic : nic'[w][j] = nic[w][j]
  BY <1>1, <1>3 DEF IInv, TypeOK
<1>6. state' \in [VM -> States] /\ state'[v] = "INSERTING"
      /\ \A w \in VM \ {v} : state'[w] = state[w]
  BY SetStateSets DEF IInv, vm_allocate, States
<1>7. \A j \in Nic : ~Owning(v, j)' /\ ~Accounted(v, j)
  BY <1>4 DEF Owning, Accounted, IInv, StagesOfStates, vm_allocate
<1>8. QED BY <1>4, <1>5, <1>6, <1>7, VmStepKeeps DEF vm_allocate

LEMMA InsertKeeps ==
  ASSUME IInv, NEW v \in VM, insert(v)
  PROVE  IInv'
<1>1. state[v] = "INSERTING" /\ UNCHANGED net_vars
      /\ \A j \in Nic : nic[v][j].stage \in {"NONE", "LEASED"}
  BY DEF insert, IInv, StagesOfStates, Stages
<1>2. CASE SetState(v, "RUNNING") /\ UNCHANGED nic
  <2>1. state' \in [VM -> States] /\ state'[v] = "RUNNING"
        /\ \A w \in VM \ {v} : state'[w] = state[w]
    BY <1>2, SetStateSets DEF IInv, States
  <2>2. \A j \in Nic : (Owning(v, j)' => Owning(v, j)) /\ (Accounted(v, j) => Accounted(v, j)')
    BY <1>1, <1>2, <2>1 DEF Owning, Accounted
  <2>3. QED BY <1>1, <1>2, <2>1, <2>2, VmStepKeeps DEF IInv, TypeOK
<1>3. CASE SetState(v, "ROLLBACK") /\ ReleaseAll(v, {"LEASED"})
  <2>1. state' \in [VM -> States] /\ state'[v] = "ROLLBACK"
        /\ \A w \in VM \ {v} : state'[w] = state[w]
    BY <1>3, SetStateSets DEF IInv, States
  <2>2. /\ nic' \in [VM -> [Nic -> NicRecord]]
        /\ \A w \in VM \ {v}, j \in Nic : nic'[w][j] = nic[w][j]
        /\ \A j \in Nic :
             /\ nic'[v][j].net = nic[v][j].net /\ nic'[v][j].ip = nic[v][j].ip
             /\ nic'[v][j].stage = IF nic[v][j].stage \in {"LEASED"} THEN "RELEASE" ELSE nic[v][j].stage
    BY <1>3, ReleaseAllSets DEF IInv, Stage
  <2>3. \A j \in Nic : ~Owning(v, j)' /\ (Accounted(v, j) => Accounted(v, j)')
    BY <1>1, <2>1, <2>2 DEF Owning, Accounted
  <2>4. QED BY <1>1, <2>1, <2>2, <2>3, VmStepKeeps
<1>4. QED BY <1>2, <1>3 DEF insert

LEMMA InsertFailedKeeps ==
  ASSUME IInv, NEW v \in VM, insert_failed(v)
  PROVE  IInv'
<1>1. \A j \in Nic : nic[v][j].stage = "NONE"
  BY DEF insert_failed, Stages
<1>2. state' \in [VM -> States] /\ state'[v] = "NONE"
      /\ \A w \in VM \ {v} : state'[w] = state[w]
  BY SetStateSets DEF IInv, insert_failed, States
<1>3. \A j \in Nic : ~Owning(v, j)' /\ ~Accounted(v, j)
  BY <1>1 DEF insert_failed, Owning, Accounted
<1>4. QED BY <1>1, <1>2, <1>3, VmStepKeeps DEF insert_failed, IInv, TypeOK

(* A step that changes one NIC of a VM, and perhaps its state.             *)
LEMMA OneNicKeeps ==
  ASSUME IInv, NEW v \in VM, NEW i \in Nic, NEW x \in NicRecord, NEW s \in States,
         SetNic(v, i, x), SetState(v, s), UNCHANGED net_vars,
         state[v] \in {"RUNNING", "HOTPLUG", "DONE"}, s \in {"RUNNING", "HOTPLUG", "DONE"},
         s = "DONE" <=> state[v] = "DONE",
         s = "DONE" => x.stage \in {"NONE", "RELEASE"},
         \/ nic[v][i].stage \in {"NONE", "WANTED", "REFUSED"} /\ x.stage \in {"NONE", "WANTED", "REFUSED"}
         \/ /\ nic[v][i].stage \in {"GOT", "LEASED"} /\ x.stage \in {"LEASED", "RELEASE"}
            /\ x.net = nic[v][i].net /\ x.ip = nic[v][i].ip
  PROVE  IInv'
<1>1. state' \in [VM -> States] /\ state'[v] = s
      /\ \A w \in VM \ {v} : state'[w] = state[w]
  BY SetStateSets DEF IInv, TypeOK, States
<1>2. /\ nic' \in [VM -> [Nic -> NicRecord]]
      /\ nic'[v][i] = x
      /\ \A w \in VM, j \in Nic : w # v \/ j # i => nic'[w][j] = nic[w][j]
  BY SetNicSets DEF IInv
<1>3. \A j \in Nic : Owning(v, j)' =>
        Owning(v, j) /\ nic'[v][j].net = nic[v][j].net /\ nic'[v][j].ip = nic[v][j].ip
  BY <1>1, <1>2 DEF Owning
<1>4. \A j \in Nic : Accounted(v, j) =>
        Accounted(v, j)' /\ nic'[v][j].net = nic[v][j].net /\ nic'[v][j].ip = nic[v][j].ip
  BY <1>1, <1>2 DEF Accounted
<1>5. \A j \in Nic : s = "DONE" => nic'[v][j].stage \in {"NONE", "RELEASE"}
  BY <1>2 DEF IInv, StagesOfStates
<1>6. QED BY <1>1, <1>2, <1>3, <1>4, <1>5, VmStepKeeps

LEMMA AttachKeeps ==
  ASSUME IInv, NEW v \in VM, NEW i \in Nic, attach_nic(v, i)
  PROVE  IInv'
<1>1. PICK n \in Net, ip \in Address \cup {AnyIp} : SetNic(v, i, Wanted(n, ip))
  BY DEF attach_nic
<1>2. Wanted(n, ip) \in NicRecord /\ Wanted(n, ip).stage = "WANTED"
  BY DEF Wanted, NicRecord, Stage
<1>3. QED BY <1>1, <1>2, OneNicKeeps DEF attach_nic, States

LEMMA SetAttachKeeps ==
  ASSUME IInv, NEW v \in VM, NEW i \in Nic, set_attach_nic(v, i)
  PROVE  IInv'
<1>1. nic[v][i] \in NicRecord /\ state[v] \in States /\ UNCHANGED net_vars
  BY DEF IInv, TypeOK, States, set_attach_nic
<1>2. nic[v][i].stage \in {"GOT", "REFUSED"} /\ state[v] \in {"RUNNING", "HOTPLUG"}
  BY <1>1 DEF set_attach_nic, IInv, StagesOfStates, States
<1>3. CASE nic[v][i].stage = "GOT"
  <2> DEFINE x == [nic[v][i] EXCEPT !.stage = "LEASED", !.attach = TRUE]
  <2>1. x \in NicRecord /\ x.stage = "LEASED" /\ x.net = nic[v][i].net /\ x.ip = nic[v][i].ip
    BY <1>1 DEF NicRecord, Stage
  <2>2. SetNic(v, i, x) /\ SetState(v, state[v])
    BY <1>3 DEF set_attach_nic, SetState, IInv, TypeOK
  <2> HIDE DEF x
  <2>3. QED BY <1>1, <1>2, <1>3, <2>1, <2>2, OneNicKeeps
<1>4. CASE nic[v][i].stage = "REFUSED"
  <2>1. NoNic \in NicRecord /\ NoNic.stage = "NONE"
    BY DEF NoNic, NicRecord, Stage
  <2>2. SetNic(v, i, NoNic) /\ SetState(v, "RUNNING")
    BY <1>2, <1>4 DEF set_attach_nic
  <2>3. QED BY <1>1, <1>2, <1>4, <2>1, <2>2, OneNicKeeps DEF States
<1>5. QED BY <1>2, <1>3, <1>4

LEMMA DetachKeeps ==
  ASSUME IInv, NEW v \in VM, NEW i \in Nic, detach_nic(v, i)
  PROVE  IInv'
<1> DEFINE x == [nic[v][i] EXCEPT !.attach = TRUE]
<1>1. nic[v][i].stage = "LEASED" /\ nic[v][i] \in NicRecord
  BY DEF IInv, TypeOK, detach_nic
<1>2. x \in NicRecord /\ x.stage = "LEASED" /\ x.net = nic[v][i].net /\ x.ip = nic[v][i].ip
  BY <1>1 DEF NicRecord
<1>3. SetNic(v, i, x)
  BY DEF detach_nic
<1> HIDE DEF x
<1>4. QED BY <1>1, <1>2, <1>3, OneNicKeeps DEF detach_nic, States

(* The end of a hotplug request leaves the marked NIC or takes it out.     *)
LEMMA HotplugEndKeeps ==
  ASSUME IInv, NEW v \in VM, attach_nic_success(v) \/ attach_nic_failure(v)
  PROVE  IInv'
<1>1. state[v] = "HOTPLUG" /\ SetState(v, "RUNNING") /\ UNCHANGED net_vars
  BY DEF attach_nic_success, attach_nic_failure
<1>2. CASE UNCHANGED nic
  <2>1. state' \in [VM -> States] /\ state'[v] = "RUNNING"
        /\ \A w \in VM \ {v} : state'[w] = state[w]
    BY <1>1, SetStateSets DEF IInv, States
  <2>2. \A j \in Nic : (Owning(v, j)' => Owning(v, j)) /\ (Accounted(v, j) => Accounted(v, j)')
    BY <1>1, <1>2, <2>1 DEF Owning, Accounted
  <2>3. QED BY <1>1, <1>2, <2>1, <2>2, VmStepKeeps DEF IInv, TypeOK
<1>3. CASE \E i \in Marked(v) : SetNic(v, i, [nic[v][i] EXCEPT !.attach = FALSE])
  <2>1. PICK i \in Marked(v) : SetNic(v, i, [nic[v][i] EXCEPT !.attach = FALSE])
    BY <1>3
  <2> DEFINE x == [nic[v][i] EXCEPT !.attach = FALSE]
  <2>2. i \in Nic /\ nic[v][i].stage = "LEASED" /\ nic[v][i] \in NicRecord
    BY DEF IInv, TypeOK, Marked
  <2>3. x \in NicRecord /\ x.stage = "LEASED" /\ x.net = nic[v][i].net /\ x.ip = nic[v][i].ip
    BY <2>2 DEF NicRecord
  <2>4. SetNic(v, i, x)
    BY <2>1
  <2> HIDE DEF x
  <2>5. QED BY <1>1, <2>2, <2>3, <2>4, OneNicKeeps DEF States
<1>4. CASE \E i \in Marked(v) : SetNic(v, i, [nic[v][i] EXCEPT !.stage = "RELEASE"])
  <2>1. PICK i \in Marked(v) : SetNic(v, i, [nic[v][i] EXCEPT !.stage = "RELEASE"])
    BY <1>4
  <2> DEFINE x == [nic[v][i] EXCEPT !.stage = "RELEASE"]
  <2>2. i \in Nic /\ nic[v][i].stage = "LEASED" /\ nic[v][i] \in NicRecord
    BY DEF IInv, TypeOK, Marked
  <2>3. x \in NicRecord /\ x.stage = "RELEASE" /\ x.net = nic[v][i].net /\ x.ip = nic[v][i].ip
    BY <2>2 DEF NicRecord, Stage
  <2>4. SetNic(v, i, x)
    BY <2>1
  <2> HIDE DEF x
  <2>5. QED BY <1>1, <2>2, <2>3, <2>4, OneNicKeeps DEF States
<1>5. QED BY <1>2, <1>3, <1>4 DEF attach_nic_success, attach_nic_failure

(* A VM that ends gives every lease back; Careful users end it when no     *)
(* lease of it is out of its template.                                     *)
LEMMA DoneKeeps ==
  ASSUME IInv, Careful, NEW v \in VM, done_action(v)
  PROVE  IInv'
<1>1. \A j \in Nic : nic[v][j].stage \in {"NONE", "LEASED", "RELEASE"}
  <2>1. \A j \in Nic : nic[v][j].stage \notin {"WANTED", "GOT", "REFUSED"}
    BY DEF done_action, Careful, Stages
  <2>2. QED BY <2>1 DEF IInv, TypeOK, NicRecord, Stage
<1>2. state[v] \in {"RUNNING", "HOTPLUG"} /\ state' \in [VM -> States] /\ state'[v] = "DONE"
      /\ \A w \in VM \ {v} : state'[w] = state[w]
  BY SetStateSets DEF IInv, States, done_action
<1>3. /\ nic' \in [VM -> [Nic -> NicRecord]]
      /\ \A w \in VM \ {v}, j \in Nic : nic'[w][j] = nic[w][j]
      /\ \A j \in Nic :
           /\ nic'[v][j].net = nic[v][j].net /\ nic'[v][j].ip = nic[v][j].ip
           /\ nic'[v][j].stage = IF nic[v][j].stage \in {"LEASED"} THEN "RELEASE" ELSE nic[v][j].stage
  BY ReleaseAllSets DEF IInv, Stage, done_action
<1>4. \A j \in Nic : (Owning(v, j)' => Owning(v, j)) /\ (Accounted(v, j) => Accounted(v, j)')
  BY <1>1, <1>2, <1>3 DEF Owning, Accounted
<1>5. \A j \in Nic : nic'[v][j].stage \in {"NONE", "RELEASE"}
  BY <1>1, <1>3
<1>6. QED BY <1>2, <1>3, <1>4, <1>5, VmStepKeeps DEF done_action

-----------------------------------------------------------------------------
(* Steps of a VM and a network *)

(* The cursor stays at an address or at the end.                           *)
LEMMA MovedInside ==
  ASSUME TypeOK, NEW n \in Net, NEW a \in Address
  PROVE  Moved(n, a) \in 0..Size /\ (~Fixed(n) => Moved(n, a) # End)
<1>1. Size \in Nat /\ Address = 0..(Size - 1) /\ End = Size
  BY LeasesAssumption DEF Address, End
<1>2. CASE ~Fixed(n)
  BY <1>1, <1>2 DEF Moved
<1>3. CASE Fixed(n) /\ After(n, a) = {}
  BY <1>1, <1>3 DEF Moved
<1>4. CASE Fixed(n) /\ After(n, a) # {}
  <2>1. After(n, a) \in SUBSET Address
    BY DEF After, Present
  <2>2. \E b \in After(n, a) : \A c \in After(n, a) : b <= c
    BY <1>4, <2>1, FirstAddress
  <2>3. Moved(n, a) \in After(n, a)
    BY <1>4, <2>2 DEF Moved
  <2>4. QED BY <1>1, <1>4, <2>1, <2>3
<1>5. QED BY <1>2, <1>3, <1>4

LEMMA GrantTypes ==
  ASSUME IInv, NEW n \in Net, NEW ip, NEW v \in VM, NEW a \in Address, Grants(n, ip, v, a)
  PROVE  /\ n \in networks /\ a \in Unused(n) /\ Lease(n, a, v)
         /\ current' \in [Net -> 0..Size]
         /\ \A m \in Net : ~Fixed(m) => current'[m] # End
<1>1. n \in networks /\ a \in Unused(n) /\ Lease(n, a, v)
  BY DEF Grants, get, set, Found
<1>2. current' = [current EXCEPT ![n] = Moved(n, a)] \/ current' = current
  BY DEF Grants, get, set
<1>3. Moved(n, a) \in 0..Size /\ (~Fixed(n) => Moved(n, a) # End)
  BY MovedInside DEF IInv
<1>4. QED BY <1>1, <1>2, <1>3 DEF IInv, TypeOK

(* A lease that was free gets an owner, and only one.                      *)
LEMMA GrantKeeps ==
  ASSUME IInv, NEW v \in VM, NEW i \in Nic, nic[v][i].stage = "WANTED",
         NEW a \in Address, NEW s \in {"GOT", "LEASED"},
         Grants(nic[v][i].net, nic[v][i].ip, v, a),
         SetNic(v, i, [nic[v][i] EXCEPT !.stage = s, !.ip = a]), UNCHANGED state,
         state[v] = "INSERTING" => s = "LEASED", nic[v][i].net \in Net
  PROVE  IInv'
<1> DEFINE n == nic[v][i].net
           x == [nic[v][i] EXCEPT !.stage = s, !.ip = a]
<1>1. /\ n \in Net /\ n \in networks /\ a \in Unused(n) /\ Lease(n, a, v)
      /\ current' \in [Net -> 0..Size]
      /\ \A m \in Net : ~Fixed(m) => current'[m] # End
  BY GrantTypes
<1>2. x \in NicRecord /\ x.stage = s /\ x.net = n /\ x.ip = a
  <2>1. nic[v][i] \in NicRecord
    BY DEF IInv, TypeOK
  <2>2. QED BY <2>1 DEF NicRecord, Stage
<1> HIDE DEF n, x
<1>3. SetNic(v, i, x)
  BY DEF n, x
<1>4. /\ leases' \in [Net -> [Address -> {Absent, Free, Held} \cup VM]]
      /\ n_used' \in [Net -> Int]
      /\ leases'[n][a] = v
      /\ \A m \in Net, b \in Address : m # n \/ b # a => leases'[m][b] = leases[m][b]
      /\ TotalLeases'
  BY <1>1, GrantSets DEF IInv
<1>5. leases[n][a] \notin VM
  BY <1>1, UnusedIsFree, LeasesAssumption DEF IInv
<1>6. /\ nic' \in [VM -> [Nic -> NicRecord]]
      /\ nic'[v][i] = x
      /\ \A w \in VM, j \in Nic : w # v \/ j # i => nic'[w][j] = nic[w][j]
  BY <1>2, <1>3, SetNicSets DEF IInv
<1>7. networks' = networks /\ networks \subseteq Net /\ type' = type /\ size' = size /\ state' = state
  BY <1>1 DEF Lease, IInv, TypeOK
<1>8. TypeOK'
  BY <1>1, <1>4, <1>6, <1>7 DEF IInv, TypeOK, Fixed
<1>9. state[v] \notin {"NONE", "ROLLBACK", "DONE"}
  BY DEF IInv, StagesOfStates
<1>10. OwnersHaveLeases'
  <2>1. \A w \in VM, j \in Nic : w # v \/ j # i => (Owning(w, j)' <=> Owning(w, j))
    BY <1>6, <1>7 DEF Owning
  <2>2. \A w \in VM, j \in Nic : (w # v \/ j # i) /\ Owning(w, j) =>
          /\ nic[w][j].net \in networks /\ nic[w][j].ip \in Address
          /\ nic[w][j].net # n \/ nic[w][j].ip # a
          /\ leases'[nic[w][j].net][nic[w][j].ip] = w
    BY <1>4, <1>5, <1>7 DEF IInv, OwnersHaveLeases
  <2>3. ASSUME NEW w \in VM, NEW j \in Nic, Owning(w, j)'
        PROVE  /\ nic'[w][j].net \in networks' /\ nic'[w][j].ip \in Address
               /\ leases'[nic'[w][j].net][nic'[w][j].ip] = w
               /\ \A k \in Nic \ {j} : Owning(w, k)' =>
                    nic'[w][j].net # nic'[w][k].net \/ nic'[w][j].ip # nic'[w][k].ip
    <3>1. CASE w = v /\ j = i
      <4>1. nic'[w][j].net = n /\ nic'[w][j].ip = a
        BY <1>2, <1>6, <3>1
      <4>2. \A k \in Nic \ {j} : Owning(w, k)' => nic'[w][k].net # n \/ nic'[w][k].ip # a
        BY <1>6, <2>1, <2>2, <3>1
      <4>3. QED BY <1>1, <1>4, <1>7, <3>1, <4>1, <4>2
    <3>2. CASE w # v \/ j # i
      <4>1. Owning(w, j) /\ nic'[w][j] = nic[w][j]
        BY <1>6, <2>1, <2>3, <3>2
      <4>2. \A k \in Nic \ {j} : Owning(w, k)' =>
              nic[w][j].net # nic'[w][k].net \/ nic[w][j].ip # nic'[w][k].ip
        <5>1. TAKE k \in Nic \ {j}
        <5>2. CASE w = v /\ k = i
          BY <1>2, <1>6, <2>2, <3>2, <4>1, <5>2
        <5>3. CASE w # v \/ k # i
          BY <1>6, <2>1, <4>1, <5>3 DEF IInv, OwnersHaveLeases
        <5>4. QED BY <5>2, <5>3
      <4>3. QED BY <1>7, <2>2, <3>2, <4>1, <4>2
    <3>3. QED BY <3>1, <3>2
  <2>4. QED BY <2>3 DEF OwnersHaveLeases
<1>11. StagesOfStates'
  BY <1>2, <1>6, <1>7, <1>9 DEF IInv, StagesOfStates
<1>12. LeasesHaveNics'
  <2>1. ASSUME NEW m \in networks, NEW b \in Address, leases'[m][b] \in VM
        PROVE  \E j \in Nic : LET y == nic'[leases'[m][b]][j] IN
                 /\ y.net = m /\ y.ip = b
                 /\ \/ y.stage = "RELEASE"
                    \/ y.stage \in {"GOT", "LEASED"} /\ state'[leases'[m][b]] # "DONE"
    <3>1. CASE m = n /\ b = a
      BY <1>2, <1>4, <1>6, <1>7, <1>9, <3>1
    <3>2. CASE m # n \/ b # a
      <4> DEFINE w == leases[m][b]
      <4>1. leases'[m][b] = w /\ w \in VM
        BY <1>4, <1>7, <2>1, <3>2
      <4>2. PICK j \in Nic : /\ nic[w][j].net = m /\ nic[w][j].ip = b
                             /\ \/ nic[w][j].stage = "RELEASE"
                                \/ nic[w][j].stage \in {"GOT", "LEASED"} /\ state[w] # "DONE"
        BY <4>1 DEF IInv, LeasesHaveNics
      <4> HIDE DEF w
      <4>3. w # v \/ j # i
        BY <4>2
      <4>4. nic'[w][j] = nic[w][j]
        BY <1>6, <4>1, <4>3
      <4>5. QED BY <1>7, <4>1, <4>2, <4>4
    <3>3. QED BY <3>1, <3>2
  <2>2. QED BY <1>7, <2>1 DEF LeasesHaveNics
<1>13. QED BY <1>4, <1>8, <1>10, <1>11, <1>12 DEF IInv

(* An insertion takes a lease, or gives up those it has.                   *)
LEMMA InsertLeaseKeeps ==
  ASSUME IInv, NEW v \in VM, NEW i \in Nic, get_network_leases(v, i)
  PROVE  IInv'
<1>1. state[v] = "INSERTING" /\ nic[v][i].stage = "WANTED"
      /\ \A j \in Nic : nic[v][j].stage \in {"NONE", "WANTED", "LEASED"}
  BY DEF get_network_leases, IInv, StagesOfStates
<1>2. ASSUME NEW a \in Address, Grants(nic[v][i].net, nic[v][i].ip, v, a),
             SetNic(v, i, [nic[v][i] EXCEPT !.stage = "LEASED", !.ip = a]), UNCHANGED state
      PROVE  IInv'
  <2>1. nic[v][i].net \in Net
    BY <1>2 DEF Grants, get, set, IInv, TypeOK
  <2>2. QED BY <1>1, <1>2, <2>1, GrantKeeps
<1>3. ASSUME ReleaseAll(v, {"WANTED", "LEASED"}), SetState(v, "ROLLBACK"), UNCHANGED net_vars
      PROVE  IInv'
  <2>1. state' \in [VM -> States] /\ state'[v] = "ROLLBACK"
        /\ \A w \in VM \ {v} : state'[w] = state[w]
    BY <1>3, SetStateSets DEF IInv, States
  <2>2. /\ nic' \in [VM -> [Nic -> NicRecord]]
        /\ \A w \in VM \ {v}, j \in Nic : nic'[w][j] = nic[w][j]
        /\ \A j \in Nic :
             /\ nic'[v][j].net = nic[v][j].net /\ nic'[v][j].ip = nic[v][j].ip
             /\ nic'[v][j].stage = IF nic[v][j].stage \in {"WANTED", "LEASED"}
                                   THEN "RELEASE" ELSE nic[v][j].stage
    BY <1>3, ReleaseAllSets DEF IInv, Stage
  <2>3. \A j \in Nic : /\ ~Owning(v, j)' /\ (Accounted(v, j) => Accounted(v, j)')
                      /\ nic'[v][j].stage \in {"NONE", "RELEASE"}
    BY <1>1, <2>1, <2>2 DEF Owning, Accounted
  <2>4. QED BY <1>3, <2>1, <2>2, <2>3, VmStepKeeps
<1>4. QED BY <1>2, <1>3 DEF get_network_leases

(* So does an attach, for its NIC alone.                                   *)
LEMMA AttachLeaseKeeps ==
  ASSUME IInv, NEW v \in VM, NEW i \in Nic, set_up_attach_nic(v, i)
  PROVE  IInv'
<1>1. state[v] # "INSERTING" /\ nic[v][i].stage = "WANTED" /\ UNCHANGED state
  BY DEF set_up_attach_nic
<1>2. nic[v][i] \in NicRecord /\ state[v] \in States
  BY DEF IInv, TypeOK, States
<1>3. state[v] \in {"RUNNING", "HOTPLUG"}
  BY <1>1, <1>2 DEF IInv, StagesOfStates, States
<1>4. ASSUME NEW a \in Address, Grants(nic[v][i].net, nic[v][i].ip, v, a),
             SetNic(v, i, [nic[v][i] EXCEPT !.stage = "GOT", !.ip = a])
      PROVE  IInv'
  <2>1. nic[v][i].net \in Net
    BY <1>4 DEF Grants, get, set, IInv, TypeOK
  <2>2. QED BY <1>1, <1>4, <2>1, GrantKeeps
<1>5. ASSUME SetNic(v, i, [nic[v][i] EXCEPT !.stage = "REFUSED"]), UNCHANGED net_vars
      PROVE  IInv'
  <2> DEFINE x == [nic[v][i] EXCEPT !.stage = "REFUSED"]
  <2>1. x \in NicRecord /\ x.stage = "REFUSED" /\ SetNic(v, i, x)
    BY <1>2, <1>5 DEF NicRecord, Stage
  <2>2. SetState(v, state[v])
    BY <1>1 DEF SetState, IInv, TypeOK
  <2> HIDE DEF x
  <2>3. QED BY <1>1, <1>2, <1>3, <1>5, <2>1, <2>2, OneNicKeeps
<1>6. QED BY <1>4, <1>5 DEF set_up_attach_nic

(* A NIC that is taken out gives back a lease of its VM.  If the VM has    *)
(* other NICs with leases, they have other leases.                         *)
LEMMA ReleaseKeeps ==
  ASSUME IInv, NEW v \in VM, NEW i \in Nic, release_network_leases(v, i)
  PROVE  IInv'
<1> DEFINE n == nic[v][i].net
           a == nic[v][i].ip
           Mine == n \in networks /\ a # AnyIp /\ leases[n][a] = v
<1>1. /\ nic[v][i].stage = "RELEASE" /\ state' = state
      /\ IF Mine THEN release(n, a) ELSE UNCHANGED net_vars
      /\ SetNic(v, i, NoNic)
  BY DEF release_network_leases
<1>2. NoNic \in NicRecord /\ NoNic.stage = "NONE"
  BY DEF NoNic, NicRecord, Stage
<1>3. /\ nic' \in [VM -> [Nic -> NicRecord]]
      /\ nic'[v][i] = NoNic
      /\ \A w \in VM, j \in Nic : w # v \/ j # i => nic'[w][j] = nic[w][j]
  BY <1>1, <1>2, SetNicSets DEF IInv
<1>4. a \in Address \cup {AnyIp} /\ networks \subseteq Net
  BY DEF IInv, TypeOK, NicRecord
<1> HIDE DEF n, a
<1>5. /\ leases' \in [Net -> [Address -> {Absent, Free, Held} \cup VM]]
      /\ n_used' \in [Net -> Int] /\ TotalLeases'
      /\ networks' = networks /\ type' = type /\ size' = size /\ current' = current
      /\ \A m \in networks, b \in Address :
           IF m = n /\ b = a /\ leases[m][b] = v
           THEN leases'[m][b] \in {Absent, Free} ELSE leases'[m][b] = leases[m][b]
  <2>1. CASE Mine
    <3>1. n \in Net /\ a \in Address /\ release(n, a) /\ leases[n][a] = v
      BY <1>1, <1>4, <2>1
    <3>2. QED BY <1>4, <3>1, ReleaseSets DEF IInv, release
  <2>2. CASE ~Mine
    <3>1. networks' = networks /\ type' = type /\ leases' = leases /\ n_used' = n_used
          /\ size' = size /\ current' = current
      BY <1>1, <2>2 DEF net_vars
    <3>2. \A m \in Net : Used(m)' = Used(m)
      BY <3>1 DEF Used
    <3>3. a \in Address => a # AnyIp
      BY LeasesAssumption DEF Address
    <3>4. QED BY <2>2, <3>1, <3>2, <3>3 DEF IInv, TypeOK, TotalLeases
  <2>3. QED BY <2>1, <2>2
<1>6. TypeOK'
  BY <1>1, <1>3, <1>5 DEF IInv, TypeOK, Fixed
<1>7. \A w \in VM, j \in Nic : Owning(w, j)' => Owning(w, j) /\ nic'[w][j] = nic[w][j] /\ (w # v \/ j # i)
  BY <1>1, <1>2, <1>3 DEF Owning
<1>8. OwnersHaveLeases'
  <2>1. ASSUME NEW w \in VM, NEW j \in Nic, Owning(w, j)'
        PROVE  leases'[nic[w][j].net][nic[w][j].ip] = w
    <3>1. /\ Owning(w, j) /\ (w # v \/ j # i)
          /\ nic[w][j].net \in networks /\ nic[w][j].ip \in Address
          /\ leases[nic[w][j].net][nic[w][j].ip] = w
      BY <1>7, <2>1 DEF IInv, OwnersHaveLeases
    <3>2. w = v => Owning(v, i)
      BY <1>1, <2>1, <3>1 DEF Owning, IInv, StagesOfStates
    <3>3. w = v => nic[w][j].net # n \/ nic[w][j].ip # a
      BY <3>1, <3>2 DEF IInv, OwnersHaveLeases, n, a
    <3>4. QED BY <1>5, <3>1, <3>3
  <2>2. QED BY <1>5, <1>7, <2>1 DEF IInv, OwnersHaveLeases
<1>9. StagesOfStates'
  BY <1>1, <1>2, <1>3 DEF IInv, StagesOfStates
<1>10. LeasesHaveNics'
  <2>1. ASSUME NEW m \in networks, NEW b \in Address, leases'[m][b] \in VM
        PROVE  \E j \in Nic : LET y == nic'[leases'[m][b]][j] IN
                 /\ y.net = m /\ y.ip = b
                 /\ \/ y.stage = "RELEASE"
                    \/ y.stage \in {"GOT", "LEASED"} /\ state'[leases'[m][b]] # "DONE"
    <3> DEFINE w == leases[m][b]
    <3>1. leases'[m][b] = w /\ w \in VM /\ ~(m = n /\ b = a /\ w = v)
      BY <1>5, <2>1, LeasesAssumption
    <3>2. PICK j \in Nic : /\ nic[w][j].net = m /\ nic[w][j].ip = b
                           /\ \/ nic[w][j].stage = "RELEASE"
                              \/ nic[w][j].stage \in {"GOT", "LEASED"} /\ state[w] # "DONE"
      BY <3>1 DEF IInv, LeasesHaveNics
    <3> HIDE DEF w
    <3>3. nic'[w][j] = nic[w][j]
      BY <1>3, <3>1, <3>2 DEF n, a
    <3>4. QED BY <1>1, <3>1, <3>2, <3>3
  <2>2. QED BY <1>5, <2>1 DEF LeasesHaveNics
<1>11. QED BY <1>5, <1>6, <1>8, <1>9, <1>10 DEF IInv

-----------------------------------------------------------------------------
(* The invariant *)

LEMMA InitInvariant == Init => IInv
<1> SUFFICES ASSUME Init PROVE IInv
  OBVIOUS
<1>1. \A v \in VM, i \in Nic : nic[v][i] = NoNic /\ state[v] = "NONE"
  BY DEF Init
<1>2. NoNic \in NicRecord /\ NoNic.stage = "NONE"
  BY DEF NoNic, NicRecord, Stage
<1>3. \A n \in Net : Released(n) \in {Absent, Free}
  BY DEF Released
<1>4. TypeOK
  BY <1>2, <1>3, LeasesAssumption DEF Init, TypeOK, End
<1>5. \A n \in Net, a \in Address : leases[n][a] \in {Absent, Free}
  BY <1>3 DEF Init
<1>6. TotalLeases
  <2>1. \A n \in Net : Used(n) = {}
    BY <1>5 DEF Used
  <2>2. QED BY <2>1, FS_EmptySet DEF Init, TotalLeases
<1>7. OwnersHaveLeases /\ StagesOfStates
  BY <1>1, <1>2 DEF OwnersHaveLeases, StagesOfStates, Owning
<1>8. LeasesHaveNics
  BY <1>5, LeasesAssumption DEF LeasesHaveNics, Init
<1>9. QED BY <1>4, <1>6, <1>7, <1>8 DEF IInv

LEMMA NextInvariant == Careful /\ IInv /\ [Next]_vars => IInv'
<1> SUFFICES ASSUME Careful, IInv, [Next]_vars PROVE IInv'
  OBVIOUS
<1>1. CASE UNCHANGED vars
  <2>1. \A n \in Net : Used(n)' = Used(n)
    BY <1>1 DEF vars, Used
  <2>2. TypeOK' /\ TotalLeases'
    BY <1>1, <2>1 DEF IInv, vars, TypeOK, Fixed, TotalLeases
  <2>3. QED BY <1>1, <2>2, VmsKeepLeases DEF IInv, vars, vm_vars
<1>2. ASSUME NEW n \in Net, NetStep(n) PROVE IInv'
  BY <1>2, AddOrRemoveKeeps, HoldKeeps, FreeKeeps, DeleteKeeps, SelectKeeps DEF NetStep
<1>3. ASSUME NEW v \in VM, VmStep(v) PROVE IInv'
  BY <1>3, AllocateKeeps, InsertKeeps, InsertFailedKeeps, HotplugEndKeeps, DoneKeeps DEF VmStep
<1>4. ASSUME NEW v \in VM, NEW i \in Nic, NicStep(v, i) PROVE IInv'
  BY <1>4, InsertLeaseKeeps, ReleaseKeeps, AttachKeeps, AttachLeaseKeeps, SetAttachKeeps,
     DetachKeeps DEF NicStep
<1>5. QED BY <1>1, <1>2, <1>3, <1>4 DEF Next

LEMMA Invariant == ASSUME Careful PROVE Spec => []IInv
<1>1. IInv /\ [Next]_vars => IInv'
  BY NextInvariant
<1>2. QED BY <1>1, InitInvariant, PTL DEF Spec

-----------------------------------------------------------------------------
(* Leases keep their types: the cursor of a network stays at an address or *)
(* at the end, whatever leases are added, removed, taken and given back.   *)
THEOREM TypeCorrect == ASSUME Careful PROVE Spec => []TypeOK
<1>1. IInv => TypeOK
  BY DEF IInv
<1>2. QED BY <1>1, Invariant, PTL

(* No two NICs have one lease, no NIC in a template is without, and none   *)
(* is lost: what fsck looks for never happens.                             *)
THEOREM LeasesAgree == ASSUME Careful PROVE Spec => []FsckLeases
<1>1. IInv => FsckLeases
  <2> SUFFICES ASSUME IInv PROVE FsckLeases
    OBVIOUS
  <2>1. \A v \in VM, i \in Nic : HasLease(v, i) => Owning(v, i)
    BY DEF HasLease, Owning
  <2>2. \A a \in Address : a # AnyIp
    BY LeasesAssumption DEF Address
  <2>3. NicsOwnLeases
    BY <2>1, <2>2 DEF IInv, OwnersHaveLeases, NicsOwnLeases
  <2>4. QED BY <2>3 DEF IInv, FsckLeases
<1>2. QED BY <1>1, Invariant, PTL

(* TOTAL_LEASES is the number of leases in use.                            *)
THEOREM LeasesCounted == ASSUME Careful PROVE Spec => []TotalLeases
<1>1. IInv => TotalLeases
  BY DEF IInv
<1>2. QED BY <1>1, Invariant, PTL

-----------------------------------------------------------------------------
(* The walk of get.  What it needs is that size is the number of leases it *)
(* can meet and that the cursor is at one of them.                         *)

Walked(n) == IF Fixed(n) THEN Present(n) ELSE Address
CursorsInside == \A n \in networks :
  size[n] = Cardinality(Walked(n)) /\ current[n] \in Walked(n) \cup {End}

(* A step that neither adds nor removes an address of a FIXED network.     *)
LEMMA WalkKept ==
  ASSUME TypeOK, CursorsInside, UNCHANGED <<networks, type, size>>,
         \A n \in networks, b \in Address :
           Fixed(n) => (leases'[n][b] = Absent <=> leases[n][b] = Absent),
         \A n \in networks : current'[n] = current[n] \/ current'[n] \in Walked(n) \cup {End}
  PROVE  CursorsInside'
<1>1. \A n \in networks : Walked(n)' = Walked(n)
  BY DEF Walked, Present, Fixed, Address
<1>2. QED BY <1>1 DEF CursorsInside, End

LEMMA GrantWalk ==
  ASSUME TypeOK, CursorsInside, NEW n, NEW ip, NEW v \in VM, NEW a \in Address, Grants(n, ip, v, a)
  PROVE  CursorsInside'
<1>1. /\ n \in networks /\ n \in Net /\ a \in Unused(n)
      /\ leases' = [leases EXCEPT ![n][a] = v]
      /\ UNCHANGED <<networks, type, size>>
  BY DEF Grants, get, set, Lease, Found, TypeOK
<1>2. \A b \in Address : Fixed(n) => (leases'[n][b] = Absent <=> leases[n][b] = Absent)
  BY <1>1, LeasesAssumption DEF TypeOK, Unused, Present
<1>3. Moved(n, a) \in Walked(n) \cup {End}
  <2>1. CASE ~Fixed(n)
    BY <2>1 DEF Moved, Walked
  <2>2. CASE Fixed(n) /\ After(n, a) = {}
    BY <2>2 DEF Moved
  <2>3. CASE Fixed(n) /\ After(n, a) # {}
    <3>1. \E b \in After(n, a) : \A c \in After(n, a) : b <= c
      BY <2>3, FirstAddress DEF After, Present
    <3>2. Moved(n, a) \in After(n, a)
      BY <2>3, <3>1 DEF Moved
    <3>3. QED BY <2>3, <3>2 DEF Walked, After
  <2>4. QED BY <2>1, <2>2, <2>3
<1>4. current' = [current EXCEPT ![n] = Moved(n, a)] \/ current' = current
  BY DEF Grants, get, set
<1>5. \A m \in networks : current'[m] = current[m] \/ current'[m] \in Walked(m) \cup {End}
  BY <1>3, <1>4 DEF TypeOK
<1>6. \A m \in networks, b \in Address :
        Fixed(m) => (leases'[m][b] = Absent <=> leases[m][b] = Absent)
  BY <1>1, <1>2 DEF TypeOK
<1>7. QED BY <1>1, <1>5, <1>6, WalkKept

LEMMA ReleaseWalk ==
  ASSUME TypeOK, CursorsInside, NEW n \in Net, NEW a \in Address, leases[n][a] # Absent, release(n, a)
  PROVE  CursorsInside'
<1>1. leases' = [leases EXCEPT ![n][a] = Released(n)] /\ UNCHANGED <<networks, type, size, current>>
  BY DEF release
<1>2. Fixed(n) => Released(n) # Absent
  BY LeasesAssumption DEF Released
<1>3. \A m \in networks, b \in Address :
        Fixed(m) => (leases'[m][b] = Absent <=> leases[m][b] = Absent)
  BY <1>1, <1>2 DEF TypeOK
<1>4. QED BY <1>1, <1>3, WalkKept

LEMMA NetStepWalk ==
  ASSUME "REMOVE_CURRENT" \notin Rash, TypeOK, CursorsInside, NEW n \in Net, NetStep(n)
  PROVE  CursorsInside'
<1>1. ASSUME NEW a \in Address, add_leases(n, a) PROVE CursorsInside'
  <2>1. Present(n)' = Present(n) \cup {a} /\ a \notin Present(n)
        /\ \A m \in Net \ {n} : Present(m)' = Present(m)
    BY <1>1, LeasesAssumption DEF add_leases, Present, TypeOK, Address
  <2>2. Cardinality(Present(n)') = Cardinality(Present(n)) + 1
    <3>1. IsFiniteSet(Present(n))
      BY AddressSets DEF Present
    <3>2. QED BY <2>1, <3>1, FS_AddElement
  <2>3. UNCHANGED <<networks, type, current>> /\ Fixed(n)
        /\ size' = [size EXCEPT ![n] = Cardinality(Present(n)) + 1]
    BY <1>1 DEF add_leases
  <2>4. QED BY <2>1, <2>2, <2>3 DEF CursorsInside, Walked, TypeOK, Fixed, End, Address
<1>2. ASSUME NEW a \in Address, remove_leases(n, a) PROVE CursorsInside'
  <2>1. Present(n)' = Present(n) \ {a} /\ a \in Present(n) /\ current[n] # a
        /\ \A m \in Net \ {n} : Present(m)' = Present(m)
    BY <1>2, LeasesAssumption DEF remove_leases, Present, TypeOK, Address
  <2>2. Cardinality(Present(n)') = Cardinality(Present(n)) - 1
    <3>1. IsFiniteSet(Present(n))
      BY AddressSets DEF Present
    <3>2. QED BY <2>1, <3>1, FS_RemoveElement
  <2>3. UNCHANGED <<networks, type, current>> /\ Fixed(n)
        /\ size' = [size EXCEPT ![n] = Cardinality(Present(n)) - 1]
    BY <1>2 DEF remove_leases
  <2>4. QED BY <2>1, <2>2, <2>3 DEF CursorsInside, Walked, TypeOK, Fixed, End, Address
<1>3. ASSUME NEW a \in Address, hold_leases(n, a) PROVE CursorsInside'
  <2>1. /\ a \in Unused(n) /\ leases' = [leases EXCEPT ![n][a] = Held]
        /\ UNCHANGED <<networks, type, size, current>>
    BY <1>3 DEF hold_leases, set, Lease
  <2>2. \A m \in networks, b \in Address :
          Fixed(m) => (leases'[m][b] = Absent <=> leases[m][b] = Absent)
    BY <2>1, LeasesAssumption DEF TypeOK, Unused, Present
  <2>3. QED BY <2>1, <2>2, WalkKept
<1>4. ASSUME NEW a \in Address, free_leases(n, a) PROVE CursorsInside'
  BY <1>4, ReleaseWalk, LeasesAssumption DEF free_leases
<1>5. CASE vnet_delete(n)
  <2>1. /\ networks' = networks \ {n} /\ UNCHANGED <<type, size, current>>
        /\ \A m \in Net \ {n} : leases'[m] = leases[m]
    BY <1>5 DEF vnet_delete, TypeOK
  <2>2. \A m \in Net \ {n} : Walked(m)' = Walked(m)
    BY <2>1 DEF Walked, Present, Fixed, Address
  <2>3. QED BY <2>1, <2>2 DEF CursorsInside, TypeOK, End
<1>6. CASE select(n)
  <2>1. /\ UNCHANGED <<networks, type, leases>>
        /\ size' = [size EXCEPT ![n] = IF Fixed(n) THEN Cardinality(Present(n)) ELSE Size]
        /\ current' = [current EXCEPT ![n] = IF Fixed(n) THEN End ELSE 0]
    BY <1>6 DEF select
  <2>2. \A m \in Net : Walked(m)' = Walked(m)
    BY <2>1 DEF Walked, Present, Fixed
  <2>3. Cardinality(Address) = Size /\ 0 \in Address
    BY FS_Interval, LeasesAssumption DEF Address
  <2>4. QED BY <2>1, <2>2, <2>3 DEF CursorsInside, TypeOK, Walked, End
<1>7. QED BY <1>1, <1>2, <1>3, <1>4, <1>5, <1>6 DEF NetStep

LEMMA OtherStepsWalk ==
  ASSUME TypeOK, CursorsInside,
         NEW v \in VM, VmStep(v) \/ (\E i \in Nic : NicStep(v, i)) \/ UNCHANGED vars
  PROVE  CursorsInside'
<1>1. CASE UNCHANGED net_vars \/ UNCHANGED vars
  BY <1>1, WalkKept DEF net_vars, vars
<1>2. ASSUME NEW i \in Nic, NEW a \in Address, Grants(nic[v][i].net, nic[v][i].ip, v, a)
      PROVE  CursorsInside'
  BY <1>2, GrantWalk
<1>3. ASSUME NEW i \in Nic, release_network_leases(v, i), ~UNCHANGED net_vars
      PROVE  CursorsInside'
  <2>1. nic[v][i] \in NicRecord /\ networks \subseteq Net
    BY DEF TypeOK
  <2>2. /\ nic[v][i].net \in Net /\ nic[v][i].ip \in Address
        /\ leases[nic[v][i].net][nic[v][i].ip] = v /\ release(nic[v][i].net, nic[v][i].ip)
    BY <1>3, <2>1 DEF release_network_leases, NicRecord
  <2>3. QED BY <2>2, ReleaseWalk, LeasesAssumption
<1>4. CASE VmStep(v)
  BY <1>1, <1>4 DEF VmStep, vm_allocate, insert, insert_failed, attach_nic_success,
                    attach_nic_failure, done_action
<1>5. ASSUME NEW i \in Nic, NicStep(v, i) PROVE CursorsInside'
  BY <1>1, <1>2, <1>3, <1>5 DEF NicStep, get_network_leases, attach_nic, set_up_attach_nic,
                                set_attach_nic, detach_nic
<1>6. QED BY <1>1, <1>4, <1>5

(* Of the free leases, the nearest to the cursor is the one that the walk  *)
(* finds, and it is within size steps.                                     *)
LEMMA NearestFound ==
  ASSUME TypeOK, CursorsInside, NEW n \in networks, Unused(n) # {}
  PROVE  CursorValid(n) /\ \E a \in Address : Found(n, a)
<1>1. n \in Net /\ Size \in Nat /\ current[n] \in 0..Size /\ Address = 0..(Size - 1)
  BY LeasesAssumption DEF TypeOK, Address
<1>2. Unused(n) \subseteq Walked(n) /\ Walked(n) \subseteq Address
  BY DEF Unused, Walked, Present
<1> DEFINE D == {Distance(n, b) : b \in Unused(n)}
<1>3. \A b \in Address : Distance(n, b) \in Address
  BY <1>1 DEF Distance
<1>4. D \in SUBSET Address /\ D # {}
  BY <1>2, <1>3
<1>5. PICK d \in D : \A c \in D : d <= c
  BY <1>4, FirstAddress
<1>6. PICK a \in Unused(n) : Distance(n, a) = d
  OBVIOUS
<1>7. Before(n, a) = {b \in Walked(n) : Distance(n, b) < Distance(n, a)}
  BY DEF Before, Walked
<1>8. \A b \in Before(n, a) : b \notin Unused(n)
  <2>1. SUFFICES ASSUME NEW b \in Before(n, a), b \in Unused(n) PROVE FALSE
    OBVIOUS
  <2>2. d <= Distance(n, b) /\ Distance(n, b) < d
    BY <1>5, <1>6, <1>7, <2>1
  <2>3. d \in Int /\ Distance(n, b) \in Int
    BY <1>1, <1>2, <1>3, <1>4, <2>1
  <2>4. QED BY <2>2, <2>3
<1>9. Cardinality(Before(n, a)) < size[n]
  <2>1. a \notin Before(n, a)
    <3>1. Distance(n, a) \in Int
      BY <1>1, <1>2, <1>3
    <3>2. QED BY <1>7, <3>1
  <2>2. IsFiniteSet(Walked(n)) /\ Cardinality(Walked(n)) \in Nat
    BY <1>2, AddressSets
  <2>3. IsFiniteSet(Walked(n) \ {a}) /\ Cardinality(Walked(n) \ {a}) = Cardinality(Walked(n)) - 1
    BY <1>2, <2>2, FS_RemoveElement
  <2>4. Before(n, a) \in SUBSET (Walked(n) \ {a})
    BY <1>7, <2>1
  <2>5. Cardinality(Before(n, a)) <= Cardinality(Walked(n) \ {a})
        /\ Cardinality(Before(n, a)) \in Nat
    BY <2>3, <2>4, FS_Subset, FS_CardinalityType
  <2>6. size[n] = Cardinality(Walked(n))
    BY DEF CursorsInside
  <2>7. QED BY <2>2, <2>3, <2>5, <2>6
<1>10. CursorValid(n)
  BY DEF CursorsInside, CursorValid, Walked
<1>11. QED BY <1>2, <1>6, <1>8, <1>9, <1>10 DEF Found

(* An address is refused only by a network that has none left, if no lease *)
(* is removed that the cursor is at.                                       *)
THEOREM FreeAddressIsFound ==
  ASSUME Careful, "REMOVE_CURRENT" \notin Rash
  PROVE  Spec => []FreeAddressFound
<1>1. Init => CursorsInside
  <2> SUFFICES ASSUME Init PROVE CursorsInside
    OBVIOUS
  <2>1. \A n \in Net : Walked(n) = Address
    BY LeasesAssumption DEF Init, Walked, Present, Released
  <2>2. Cardinality(Address) = Size /\ 0 \in Address
    BY FS_Interval, LeasesAssumption DEF Address
  <2>3. QED BY <2>1, <2>2 DEF Init, CursorsInside, End
<1>2. TypeOK /\ CursorsInside /\ [Next]_vars => CursorsInside'
  <2> SUFFICES ASSUME TypeOK, CursorsInside, [Next]_vars PROVE CursorsInside'
    OBVIOUS
  <2>1. CASE UNCHANGED vars
    BY <2>1, WalkKept DEF vars
  <2>2. QED BY <2>1, NetStepWalk, OtherStepsWalk DEF Next
<1>3. TypeOK /\ CursorsInside => FreeAddressFound
  BY NearestFound DEF FreeAddressFound
<1>4. QED BY <1>1, <1>2, <1>3, TypeCorrect, PTL DEF Spec
=============================================================================
