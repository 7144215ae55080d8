----------------------------- MODULE StateProofs -----------------------------
(***************************************************************************)
(* Theorems about what the core keeps: what the daemon finds again when it *)
(* is started, and the ledgers of users and groups.                        *)
(***************************************************************************)
EXTENDS CoreState, TotalsProofs

-----------------------------------------------------------------------------
(***************************************************************************)
(* What a daemon that was killed leaves to the next one: ServesWhole and   *)
(* NumbersGivenOnce, for any number of kills and of objects.  Where the    *)
(* statement that makes pool_control may fail ServesWhole does not hold,   *)
(* so it is not in Failing.                                                *)
(*                                                                         *)
(* The invariant relates the place of the main thread to what there is in  *)
(* the database: which tables, which pools have been read, which objects   *)
(* are made and which numbers were told.                                   *)
(***************************************************************************)

(* Where the main thread makes a pool, and what it has made by then        *)

Place(p) == IF p = "GROUP" THEN 1 ELSE IF p = "USER" THEN 2
            ELSE IF p = "DATASTORE" THEN 3 ELSE 11

Up         == main.at \in {"LOADING", "WAITS", "ENDS"}
InPlace(p) == At("STARTS") /\ main.step = Place(p) /\ main.open
Loaded(p)  == Up \/ InPlace(p) \/ (At("STARTS") /\ main.step > Place(p))

SystemNeeds == ToSet(PoolTables) \cup {"pool_control"}
TablesThere == SystemNeeds \subseteq tables
Core        == {"GROUP", "USER", "DATASTORE"}

MainTypes == [at : {"DOWN", "CHECK", "BOOTSTRAP", "STARTS", "LOADING", "WAITS", "ENDS"},
              step : Nat, open : BOOLEAN, made : Nat, failed : BOOLEAN]

DaemonTypes ==
  /\ main \in MainTypes
  /\ stored \in [Stored -> SUBSET Int]
  /\ pool_control \in [Stored -> Int]
  /\ last \in [Stored -> Int]
  /\ making \in [Stored -> {"NO", "STORED", "SAVED"}]
  /\ told \in [Stored -> SUBSET Int]

(* The steps of the main thread are those there are; requests are served   *)
(* only when all pools have been made.                                     *)
MainFits ==
  /\ At("BOOTSTRAP") => main.step \in 1..18
  /\ At("STARTS")    => main.step \in 1..14
  /\ main.open       => At("STARTS") /\ main.step \in {1, 2, 3, 11}
  /\ ~main.open      => main.made = 0
  /\ Serving         => Up

(* The version is recorded when all tables are there, and not before.      *)
TablesFit ==
  /\ "VERSION" \in tables \/ At("STARTS") \/ Up => TablesThere
  /\ At("BOOTSTRAP") =>
       /\ ~main.failed /\ main.step <= 12 => \A i \in 1..(main.step - 1) : PoolTables[i] \in tables
       /\ main.step \in 13..15 => TablesThere
       /\ ~main.failed /\ main.step > 12 => TablesThere

(* Of a pool that has been read the last number is the one in the database,*)
(* or the next to it while an object is made; what was told is not larger. *)
NumbersFit(p) ==
  /\ pool_control[p] >= -1
  /\ \A n \in told[p] : 0 <= n /\ n <= pool_control[p]
  /\ making[p] # "NO" => Loaded(p)
  /\ Loaded(p) /\ making[p] # "STORED" => last[p] = pool_control[p]
  /\ making[p] = "STORED" => last[p] = pool_control[p] + 1
  /\ making[p] # "NO" => \A n \in told[p] : n < last[p]
  /\ making[p] # "NO" => last[p] >= 0
  /\ making[p] # "NO" /\ At("STARTS") => InPlace(p) /\ main.made < Defaults(p)
  /\ InPlace(p) /\ p \in {"GROUP", "DATASTORE"} => told[p] = {}

(* The first default is there as soon as a number has been given.          *)
FirstFits(p) ==
  /\ pool_control[p] >= 0 => 0 \in stored[p]
  /\ making[p] # "NO" => 0 \in stored[p]
  /\ Loaded(p) => 0 \in stored[p] \/ (InPlace(p) /\ main.made = 0)

DInv ==
  /\ DaemonTypes /\ MainFits /\ TablesFit
  /\ \A p \in Stored : NumbersFit(p)
  /\ \A p \in Core : FirstFits(p)

-----------------------------------------------------------------------------
(* The orders of the bootstrap and of the start                            *)

(* Where StartOrder has each pool, and the request manager.                *)
LEMMA Places ==
  ASSUME NEW i \in 1..14
  PROVE  /\ \A p \in Stored : (StartOrder[i] = p) <=> (i = Place(p))
         /\ (StartOrder[i] = "RM") <=> (i = 14)
  BY DEF StartOrder, Stored, Place

LEMMA DifferentPlaces ==
  ASSUME NEW p \in Stored, NEW q \in Stored, p # q
  PROVE  Place(p) # Place(q) /\ Place(p) \in 1..11
  BY DEF Stored, Place

(* The tables of pools come first, then that of numbers.                   *)
LEMMA BootstrapOrder ==
  /\ Len(Bootstrap) = 17 /\ Len(SystemTables) = 4
  /\ \A i \in 1..11 : Bootstrap[i] = PoolTables[i]
  /\ \A i \in 1..17 : (Bootstrap[i] = "pool_control") <=> (i = 12)
  /\ \A i \in 1..17 : (Bootstrap[i] = "VERSION") <=> (i = 14)
  BY DEF Bootstrap, PoolTables, SystemTables, DefaultQuotas

(* What a daemon needs is what the first twelve statements make.           *)
LEMMA NeedsAre == TablesThere <=> /\ \A i \in 1..11 : PoolTables[i] \in tables
                                  /\ "pool_control" \in tables
<1>1. ToSet(PoolTables) = {PoolTables[i] : i \in 1..11}
  BY DEF ToSet, PoolTables
<1> QED BY <1>1 DEF TablesThere, SystemNeeds

LEMMA InitFits == DaemonInit => DInv
  BY DEF DaemonInit, Down, DInv, DaemonTypes, MainTypes, MainFits, TablesFit, NumbersFit,
         FirstFits, Loaded, InPlace, Up, At, Serving, Core, Stored

-----------------------------------------------------------------------------
(* The main thread                                                         *)

Fresh(x) == [at |-> x, step |-> 1, open |-> FALSE, made |-> 0, failed |-> FALSE]

LEMMA EntersFresh ==
  ASSUME NEW x, Enters(x)
  PROVE  main' = Fresh(x)
  BY DEF Enters, Down, Fresh

LEMMA StepOn ==
  ASSUME main \in MainTypes, NEW n \in Nat, NEW b \in BOOLEAN,
         main' = [main EXCEPT !.step = @ + n, !.failed = b]
  PROVE  /\ main' \in MainTypes
         /\ main'.at = main.at /\ main'.step = main.step + n /\ main'.open = main.open
         /\ main'.made = main.made /\ main'.failed = b
<1>1. main.step + n \in Nat
  BY DEF MainTypes
<1>2. main' = [at |-> main.at, step |-> main.step + n, open |-> main.open,
               made |-> main.made, failed |-> b]
  BY Zenon DEF MainTypes
<1> QED BY <1>1, <1>2 DEF MainTypes

-----------------------------------------------------------------------------
(* The process begins and ends                                             *)

LEMMA ForgetsFits ==
  ASSUME DInv, Forgets
  PROVE  DInv'
<1>1. main' = Down /\ UNCHANGED <<tables, stored, pool_control, told>>
  BY DEF Forgets, database
<1>2. /\ last' = [p \in Stored |-> -1] /\ making' = [p \in Stored |-> "NO"] /\ running' = {}
  BY DEF Forgets
<1>3. DaemonTypes'
  BY <1>1, <1>2 DEF DInv, DaemonTypes, MainTypes, Down
<1>4. ~Up' /\ ~At("STARTS")' /\ ~At("BOOTSTRAP")'
  BY <1>1 DEF Up, At, Down
<1>5. MainFits'
  BY <1>1, <1>2, <1>4 DEF MainFits, Serving, At, Down
<1>6. TablesFit'
  BY <1>1, <1>4 DEF DInv, TablesFit, TablesThere
<1>7. \A p \in Stored : NumbersFit(p)'
  BY <1>1, <1>2, <1>4 DEF DInv, NumbersFit, Loaded, InPlace
<1>8. \A p \in Core : FirstFits(p)'
  BY <1>1, <1>2, <1>4 DEF DInv, FirstFits, Loaded, InPlace, Core, Stored
<1> QED BY <1>3, <1>5, <1>6, <1>7, <1>8 DEF DInv

(* Between processes, and before the tables are looked at, only the lock   *)
(* file and the place of the main thread change.                           *)
LEMMA BeginsFits ==
  ASSUME DInv, starts \/ setup \/ (checks /\ ~exits)
  PROVE  DInv'
<1>1. UNCHANGED <<tables, stored, pool_control, last, making, running, told>>
  BY DEF starts, setup, checks, database, memory, history
<1>2. \/ UNCHANGED main
      \/ main' = Fresh("CHECK")
      \/ /\ At("CHECK")
         /\ \/ main' = Fresh("BOOTSTRAP") /\ "VERSION" \notin tables
            \/ main' = Fresh("STARTS") /\ "VERSION" \in tables
  BY EntersFresh DEF starts, setup, checks, check_db_version
<1>3. main.at \in {"DOWN", "CHECK"}
  BY DEF starts, setup, checks, At
<1>4. \A p \in Stored : ~Loaded(p) /\ making[p] = "NO"
  BY <1>3 DEF DInv, NumbersFit, Loaded, InPlace, Up, At, DaemonTypes, MainTypes
<1>5. ~Serving
  BY <1>3 DEF DInv, MainFits, Up, At
<1>6. \A p \in Stored : ~Loaded(p)'
  BY <1>2, <1>4 DEF Loaded, InPlace, Up, At, Fresh, Place
<1>7. DaemonTypes'
  <2>1. /\ Fresh("CHECK") \in MainTypes /\ Fresh("BOOTSTRAP") \in MainTypes
        /\ Fresh("STARTS") \in MainTypes
    BY DEF MainTypes, Fresh
  <2> QED BY <1>1, <1>2, <2>1 DEF DInv, DaemonTypes, MainTypes
<1>8. MainFits'
  BY <1>1, <1>2, <1>5 DEF DInv, MainFits, Serving, At, Fresh, Up
<1>9. TablesFit'
  BY <1>1, <1>2 DEF DInv, TablesFit, TablesThere, At, Up, Fresh
<1>10. \A p \in Stored : NumbersFit(p)'
  BY <1>1, <1>4, <1>6 DEF DInv, NumbersFit, Loaded
<1>11. \A p \in Core : FirstFits(p)'
  BY <1>1, <1>4, <1>6 DEF DInv, FirstFits, Core, Stored
<1> QED BY <1>7, <1>8, <1>9, <1>10, <1>11 DEF DInv

LEMMA BootstrapFits ==
  ASSUME "pool_control" \notin Failing, DInv, exec_bootstrap
  PROVE  DInv'
<1>1. /\ At("BOOTSTRAP") /\ main.step \in 1..17 /\ main \in MainTypes
      /\ UNCHANGED <<stored, pool_control, last, making, running, told>>
  <2>1. At("BOOTSTRAP") /\ main.step <= 17
    BY BootstrapOrder DEF exec_bootstrap
  <2>2. main \in MainTypes
    BY DEF DInv, DaemonTypes, MainTypes
  <2>3. main.step \in 1..17
    BY <2>1 DEF DInv, MainFits
  <2>4. UNCHANGED <<stored, pool_control, last, making, running, told>>
    BY DEF exec_bootstrap, memory, history
  <2> QED BY <2>1, <2>2, <2>3, <2>4
<1> DEFINE s == Bootstrap[main.step]
<1>a. (s = "pool_control") <=> (main.step = 12)
  BY BootstrapOrder, <1>1
<1>b. ~CanMake(s) /\ main.step = 12 => "pool_control" \in tables
  BY <1>a DEF CanMake, ToSet, DefaultQuotas
<1>c. \E n \in {1, 4}, b \in BOOLEAN :
        /\ main' = [main EXCEPT !.step = @ + n, !.failed = b]
        /\ \/ /\ main.failed /\ main.step = 12 /\ n = 4 /\ b
              /\ UNCHANGED tables
           \/ /\ ~(main.failed /\ main.step = 12) /\ n = 1 /\ b = main.failed
              /\ tables' = tables \cup {s}
           \/ /\ ~(main.failed /\ main.step = 12) /\ n = 1 /\ b
              /\ (main.step = 12 => "pool_control" \in tables)
              /\ UNCHANGED tables
  <2>1. CASE main.failed /\ s = "pool_control"
    <3>1. /\ main' = [main EXCEPT !.step = @ + 4] /\ UNCHANGED tables
      BY <2>1, BootstrapOrder DEF exec_bootstrap
    <3>2. main' = [main EXCEPT !.step = @ + 4, !.failed = TRUE]
      BY <3>1, <2>1, <1>1 DEF MainTypes
    <3> QED BY <3>1, <3>2, <2>1, <1>a
  <2>2. CASE /\ ~(main.failed /\ s = "pool_control")
             /\ main' = [main EXCEPT !.step = @ + 1] /\ tables' = tables \cup {s}
    <3>1. main' = [main EXCEPT !.step = @ + 1, !.failed = main.failed] /\ main.failed \in BOOLEAN
      BY <2>2, <1>1 DEF MainTypes
    <3> QED BY <3>1, <2>2, <1>a
  <2>3. CASE /\ ~(main.failed /\ s = "pool_control")
             /\ ~CanMake(s) \/ (s \in Failing /\ ~main.failed)
             /\ main' = [main EXCEPT !.step = @ + 1, !.failed = TRUE]
             /\ UNCHANGED tables
    BY <2>3, <1>a, <1>b
  <2> QED BY <2>1, <2>2, <2>3 DEF exec_bootstrap
<1>d. PICK n \in {1, 4}, b \in BOOLEAN : <1>c!(n, b)
  BY <1>c
<1>e. /\ main' \in MainTypes
      /\ main'.at = main.at /\ main'.step = main.step + n /\ main'.open = main.open
      /\ main'.made = main.made /\ main'.failed = b
  BY <1>1, <1>d, StepOn
<1>2. \/ /\ main.failed /\ main.step = 12 /\ main'.failed
         /\ main'.step = 16 /\ UNCHANGED tables
      \/ /\ ~(main.failed /\ main.step = 12) /\ main'.failed = main.failed
         /\ main'.step = main.step + 1 /\ tables' = tables \cup {s}
      \/ /\ ~(main.failed /\ main.step = 12) /\ main'.failed
         /\ (main.step = 12 => "pool_control" \in tables)
         /\ main'.step = main.step + 1 /\ UNCHANGED tables
  BY <1>d, <1>e
<1> HIDE DEF s
<1>3. /\ At("BOOTSTRAP")' /\ ~At("STARTS")' /\ ~Up' /\ ~Up /\ ~At("STARTS")
      /\ main'.open = main.open /\ main'.made = main.made
  BY <1>1, <1>e DEF At, Up, DInv, DaemonTypes, MainTypes
<1>4. ~Serving
  BY <1>3 DEF DInv, MainFits
<1>5. DaemonTypes'
  BY <1>1, <1>e DEF MainTypes, DInv, DaemonTypes
<1>6. MainFits'
  BY <1>1, <1>2, <1>3, <1>4 DEF DInv, MainFits, Serving
<1>7. \A p \in Stored : ~Loaded(p) /\ ~Loaded(p)' /\ making[p] = "NO"
  BY <1>3 DEF Loaded, InPlace, DInv, NumbersFit
<1>8. \A p \in Stored : NumbersFit(p)'
  BY <1>1, <1>7 DEF DInv, NumbersFit, Loaded
<1>9. \A p \in Core : FirstFits(p)'
  BY <1>1, <1>7 DEF DInv, FirstFits, Core, Stored
<1>10. TablesFit'
  <2>1. TablesThere => TablesThere'
    BY <1>2 DEF TablesThere
  <2>2. main.step \in 1..11 => s = PoolTables[main.step]
    BY BootstrapOrder DEF s
  <2>3. /\ main.step = 12 => s = "pool_control"
        /\ s = "VERSION" => main.step = 14
    BY BootstrapOrder, <1>1 DEF s
  <2>4. ~main'.failed /\ main'.step <= 12 =>
          \A i \in 1..(main'.step - 1) : PoolTables[i] \in tables'
    BY <1>1, <1>2, <2>2 DEF DInv, TablesFit, DaemonTypes, MainTypes
  <2>5. main.step = 12 /\ main'.step = 13 => TablesThere'
    <3> SUFFICES ASSUME main.step = 12, main'.step = 13 PROVE TablesThere'
      OBVIOUS
    <3>1. ~main.failed
      BY <1>2 DEF DInv, DaemonTypes, MainTypes
    <3>2. \A i \in 1..11 : PoolTables[i] \in tables'
      BY <1>1, <1>2, <3>1 DEF DInv, TablesFit
    <3>3. "pool_control" \in tables'
      BY <1>2, <2>3, <3>1 DEF DInv, DaemonTypes, MainTypes
    <3> QED BY <3>2, <3>3, NeedsAre DEF TablesThere, SystemNeeds, ToSet, PoolTables
  <2>6. main'.step \in 13..15 => TablesThere'
    BY <1>1, <1>2, <2>1, <2>5 DEF DInv, TablesFit, DaemonTypes, MainTypes
  <2>7. ~main'.failed /\ main'.step > 12 => TablesThere'
    BY <1>1, <1>2, <2>1, <2>5 DEF DInv, TablesFit, DaemonTypes, MainTypes
  <2>8. "VERSION" \in tables' => TablesThere'
    BY <1>1, <1>2, <2>1, <2>3 DEF DInv, TablesFit
  <2> QED BY <1>3, <2>4, <2>6, <2>7, <2>8 DEF TablesFit
<1> QED BY <1>5, <1>6, <1>8, <1>9, <1>10 DEF DInv

LEMMA BootstrappedFits ==
  ASSUME DInv, bootstrapped, ~exits
  PROVE  DInv'
<1>1. /\ At("BOOTSTRAP") /\ main.step > 17 /\ ~main.failed
      /\ main' = Fresh("STARTS")
      /\ UNCHANGED <<tables, stored, pool_control, last, making, running, told>>
  BY BootstrapOrder, EntersFresh DEF bootstrapped, database, memory, history
<1>2. TablesThere
  BY <1>1 DEF DInv, TablesFit, DaemonTypes, MainTypes
<1>3. \A p \in Stored : ~Loaded(p) /\ ~Loaded(p)' /\ making[p] = "NO"
  BY <1>1 DEF Loaded, InPlace, DInv, NumbersFit, Up, At, Fresh, Place
<1>4. DaemonTypes' /\ MainFits'
  BY <1>1 DEF DInv, DaemonTypes, MainTypes, MainFits, Fresh, Serving, At, Up
<1>5. TablesFit'
  BY <1>1, <1>2 DEF TablesFit, TablesThere, At, Fresh
<1>6. \A p \in Stored : NumbersFit(p)'
  BY <1>1, <1>3 DEF DInv, NumbersFit, Loaded
<1>7. \A p \in Core : FirstFits(p)'
  BY <1>1, <1>3 DEF DInv, FirstFits, Core, Stored
<1> QED BY <1>4, <1>5, <1>6, <1>7 DEF DInv

-----------------------------------------------------------------------------
(* The objects of a pool                                                   *)

LEMMA MakesInPlace ==
  ASSUME DInv, NEW p \in Stored
  PROVE  /\ MakesDefaults(p) <=> InPlace(p)
         /\ Starting(p) <=> At("STARTS") /\ main.step = Place(p)
  BY Places DEF DInv, MainFits, MakesDefaults, Starting, InPlace

(* Only one pool has its defaults made, and the pools after it are not read*)
(* yet.                                                                    *)
LEMMA OneInPlace ==
  ASSUME NEW p \in Stored, InPlace(p), NEW q \in Stored, q # p
  PROVE  ~InPlace(q)
  BY DifferentPlaces DEF InPlace

(* A new object has the next number, whoever makes it.                     *)
LEMMA InsertedFits ==
  ASSUME DInv, NEW p \in Stored, Inserted(p), UNCHANGED <<main, running, told>>, Loaded(p),
         At("STARTS") => InPlace(p) /\ main.made < Defaults(p)
  PROVE  DInv'
<1>1. /\ making[p] = "NO" /\ UNCHANGED <<tables, pool_control>>
      /\ last' = [last EXCEPT ![p] = @ + 1]
      /\ stored' = [stored EXCEPT ![p] = @ \cup {last[p] + 1}]
      /\ making' = [making EXCEPT ![p] = "STORED"]
  BY DEF Inserted, Inserts
<1>2. DaemonTypes /\ MainFits /\ TablesFit
  BY DEF DInv
<1>3. DaemonTypes'
  BY <1>1, <1>2 DEF DaemonTypes
<1>4. MainFits' /\ TablesFit'
  BY <1>1, <1>2 DEF MainFits, TablesFit, Serving, At, Up, TablesThere
<1>5. last[p] = pool_control[p] /\ pool_control[p] >= -1
  BY <1>1 DEF DInv, NumbersFit
<1>6. \A q \in Stored : NumbersFit(q)'
  <2> SUFFICES ASSUME NEW q \in Stored PROVE NumbersFit(q)'
    OBVIOUS
  <2>1. NumbersFit(q)
    BY DEF DInv
  <2>2. (Loaded(q)' <=> Loaded(q)) /\ (InPlace(q)' <=> InPlace(q)) /\ (At("STARTS")' <=> At("STARTS"))
    BY DEF Loaded, InPlace, Up, At
  <2>3. CASE q # p
    <3>1. /\ last'[q] = last[q] /\ making'[q] = making[q]
      BY <1>1, <1>2, <2>3 DEF DaemonTypes
    <3> QED BY <1>1, <2>1, <2>2, <3>1 DEF NumbersFit
  <2>4. CASE q = p
    <3>1. last'[p] = pool_control[p] + 1 /\ making'[p] = "STORED"
      BY <1>1, <1>2, <1>5 DEF DaemonTypes
    <3>2. pool_control[p] \in Int /\ told[p] \in SUBSET Int
      BY <1>2 DEF DaemonTypes
    <3> QED BY <1>1, <1>5, <2>1, <2>2, <2>4, <3>1, <3>2 DEF NumbersFit
  <2> QED BY <2>3, <2>4
<1>7. \A q \in Core : FirstFits(q)'
  <2> SUFFICES ASSUME NEW q \in Core PROVE FirstFits(q)'
    OBVIOUS
  <2>1. FirstFits(q) /\ q \in Stored
    BY DEF DInv, Core, Stored
  <2>2. (Loaded(q)' <=> Loaded(q)) /\ (InPlace(q)' <=> InPlace(q))
    BY DEF Loaded, InPlace, Up, At
  <2>3. CASE q # p
    <3>1. stored'[q] = stored[q] /\ making'[q] = making[q]
      BY <1>1, <1>2, <2>1, <2>3 DEF DaemonTypes
    <3> QED BY <1>1, <2>1, <2>2, <3>1 DEF FirstFits
  <2>4. CASE q = p
    <3>1. stored'[p] = stored[p] \cup {pool_control[p] + 1}
      BY <1>1, <1>2, <1>5 DEF DaemonTypes
    <3>2. 0 \in stored'[p]
      <4>1. CASE 0 \in stored[p]
        BY <4>1, <3>1
      <4>2. CASE 0 \notin stored[p]
        <5>1. ~(pool_control[p] >= 0) /\ pool_control[p] \in Int
          BY <4>2, <2>1, <2>4, <1>2 DEF FirstFits, DaemonTypes
        <5>2. pool_control[p] + 1 = 0
          BY <5>1, <1>5
        <5> QED BY <5>2, <3>1
      <4> QED BY <4>1, <4>2
    <3> QED BY <2>4, <3>2 DEF FirstFits
  <2> QED BY <2>3, <2>4
<1> QED BY <1>3, <1>4, <1>6, <1>7 DEF DInv

(* A number that has been given is put into the table of numbers, which is *)
(* there when anything is made.                                            *)
LEMMA UpdateFits ==
  ASSUME DInv, NEW p \in Stored, update_lastOID(p)
  PROVE  DInv'
<1>1. /\ making[p] = "STORED" /\ UNCHANGED <<main, tables, stored, last, running, told>>
      /\ pool_control' = Saved(p, last[p])
      /\ making' = [making EXCEPT ![p] = "SAVED"]
  BY DEF update_lastOID, history
<1>2. DaemonTypes /\ MainFits /\ TablesFit /\ NumbersFit(p)
  BY DEF DInv
<1>3. Loaded(p)
  BY <1>1, <1>2 DEF NumbersFit
<1>4. TablesThere
  BY <1>2, <1>3 DEF TablesFit, Loaded, InPlace
<1>5. pool_control' = [pool_control EXCEPT ![p] = last[p]]
  BY <1>1, <1>4 DEF Saved, TablesThere, SystemNeeds
<1>6. DaemonTypes'
  BY <1>1, <1>2, <1>5 DEF DaemonTypes
<1>7. MainFits' /\ TablesFit'
  BY <1>1, <1>2 DEF MainFits, TablesFit, Serving, At, Up, TablesThere
<1>8. \A q \in Stored : /\ q # p => pool_control'[q] = pool_control[q] /\ making'[q] = making[q]
                        /\ (Loaded(q)' <=> Loaded(q)) /\ (InPlace(q)' <=> InPlace(q))
                        /\ (At("STARTS")' <=> At("STARTS"))
  BY <1>1, <1>2, <1>5 DEF DaemonTypes, Loaded, InPlace, Up, At
<1>9. /\ pool_control'[p] = last[p] /\ making'[p] = "SAVED" /\ last[p] = pool_control[p] + 1
      /\ pool_control[p] \in Int /\ told[p] \in SUBSET Int
  BY <1>1, <1>2, <1>5 DEF DaemonTypes, NumbersFit
<1>10. NumbersFit(p)'
  BY <1>1, <1>2, <1>8, <1>9 DEF NumbersFit
<1>11. \A q \in Stored : NumbersFit(q)'
  <2> SUFFICES ASSUME NEW q \in Stored, q # p PROVE NumbersFit(q)'
    BY <1>10
  <2>1. NumbersFit(q)
    BY DEF DInv
  <2> QED BY <1>1, <1>8, <2>1 DEF NumbersFit
<1>12. \A q \in Core : FirstFits(q)'
  <2> SUFFICES ASSUME NEW q \in Core PROVE FirstFits(q)'
    OBVIOUS
  <2>1. FirstFits(q) /\ q \in Stored
    BY DEF DInv, Core, Stored
  <2> QED BY <1>1, <1>8, <1>9, <2>1 DEF FirstFits
<1> QED BY <1>6, <1>7, <1>11, <1>12 DEF DInv

(* Who is told a number is told the last one, which is in the database.    *)
LEMMA CreatedFits ==
  ASSUME DInv, NEW p \in Stored, created(p)
  PROVE  DInv'
<1>1. /\ making[p] = "SAVED" /\ UNCHANGED <<main, tables, stored, pool_control, last, running>>
      /\ making' = [making EXCEPT ![p] = "NO"]
      /\ told' = told \/ told' = [told EXCEPT ![p] = @ \cup {last[p]}]
  BY DEF created, database
<1>2. ~InPlace(p)
  BY MakesInPlace DEF created
<1>3. DaemonTypes /\ MainFits /\ TablesFit /\ NumbersFit(p)
  BY DEF DInv
<1>4. Loaded(p) /\ last[p] = pool_control[p] /\ last[p] >= 0 /\ last[p] \in Int
  BY <1>1, <1>3 DEF NumbersFit, DaemonTypes
<1>5. DaemonTypes'
  BY <1>1, <1>3, <1>4 DEF DaemonTypes
<1>6. MainFits' /\ TablesFit'
  BY <1>1, <1>3 DEF MainFits, TablesFit, Serving, At, Up, TablesThere
<1>7. \A q \in Stored : /\ q # p => told'[q] = told[q] /\ making'[q] = making[q]
                        /\ (Loaded(q)' <=> Loaded(q)) /\ (InPlace(q)' <=> InPlace(q))
                        /\ (At("STARTS")' <=> At("STARTS"))
  BY <1>1, <1>3 DEF DaemonTypes, Loaded, InPlace, Up, At
<1>8. making'[p] = "NO" /\ told'[p] \subseteq told[p] \cup {last[p]}
  BY <1>1, <1>3 DEF DaemonTypes
<1>9. NumbersFit(p)'
  BY <1>1, <1>2, <1>3, <1>4, <1>7, <1>8 DEF NumbersFit
<1>10. \A q \in Stored : NumbersFit(q)'
  <2> SUFFICES ASSUME NEW q \in Stored, q # p PROVE NumbersFit(q)'
    BY <1>9
  <2>1. NumbersFit(q)
    BY DEF DInv
  <2> QED BY <1>1, <1>7, <2>1 DEF NumbersFit
<1>11. \A q \in Core : FirstFits(q)'
  <2> SUFFICES ASSUME NEW q \in Core PROVE FirstFits(q)'
    OBVIOUS
  <2>1. FirstFits(q) /\ q \in Stored
    BY DEF DInv, Core, Stored
  <2> QED BY <1>1, <1>7, <1>8, <2>1 DEF FirstFits
<1> QED BY <1>5, <1>6, <1>10, <1>11 DEF DInv

(* The first object of the pools that need one is never deleted.           *)
LEMMA DeleteFits ==
  ASSUME DInv, NEW p \in Stored, delete(p)
  PROVE  DInv'
<1>1. UNCHANGED <<main, tables, pool_control, last, making, running, told>>
  BY DEF delete, memory, history
<1>2. PICK n \in stored[p] : Deletable(p, n) /\ stored' = [stored EXCEPT ![p] = @ \ {n}]
  BY DEF delete
<1>3. DaemonTypes /\ MainFits /\ TablesFit
  BY DEF DInv
<1>4. DaemonTypes'
  BY <1>1, <1>2, <1>3 DEF DaemonTypes
<1>5. MainFits' /\ TablesFit'
  BY <1>1, <1>3 DEF MainFits, TablesFit, Serving, At, Up, TablesThere
<1>6. \A q \in Stored : /\ (Loaded(q)' <=> Loaded(q)) /\ (InPlace(q)' <=> InPlace(q))
                        /\ (At("STARTS")' <=> At("STARTS"))
  BY <1>1 DEF Loaded, InPlace, Up, At
<1>7. \A q \in Stored : NumbersFit(q)'
  BY <1>1, <1>6 DEF DInv, NumbersFit
<1>8. \A q \in Core : 0 \in stored[q] => 0 \in stored'[q]
  BY <1>2, <1>3, DaemonAssumption DEF DaemonTypes, Deletable, Core, Stored
<1>9. \A q \in Core : FirstFits(q)'
  <2> SUFFICES ASSUME NEW q \in Core PROVE FirstFits(q)'
    OBVIOUS
  <2>1. FirstFits(q) /\ q \in Stored
    BY DEF DInv, Core, Stored
  <2> QED BY <1>1, <1>6, <1>8, <2>1 DEF FirstFits
<1> QED BY <1>4, <1>5, <1>7, <1>9 DEF DInv

-----------------------------------------------------------------------------
(* The pools when they are constructed                                     *)

(* The main thread goes on with a pool, or leaves one: nothing else is     *)
(* changed but the last number of a pool that has just been read.          *)
LEMMA InitPoolFits ==
  ASSUME DInv, NEW p \in Stored, Starting(p), ~main.open,
         last' = [last EXCEPT ![p] = pool_control[p]],
         main' = IF WantsDefaults(p) THEN [main EXCEPT !.open = TRUE]
                                     ELSE [main EXCEPT !.step = @ + 1],
         UNCHANGED <<tables, stored, pool_control, making, running, told>>
  PROVE  DInv'
<1>1. /\ At("STARTS") /\ main.step = Place(p) /\ main.made = 0 /\ main \in MainTypes /\ ~Up
      /\ DaemonTypes /\ MainFits /\ TablesFit /\ ~Serving
  BY MakesInPlace DEF DInv, MainFits, DaemonTypes, Up, At
<1>2. Place(p) \in 1..11 /\ Place(p) \in {1, 2, 3, 11}
  BY DEF Place
<1>3. \/ /\ WantsDefaults(p)
         /\ main' = [at |-> main.at, step |-> main.step, open |-> TRUE,
                     made |-> main.made, failed |-> main.failed]
      \/ /\ ~WantsDefaults(p)
         /\ main' = [at |-> main.at, step |-> main.step + 1, open |-> main.open,
                     made |-> main.made, failed |-> main.failed]
  BY <1>1, Zenon DEF MainTypes
<1>4. /\ main' \in MainTypes /\ main'.at = main.at /\ main'.made = 0
      /\ WantsDefaults(p) => main'.step = Place(p) /\ main'.open
      /\ ~WantsDefaults(p) => main'.step = Place(p) + 1 /\ ~main'.open
  <2>1. /\ main.at \in {"DOWN", "CHECK", "BOOTSTRAP", "STARTS", "LOADING", "WAITS", "ENDS"}
        /\ main.step \in Nat /\ main.step + 1 \in Nat
        /\ main.open \in BOOLEAN /\ main.made \in Nat /\ main.failed \in BOOLEAN
    BY <1>1 DEF MainTypes
  <2>2. CASE WantsDefaults(p)
    BY <1>1, <1>3, <2>1, <2>2 DEF MainTypes
  <2>3. CASE ~WantsDefaults(p)
    <3>1. main' = [at |-> main.at, step |-> main.step + 1, open |-> main.open,
                   made |-> main.made, failed |-> main.failed]
      BY <1>3, <2>3
    <3> QED BY <1>1, <2>1, <2>3, <3>1 DEF MainTypes
  <2> QED BY <2>2, <2>3
<1>5. DaemonTypes' /\ MainFits' /\ TablesFit'
  BY <1>1, <1>2, <1>4 DEF DaemonTypes, MainFits, TablesFit, At, Up, Serving, TablesThere
<1>6. /\ \A q \in Stored : ~InPlace(q) /\ making[q] = "NO"
      /\ ~Loaded(p) /\ Loaded(p)' /\ (InPlace(p)' <=> WantsDefaults(p))
  BY <1>1, <1>2, <1>4 DEF InPlace, Loaded, Up, At, DInv, NumbersFit
<1>7. \A q \in Stored : q # p => /\ (Loaded(q)' <=> Loaded(q)) /\ ~InPlace(q)' /\ last'[q] = last[q]
  <2> SUFFICES ASSUME NEW q \in Stored, q # p
               PROVE  /\ (Loaded(q)' <=> Loaded(q)) /\ ~InPlace(q)' /\ last'[q] = last[q]
    OBVIOUS
  <2>1. Place(q) # Place(p) /\ Place(q) \in 1..11
    BY DifferentPlaces
  <2>2. ~InPlace(q)'
    BY <1>4, <2>1 DEF InPlace
  <2>3. Loaded(q)' <=> Loaded(q)
    BY <1>1, <1>2, <1>4, <1>6, <2>1, <2>2 DEF Loaded, Up, At
  <2> QED BY <2>2, <2>3, <1>1 DEF DaemonTypes
<1>8. last'[p] = pool_control[p] /\ pool_control[p] \in Int
  BY <1>1 DEF DaemonTypes
<1>9. p \in {"GROUP", "DATASTORE"} /\ WantsDefaults(p) => told[p] = {}
  <2> SUFFICES ASSUME p \in {"GROUP", "DATASTORE"}, pool_control[p] = -1, NEW n \in told[p] PROVE FALSE
    BY DEF WantsDefaults
  <2>1. 0 <= n /\ n <= -1 /\ n \in Int
    BY <1>1 DEF DInv, NumbersFit, DaemonTypes
  <2> QED BY <2>1
<1>10. \A q \in Stored : NumbersFit(q)'
  <2> SUFFICES ASSUME NEW q \in Stored PROVE NumbersFit(q)'
    OBVIOUS
  <2>1. NumbersFit(q)
    BY DEF DInv
  <2>2. CASE q = p
    BY <2>1, <2>2, <1>6, <1>8, <1>9 DEF NumbersFit
  <2>3. CASE q # p
    BY <2>1, <2>3, <1>6, <1>7 DEF NumbersFit
  <2> QED BY <2>2, <2>3
<1>11. \A q \in Core : FirstFits(q)'
  <2> SUFFICES ASSUME NEW q \in Core PROVE FirstFits(q)'
    OBVIOUS
  <2>1. FirstFits(q) /\ q \in Stored
    BY DEF DInv, Core, Stored
  <2>2. CASE q = p
    <3>1. ~WantsDefaults(p) => 0 \in stored[p]
      <4>1. pool_control[p] >= -1
        BY DEF DInv, NumbersFit
      <4> QED BY <4>1, <1>8, <2>1, <2>2 DEF WantsDefaults, FirstFits
    <3> QED BY <2>1, <2>2, <3>1, <1>4, <1>6 DEF FirstFits
  <2>3. CASE q # p
    BY <2>1, <2>3, <1>6, <1>7 DEF FirstFits
  <2> QED BY <2>2, <2>3
<1> QED BY <1>5, <1>10, <1>11 DEF DInv

(* One default after the other: that of a core pool has been made.         *)
LEMMA NextDefaultFits ==
  ASSUME DInv, NEW p \in Stored, MakesDefaults(p), NextDefault,
         making' = [making EXCEPT ![p] = "NO"], making[p] # "STORED", p \in Core => making[p] # "NO",
         UNCHANGED <<tables, stored, pool_control, last, running, told>>
  PROVE  DInv'
<1>1. /\ InPlace(p) /\ At("STARTS") /\ main.open /\ ~Up /\ ~Serving
      /\ DaemonTypes /\ MainFits /\ TablesFit /\ main \in MainTypes
  BY MakesInPlace DEF InPlace, DInv, MainFits, DaemonTypes, Up, At
<1>2. main' = [at |-> main.at, step |-> main.step, open |-> main.open,
               made |-> main.made + 1, failed |-> main.failed]
  BY <1>1, Zenon DEF MainTypes, NextDefault
<1>3. /\ main' \in MainTypes /\ main'.at = main.at /\ main'.step = main.step /\ main'.open = main.open
  BY <1>1, <1>2 DEF MainTypes
<1>4. DaemonTypes' /\ MainFits' /\ TablesFit'
  BY <1>1, <1>3 DEF DaemonTypes, MainFits, TablesFit, At, Up, Serving, TablesThere
<1>5. \A q \in Stored : /\ (Loaded(q)' <=> Loaded(q)) /\ (InPlace(q)' <=> InPlace(q))
                        /\ making'[q] = "NO"
  <2> SUFFICES ASSUME NEW q \in Stored
               PROVE  /\ (Loaded(q)' <=> Loaded(q)) /\ (InPlace(q)' <=> InPlace(q))
                      /\ making'[q] = "NO"
    OBVIOUS
  <2>1. q # p => making[q] = "NO"
    BY <1>1, OneInPlace DEF DInv, NumbersFit
  <2>2. making'[q] = "NO"
    BY <1>1, <2>1 DEF DaemonTypes
  <2> QED BY <1>3, <2>2 DEF Loaded, InPlace, Up, At
<1>6. \A q \in Stored : NumbersFit(q)'
  <2> SUFFICES ASSUME NEW q \in Stored PROVE NumbersFit(q)'
    OBVIOUS
  <2>1. NumbersFit(q) /\ making[q] # "STORED"
    BY <1>1, OneInPlace DEF DInv, NumbersFit
  <2> QED BY <2>1, <1>5 DEF NumbersFit
<1>7. \A q \in Core : FirstFits(q)'
  <2> SUFFICES ASSUME NEW q \in Core PROVE FirstFits(q)'
    OBVIOUS
  <2>1. FirstFits(q) /\ q \in Stored
    BY DEF DInv, Core, Stored
  <2>2. Loaded(q) => 0 \in stored[q]
    BY <1>1, <2>1, OneInPlace DEF FirstFits
  <2> QED BY <2>1, <2>2, <1>5 DEF FirstFits
<1> QED BY <1>4, <1>6, <1>7 DEF DInv

(* The numbers below LAST_DEFAULT are set aside before anyone is told one. *)
LEMMA DefaultsMadeFits ==
  ASSUME DInv, defaults_made
  PROVE  DInv'
<1>1. PICK p \in Stored :
        /\ MakesDefaults(p) /\ main.made = Defaults(p)
        /\ \/ /\ p \in {"GROUP", "DATASTORE"}
              /\ last' = [last EXCEPT ![p] = LAST_DEFAULT] /\ pool_control' = Saved(p, LAST_DEFAULT)
           \/ /\ p \notin {"GROUP", "DATASTORE"} /\ UNCHANGED <<last, pool_control>>
        /\ main' = [main EXCEPT !.step = @ + 1, !.open = FALSE, !.made = 0]
        /\ UNCHANGED <<tables, stored, making, running, told>>
  BY DEF defaults_made, history
<1>2. /\ InPlace(p) /\ At("STARTS") /\ main.step = Place(p) /\ ~Up /\ ~Serving
      /\ DaemonTypes /\ MainFits /\ TablesFit /\ main \in MainTypes /\ Place(p) \in 1..11
  BY <1>1, MakesInPlace DEF InPlace, DInv, MainFits, DaemonTypes, Up, At, Place
<1>3. main' = [at |-> main.at, step |-> main.step + 1, open |-> FALSE, made |-> 0,
               failed |-> main.failed]
  BY <1>1, <1>2, Zenon DEF MainTypes
<1>4. /\ main' \in MainTypes /\ main'.at = main.at /\ main'.step = Place(p) + 1
      /\ main'.open = FALSE /\ main'.made = 0
  BY <1>2, <1>3 DEF MainTypes
<1>5. \A q \in Stored : making[q] = "NO"
  <2>1. making[p] = "NO"
    BY <1>1, <1>2 DEF DInv, NumbersFit, Defaults
  <2> QED BY <1>2, <2>1, OneInPlace DEF DInv, NumbersFit
<1>6. TablesThere
  BY <1>2 DEF TablesFit
<1>7. \/ /\ p \in {"GROUP", "DATASTORE"} /\ last' = [last EXCEPT ![p] = LAST_DEFAULT]
         /\ pool_control' = [pool_control EXCEPT ![p] = LAST_DEFAULT]
      \/ p \notin {"GROUP", "DATASTORE"} /\ UNCHANGED <<last, pool_control>>
  BY <1>1, <1>6 DEF Saved, TablesThere, SystemNeeds
<1>8. DaemonTypes'
  BY <1>1, <1>2, <1>4, <1>7, DaemonAssumption DEF DaemonTypes
<1>9. MainFits' /\ TablesFit'
  BY <1>1, <1>2, <1>4 DEF MainFits, TablesFit, At, Up, Serving, TablesThere
<1>10. \A q \in Stored : ~InPlace(q)'
  BY <1>4 DEF InPlace
<1>11. \A q \in Stored : q # p => /\ (Loaded(q)' <=> Loaded(q)) /\ last'[q] = last[q]
                                  /\ pool_control'[q] = pool_control[q]
  <2> SUFFICES ASSUME NEW q \in Stored, q # p
               PROVE  /\ (Loaded(q)' <=> Loaded(q)) /\ last'[q] = last[q]
                      /\ pool_control'[q] = pool_control[q]
    OBVIOUS
  <2>1. Place(q) # Place(p) /\ Place(q) \in 1..11 /\ ~InPlace(q)
    BY <1>2, DifferentPlaces, OneInPlace
  <2>2. Loaded(q)' <=> Loaded(q)
    BY <1>2, <1>4, <1>10, <2>1 DEF Loaded, Up, At
  <2> QED BY <2>2, <1>2, <1>7 DEF DaemonTypes
<1>12. NumbersFit(p)'
  <2>1. NumbersFit(p) /\ last[p] = pool_control[p]
    BY <1>2, <1>5 DEF DInv, NumbersFit, Loaded
  <2>2. CASE p \in {"GROUP", "DATASTORE"}
    <3>1. last'[p] = LAST_DEFAULT /\ pool_control'[p] = LAST_DEFAULT
      BY <1>2, <1>7, <2>2 DEF DaemonTypes
    <3>2. told'[p] = {} /\ making'[p] = "NO"
      BY <1>1, <1>2, <1>5, <2>1, <2>2 DEF NumbersFit
    <3> QED BY <3>1, <3>2, <1>10, DaemonAssumption DEF NumbersFit
  <2>3. CASE p \notin {"GROUP", "DATASTORE"}
    BY <1>1, <1>5, <1>7, <1>10, <2>1, <2>3 DEF NumbersFit
  <2> QED BY <2>2, <2>3
<1>13. \A q \in Stored : NumbersFit(q)'
  <2> SUFFICES ASSUME NEW q \in Stored, q # p PROVE NumbersFit(q)'
    BY <1>12
  <2>1. NumbersFit(q)
    BY DEF DInv
  <2> QED BY <2>1, <1>1, <1>5, <1>10, <1>11 DEF NumbersFit
<1>14. \A q \in Core : FirstFits(q)'
  <2> SUFFICES ASSUME NEW q \in Core PROVE FirstFits(q)'
    OBVIOUS
  <2>1. FirstFits(q) /\ q \in Stored
    BY DEF DInv, Core, Stored
  <2>2. CASE q = p
    <3>1. 0 \in stored[q]
      BY <1>1, <1>2, <2>1, <2>2 DEF FirstFits, Loaded, Defaults
    <3> QED BY <3>1, <1>1, <1>5 DEF FirstFits
  <2>3. CASE q # p
    <3>1. ~InPlace(q)
      BY <1>2, <2>1, <2>3, OneInPlace
    <3> QED BY <2>1, <2>3, <3>1, <1>1, <1>5, <1>11 DEF FirstFits
  <2> QED BY <2>2, <2>3
<1> QED BY <1>8, <1>9, <1>13, <1>14 DEF DInv

-----------------------------------------------------------------------------
(* The managers                                                            *)

(* When all are started every pool has been read.                          *)
LEMMA ManagerFits ==
  ASSUME DInv, NEW m \in Managers, Starting(m), running' = running \cup {m},
         IF m = "RM" THEN Enters("LOADING") ELSE main' = [main EXCEPT !.step = @ + 1],
         UNCHANGED <<tables, stored, pool_control, last, making, told>>
  PROVE  DInv'
<1>1. /\ At("STARTS") /\ main.step \in 1..14 /\ StartOrder[main.step] = m /\ m \notin Stored
      /\ DaemonTypes /\ MainFits /\ TablesFit /\ main \in MainTypes /\ ~Up /\ ~Serving
  BY DEF Starting, DInv, MainFits, DaemonTypes, Managers, Up, At
<1>2. \A q \in Stored : main.step # Place(q) /\ Place(q) \in 1..11
  BY <1>1, Places DEF Place
<1>3. \A q \in Stored : ~InPlace(q) /\ making[q] = "NO"
  BY <1>1, <1>2 DEF InPlace, DInv, NumbersFit
<1>4. ~main.open
  <2>1. \A i \in {1, 2, 3, 11} : \E r \in Stored : i = Place(r)
    BY DEF Stored, Place
  <2> QED BY <2>1, <1>1, <1>2 DEF MainFits
<1>5. CASE m = "RM"
  <2>1. main' = Fresh("LOADING") /\ main.step = 14
    BY <1>1, <1>5, EntersFresh, Places
  <2>2. main' \in MainTypes
    BY <2>1 DEF Fresh, MainTypes
  <2>3. DaemonTypes' /\ MainFits' /\ TablesFit'
    BY <1>1, <2>1, <2>2 DEF DaemonTypes, MainFits, TablesFit, Fresh, At, Up, Serving, TablesThere
  <2>4. \A q \in Stored : Loaded(q) /\ ~InPlace(q)' /\ Loaded(q)' /\ ~At("STARTS")'
    BY <1>1, <1>2, <2>1 DEF Loaded, InPlace, Up, At, Fresh
  <2>5. \A q \in Stored : NumbersFit(q)'
    BY <1>3, <2>4 DEF DInv, NumbersFit
  <2>6. \A q \in Core : FirstFits(q)'
    BY <1>3, <2>4 DEF DInv, FirstFits, Core, Stored
  <2> QED BY <2>3, <2>5, <2>6 DEF DInv
<1>6. CASE m # "RM"
  <2>1. main.step # 14
    BY <1>1, <1>6, Places
  <2>2. main' = [main EXCEPT !.step = @ + 1, !.failed = main.failed] /\ main.failed \in BOOLEAN
    BY <1>1, <1>6 DEF MainTypes
  <2>3. /\ main' \in MainTypes
        /\ main'.at = main.at /\ main'.step = main.step + 1 /\ main'.open = main.open
        /\ main'.made = main.made
    BY <1>1, <2>2, StepOn
  <2>4. DaemonTypes' /\ MainFits' /\ TablesFit'
    BY <1>1, <1>4, <1>6, <2>1, <2>3 DEF DaemonTypes, MainFits, TablesFit, At, Up, Serving, TablesThere
  <2>5. \A q \in Stored : (Loaded(q)' <=> Loaded(q)) /\ ~InPlace(q)'
    <3> SUFFICES ASSUME NEW q \in Stored PROVE (Loaded(q)' <=> Loaded(q)) /\ ~InPlace(q)'
      OBVIOUS
    <3>1. ~InPlace(q)'
      BY <1>4, <2>3 DEF InPlace
    <3> QED BY <1>1, <1>2, <1>3, <2>3, <3>1 DEF Loaded, Up, At
  <2>6. \A q \in Stored : NumbersFit(q)'
    BY <1>3, <2>5 DEF DInv, NumbersFit
  <2>7. \A q \in Core : FirstFits(q)'
    BY <1>3, <2>5 DEF DInv, FirstFits, Core, Stored
  <2> QED BY <2>4, <2>6, <2>7 DEF DInv
<1> QED BY <1>5, <1>6

(* Later the main thread waits, and ends one manager after the other.      *)
LEMMA WaitsFits ==
  ASSUME DInv, load_mads \/ sigterm \/ manager_joined
  PROVE  DInv'
<1>1. /\ Up /\ UNCHANGED <<tables, stored, pool_control, last, making, told>>
      /\ running' \subseteq running
  BY DEF load_mads, sigterm, manager_joined, database, memory, history, Up, At
<1>2. /\ main \in MainTypes /\ DaemonTypes /\ MainFits /\ TablesFit
      /\ main.open = FALSE /\ main.made = 0 /\ ~At("STARTS")
  BY <1>1 DEF DInv, DaemonTypes, MainTypes, MainFits, Up, At
<1>3. /\ main' \in MainTypes /\ main'.at \in {"WAITS", "ENDS"}
      /\ main'.open = FALSE /\ main'.made = 0
  <2>1. CASE load_mads
    <3>1. main' = Fresh("WAITS")
      BY <2>1, EntersFresh DEF load_mads
    <3> QED BY <3>1 DEF Fresh, MainTypes
  <2>2. CASE sigterm
    <3>1. main' = Fresh("ENDS")
      BY <2>2, EntersFresh DEF sigterm
    <3> QED BY <3>1 DEF Fresh, MainTypes
  <2>3. CASE manager_joined
    <3>1. main' = [main EXCEPT !.step = @ + 1, !.failed = main.failed] /\ main.failed \in BOOLEAN
      BY <2>3, <1>2 DEF manager_joined, MainTypes
    <3>2. At("ENDS")
      BY <2>3 DEF manager_joined
    <3> QED BY <1>2, <3>1, <3>2, StepOn DEF At
  <2> QED BY <2>1, <2>2, <2>3
<1>4. DaemonTypes' /\ MainFits' /\ TablesFit'
  BY <1>1, <1>2, <1>3 DEF DaemonTypes, MainFits, TablesFit, At, Up, Serving, TablesThere
<1>5. \A q \in Stored : Loaded(q) /\ ~InPlace(q) /\ ~InPlace(q)' /\ Loaded(q)' /\ ~At("STARTS")'
  BY <1>1, <1>2, <1>3 DEF Loaded, InPlace, Up, At
<1>6. \A q \in Stored : NumbersFit(q)'
  BY <1>1, <1>5 DEF DInv, NumbersFit
<1>7. \A q \in Core : FirstFits(q)'
  BY <1>1, <1>5 DEF DInv, FirstFits, Core, Stored
<1> QED BY <1>4, <1>6, <1>7 DEF DInv

LEMMA NothingFits ==
  ASSUME DInv, UNCHANGED daemon_vars
  PROVE  DInv'
<1>1. UNCHANGED <<main, tables, stored, pool_control, last, making, running, told>>
  BY DEF daemon_vars, database, memory, history
<1>2. \A q \in Stored : NumbersFit(q)'
  BY <1>1 DEF DInv, NumbersFit, Loaded, InPlace, Up, At
<1>3. \A q \in Core : FirstFits(q)'
  BY <1>1 DEF DInv, FirstFits, Loaded, InPlace, Up, At
<1> QED BY <1>1, <1>2, <1>3
        DEF DInv, DaemonTypes, MainFits, TablesFit, TablesThere, Serving, At, Up

-----------------------------------------------------------------------------
(* Every step of a daemon                                                  *)

LEMMA MainStepFits ==
  ASSUME "pool_control" \notin Failing, DInv, MainStep
  PROVE  DInv'
<1>1. CASE starts \/ setup \/ (checks /\ ~exits)
  BY <1>1, BeginsFits
<1>2. CASE exits \/ killed
  BY <1>2, ForgetsFits DEF exits, killed
<1>3. CASE exec_bootstrap
  BY <1>3, BootstrapFits
<1>4. CASE bootstrapped /\ ~exits
  BY <1>4, BootstrappedFits
<1>5. CASE init_pool /\ ~killed
  <2>1. PICK p \in Stored :
          /\ Starting(p) /\ ~main.open
          /\ last' = [last EXCEPT ![p] = pool_control[p]]
          /\ main' = IF WantsDefaults(p) THEN [main EXCEPT !.open = TRUE]
                                         ELSE [main EXCEPT !.step = @ + 1]
          /\ UNCHANGED <<lock_file, database, making, running, history>>
    BY <1>5 DEF init_pool
  <2>2. UNCHANGED <<tables, stored, pool_control, making, running, told>>
    BY <2>1 DEF database, history
  <2> QED BY <2>1, <2>2, InitPoolFits
<1>6. CASE make_default
  <2>1. PICK p \in Stored :
          /\ MakesDefaults(p) /\ main.made < Defaults(p) /\ Inserted(p)
          /\ UNCHANGED <<main, running, told>>
    BY <1>6 DEF make_default, history
  <2>2. InPlace(p) /\ Loaded(p)
    BY <2>1, MakesInPlace DEF Loaded
  <2> QED BY <2>1, <2>2, InsertedFits
<1>7. CASE default_refused /\ ~exits /\ ~killed
  <2>1. /\ MakesDefaults("ACL") /\ making["ACL"] = "NO" /\ NextDefault
        /\ UNCHANGED <<tables, stored, pool_control, last, making, running, told>>
    BY <1>7 DEF default_refused, database, memory, history
  <2>2. making' = [making EXCEPT !["ACL"] = "NO"] /\ "ACL" \in Stored /\ "ACL" \notin Core
    BY <2>1 DEF DInv, DaemonTypes, Stored, Core
  <2> QED BY <2>1, <2>2, NextDefaultFits
<1>8. CASE default_made
  <2>1. PICK p \in Stored :
          /\ MakesDefaults(p) /\ making[p] = "SAVED" /\ making' = [making EXCEPT ![p] = "NO"]
          /\ NextDefault /\ UNCHANGED <<tables, stored, pool_control, last, running, told>>
    BY <1>8 DEF default_made, database, history
  <2> QED BY <2>1, NextDefaultFits
<1>9. CASE defaults_made
  BY <1>9, DefaultsMadeFits
<1>10. CASE start_manager /\ ~exits
  <2>1. PICK m \in Managers :
          /\ Starting(m) /\ running' = running \cup {m}
          /\ IF m = "RM" THEN Enters("LOADING") ELSE main' = [main EXCEPT !.step = @ + 1]
          /\ UNCHANGED <<tables, stored, pool_control, last, making, told>>
    BY <1>10 DEF start_manager, database, history
  <2> QED BY <2>1, ManagerFits
<1>11. CASE load_mads \/ sigterm \/ manager_joined
  BY <1>11, WaitsFits
<1> QED BY <1>1, <1>2, <1>3, <1>4, <1>5, <1>6, <1>7, <1>8, <1>9, <1>10, <1>11
        DEF MainStep, refuses, ends

LEMMA RequestStepFits ==
  ASSUME DInv, NEW p \in Stored, RequestStep(p)
  PROVE  DInv'
<1>1. CASE create(p)
  <2>1. Up /\ ~At("STARTS")
    BY <1>1 DEF create, DInv, MainFits, Up, At
  <2>2. Inserted(p) /\ UNCHANGED <<main, running, told>>
    BY <1>1 DEF create, history
  <2> QED BY <2>1, <2>2, InsertedFits DEF Loaded
<1> QED BY <1>1, CreatedFits, DeleteFits DEF RequestStep

LEMMA DaemonStepFits ==
  ASSUME "pool_control" \notin Failing, DInv, present \in {"ACCOUNTS"} \cup Stored,
         [StateNext]_state_vars
  PROVE  DInv' /\ present' = present
<1>1. CASE DaemonStep(DaemonNext({present}))
  <2>1. present \in Stored /\ DaemonNext({present}) /\ present' = present
    BY <1>1 DEF DaemonStep
  <2>2. CASE setup
    BY <2>1, <2>2, BeginsFits
  <2>3. CASE killed
    BY <2>1, <2>3, ForgetsFits DEF killed
  <2> QED BY <2>1, <2>2, <2>3, MainStepFits, UpdateFits, RequestStepFits DEF DaemonNext
<1>2. CASE AccountStep(Next)
  BY <1>2, NothingFits DEF AccountStep
<1>3. CASE UNCHANGED state_vars
  BY <1>3, NothingFits DEF state_vars
<1> QED BY <1>1, <1>2, <1>3 DEF StateNext

LEMMA DaemonFits ==
  ASSUME "pool_control" \notin Failing
  PROVE  StateSpec => []DInv
<1> DEFINE PInv == DInv /\ present \in {"ACCOUNTS"} \cup Stored
<1>1. StateInit => PInv
  BY InitFits DEF StateInit
<1>2. PInv /\ [StateNext]_state_vars => PInv'
  BY DaemonStepFits
<1>3. PInv => DInv
  OBVIOUS
<1> QED BY <1>1, <1>2, <1>3, PTL DEF StateSpec

-----------------------------------------------------------------------------
(* A daemon that serves requests has every table, and the first user, group*)
(* and datastore, whatever has become of the daemons before it: of         *)
(* system_db->bootstrap, the constructors of the pools and their defaults, *)
(* as long as the statement that makes pool_control does not fail.         *)
THEOREM ServesAWholeDatabase ==
  ASSUME "pool_control" \notin Failing
  PROVE  StateSpec => []ServesWhole
<1>1. DInv => ServesWhole
  <2> SUFFICES ASSUME DInv, Serving PROVE ServesWhole
    BY DEF ServesWhole
  <2>1. Up /\ ~At("STARTS") /\ TablesThere
    BY DEF DInv, MainFits, TablesFit, Up, At
  <2>2. \A p \in Core : 0 \in stored[p]
    BY <2>1 DEF DInv, FirstFits, Loaded, InPlace
  <2> QED BY <2>1, <2>2 DEF ServesWhole, TablesThere, SystemNeeds, Core
<1> QED BY <1>1, DaemonFits, PTL

(* No number that a user has been told is given to a second object, when   *)
(* the first is deleted, the daemon killed between the statements of an    *)
(* allocation, and started again: of PoolSQL::allocate, update_lastOID and *)
(* the constructor of PoolSQL.                                             *)
THEOREM NumbersAreGivenOnce ==
  ASSUME "pool_control" \notin Failing
  PROVE  StateSpec => []NumbersGivenOnce
<1>1. DInv => NumbersGivenOnce
  BY DEF DInv, DaemonTypes, NumbersFit, NumbersGivenOnce
<1> QED BY <1>1, DaemonFits, PTL

-----------------------------------------------------------------------------
(***************************************************************************)
(* The ledgers of users and groups, for any accounts, VMs, amounts, limits *)
(* and changes of limits, with resizes that are rolled back at any moment: *)
(* LeasesWhole says under what condition they are exact.                   *)
(*                                                                         *)
(* What an account is charged is what the VMs it pays for need, and what   *)
(* the calls that are under way have charged and are to give back; each    *)
(* call is followed from step to step by what it has charged so far.       *)
(***************************************************************************)

(* Where the ledgers are exact                                             *)

(* Accounts of this kind are never limited in a metric.                    *)
NeverLimits(A, d, m) ==
  /\ \A a \in A : FirstLimits[a][m] \in {Unlimited, TheDefault}
  /\ FirstLimits[d][m] = Unlimited
  /\ \A s \in Settings : s.to \in A \cup {d} /\ m \in MetricsOf(s.family) => s.limit[m] <= Unlimited
NeverLimited(A, d, m) ==
  /\ \A a \in A : limits[a][m] \in {Unlimited, TheDefault}
  /\ limits[d][m] = Unlimited

(* Who is refused some of the NICs of a VM stays charged for the others,   *)
(* so a VM has one NIC, or leases are not limited.                         *)
LeasesWhole   == \/ MaxNics <= 1
                 \/ NeverLimits(User, "USERS", "LEASES") /\ NeverLimits(Group, "GROUPS", "LEASES")
LeasesAsMeant == \/ MaxNics <= 1
                 \/ NeverLimited(User, "USERS", "LEASES") /\ NeverLimited(Group, "GROUPS", "LEASES")

-----------------------------------------------------------------------------
(* What a call is at each of its steps                                     *)

WholeNeeds == {Whole(x, n) : x \in Nat, n \in 0..MaxNics}
Changes    == {CpuChange(d) : d \in Int}
Excesses   == {OneLess(CpuChange(d)) : d \in Int}
AllNeeds   == WholeNeeds \cup {Lease} \cup Changes \cup Excesses
Ops  == {"CHECK_USER", "CHECK_GROUP", "GIVE_USER", "GIVE_GROUP", "INSERT", "RESIZE",
         "HOTPLUG", "SET_NIC", "SET_OWNER"}
Jobs == {"ALLOCATE", "RESIZE", "ATTACH", "CHOWN", "END", "ROLLBACK"}
Halves   == [uid : User \cup {NoAccount}, gid : Group \cup {NoAccount}]
NewCalls == [op : Ops, job : Jobs, vm : VM \cup {NoVM},
             uid : User \cup {NoAccount}, gid : Group \cup {NoAccount},
             need : AllNeeds, other : Halves, cpu : Cpus \cup {0}, copy : Nat]
CallOfCopy(c) == c \in NewCalls /\ c.copy \in 1..MaxCalls
Like(d, c) == /\ d.op = c.op /\ d.job = c.job /\ d.vm = c.vm /\ d.uid = c.uid /\ d.gid = c.gid
              /\ d.need = c.need /\ d.other = c.other /\ d.cpu = c.cpu

OpsOf(job) ==
  IF job = "ALLOCATE" THEN {"CHECK_USER", "CHECK_GROUP", "INSERT"}
  ELSE IF job = "RESIZE" THEN {"CHECK_USER", "CHECK_GROUP", "RESIZE"}
  ELSE IF job = "ATTACH" THEN {"CHECK_USER", "CHECK_GROUP", "HOTPLUG", "SET_NIC"}
  ELSE IF job = "CHOWN" THEN {"CHECK_USER", "CHECK_GROUP", "GIVE_USER", "GIVE_GROUP", "SET_OWNER"}
  ELSE {"GIVE_USER", "GIVE_GROUP"}

IsOwner(c) == c.uid = vm[c.vm].uid /\ c.gid = vm[c.vm].gid

AllocateOK(c) == /\ c.vm = NoVM /\ c.uid \in User /\ c.gid \in Group
                 /\ c.need \in WholeNeeds /\ c.need["CPU"] = c.cpu
ResizeOK(c) == /\ c.vm \in VM /\ vm[c.vm].state # "NONE" /\ IsOwner(c)
               /\ c.cpu \in Cpus /\ c.need = CpuChange(c.cpu - vm[c.vm].cpu)
AttachOK(c) == /\ c.vm \in VM /\ vm[c.vm].state # "NONE" /\ IsOwner(c)
               /\ c.need = Lease
               /\ c.op = "SET_NIC" => vm[c.vm].state = "HOTPLUG" /\ ~vm[c.vm].attach
(* Of a new owner only the half that is given is charged, and of the old   *)
(* one only that half is given back.                                       *)
OldAndNew(old, new, owner) == (old = NoAccount <=> new = NoAccount) /\ old \in {NoAccount, owner}
ChownOK(c) == /\ c.vm \in VM /\ vm[c.vm].state \in {"POWEROFF", "RUNNING"}
              /\ c.need = Needs(c.vm)
              /\ c.op \in {"CHECK_USER", "CHECK_GROUP"} =>
                   /\ OldAndNew(c.other.uid, c.uid, vm[c.vm].uid)
                   /\ OldAndNew(c.other.gid, c.gid, vm[c.vm].gid)
              /\ c.op \notin {"CHECK_USER", "CHECK_GROUP"} =>
                   /\ OldAndNew(c.uid, c.other.uid, vm[c.vm].uid)
                   /\ OldAndNew(c.gid, c.other.gid, vm[c.vm].gid)
EndOK(c) == c.need \in WholeNeeds \cup {Lease}
RollbackOK(c) == c.need \in Excesses
CallOK(c) ==
  /\ c.op \in OpsOf(c.job)
  /\ c.job = "ALLOCATE" => AllocateOK(c)
  /\ c.job = "RESIZE" => ResizeOK(c)
  /\ c.job = "ATTACH" => AttachOK(c)
  /\ c.job = "CHOWN" => ChownOK(c)
  /\ c.job = "END" => EndOK(c)
  /\ c.job = "ROLLBACK" => RollbackOK(c)

(* A VM that changes its owner is left alone, and so is one that is        *)
(* resized or attached to, by calls of that kind.                          *)
Alone == \A c, d \in calls : c.vm = d.vm /\ c # d =>
           /\ c.job = "CHOWN" => d.job \in {"END", "ALLOCATE", "ROLLBACK"}
           /\ c.job = "RESIZE" => d.job # "RESIZE"
           /\ c.op = "SET_NIC" => d.op # "SET_NIC"
Attaches(v) == {c \in calls : c.vm = v /\ c.job = "ATTACH"}
NicsOK == \A v \in VM : /\ vm[v].nics + Cardinality(Attaches(v)) <= MaxNics
                        /\ vm[v].attach => vm[v].state = "HOTPLUG" /\ vm[v].nics > 0

VMTypes ==
  /\ vm \in [VM -> [state : VmState, uid : User \cup {NoAccount}, gid : Group \cup {NoAccount},
                    cpu : Nat, nics : 0..MaxNics, attach : BOOLEAN]]
  /\ \A v \in VM : vm[v].state # "NONE" => vm[v].uid \in User /\ vm[v].gid \in Group
LedgerTypes ==
  /\ usage \in [Account -> [Metric -> Int]]
  /\ limits \in [Account \cup Default -> [Metric -> Int]]
  /\ kept \in [Account -> SUBSET Family]
CallTypes ==
  /\ \A c \in calls : CallOfCopy(c)
  /\ IsFiniteSet(calls) /\ Cardinality(calls) <= MaxCalls

CallsInv == VMTypes /\ CallTypes /\ (\A c \in calls : CallOK(c)) /\ Alone /\ NicsOK
(* Who is given back by the roll-back of a resize is charged amiss.        *)
RolledFits == \A c \in calls : c.job = "ROLLBACK" => {c.uid, c.gid} \subseteq amiss \cup {NoAccount}
Slips    == slips \in 0..MaxSlips /\ amiss \subseteq Account /\ RolledFits
Ledgers  == LedgerTypes /\ Slips

Share(a, v, m) == IF Pays(a, v) THEN Needs(v)[m] ELSE 0
VSum(a, m) == Total(ForVMs(a, m), VM)
CSum(a, m) == Total(ForCalls(calls, a, m), calls)
ExactFor(a) == \A m \in Metric : usage[a][m] = VSum(a, m) + CSum(a, m)
Exact     == \A a \in Account \ amiss : ExactFor(a)
KeptIsAll == \A a \in Account, m \in Metric :
               FamilyOf(m) \notin kept[a] => usage[a][m] = 0 /\ limits[a][m] = TheDefault

QInv == CallsInv /\ Ledgers /\ LeasesAsMeant /\ Exact /\ KeptIsAll

-----------------------------------------------------------------------------
(* What calls are charged for                                              *)

LEMMA Metrics == Metric = {"VMS", "CPU", "LEASES"} /\ \A m \in Metric : FamilyOf(m) \in Family
  BY DEF Metric, FamilyOf, Family

LEMMA WholeIs ==
  ASSUME NEW x \in Nat, NEW n \in 0..MaxNics
  PROVE  /\ Whole(x, n) \in [Metric -> Nat] /\ Whole(x, n)["VMS"] = 1
         /\ Whole(x, n)["CPU"] = x /\ Whole(x, n)["LEASES"] = n
  BY QuotasAssumption DEF Whole, Metric

LEMMA ExcessIs ==
  ASSUME NEW need \in Excesses
  PROVE  /\ DOMAIN need = {"VMS", "CPU"} /\ need["VMS"] = 1 /\ need["CPU"] \in Int
         /\ Of(need, "VMS") = 1 /\ Of(need, "LEASES") = 0
<1>1. PICK d \in Int : need = OneLess(CpuChange(d))
  BY DEF Excesses
<1>2. CpuChange(d)["CPU"] = d
  BY DEF CpuChange
<1>3. DOMAIN need = {"VMS", "CPU"} /\ need["VMS"] = 1 /\ need["CPU"] = d
  BY <1>1, <1>2 DEF OneLess
<1> QED BY <1>3 DEF Of

LEMMA NeedTypes ==
  ASSUME NEW need \in AllNeeds
  PROVE  /\ DOMAIN need \subseteq Metric /\ \A m \in DOMAIN need : need[m] \in Int
         /\ \A m \in Metric : Of(need, m) \in Int
<1>1. CASE need \in WholeNeeds
  <2>1. PICK x \in Nat, n \in 0..MaxNics : need = Whole(x, n)
    BY <1>1 DEF WholeNeeds
  <2>2. need \in [Metric -> Nat]
    BY <2>1, WholeIs
  <2> QED BY <2>2 DEF Of
<1>2. CASE need = Lease
  BY <1>2 DEF Lease, Of, Metric
<1>3. CASE \E d \in Int : need = CpuChange(d)
  BY <1>3 DEF CpuChange, Of, Metric
<1>4. CASE need \in Excesses
  BY <1>4, ExcessIs DEF Of, Metric
<1> QED BY <1>1, <1>2, <1>3, <1>4 DEF AllNeeds, Changes

(* What may be given back: a VM, or a lease.                               *)
LEMMA GiveTypes ==
  ASSUME NEW need \in WholeNeeds \cup {Lease}
  PROVE  /\ \A m \in Metric : Of(need, m) \in Nat
         /\ need \in WholeNeeds => DOMAIN need = Metric /\ Of(need, "VMS") = 1
         /\ need = Lease => Of(need, "VMS") = 0 /\ Of(need, "CPU") = 0 /\ Of(need, "LEASES") = 1
<1>1. CASE need \in WholeNeeds
  <2>1. PICK x \in Nat, n \in 0..MaxNics : need = Whole(x, n)
    BY <1>1 DEF WholeNeeds
  <2>2. need \in [Metric -> Nat] /\ need["VMS"] = 1
    BY <2>1, WholeIs
  <2>3. need # Lease
    BY <2>2 DEF Lease, Metric
  <2> QED BY <2>2, <2>3 DEF Of, Metric
<1>2. CASE need = Lease
  <2>1. need \notin WholeNeeds
    <3>1. ASSUME NEW x \in Nat, NEW n \in 0..MaxNics, need = Whole(x, n) PROVE FALSE
      <4>1. need \in [Metric -> Nat]
        BY <3>1, WholeIs
      <4> QED BY <1>2, <4>1 DEF Lease, Metric
    <3> QED BY <3>1 DEF WholeNeeds
  <2> QED BY <1>2, <2>1 DEF Lease, Of, Metric
<1> QED BY <1>1, <1>2

LEMMA ForCallType ==
  ASSUME NEW c \in NewCalls, NEW a \in Account, NEW m \in Metric
  PROVE  ForCall(c, a, m) \in Int
<1>1. c.need \in AllNeeds
  BY DEF NewCalls
<1> QED BY <1>1, NeedTypes DEF ForCall

LEMMA ForCallLike ==
  ASSUME NEW c, NEW d, Like(d, c)
  PROVE  /\ \A a, m : ForCall(d, a, m) = ForCall(c, a, m)
         /\ \A a : GivenBack(d, a) <=> GivenBack(c, a)
  BY DEF Like, ForCall, Holds, GivenBack

(* An account is charged for a call more, or for one less.                 *)
LEMMA SumAdded ==
  ASSUME NEW cs, IsFiniteSet(cs), \A c \in cs : c \in NewCalls, NEW d \in NewCalls, d \notin cs,
         NEW a \in Account, NEW m \in Metric
  PROVE  Total(ForCalls(cs \cup {d}, a, m), cs \cup {d}) = Total(ForCalls(cs, a, m), cs) + ForCall(d, a, m)
<1> DEFINE f == ForCalls(cs \cup {d}, a, m)
           g == ForCalls(cs, a, m)
<1>1. \A x \in cs : f[x] \in Int /\ g[x] = f[x]
  BY ForCallType DEF ForCalls
<1>2. f[d] \in Int /\ f[d] = ForCall(d, a, m)
  BY ForCallType DEF ForCalls
<1> HIDE DEF f, g
<1>3. Total(f, cs \cup {d}) = Total(f, cs) + f[d]
  BY <1>1, <1>2, TotalWith
<1>4. Total(g, cs) = Total(f, cs)
  BY <1>1, TotalSame
<1>5. Total(f, cs \cup {d}) = Total(g, cs) + ForCall(d, a, m)
  BY <1>2, <1>3, <1>4
<1> QED BY <1>5 DEF f, g

LEMMA SumGone ==
  ASSUME NEW cs, IsFiniteSet(cs), \A c \in cs : c \in NewCalls, NEW d \in cs,
         NEW a \in Account, NEW m \in Metric
  PROVE  Total(ForCalls(cs \ {d}, a, m), cs \ {d}) = Total(ForCalls(cs, a, m), cs) - ForCall(d, a, m)
<1> DEFINE r == cs \ {d}
<1>1. IsFiniteSet(r) /\ d \notin r /\ cs = r \cup {d} /\ \A c \in r : c \in NewCalls
  BY FS_Subset
<1> HIDE DEF r
<1>2. Total(ForCalls(r \cup {d}, a, m), r \cup {d}) = Total(ForCalls(r, a, m), r) + ForCall(d, a, m)
  BY <1>1, SumAdded
<1>3. Total(ForCalls(r, a, m), r) \in Int
  <2> DEFINE g == ForCalls(r, a, m)
  <2>1. \A x \in r : g[x] \in Int
    BY <1>1, ForCallType DEF ForCalls
  <2> HIDE DEF g
  <2>2. Total(g, r) \in Int
    BY <1>1, <2>1, TotalType
  <2> QED BY <2>2 DEF g
<1>4. ForCall(d, a, m) \in Int
  BY ForCallType
<1>5. Total(ForCalls(cs, a, m), cs) = Total(ForCalls(r, a, m), r) + ForCall(d, a, m)
  BY <1>1, <1>2
<1>6. Total(ForCalls(r, a, m), r) = Total(ForCalls(cs, a, m), cs) - ForCall(d, a, m)
  BY <1>3, <1>4, <1>5
<1> QED BY <1>6 DEF r

-----------------------------------------------------------------------------
(* Calls come, go on and end                                               *)

(* While fewer than MaxCalls are under way, one of its copies is free.     *)
LEMMA FreeCopy ==
  ASSUME NEW cs, IsFiniteSet(cs), Cardinality(cs) < MaxCalls, NEW c \in NewCalls
  PROVE  \E i \in 1..MaxCalls : [c EXCEPT !.copy = i] \notin cs
<1> SUFFICES ASSUME \A i \in 1..MaxCalls : [c EXCEPT !.copy = i] \in cs PROVE FALSE
  OBVIOUS
<1> DEFINE F == [i \in 1..MaxCalls |-> [c EXCEPT !.copy = i]]
<1>1. F \in [1..MaxCalls -> cs]
  OBVIOUS
<1>2. \A i \in 1..MaxCalls : [c EXCEPT !.copy = i].copy = i
  BY DEF NewCalls
<1>3. F \in Injection(1..MaxCalls, cs)
  <2>1. \A i, j \in 1..MaxCalls : F[i] = F[j] => i = j
    BY <1>2
  <2> HIDE DEF F
  <2> QED BY <1>1, <2>1 DEF Injection, IsInjective
<1>4. IsFiniteSet(1..MaxCalls) /\ Cardinality(1..MaxCalls) = MaxCalls
  <2>1. MaxCalls \in Nat /\ MaxCalls \in Int /\ 1 \in Int
    BY QuotasAssumption
  <2>2. IsFiniteSet(1..MaxCalls) /\ Cardinality(1..MaxCalls) = IF 1 > MaxCalls THEN 0 ELSE MaxCalls - 1 + 1
    BY <2>1, FS_Interval
  <2> QED BY <2>1, <2>2
<1>5. MaxCalls <= Cardinality(cs)
  <2> HIDE DEF F
  <2> QED BY <1>3, <1>4, FS_Injection
<1> QED BY <1>5, QuotasAssumption, FS_CardinalityType

LEMMA WithOne ==
  ASSUME NEW cs, IsFiniteSet(cs), Cardinality(cs) < MaxCalls, NEW c \in NewCalls
  PROVE  \E d : /\ CallOfCopy(d) /\ d \notin cs /\ Like(d, c)
                /\ With(cs, c) = cs \cup {d}
                /\ IsFiniteSet(cs \cup {d}) /\ Cardinality(cs \cup {d}) = Cardinality(cs) + 1
<1> DEFINE i == CHOOSE j \in 1..MaxCalls : [c EXCEPT !.copy = j] \notin cs
           d == [c EXCEPT !.copy = i]
<1>1. i \in 1..MaxCalls /\ d \notin cs
  BY FreeCopy
<1>2. With(cs, c) = cs \cup {d}
  BY DEF With
<1> HIDE DEF i
<1>3. d.copy = i /\ CallOfCopy(d) /\ Like(d, c)
  BY <1>1, QuotasAssumption DEF NewCalls, Like, CallOfCopy
<1> HIDE DEF d
<1>4. IsFiniteSet(cs \cup {d}) /\ Cardinality(cs \cup {d}) = Cardinality(cs) + 1
  BY <1>1, FS_AddElement
<1> QED BY <1>1, <1>2, <1>3, <1>4

LEMMA Started ==
  ASSUME CallTypes, NEW c \in NewCalls, Starts(c)
  PROVE  \E d : /\ CallOfCopy(d) /\ d \notin calls /\ Like(d, c) /\ calls' = calls \cup {d}
                /\ CallTypes'
                /\ \A a \in Account, m \in Metric : CSum(a, m)' = CSum(a, m) + ForCall(c, a, m)
<1>1. PICK d : /\ CallOfCopy(d) /\ d \notin calls /\ Like(d, c) /\ calls' = calls \cup {d}
               /\ IsFiniteSet(calls') /\ Cardinality(calls') = Cardinality(calls) + 1
  BY WithOne DEF Starts, CallTypes
<1>2. CallTypes'
  <2>1. Cardinality(calls) < MaxCalls /\ Cardinality(calls) \in Nat
    BY FS_CardinalityType DEF Starts, CallTypes
  <2>2. Cardinality(calls') <= MaxCalls
    BY <1>1, <2>1, QuotasAssumption
  <2>3. \A x \in calls' : CallOfCopy(x)
    BY <1>1 DEF CallTypes
  <2> QED BY <1>1, <2>2, <2>3 DEF CallTypes
<1>3. ASSUME NEW a \in Account, NEW m \in Metric
      PROVE  CSum(a, m)' = CSum(a, m) + ForCall(c, a, m)
  <2>1. d \in NewCalls /\ \A x \in calls : x \in NewCalls
    BY <1>1 DEF CallTypes, CallOfCopy
  <2>2. Total(ForCalls(calls \cup {d}, a, m), calls \cup {d})
          = Total(ForCalls(calls, a, m), calls) + ForCall(d, a, m)
    BY <1>1, <2>1, SumAdded DEF CallTypes
  <2>3. ForCall(d, a, m) = ForCall(c, a, m)
    BY <1>1, ForCallLike
  <2>4. Total(ForCalls(calls', a, m), calls')
          = Total(ForCalls(calls, a, m), calls) + ForCall(c, a, m)
    BY <1>1, <2>2, <2>3
  <2> QED BY <2>4 DEF CSum
<1> QED BY <1>1, <1>2, <1>3

LEMMA Gone ==
  ASSUME CallTypes, NEW c \in calls, Goes(c)
  PROVE  /\ calls' = calls \ {c} /\ CallTypes'
         /\ \A a \in Account, m \in Metric : CSum(a, m)' = CSum(a, m) - ForCall(c, a, m)
<1>1. calls' = calls \ {c} /\ IsFiniteSet(calls') /\ Cardinality(calls') = Cardinality(calls) - 1
  BY FS_RemoveElement DEF Goes, CallTypes
<1>2. CallTypes'
  <2>1. Cardinality(calls) \in Nat
    BY FS_CardinalityType DEF CallTypes
  <2> QED BY <1>1, <2>1, QuotasAssumption DEF CallTypes
<1>3. ASSUME NEW a \in Account, NEW m \in Metric
      PROVE  CSum(a, m)' = CSum(a, m) - ForCall(c, a, m)
  <2>1. \A x \in calls : x \in NewCalls
    BY DEF CallTypes, CallOfCopy
  <2>2. Total(ForCalls(calls \ {c}, a, m), calls \ {c})
          = Total(ForCalls(calls, a, m), calls) - ForCall(c, a, m)
    BY <2>1, SumGone DEF CallTypes
  <2>4. Total(ForCalls(calls', a, m), calls')
          = Total(ForCalls(calls, a, m), calls) - ForCall(c, a, m)
    BY <1>1, <2>2
  <2> QED BY <2>4 DEF CSum
<1> QED BY <1>1, <1>2, <1>3

LEMMA CSumType ==
  ASSUME CallTypes, NEW a \in Account, NEW m \in Metric
  PROVE  CSum(a, m) \in Int
<1> DEFINE g == ForCalls(calls, a, m)
<1>1. \A x \in calls : g[x] \in Int
  BY ForCallType DEF ForCalls, CallTypes, CallOfCopy
<1> HIDE DEF g
<1>2. Total(g, calls) \in Int
  BY <1>1, TotalType DEF CallTypes
<1> QED BY <1>2 DEF CSum, g

LEMMA Became ==
  ASSUME CallTypes, NEW c \in calls, NEW e \in NewCalls, Becomes(c, e)
  PROVE  \E d : /\ CallOfCopy(d) /\ d \notin calls \ {c} /\ Like(d, e)
                /\ calls' = (calls \ {c}) \cup {d} /\ CallTypes'
                /\ \A a \in Account, m \in Metric :
                     CSum(a, m)' = CSum(a, m) - ForCall(c, a, m) + ForCall(e, a, m)
<1> DEFINE rest == calls \ {c}
<1>0. IsFiniteSet(rest) /\ Cardinality(rest) = Cardinality(calls) - 1 /\ Cardinality(calls) \in Nat
  BY FS_RemoveElement, FS_CardinalityType DEF CallTypes
<1>1. PICK d : /\ CallOfCopy(d) /\ d \notin rest /\ Like(d, e) /\ calls' = rest \cup {d}
               /\ IsFiniteSet(calls') /\ Cardinality(calls') = Cardinality(rest) + 1
  <2>1. Cardinality(rest) < MaxCalls
    BY <1>0, QuotasAssumption DEF CallTypes
  <2>2. calls' = With(rest, e)
    BY DEF Becomes
  <2> HIDE DEF rest
  <2>3. PICK d : /\ CallOfCopy(d) /\ d \notin rest /\ Like(d, e)
                 /\ With(rest, e) = rest \cup {d}
                 /\ IsFiniteSet(rest \cup {d}) /\ Cardinality(rest \cup {d}) = Cardinality(rest) + 1
    BY <1>0, <2>1, WithOne
  <2> QED BY <2>2, <2>3
<1>2. CallTypes'
  <2>2. Cardinality(calls') <= MaxCalls
    BY <1>0, <1>1, QuotasAssumption DEF CallTypes
  <2>3. \A x \in calls' : CallOfCopy(x)
    BY <1>1 DEF CallTypes
  <2> QED BY <1>1, <2>2, <2>3 DEF CallTypes
<1>3. ASSUME NEW a \in Account, NEW m \in Metric
      PROVE  CSum(a, m)' = CSum(a, m) - ForCall(c, a, m) + ForCall(e, a, m)
  <2>1. d \in NewCalls /\ \A x \in calls : x \in NewCalls
    BY <1>1 DEF CallTypes, CallOfCopy
  <2>2. Total(ForCalls(rest \cup {d}, a, m), rest \cup {d})
          = Total(ForCalls(rest, a, m), rest) + ForCall(d, a, m)
    BY <1>0, <1>1, <2>1, SumAdded
  <2>3. ForCall(d, a, m) = ForCall(e, a, m)
    BY <1>1, ForCallLike
  <2>5. Total(ForCalls(rest, a, m), rest) = Total(ForCalls(calls, a, m), calls) - ForCall(c, a, m)
    BY <2>1, SumGone DEF CallTypes
  <2>4. Total(ForCalls(calls', a, m), calls')
          = Total(ForCalls(calls, a, m), calls) - ForCall(c, a, m) + ForCall(e, a, m)
    BY <1>1, <2>2, <2>3, <2>5
  <2> QED BY <2>4 DEF CSum
<1> QED BY <1>1, <1>2, <1>3

-----------------------------------------------------------------------------
(* What calls keep of each other, whatever happens to VMs                  *)

(* A call goes on: of the same VM and job, or it gives back.               *)
GoesOn(c, e) == e.vm = c.vm /\ e.job \in {c.job, "END", "ROLLBACK"}
Replaced(c, d) == d \notin calls \ {c} /\ calls' = (calls \ {c}) \cup {d}

LEMMA AttachesFinite ==
  ASSUME CallTypes, NEW v
  PROVE  IsFiniteSet(Attaches(v)) /\ Cardinality(Attaches(v)) \in Nat
<1>1. Attaches(v) \subseteq calls
  BY DEF Attaches
<1> QED BY <1>1, FS_Subset, FS_CardinalityType DEF CallTypes

LEMMA AloneReplaced ==
  ASSUME Alone, NEW c \in calls, NEW d, Replaced(c, d), GoesOn(c, d),
         d.job \in {"END", "ROLLBACK"} => d.op # "SET_NIC",
         d.op = "SET_NIC" /\ c.op # "SET_NIC" => \A x \in calls : x.vm = c.vm => x.op # "SET_NIC"
  PROVE  Alone'
<1>1. SUFFICES ASSUME NEW x \in calls', NEW y \in calls', x.vm = y.vm, x # y
      PROVE  /\ x.job = "CHOWN" => y.job \in {"END", "ALLOCATE", "ROLLBACK"}
             /\ x.job = "RESIZE" => y.job # "RESIZE"
             /\ x.op = "SET_NIC" => y.op # "SET_NIC"
  BY DEF Alone
<1>2. CASE x \in calls \ {c} /\ y \in calls \ {c}
  BY <1>1, <1>2 DEF Alone
<1>3. CASE x = d /\ y \in calls \ {c}
  <2>1. /\ c.job = "CHOWN" => y.job \in {"END", "ALLOCATE", "ROLLBACK"}
        /\ c.job = "RESIZE" => y.job # "RESIZE"
        /\ c.op = "SET_NIC" => y.op # "SET_NIC"
    BY <1>1, <1>3 DEF Alone, GoesOn
  <2> QED BY <1>1, <1>3, <2>1 DEF GoesOn
<1>4. CASE y = d /\ x \in calls \ {c}
  <2>1. /\ x.job = "CHOWN" => c.job \in {"END", "ALLOCATE", "ROLLBACK"}
        /\ x.job = "RESIZE" => c.job # "RESIZE"
        /\ x.op = "SET_NIC" => c.op # "SET_NIC"
    BY <1>1, <1>4 DEF Alone, GoesOn
  <2> QED BY <1>1, <1>4, <2>1 DEF GoesOn
<1> QED BY <1>1, <1>2, <1>3, <1>4 DEF Replaced

LEMMA AloneGone ==
  ASSUME Alone, calls' \subseteq calls PROVE Alone'
  BY DEF Alone

LEMMA AloneStarted ==
  ASSUME Alone, NEW d, calls' = calls \cup {d}, d.op # "SET_NIC",
         \A x \in calls : x.vm = d.vm =>
           /\ d.job = "CHOWN" => x.job \in {"END", "ALLOCATE", "ROLLBACK"}
           /\ d.job = "RESIZE" => x.job # "RESIZE"
           /\ x.job = "CHOWN" => d.job \in {"END", "ALLOCATE", "ROLLBACK"}
  PROVE  Alone'
  BY DEF Alone

LEMMA AttachesReplaced ==
  ASSUME CallTypes, NEW c \in calls, NEW d, Replaced(c, d), GoesOn(c, d), NEW v
  PROVE  Cardinality(Attaches(v)') <= Cardinality(Attaches(v))
<1>0. IsFiniteSet(Attaches(v)) /\ Cardinality(Attaches(v)) \in Nat
  BY AttachesFinite
<1>1. CASE d.job = "ATTACH" /\ d.vm = v
  <2>1. c \in Attaches(v)
    BY <1>1 DEF GoesOn, Attaches
  <2>2. Attaches(v)' = (Attaches(v) \ {c}) \cup {d} /\ d \notin Attaches(v) \ {c}
    BY <1>1, <2>1 DEF Replaced, Attaches
  <2>3. IsFiniteSet(Attaches(v) \ {c}) /\ Cardinality(Attaches(v) \ {c}) = Cardinality(Attaches(v)) - 1
    BY <1>0, <2>1, FS_RemoveElement
  <2>4. Cardinality(Attaches(v)') = Cardinality(Attaches(v) \ {c}) + 1
    BY <2>2, <2>3, FS_AddElement
  <2> QED BY <1>0, <2>3, <2>4
<1>2. CASE ~(d.job = "ATTACH" /\ d.vm = v)
  <2>1. Attaches(v)' \subseteq Attaches(v)
    BY <1>2 DEF Replaced, Attaches
  <2> QED BY <1>0, <2>1, FS_Subset
<1> QED BY <1>1, <1>2

LEMMA AttachesGone ==
  ASSUME CallTypes, NEW c \in calls, calls' = calls \ {c}, NEW v
  PROVE  /\ Cardinality(Attaches(v)') <= Cardinality(Attaches(v))
         /\ c \in Attaches(v) => Cardinality(Attaches(v)') = Cardinality(Attaches(v)) - 1
<1>0. IsFiniteSet(Attaches(v)) /\ Cardinality(Attaches(v)) \in Nat
  BY AttachesFinite
<1>1. Attaches(v)' = Attaches(v) \ {c}
  BY DEF Attaches
<1>2. c \in Attaches(v) => Cardinality(Attaches(v) \ {c}) = Cardinality(Attaches(v)) - 1
  BY <1>0, FS_RemoveElement
<1>3. Cardinality(Attaches(v) \ {c}) <= Cardinality(Attaches(v))
  BY <1>0, FS_Subset
<1> QED BY <1>1, <1>2, <1>3

LEMMA AttachesStarted ==
  ASSUME CallTypes, NEW d, d \notin calls, calls' = calls \cup {d}, NEW v
  PROVE  Cardinality(Attaches(v)')
           = Cardinality(Attaches(v)) + (IF d.job = "ATTACH" /\ d.vm = v THEN 1 ELSE 0)
<1>0. IsFiniteSet(Attaches(v)) /\ Cardinality(Attaches(v)) \in Nat
  BY AttachesFinite
<1>1. CASE d.job = "ATTACH" /\ d.vm = v
  <2>1. Attaches(v)' = Attaches(v) \cup {d} /\ d \notin Attaches(v)
    BY <1>1 DEF Attaches
  <2>2. Cardinality(Attaches(v)') = Cardinality(Attaches(v)) + 1
    BY <1>0, <2>1, FS_AddElement
  <2> QED BY <1>1, <2>2
<1>2. CASE ~(d.job = "ATTACH" /\ d.vm = v)
  <2>1. Attaches(v)' = Attaches(v)
    BY <1>2 DEF Attaches
  <2> QED BY <1>0, <1>2, <2>1
<1> QED BY <1>1, <1>2

-----------------------------------------------------------------------------
(* Steps that leave the VMs alone                                          *)

LEMMA CallsMoved ==
  ASSUME CallsInv, NEW c \in calls, NEW e \in NewCalls, Becomes(c, e), UNCHANGED vm,
         GoesOn(c, e), CallOK(e), e.op = "SET_NIC" => c.op = "SET_NIC"
  PROVE  CallsInv'
<1>1. PICK d : /\ CallOfCopy(d) /\ Like(d, e) /\ Replaced(c, d) /\ CallTypes'
  BY Became DEF CallsInv, Replaced
<1>2. GoesOn(c, d) /\ (d.op = "SET_NIC" => c.op = "SET_NIC")
  BY <1>1 DEF GoesOn, Like
<1>3. CallOK(d)
  BY <1>1 DEF Like, CallOK, AllocateOK, ResizeOK, AttachOK, ChownOK, EndOK, RollbackOK, IsOwner
<1>4. \A x \in calls' : CallOK(x)'
  <2>1. \A x : CallOK(x)' <=> CallOK(x)
    BY DEF CallOK, AllocateOK, ResizeOK, AttachOK, ChownOK, EndOK, RollbackOK, IsOwner, Needs
  <2> QED BY <1>1, <1>3, <2>1 DEF CallsInv, Replaced
<1>5. Alone'
  <2>1. d.job \in {"END", "ROLLBACK"} => d.op # "SET_NIC"
    BY <1>3 DEF CallOK, OpsOf
  <2> QED BY <1>1, <1>2, <2>1, AloneReplaced DEF CallsInv
<1>6. NicsOK'
  <2> SUFFICES ASSUME NEW v \in VM
               PROVE  /\ vm[v].nics + Cardinality(Attaches(v)') <= MaxNics
                      /\ vm[v].attach => vm[v].state = "HOTPLUG" /\ vm[v].nics > 0
    BY DEF NicsOK
  <2>1. Cardinality(Attaches(v)') <= Cardinality(Attaches(v))
    BY <1>1, <1>2, AttachesReplaced DEF CallsInv
  <2>2. Cardinality(Attaches(v)) \in Nat /\ Cardinality(Attaches(v)') \in Nat
    <3>1. (CallTypes => Cardinality(Attaches(v)) \in Nat)'
      BY <1>1, AttachesFinite, PTL
    <3> QED BY <1>1, <3>1, AttachesFinite DEF CallsInv
  <2>3. vm[v].nics \in Nat /\ vm[v].nics + Cardinality(Attaches(v)) <= MaxNics
    BY DEF CallsInv, NicsOK, VMTypes
  <2>4. vm[v].attach => vm[v].state = "HOTPLUG" /\ vm[v].nics > 0
    BY DEF CallsInv, NicsOK
  <2> QED BY <2>1, <2>2, <2>3, <2>4, QuotasAssumption
<1>7. VMTypes'
  BY DEF CallsInv, VMTypes
<1> QED BY <1>1, <1>4, <1>5, <1>6, <1>7 DEF CallsInv

LEMMA CallsUnmoved ==
  ASSUME UNCHANGED vm
  PROVE  /\ \A x : CallOK(x)' <=> CallOK(x)
         /\ VMTypes' <=> VMTypes
  BY DEF CallOK, AllocateOK, ResizeOK, AttachOK, ChownOK, EndOK, RollbackOK, IsOwner, Needs, VMTypes

(* The sizes of what is attached to VMs are numbers before and after.      *)
LEMMA AttachesSizes ==
  ASSUME CallTypes, CallTypes', NEW v
  PROVE  Cardinality(Attaches(v)) \in Nat /\ Cardinality(Attaches(v)') \in Nat
<1>1. (CallTypes => Cardinality(Attaches(v)) \in Nat)'
  BY AttachesFinite, PTL
<1> QED BY <1>1, AttachesFinite

LEMMA CallsEnded ==
  ASSUME CallsInv, NEW c \in calls, Goes(c), UNCHANGED vm
  PROVE  CallsInv'
<1>1. calls' = calls \ {c} /\ CallTypes'
  BY Gone DEF CallsInv
<1>2. Alone'
  BY <1>1, AloneGone DEF CallsInv
<1>3. \A x \in calls' : CallOK(x)'
  BY <1>1, CallsUnmoved DEF CallsInv
<1>4. NicsOK'
  <2> SUFFICES ASSUME NEW v \in VM
               PROVE  /\ vm[v].nics + Cardinality(Attaches(v)') <= MaxNics
                      /\ vm[v].attach => vm[v].state = "HOTPLUG" /\ vm[v].nics > 0
    BY DEF NicsOK
  <2>1. Cardinality(Attaches(v)') <= Cardinality(Attaches(v))
    BY <1>1, AttachesGone DEF CallsInv
  <2>2. Cardinality(Attaches(v)) \in Nat /\ Cardinality(Attaches(v)') \in Nat
    BY <1>1, AttachesSizes DEF CallsInv
  <2>3. vm[v].nics \in Nat /\ vm[v].nics + Cardinality(Attaches(v)) <= MaxNics
    BY DEF CallsInv, NicsOK, VMTypes
  <2>4. vm[v].attach => vm[v].state = "HOTPLUG" /\ vm[v].nics > 0
    BY DEF CallsInv, NicsOK
  <2> QED BY <2>1, <2>2, <2>3, <2>4, QuotasAssumption
<1> QED BY <1>1, <1>2, <1>3, <1>4, CallsUnmoved DEF CallsInv

LEMMA CallsBegun ==
  ASSUME CallsInv, NEW e \in NewCalls, Starts(e), UNCHANGED vm, CallOK(e), e.op # "SET_NIC",
         e.job = "ATTACH" => vm[e.vm].nics + Cardinality(Attaches(e.vm)) < MaxNics,
         \A x \in calls : x.vm = e.vm =>
           /\ e.job = "CHOWN" => x.job \in {"END", "ALLOCATE", "ROLLBACK"}
           /\ e.job = "RESIZE" => x.job # "RESIZE"
           /\ x.job = "CHOWN" => e.job \in {"END", "ALLOCATE", "ROLLBACK"}
  PROVE  CallsInv'
<1>1. PICK d : CallOfCopy(d) /\ d \notin calls /\ Like(d, e) /\ calls' = calls \cup {d} /\ CallTypes'
  BY Started DEF CallsInv
<1>2. CallOK(d)
  BY <1>1 DEF Like, CallOK, AllocateOK, ResizeOK, AttachOK, ChownOK, EndOK, RollbackOK, IsOwner
<1>3. \A x \in calls' : CallOK(x)'
  BY <1>1, <1>2, CallsUnmoved DEF CallsInv
<1>4. Alone'
  <2>1. d.op # "SET_NIC" /\ \A x \in calls : x.vm = d.vm =>
           /\ d.job = "CHOWN" => x.job \in {"END", "ALLOCATE", "ROLLBACK"}
           /\ d.job = "RESIZE" => x.job # "RESIZE"
           /\ x.job = "CHOWN" => d.job \in {"END", "ALLOCATE", "ROLLBACK"}
    BY <1>1 DEF Like
  <2> QED BY <1>1, <2>1, AloneStarted DEF CallsInv
<1>5. NicsOK'
  <2> SUFFICES ASSUME NEW v \in VM
               PROVE  /\ vm[v].nics + Cardinality(Attaches(v)') <= MaxNics
                      /\ vm[v].attach => vm[v].state = "HOTPLUG" /\ vm[v].nics > 0
    BY DEF NicsOK
  <2>1. Cardinality(Attaches(v)')
          = Cardinality(Attaches(v)) + (IF d.job = "ATTACH" /\ d.vm = v THEN 1 ELSE 0)
    BY <1>1, AttachesStarted DEF CallsInv
  <2>2. Cardinality(Attaches(v)) \in Nat
    BY <1>1, AttachesSizes DEF CallsInv
  <2>3. vm[v].nics \in Nat /\ vm[v].nics + Cardinality(Attaches(v)) <= MaxNics
    BY DEF CallsInv, NicsOK, VMTypes
  <2>4. d.job = "ATTACH" /\ d.vm = v => vm[v].nics + Cardinality(Attaches(v)) < MaxNics
    BY <1>1 DEF Like
  <2>5. vm[v].attach => vm[v].state = "HOTPLUG" /\ vm[v].nics > 0
    BY DEF CallsInv, NicsOK
  <2>6. vm[v].nics + Cardinality(Attaches(v)') <= MaxNics
    BY <2>1, <2>2, <2>3, <2>4, QuotasAssumption
  <2> QED BY <2>5, <2>6
<1> QED BY <1>1, <1>3, <1>4, <1>5, CallsUnmoved DEF CallsInv

-----------------------------------------------------------------------------
(* Steps of calls that leave the VMs alone, one by one                     *)

(* Everything there is to know of a call.                                  *)
LEMMA CallFields ==
  ASSUME CallsInv, NEW c \in calls
  PROVE  /\ c \in NewCalls /\ CallOK(c)
         /\ c.op \in Ops /\ c.job \in Jobs /\ c.vm \in VM \cup {NoVM}
         /\ c.uid \in User \cup {NoAccount} /\ c.gid \in Group \cup {NoAccount}
         /\ c.need \in AllNeeds /\ c.other \in Halves /\ c.cpu \in Cpus \cup {0}
         /\ c.other.uid \in User \cup {NoAccount} /\ c.other.gid \in Group \cup {NoAccount}
  BY DEF CallsInv, CallTypes, CallOfCopy, NewCalls, Halves

LEMMA user_quota_authorization_calls ==
  ASSUME CallsInv, NEW c \in calls, user_quota_authorization(c)
  PROVE  CallsInv'
<1>1. c.op = "CHECK_USER" /\ UNCHANGED vm /\ (Goes(c) \/ Becomes(c, [c EXCEPT !.op = "CHECK_GROUP"]))
  BY DEF user_quota_authorization
<1>2. CASE Becomes(c, [c EXCEPT !.op = "CHECK_GROUP"])
  <2> DEFINE e == [c EXCEPT !.op = "CHECK_GROUP"]
  <2>1. e \in NewCalls /\ e.op = "CHECK_GROUP" /\ e.job = c.job /\ e.vm = c.vm /\ e.uid = c.uid
        /\ e.gid = c.gid /\ e.need = c.need /\ e.other = c.other /\ e.cpu = c.cpu
    BY CallFields DEF NewCalls, Ops
  <2> HIDE DEF e
  <2>2. CallOK(c)
    BY CallFields
  <2>3. CallOK(e) /\ GoesOn(c, e)
    BY <1>1, <2>1, <2>2 DEF CallOK, OpsOf, AllocateOK, ResizeOK, AttachOK, ChownOK, EndOK, RollbackOK, IsOwner, GoesOn
  <2>4. Becomes(c, e)
    BY <1>2 DEF e
  <2> QED BY <1>1, <2>1, <2>3, <2>4, CallsMoved
<1> QED BY <1>1, <1>2, CallsEnded

(* A call that is charged goes on with its job; one that is refused gives  *)
(* back.                                                                   *)
LEMMA AuthorizedIs ==
  ASSUME CallsInv, NEW c \in calls, c.op = "CHECK_GROUP"
  PROVE  /\ Authorized(c) \in NewCalls /\ CallOK(Authorized(c)) /\ GoesOn(c, Authorized(c))
         /\ Authorized(c).op \in {"INSERT", "HOTPLUG", "RESIZE", "GIVE_USER"}
         /\ Authorized(c).job = c.job /\ Authorized(c).need = c.need
         /\ c.job # "CHOWN" => /\ Authorized(c).uid = c.uid /\ Authorized(c).gid = c.gid
                               /\ Authorized(c).op # "GIVE_USER"
         /\ c.job = "CHOWN" => /\ Authorized(c).uid = c.other.uid /\ Authorized(c).gid = c.other.gid
                               /\ Authorized(c).other.uid = c.uid /\ Authorized(c).other.gid = c.gid
                               /\ Authorized(c).op = "GIVE_USER"
<1> DEFINE e == Authorized(c)
<1>0. CallOK(c) /\ c \in NewCalls
  BY CallFields
<1>1. CASE c.job = "CHOWN"
  <2>1. e = [c EXCEPT !.op = "GIVE_USER", !.uid = c.other.uid, !.gid = c.other.gid,
                      !.other = Owner(c.uid, c.gid)]
    BY <1>1, Zenon DEF Authorized
  <2>2. Owner(c.uid, c.gid) \in Halves /\ Owner(c.uid, c.gid).uid = c.uid /\ Owner(c.uid, c.gid).gid = c.gid
    BY CallFields DEF Owner, Halves
  <2>3. /\ e \in NewCalls /\ e.op = "GIVE_USER" /\ e.job = c.job /\ e.vm = c.vm
        /\ e.uid = c.other.uid /\ e.gid = c.other.gid
        /\ e.need = c.need /\ e.other = Owner(c.uid, c.gid) /\ e.cpu = c.cpu
    <3> HIDE DEF e
    <3> QED BY <2>1, <2>2, CallFields DEF NewCalls, Ops
  <2>4. e.other.uid = c.uid /\ e.other.gid = c.gid
    BY <2>2, <2>3
  <2> HIDE DEF e
  <2>5. CallOK(e) /\ GoesOn(c, e)
    BY <1>0, <1>1, <2>3, <2>4 DEF CallOK, OpsOf, ChownOK, GoesOn
  <2>6. e \in NewCalls /\ CallOK(e) /\ GoesOn(c, e) /\ e.op = "GIVE_USER" /\ e.job = c.job
        /\ e.need = c.need /\ e.uid = c.other.uid /\ e.gid = c.other.gid
        /\ e.other.uid = c.uid /\ e.other.gid = c.gid
    BY <2>3, <2>4, <2>5
  <2> QED BY <1>1, <2>6 DEF e
<1>2. CASE c.job # "CHOWN"
  <2>1. e = [c EXCEPT !.op = Charged[c.job]]
    BY <1>2, Zenon DEF Authorized
  <2>2. c.job \in {"ALLOCATE", "ATTACH", "RESIZE"}
    <3>1. c.op \in OpsOf(c.job) /\ c.job \in Jobs
      BY <1>0, CallFields DEF CallOK
    <3> QED BY <1>2, <3>1 DEF OpsOf, Jobs
  <2>3. /\ c.job = "ALLOCATE" => Charged[c.job] = "INSERT"
        /\ c.job = "ATTACH" => Charged[c.job] = "HOTPLUG"
        /\ c.job = "RESIZE" => Charged[c.job] = "RESIZE"
    BY DEF Charged
  <2>4. /\ e \in NewCalls /\ e.op = Charged[c.job] /\ e.job = c.job /\ e.vm = c.vm
        /\ e.uid = c.uid /\ e.gid = c.gid
        /\ e.need = c.need /\ e.other = c.other /\ e.cpu = c.cpu
    <3>1. Charged[c.job] \in Ops
      BY <2>2, <2>3 DEF Ops
    <3> HIDE DEF e
    <3> QED BY <1>0, <2>1, <3>1 DEF NewCalls
  <2> HIDE DEF e
  <2>5. CallOK(e) /\ GoesOn(c, e)
    BY <1>0, <1>2, <2>2, <2>3, <2>4
       DEF CallOK, OpsOf, AllocateOK, ResizeOK, AttachOK, IsOwner, GoesOn
  <2>6. e \in NewCalls /\ CallOK(e) /\ GoesOn(c, e) /\ e.op \in {"INSERT", "HOTPLUG", "RESIZE"}
        /\ e.job = c.job /\ e.need = c.need /\ e.uid = c.uid /\ e.gid = c.gid
    BY <2>2, <2>3, <2>4, <2>5
  <2> QED BY <1>2, <2>6 DEF e
<1> QED BY <1>1, <1>2

LEMMA NeedsWhole ==
  ASSUME VMTypes, NEW v \in VM
  PROVE  Needs(v) \in WholeNeeds /\ Needs(v) \in [Metric -> Nat]
         /\ Needs(v)["VMS"] = 1 /\ Needs(v)["CPU"] = vm[v].cpu /\ Needs(v)["LEASES"] = vm[v].nics
<1> DEFINE x == vm[v].cpu
           n == vm[v].nics
<1>1. x \in Nat /\ n \in 0..MaxNics
  BY DEF VMTypes
<1>2. Needs(v) = Whole(x, n)
  BY DEF Needs
<1>3. Whole(x, n) \in WholeNeeds
  BY <1>1 DEF WholeNeeds
<1> HIDE DEF x, n
<1>4. /\ Whole(x, n) \in [Metric -> Nat] /\ Whole(x, n)["VMS"] = 1
      /\ Whole(x, n)["CPU"] = x /\ Whole(x, n)["LEASES"] = n
  BY <1>1, WholeIs
<1>5. Needs(v) \in WholeNeeds /\ Needs(v) \in [Metric -> Nat]
      /\ Needs(v)["VMS"] = 1 /\ Needs(v)["CPU"] = x /\ Needs(v)["LEASES"] = n
  BY <1>2, <1>3, <1>4
<1> QED BY <1>5 DEF x, n

(* What is given back of a call that does not go on.                       *)
LEMMA GivesIs ==
  ASSUME CallsInv, NEW c \in calls, c.job \in {"ALLOCATE", "ATTACH", "CHOWN"},
         NEW e, NEW g \in {c.gid, NoAccount}, e = [c EXCEPT !.op = "GIVE_USER", !.job = "END", !.gid = g]
  PROVE  /\ e \in NewCalls /\ CallOK(e) /\ GoesOn(c, e)
         /\ e.op = "GIVE_USER" /\ e.job = "END" /\ e.uid = c.uid /\ e.gid = g /\ e.need = c.need
         /\ e.other = c.other
<1>1. /\ e \in NewCalls /\ e.op = "GIVE_USER" /\ e.job = "END" /\ e.vm = c.vm /\ e.uid = c.uid
      /\ e.gid = g /\ e.need = c.need /\ e.other = c.other
  BY CallFields DEF NewCalls, Ops, Jobs
<1>2. c.need \in WholeNeeds \cup {Lease}
  <2>1. c.job = "CHOWN" => c.need \in WholeNeeds
    <3>1. c.job = "CHOWN" => c.vm \in VM /\ c.need = Needs(c.vm)
      BY CallFields DEF CallOK, ChownOK
    <3> QED BY <3>1, NeedsWhole DEF CallsInv
  <2> QED BY <2>1, CallFields DEF CallOK, AllocateOK, AttachOK
<1> QED BY <1>1, <1>2 DEF CallOK, EndOK, RollbackOK, OpsOf, GoesOn

LEMMA OwnerIs ==
  ASSUME NEW u \in User \cup {NoAccount}, NEW g \in Group \cup {NoAccount}
  PROVE  Owner(u, g) \in Halves /\ Owner(u, g).uid = u /\ Owner(u, g).gid = g /\ Nobody \in Halves
  BY DEF Owner, Halves, Nobody

LEMMA VMFields ==
  ASSUME VMTypes, NEW v \in VM
  PROVE  /\ vm[v].state \in VmState /\ vm[v].cpu \in Nat /\ vm[v].nics \in 0..MaxNics /\ vm[v].nics \in Nat
         /\ vm[v].attach \in BOOLEAN
         /\ vm[v].uid \in User \cup {NoAccount} /\ vm[v].gid \in Group \cup {NoAccount}
         /\ vm[v].state # "NONE" => vm[v].uid \in User /\ vm[v].gid \in Group
<1>1. vm[v].nics \in 0..MaxNics /\ vm[v].cpu \in Nat
  BY DEF VMTypes
<1>2. vm[v].nics \in Nat
  BY <1>1
<1> QED BY <1>1, <1>2 DEF VMTypes

(* A resize that is rolled back.                                           *)
RolledTo(c, owner) ==
  [c EXCEPT !.op = "GIVE_USER", !.job = "ROLLBACK", !.need = OneLess(c.need),
            !.uid = owner.uid, !.gid = owner.gid, !.other = Nobody]

LEMMA RolledIs ==
  ASSUME CallsInv, NEW c \in calls, c.job = "RESIZE",
         NEW owner \in Halves, NEW e, e = RolledTo(c, owner)
  PROVE  /\ e \in NewCalls /\ CallOK(e) /\ GoesOn(c, e)
         /\ e.op = "GIVE_USER" /\ e.job = "ROLLBACK" /\ e.uid = owner.uid /\ e.gid = owner.gid
<1>1. OneLess(c.need) \in Excesses
  <2>1. c.vm \in VM /\ c.cpu \in Nat /\ c.need = CpuChange(c.cpu - vm[c.vm].cpu) /\ vm[c.vm].cpu \in Nat
    BY CallFields, QuotasAssumption DEF CallOK, ResizeOK, CallsInv, VMTypes
  <2> DEFINE d == c.cpu - vm[c.vm].cpu
  <2>2. d \in Int
    BY <2>1
  <2> HIDE DEF d
  <2>3. c.need = CpuChange(d)
    BY <2>1 DEF d
  <2> QED BY <2>2, <2>3 DEF Excesses
<1>2. owner.uid \in User \cup {NoAccount} /\ owner.gid \in Group \cup {NoAccount} /\ Nobody \in Halves
  BY OwnerIs DEF Halves
<1>3. /\ e \in NewCalls /\ e.op = "GIVE_USER" /\ e.job = "ROLLBACK" /\ e.vm = c.vm
      /\ e.uid = owner.uid /\ e.gid = owner.gid /\ e.need = OneLess(c.need)
  BY <1>1, <1>2, CallFields DEF RolledTo, NewCalls, Ops, Jobs, AllNeeds
<1> QED BY <1>1, <1>3 DEF CallOK, OpsOf, RollbackOK, GoesOn

LEMMA RolledBack ==
  ASSUME CallsInv, NEW c \in calls, c.job = "RESIZE", NEW owner \in Halves, NEW charged,
         rollback(c, owner, charged)
  PROVE  \E e \in NewCalls :
           /\ Becomes(c, e) /\ CallOK(e) /\ GoesOn(c, e)
           /\ e.op = "GIVE_USER" /\ e.job = "ROLLBACK" /\ e.uid = owner.uid /\ e.gid = owner.gid
<1>1. Becomes(c, RolledTo(c, owner))
  BY DEF rollback, RolledTo
<1> QED BY <1>1, RolledIs

(* What a call becomes that its group refuses.                             *)
LEMMA RefusedIs ==
  ASSUME CallsInv, NEW c \in calls, c.op = "CHECK_GROUP", group_refuses(c)
  PROVE  /\ c.gid # NoAccount /\ quota_refused(c.gid, c.need)
         /\ \/ /\ c.job = "RESIZE" /\ c.uid \in User /\ c.gid \in Group
               /\ Owner(c.uid, NoAccount) \in Halves
               /\ rollback(c, Owner(c.uid, NoAccount), {})
            \/ /\ c.job \in {"ALLOCATE", "ATTACH", "CHOWN"} /\ UNCHANGED slip_vars
               /\ Becomes(c, [c EXCEPT !.op = "GIVE_USER", !.job = "END", !.gid = NoAccount])
<1>1. c.op \in OpsOf(c.job) /\ c.job \in Jobs
  BY CallFields DEF CallOK
<1>2. c.job \in {"ALLOCATE", "ATTACH", "CHOWN", "RESIZE"}
  BY <1>1 DEF OpsOf, Jobs
<1>3. ASSUME c.job = "RESIZE"
      PROVE  c.uid \in User /\ c.gid \in Group /\ Owner(c.uid, NoAccount) \in Halves
  <2>1. c.vm \in VM /\ vm[c.vm].state # "NONE" /\ IsOwner(c)
    BY <1>3, CallFields DEF CallOK, ResizeOK
  <2>2. c.uid \in User /\ c.gid \in Group
    BY <2>1, VMFields DEF CallsInv, IsOwner
  <2> QED BY <2>2, OwnerIs
<1> QED BY <1>2, <1>3 DEF group_refuses

LEMMA group_quota_authorization_calls ==
  ASSUME CallsInv, NEW c \in calls, group_quota_authorization(c)
  PROVE  CallsInv'
<1>1. c.op = "CHECK_GROUP" /\ UNCHANGED vm
  BY DEF group_quota_authorization
<1>2. CASE Becomes(c, Authorized(c))
  <2> DEFINE e == Authorized(c)
  <2>1. e \in NewCalls /\ CallOK(e) /\ GoesOn(c, e) /\ e.op \in {"INSERT", "HOTPLUG", "RESIZE", "GIVE_USER"}
    BY <1>1, AuthorizedIs
  <2>2. Becomes(c, e)
    BY <1>2
  <2> HIDE DEF e
  <2> QED BY <1>1, <2>1, <2>2, CallsMoved
<1>3. CASE group_refuses(c) /\ c.job = "RESIZE"
  <2>0. PICK owner \in Halves : rollback(c, owner, {})
    <3>1. c.uid \in User /\ rollback(c, Owner(c.uid, NoAccount), {})
      BY <1>1, <1>3, RefusedIs
    <3> QED BY <3>1, OwnerIs
  <2>1. PICK e \in NewCalls : Becomes(c, e) /\ CallOK(e) /\ GoesOn(c, e) /\ e.op = "GIVE_USER"
    BY <1>3, <2>0, RolledBack
  <2> QED BY <1>1, <2>1, CallsMoved
<1>4. CASE group_refuses(c) /\ c.job # "RESIZE"
  <2> DEFINE e == [c EXCEPT !.op = "GIVE_USER", !.job = "END", !.gid = NoAccount]
  <2>1. c.job \in {"ALLOCATE", "ATTACH", "CHOWN"} /\ Becomes(c, e)
    BY <1>1, <1>4, RefusedIs
  <2>2. Becomes(c, e)
    BY <2>1
  <2>3. e \in NewCalls /\ CallOK(e) /\ GoesOn(c, e) /\ e.op = "GIVE_USER"
    BY <2>1, GivesIs
  <2> HIDE DEF e
  <2> QED BY <1>1, <2>2, <2>3, CallsMoved
<1> QED BY <1>2, <1>3, <1>4 DEF group_quota_authorization

LEMMA user_quota_del_calls ==
  ASSUME CallsInv, NEW c \in calls, user_quota_del(c)
  PROVE  CallsInv'
<1> DEFINE e == [c EXCEPT !.op = "GIVE_GROUP"]
<1>1. c.op = "GIVE_USER" /\ UNCHANGED vm /\ Becomes(c, e)
  BY DEF user_quota_del
<1>2. e \in NewCalls /\ e.op = "GIVE_GROUP" /\ e.job = c.job /\ e.vm = c.vm /\ e.uid = c.uid
      /\ e.gid = c.gid /\ e.need = c.need /\ e.other = c.other /\ e.cpu = c.cpu
  BY CallFields DEF NewCalls, Ops
<1> HIDE DEF e
<1>3. CallOK(c) /\ c.job \in Jobs
  BY CallFields
<1>4. CallOK(e) /\ GoesOn(c, e)
  BY <1>1, <1>2, <1>3 DEF CallOK, OpsOf, Jobs, ChownOK, EndOK, RollbackOK, GoesOn
<1> QED BY <1>1, <1>2, <1>4, CallsMoved

LEMMA group_quota_del_calls ==
  ASSUME CallsInv, NEW c \in calls, group_quota_del(c)
  PROVE  CallsInv'
<1> DEFINE e == [c EXCEPT !.op = "SET_OWNER"]
<1>1. c.op = "GIVE_GROUP" /\ UNCHANGED vm /\ (IF c.job = "CHOWN" THEN Becomes(c, e) ELSE Goes(c))
  BY DEF group_quota_del
<1>2. e \in NewCalls /\ e.op = "SET_OWNER" /\ e.job = c.job /\ e.vm = c.vm /\ e.uid = c.uid
      /\ e.gid = c.gid /\ e.need = c.need /\ e.other = c.other /\ e.cpu = c.cpu
  BY CallFields DEF NewCalls, Ops
<1> HIDE DEF e
<1>3. CallOK(c)
  BY CallFields
<1>4. CASE c.job = "CHOWN"
  <2>1. CallOK(e) /\ GoesOn(c, e)
    BY <1>1, <1>2, <1>3, <1>4 DEF CallOK, OpsOf, ChownOK, GoesOn
  <2> QED BY <1>1, <1>2, <1>4, <2>1, CallsMoved
<1>5. CASE c.job # "CHOWN"
  BY <1>1, <1>5, CallsEnded
<1> QED BY <1>4, <1>5

-----------------------------------------------------------------------------
(* Requests that begin                                                     *)

LEMMA CallIs ==
  ASSUME NEW op \in Ops, NEW job \in Jobs, NEW v \in VM \cup {NoVM}, NEW owner \in Halves,
         NEW need \in AllNeeds, NEW other \in Halves, NEW cpu \in Cpus \cup {0}
  PROVE  /\ Call(op, job, v, owner, need, other, cpu) \in NewCalls
         /\ Call(op, job, v, owner, need, other, cpu).op = op
         /\ Call(op, job, v, owner, need, other, cpu).job = job
         /\ Call(op, job, v, owner, need, other, cpu).vm = v
         /\ Call(op, job, v, owner, need, other, cpu).uid = owner.uid
         /\ Call(op, job, v, owner, need, other, cpu).gid = owner.gid
         /\ Call(op, job, v, owner, need, other, cpu).need = need
         /\ Call(op, job, v, owner, need, other, cpu).other = other
         /\ Call(op, job, v, owner, need, other, cpu).cpu = cpu
<1>1. owner.uid \in User \cup {NoAccount} /\ owner.gid \in Group \cup {NoAccount}
  BY DEF Halves
<1> QED BY <1>1 DEF Call, NewCalls

CheckBegins == \E e \in NewCalls : Starts(e) /\ e.op = "CHECK_USER" /\ e.job # "ROLLBACK"

LEMMA vm_allocate_calls ==
  ASSUME CallsInv, NEW u \in User, vm_allocate(u)
  PROVE  CallsInv' /\ CheckBegins /\ UNCHANGED <<vm, quota_vars>>
<1>1. PICK cpu \in Cpus, nics \in 0..MaxNics :
        Starts(Call("CHECK_USER", "ALLOCATE", NoVM, Owner(u, GroupOf[u]), Whole(cpu, nics), Nobody, cpu))
  BY DEF vm_allocate
<1> DEFINE e == Call("CHECK_USER", "ALLOCATE", NoVM, Owner(u, GroupOf[u]), Whole(cpu, nics), Nobody, cpu)
<1>2. GroupOf[u] \in Group /\ cpu \in Nat
  BY QuotasAssumption
<1>3. Owner(u, GroupOf[u]) \in Halves /\ Owner(u, GroupOf[u]).uid = u
      /\ Owner(u, GroupOf[u]).gid = GroupOf[u] /\ Nobody \in Halves
  BY <1>2, OwnerIs
<1>4. Whole(cpu, nics) \in WholeNeeds /\ Whole(cpu, nics) \in AllNeeds /\ Whole(cpu, nics)["CPU"] = cpu
  BY <1>2, WholeIs DEF WholeNeeds, AllNeeds
<1>5. e \in NewCalls /\ e.op = "CHECK_USER" /\ e.job = "ALLOCATE" /\ e.vm = NoVM /\ e.uid = u
      /\ e.gid = GroupOf[u] /\ e.need = Whole(cpu, nics) /\ e.cpu = cpu
  BY <1>3, <1>4, CallIs DEF Ops, Jobs
<1>6. Starts(e) /\ UNCHANGED vm
  BY <1>1 DEF vm_allocate
<1> HIDE DEF e
<1>7. CallOK(e)
  BY <1>2, <1>4, <1>5 DEF CallOK, OpsOf, AllocateOK
<1>8. \A x \in calls : x.vm = e.vm => x.job # "CHOWN"
  <2> SUFFICES ASSUME NEW x \in calls, x.vm = NoVM, x.job = "CHOWN" PROVE FALSE
    BY <1>5
  <2>1. x.vm \in VM
    BY CallFields DEF CallOK, ChownOK
  <2> QED BY <2>1, QuotasAssumption
<1>20. CallsInv'
  BY <1>5, <1>6, <1>7, <1>8, CallsBegun
<1>21. CheckBegins
  BY <1>5, <1>6, <1>7, <1>8 DEF CheckBegins
<1> QED BY <1>20, <1>21 DEF vm_allocate

LEMMA NoneUnderWay ==
  ASSUME Rash = {}, NEW v, NEW jobs, Undisturbed(v, jobs)
  PROVE  \A x \in calls : x.vm = v => x.job \notin jobs
  BY DEF Undisturbed, Under_way

LEMMA vm_resize_calls ==
  ASSUME Rash = {}, CallsInv, NEW v \in VM, NEW asker \in Askers, vm_resize(v, asker)
  PROVE  CallsInv' /\ CheckBegins /\ UNCHANGED <<vm, quota_vars>>
<1>1. PICK cpu \in Cpus :
        Starts(Call("CHECK_USER", "RESIZE", v, Owner(vm[v].uid, vm[v].gid),
                    CpuChange(cpu - vm[v].cpu), asker, cpu))
  BY DEF vm_resize
<1> DEFINE e == Call("CHECK_USER", "RESIZE", v, Owner(vm[v].uid, vm[v].gid),
                     CpuChange(cpu - vm[v].cpu), asker, cpu)
<1>2. vm[v].state = "POWEROFF" /\ UNCHANGED vm /\ \A x \in calls : x.vm = v => x.job \notin {"RESIZE", "CHOWN"}
  BY NoneUnderWay DEF vm_resize
<1>3. Owner(vm[v].uid, vm[v].gid) \in Halves /\ Owner(vm[v].uid, vm[v].gid).uid = vm[v].uid
      /\ Owner(vm[v].uid, vm[v].gid).gid = vm[v].gid /\ asker \in Halves
  <2>1. vm[v].uid \in User \cup {NoAccount} /\ vm[v].gid \in Group \cup {NoAccount}
    BY VMFields DEF CallsInv
  <2>2. asker \in Halves
    BY QuotasAssumption DEF Halves
  <2> QED BY <2>1, <2>2, OwnerIs
<1>4. CpuChange(cpu - vm[v].cpu) \in AllNeeds
  <2>1. cpu - vm[v].cpu \in Int
    <3>1. vm[v].cpu \in Nat /\ cpu \in Nat
      BY VMFields, QuotasAssumption DEF CallsInv
    <3> QED BY <3>1
  <2> QED BY <2>1 DEF AllNeeds, Changes
<1>5. e \in NewCalls /\ e.op = "CHECK_USER" /\ e.job = "RESIZE" /\ e.vm = v /\ e.uid = vm[v].uid
      /\ e.gid = vm[v].gid /\ e.need = CpuChange(cpu - vm[v].cpu) /\ e.cpu = cpu
  BY <1>3, <1>4, CallIs DEF Ops, Jobs
<1>6. Starts(e)
  BY <1>1
<1> HIDE DEF e
<1>7. CallOK(e)
  BY <1>2, <1>5 DEF CallOK, OpsOf, ResizeOK, IsOwner
<1>20. CallsInv'
  BY <1>2, <1>5, <1>6, <1>7, CallsBegun
<1>21. CheckBegins
  BY <1>2, <1>5, <1>6, <1>7 DEF CheckBegins
<1> QED BY <1>20, <1>21 DEF vm_resize

LEMMA vm_attach_nic_calls ==
  ASSUME Rash = {}, CallsInv, NEW u \in User, NEW v \in VM, vm_attach_nic(u, v)
  PROVE  CallsInv' /\ CheckBegins /\ UNCHANGED <<vm, quota_vars>>
<1> DEFINE e == Call("CHECK_USER", "ATTACH", v, Owner(u, GroupOf[u]), Lease, Nobody, 0)
<1>1. /\ vm[v].state # "NONE" /\ UNCHANGED vm /\ \A x \in calls : x.vm = v => x.job # "CHOWN"
      /\ vm[v].uid = u /\ vm[v].gid = GroupOf[u]
      /\ Starts(e)
  BY NoneUnderWay DEF vm_attach_nic
<1>2. vm[v].nics + Cardinality(Attaches(v)) < MaxNics
  BY DEF vm_attach_nic, Attaches
<1>3. Owner(u, GroupOf[u]) \in Halves /\ Owner(u, GroupOf[u]).uid = u
      /\ Owner(u, GroupOf[u]).gid = GroupOf[u] /\ Nobody \in Halves
  BY OwnerIs, QuotasAssumption
<1>4. e \in NewCalls /\ e.op = "CHECK_USER" /\ e.job = "ATTACH" /\ e.vm = v /\ e.uid = u
      /\ e.gid = GroupOf[u] /\ e.need = Lease
  BY <1>3, CallIs DEF Ops, Jobs, AllNeeds
<1> HIDE DEF e
<1>5. CallOK(e)
  BY <1>1, <1>4 DEF CallOK, OpsOf, AttachOK, IsOwner
<1>20. CallsInv'
  BY <1>1, <1>2, <1>4, <1>5, CallsBegun
<1>21. CheckBegins
  BY <1>1, <1>2, <1>4, <1>5 DEF CheckBegins
<1> QED BY <1>20, <1>21 DEF vm_attach_nic

LEMMA vm_chown_calls ==
  ASSUME Rash = {}, CallsInv, NEW v \in VM, NEW new \in Owners, vm_chown(v, new)
  PROVE  CallsInv' /\ CheckBegins /\ UNCHANGED <<vm, quota_vars>>
<1> DEFINE old == Owner(IF new.uid = NoAccount THEN NoAccount ELSE vm[v].uid,
                        IF new.gid = NoAccount THEN NoAccount ELSE vm[v].gid)
           e == Call("CHECK_USER", "CHOWN", v, new, Needs(v), old, 0)
<1>1. /\ vm[v].state \notin {"NONE", "HOTPLUG", "DONE"} /\ UNCHANGED vm
      /\ \A x \in calls : x.vm = v => x.job \notin {"CHOWN", "RESIZE", "ATTACH"}
      /\ Starts(e)
  BY NoneUnderWay DEF vm_chown
<1>2. PICK u \in User \cup {NoAccount}, g \in Group \cup {NoAccount} : new = Owner(u, g)
  BY DEF Owners
<1>3. new \in Halves /\ new.uid = u /\ new.gid = g
  BY <1>2, OwnerIs
<1>4. vm[v].state \in {"POWEROFF", "RUNNING"} /\ vm[v].uid \in User /\ vm[v].gid \in Group
  BY <1>1, VMFields DEF CallsInv, VmState
<1>5. /\ old \in Halves
      /\ old.uid = IF new.uid = NoAccount THEN NoAccount ELSE vm[v].uid
      /\ old.gid = IF new.gid = NoAccount THEN NoAccount ELSE vm[v].gid
  BY <1>3, <1>4, OwnerIs
<1>6. OldAndNew(old.uid, new.uid, vm[v].uid) /\ OldAndNew(old.gid, new.gid, vm[v].gid)
  <2>1. NoAccount \notin User /\ NoAccount \notin Group
    BY QuotasAssumption DEF Account
  <2> HIDE DEF old
  <2> QED BY <1>4, <1>5, <2>1 DEF OldAndNew
<1>7. Needs(v) \in AllNeeds
  BY NeedsWhole DEF CallsInv, AllNeeds
<1>8. e \in NewCalls /\ e.op = "CHECK_USER" /\ e.job = "CHOWN" /\ e.vm = v /\ e.uid = new.uid
      /\ e.gid = new.gid /\ e.need = Needs(v) /\ e.other = old
  <2> HIDE DEF old
  <2> QED BY <1>3, <1>5, <1>7, CallIs DEF Ops, Jobs
<1> HIDE DEF e, old
<1>9. CallOK(e)
  BY <1>4, <1>6, <1>8 DEF CallOK, OpsOf, ChownOK
<1>10. \A x \in calls : x.vm = e.vm => x.job \in {"END", "ALLOCATE", "ROLLBACK"}
  BY <1>1, <1>8, CallFields DEF Jobs
<1>20. CallsInv'
  BY <1>1, <1>8, <1>9, <1>10, CallsBegun
<1>21. CheckBegins
  BY <1>1, <1>8, <1>9, <1>10 DEF CheckBegins
<1> QED BY <1>20, <1>21 DEF vm_chown

-----------------------------------------------------------------------------
(* Steps that change a VM                                                  *)

VMRecord == [state : VmState, uid : User \cup {NoAccount}, gid : Group \cup {NoAccount},
             cpu : Nat, nics : 0..MaxNics, attach : BOOLEAN]
BecomesVM(v, r) == vm' = [vm EXCEPT ![v] = r]

LEMMA VMChanged ==
  ASSUME VMTypes, NEW v \in VM, NEW r \in VMRecord, BecomesVM(v, r),
         r.state # "NONE" => r.uid \in User /\ r.gid \in Group
  PROVE  /\ VMTypes' /\ vm'[v] = r /\ \A w \in VM \ {v} : vm'[w] = vm[w]
         /\ \A x : CallOK(x) /\ x.vm # v => CallOK(x)'
<1>1. VMTypes' /\ vm'[v] = r /\ \A w \in VM \ {v} : vm'[w] = vm[w]
  BY DEF VMTypes, VMRecord, BecomesVM
<1>2. ASSUME NEW x, CallOK(x), x.vm # v PROVE CallOK(x)'
  <2>1. x.vm \in VM => vm'[x.vm] = vm[x.vm]
    BY <1>1, <1>2
  <2> QED BY <1>2, <2>1 DEF CallOK, AllocateOK, ResizeOK, AttachOK, ChownOK, EndOK, RollbackOK, IsOwner, Needs
<1> QED BY <1>1, <1>2

LEMMA VMsOnly ==
  ASSUME CallsInv, UNCHANGED calls, NEW v \in VM, NEW r \in VMRecord, BecomesVM(v, r),
         r.uid = vm[v].uid /\ r.gid = vm[v].gid /\ r.state # "NONE" /\ vm[v].state # "NONE",
         r.nics = vm[v].nics, r.attach => r.state = "HOTPLUG" /\ r.nics > 0,
         \A x \in calls : x.vm = v /\ CallOK(x) => CallOK(x)'
  PROVE  CallsInv'
<1>1. vm[v].uid \in User /\ vm[v].gid \in Group
  BY VMFields DEF CallsInv
<1>2. /\ VMTypes' /\ vm'[v] = r /\ \A w \in VM \ {v} : vm'[w] = vm[w]
      /\ \A x : CallOK(x) /\ x.vm # v => CallOK(x)'
  BY <1>1, VMChanged DEF CallsInv
<1>3. \A x \in calls' : CallOK(x)'
  BY <1>2 DEF CallsInv
<1>4. Alone'
  BY AloneGone DEF CallsInv
<1>5. NicsOK'
  <2>1. \A w \in VM : Attaches(w)' = Attaches(w)
    BY DEF Attaches
  <2> QED BY <1>2, <2>1 DEF CallsInv, NicsOK
<1>6. CallTypes'
  BY DEF CallsInv, CallTypes
<1> QED BY <1>2, <1>3, <1>4, <1>5, <1>6 DEF CallsInv

(* Only the state of the VM and attach change.                             *)
LEMMA StateSteps ==
  ASSUME Rash = {}, CallsInv, NEW v \in VM, vm_start(v) \/ vm_poweroff(v) \/ detach_nic(v) \/ nic_stays(v)
  PROVE  /\ CallsInv' /\ UNCHANGED <<usage, limits, kept, calls>>
         /\ \E s \in {"RUNNING", "POWEROFF", "HOTPLUG"}, b \in BOOLEAN :
              BecomesVM(v, [vm[v] EXCEPT !.state = s, !.attach = b])
         /\ vm[v].state \in {"RUNNING", "POWEROFF", "HOTPLUG"}
<1>1. vm[v] \in VMRecord
  BY DEF CallsInv, VMTypes, VMRecord
<1>2. vm[v].attach => vm[v].state = "HOTPLUG" /\ vm[v].nics > 0
  BY DEF CallsInv, NicsOK
<1>3. vm \in [VM -> VMRecord]
  BY DEF CallsInv, VMTypes, VMRecord
<1>5. ASSUME vm_start(v) \/ vm_poweroff(v) PROVE
        \E s \in {"RUNNING", "POWEROFF"} :
          /\ BecomesVM(v, [vm[v] EXCEPT !.state = s, !.attach = FALSE])
          /\ vm[v].state \in {"RUNNING", "POWEROFF"} /\ UNCHANGED <<usage, limits, kept, calls>>
          /\ s = "POWEROFF" => vm[v].state = "RUNNING"
  <2>1. ~vm[v].attach
    BY <1>2, <1>5 DEF vm_start, vm_poweroff
  <2>2. \A s : [vm[v] EXCEPT !.state = s, !.attach = FALSE] = [vm[v] EXCEPT !.state = s]
    BY <1>1, <2>1 DEF VMRecord
  <2>3. CASE vm_start(v)
    <3>1. vm' = [vm EXCEPT ![v] = [vm[v] EXCEPT !.state = "RUNNING"]]
      BY <1>3, <2>3 DEF vm_start
    <3> QED BY <2>2, <2>3, <3>1 DEF vm_start, BecomesVM, quota_vars
  <2>4. CASE vm_poweroff(v)
    <3>1. vm' = [vm EXCEPT ![v] = [vm[v] EXCEPT !.state = "POWEROFF"]]
      BY <1>3, <2>4 DEF vm_poweroff
    <3> QED BY <2>2, <2>4, <3>1 DEF vm_poweroff, BecomesVM, quota_vars
  <2> QED BY <1>5, <2>3, <2>4
<1>6. CASE vm_start(v) \/ vm_poweroff(v)
  <2>1. PICK s \in {"RUNNING", "POWEROFF"} :
          /\ BecomesVM(v, [vm[v] EXCEPT !.state = s, !.attach = FALSE])
          /\ vm[v].state \in {"RUNNING", "POWEROFF"} /\ UNCHANGED <<usage, limits, kept, calls>>
          /\ s = "POWEROFF" => vm[v].state = "RUNNING"
    BY <1>5, <1>6
  <2> DEFINE r == [vm[v] EXCEPT !.state = s, !.attach = FALSE]
  <2>2. /\ r \in VMRecord /\ r.state = s /\ r.attach = FALSE
        /\ r.uid = vm[v].uid /\ r.gid = vm[v].gid /\ r.cpu = vm[v].cpu /\ r.nics = vm[v].nics
    <3>1. s \in VmState
      BY DEF VmState
    <3> QED BY <1>1, <3>1 DEF VMRecord
  <2>3. BecomesVM(v, r)
    BY <2>1
  <2> HIDE DEF r
  <2>4. vm'[v] = r
    BY <1>3, <2>3 DEF BecomesVM
  <2>5. \A x \in calls : x.vm = v /\ CallOK(x) => CallOK(x)'
    <3> SUFFICES ASSUME NEW x \in calls, x.vm = v, CallOK(x) PROVE CallOK(x)'
      OBVIOUS
    <3> QED BY <2>1, <2>2, <2>4 DEF CallOK, AllocateOK, ResizeOK, AttachOK, ChownOK, EndOK, RollbackOK, IsOwner, Needs
  <2>6. CallsInv'
    BY <2>1, <2>2, <2>3, <2>5, VMsOnly
  <2> QED BY <2>1, <2>6
<1>7. ASSUME detach_nic(v) \/ nic_stays(v) PROVE
        \E s \in {"RUNNING", "HOTPLUG"}, b \in BOOLEAN :
          /\ BecomesVM(v, [vm[v] EXCEPT !.state = s, !.attach = b])
          /\ vm[v].state \in {"RUNNING", "HOTPLUG"} /\ UNCHANGED <<usage, limits, kept, calls>>
          /\ b => s = "HOTPLUG" /\ vm[v].nics > 0
          /\ s = "RUNNING" => vm[v].attach /\ vm[v].state = "HOTPLUG"
          /\ s = "HOTPLUG" => vm[v].state = "RUNNING" /\ \A x \in calls : x.vm = v => x.job # "CHOWN"
  <2>1. CASE detach_nic(v)
    <3>1. vm' = [vm EXCEPT ![v] = [vm[v] EXCEPT !.state = "HOTPLUG", !.attach = TRUE]]
      BY <1>3, <2>1 DEF detach_nic
    <3>2. \A x \in calls : x.vm = v => x.job # "CHOWN"
      BY <2>1, NoneUnderWay DEF detach_nic
    <3> QED BY <2>1, <3>1, <3>2 DEF detach_nic, BecomesVM, quota_vars
  <2>2. CASE nic_stays(v)
    <3>1. vm' = [vm EXCEPT ![v] = [vm[v] EXCEPT !.state = "RUNNING", !.attach = FALSE]]
      BY <1>3, <2>2 DEF nic_stays
    <3> QED BY <2>2, <3>1 DEF nic_stays, BecomesVM, quota_vars
  <2> QED BY <1>7, <2>1, <2>2
<1>8. CASE detach_nic(v) \/ nic_stays(v)
  <2>1. PICK s \in {"RUNNING", "HOTPLUG"}, b \in BOOLEAN :
          /\ BecomesVM(v, [vm[v] EXCEPT !.state = s, !.attach = b])
          /\ vm[v].state \in {"RUNNING", "HOTPLUG"} /\ UNCHANGED <<usage, limits, kept, calls>>
          /\ b => s = "HOTPLUG" /\ vm[v].nics > 0
          /\ s = "RUNNING" => vm[v].attach /\ vm[v].state = "HOTPLUG"
          /\ s = "HOTPLUG" => vm[v].state = "RUNNING" /\ \A x \in calls : x.vm = v => x.job # "CHOWN"
    BY <1>7, <1>8
  <2> DEFINE r == [vm[v] EXCEPT !.state = s, !.attach = b]
  <2>2. /\ r \in VMRecord /\ r.state = s /\ r.attach = b
        /\ r.uid = vm[v].uid /\ r.gid = vm[v].gid /\ r.cpu = vm[v].cpu /\ r.nics = vm[v].nics
    <3>1. s \in VmState
      BY DEF VmState
    <3> QED BY <1>1, <3>1 DEF VMRecord
  <2>3. BecomesVM(v, r)
    BY <2>1
  <2> HIDE DEF r
  <2>4. vm'[v] = r
    BY <1>3, <2>3 DEF BecomesVM
  <2>5. \A x \in calls : x.vm = v /\ CallOK(x) => CallOK(x)'
    <3> SUFFICES ASSUME NEW x \in calls, x.vm = v, CallOK(x) PROVE CallOK(x)'
      OBVIOUS
    <3> QED BY <2>1, <2>2, <2>4 DEF CallOK, AllocateOK, ResizeOK, AttachOK, ChownOK, EndOK, RollbackOK, IsOwner, Needs
  <2>6. CallsInv'
    BY <2>1, <2>2, <2>3, <2>5, VMsOnly
  <2> QED BY <2>1, <2>6
<1> QED BY <1>6, <1>8

(* A VM and a call change in one step: what is left to be shown is about   *)
(* the other calls of that VM.                                             *)
GoodVM(r) == /\ r.state # "NONE" /\ r.uid \in User /\ r.gid \in Group
             /\ r.attach => r.state = "HOTPLUG" /\ r.nics > 0

LEMMA NicsChanged ==
  ASSUME CallsInv, CallTypes', NEW v \in VM, NEW r \in VMRecord, BecomesVM(v, r), GoodVM(r),
         r.nics + Cardinality(Attaches(v)') <= MaxNics,
         \A w \in VM \ {v} : Cardinality(Attaches(w)') <= Cardinality(Attaches(w))
  PROVE  NicsOK'
<1> SUFFICES ASSUME NEW w \in VM
             PROVE  /\ vm'[w].nics + Cardinality(Attaches(w)') <= MaxNics
                    /\ vm'[w].attach => vm'[w].state = "HOTPLUG" /\ vm'[w].nics > 0
  BY DEF NicsOK
<1>1. vm'[v] = r /\ \A x \in VM \ {v} : vm'[x] = vm[x]
  BY VMChanged DEF CallsInv, GoodVM
<1>2. CASE w = v
  BY <1>1, <1>2 DEF GoodVM
<1>3. CASE w # v
  <2>1. Cardinality(Attaches(w)') <= Cardinality(Attaches(w))
    BY <1>3
  <2>2. Cardinality(Attaches(w)) \in Nat /\ Cardinality(Attaches(w)') \in Nat
    BY AttachesSizes DEF CallsInv
  <2>3. vm[w].nics \in Nat /\ vm[w].nics + Cardinality(Attaches(w)) <= MaxNics
    BY VMFields DEF CallsInv, NicsOK
  <2>4. vm[w].attach => vm[w].state = "HOTPLUG" /\ vm[w].nics > 0
    BY DEF CallsInv, NicsOK
  <2>5. vm'[w] = vm[w]
    BY <1>1, <1>3
  <2>6. vm[w].nics + Cardinality(Attaches(w)') <= MaxNics
    BY <2>1, <2>2, <2>3, QuotasAssumption
  <2> QED BY <2>4, <2>5, <2>6
<1> QED BY <1>2, <1>3

LEMMA VMAndEnded ==
  ASSUME CallsInv, NEW c \in calls, Goes(c), NEW v \in VM, NEW r \in VMRecord, BecomesVM(v, r), GoodVM(r),
         \A x \in calls \ {c} : x.vm = v /\ CallOK(x) => CallOK(x)',
         r.nics + Cardinality(Attaches(v)') <= MaxNics
  PROVE  CallsInv'
<1>1. calls' = calls \ {c} /\ CallTypes'
  BY Gone DEF CallsInv
<1>2. VMTypes' /\ \A x : CallOK(x) /\ x.vm # v => CallOK(x)'
  BY VMChanged DEF CallsInv, GoodVM
<1>3. \A x \in calls' : CallOK(x)'
  BY <1>1, <1>2 DEF CallsInv
<1>4. Alone'
  BY <1>1, AloneGone DEF CallsInv
<1>5. NicsOK'
  <2>1. \A w \in VM \ {v} : Cardinality(Attaches(w)') <= Cardinality(Attaches(w))
    BY <1>1, AttachesGone DEF CallsInv
  <2> QED BY <1>1, <2>1, NicsChanged
<1> QED BY <1>1, <1>2, <1>3, <1>4, <1>5 DEF CallsInv

LEMMA VMAndMoved ==
  ASSUME CallsInv, NEW c \in calls, NEW e \in NewCalls, Becomes(c, e), GoesOn(c, e),
         NEW v \in VM, NEW r \in VMRecord, BecomesVM(v, r), GoodVM(r), r.nics = vm[v].nics,
         \A x : Like(x, e) => CallOK(x)',
         \A x \in calls \ {c} : x.vm = v /\ CallOK(x) => CallOK(x)',
         e.job \in {"END", "ROLLBACK"} => e.op # "SET_NIC",
         e.op = "SET_NIC" => \A x \in calls : x.vm = c.vm => x.op # "SET_NIC"
  PROVE  CallsInv'
<1>1. PICK d : /\ CallOfCopy(d) /\ Like(d, e) /\ Replaced(c, d) /\ CallTypes'
  BY Became DEF CallsInv, Replaced
<1>2. VMTypes' /\ \A x : CallOK(x) /\ x.vm # v => CallOK(x)'
  BY VMChanged DEF CallsInv, GoodVM
<1>3. \A x \in calls' : CallOK(x)'
  BY <1>1, <1>2 DEF CallsInv, Replaced
<1>4. GoesOn(c, d) /\ d.op = e.op /\ d.job = e.job
  BY <1>1 DEF GoesOn, Like
<1>5. Alone'
  BY <1>1, <1>4, AloneReplaced DEF CallsInv
<1>6. NicsOK'
  <2>1. \A w : Cardinality(Attaches(w)') <= Cardinality(Attaches(w))
    BY <1>1, <1>4, AttachesReplaced DEF CallsInv
  <2>2. Cardinality(Attaches(v)) \in Nat /\ Cardinality(Attaches(v)') \in Nat
    BY <1>1, AttachesSizes DEF CallsInv
  <2>3. vm[v].nics \in Nat /\ vm[v].nics + Cardinality(Attaches(v)) <= MaxNics
    BY VMFields DEF CallsInv, NicsOK
  <2>4. r.nics + Cardinality(Attaches(v)') <= MaxNics
    <3>1. Cardinality(Attaches(v)') <= Cardinality(Attaches(v))
      BY <2>1
    <3> QED BY <2>2, <2>3, <3>1, QuotasAssumption
  <2> QED BY <1>1, <2>1, <2>4, NicsChanged
<1> QED BY <1>1, <1>2, <1>3, <1>5, <1>6 DEF CallsInv

LEMMA VMAndBegun ==
  ASSUME CallsInv, NEW e \in NewCalls, Starts(e), e.job = "END", e.op # "SET_NIC",
         NEW v \in VM, NEW r \in VMRecord, BecomesVM(v, r), GoodVM(r), r.nics <= vm[v].nics,
         CallOK(e),
         \A x \in calls : x.vm = v /\ CallOK(x) => CallOK(x)'
  PROVE  CallsInv'
<1>1. PICK d : CallOfCopy(d) /\ d \notin calls /\ Like(d, e) /\ calls' = calls \cup {d} /\ CallTypes'
  BY Started DEF CallsInv
<1>2. VMTypes' /\ \A x : CallOK(x) /\ x.vm # v => CallOK(x)'
  BY VMChanged DEF CallsInv, GoodVM
<1>3. \A x \in calls' : CallOK(x)'
  <2>1. CallOK(d)'
    BY <1>1 DEF CallOK, EndOK, RollbackOK, Like
  <2> QED BY <1>1, <1>2, <2>1 DEF CallsInv
<1>4. Alone'
  BY <1>1, AloneStarted DEF CallsInv, Like
<1>5. NicsOK'
  <2>1. \A w : Cardinality(Attaches(w)') = Cardinality(Attaches(w)) + 0
    BY <1>1, AttachesStarted DEF CallsInv, Like
  <2>2. \A w : Cardinality(Attaches(w)) \in Nat
    BY AttachesFinite DEF CallsInv
  <2>3. vm[v].nics \in Nat /\ vm[v].nics + Cardinality(Attaches(v)) <= MaxNics
    BY VMFields DEF CallsInv, NicsOK
  <2>4. r.nics \in Nat
    <3>1. r.nics \in 0..MaxNics
      BY DEF VMRecord
    <3> QED BY <3>1
  <2>5. r.nics + Cardinality(Attaches(v)') <= MaxNics
    BY <2>1, <2>2, <2>3, <2>4, QuotasAssumption
  <2>6. \A w \in VM \ {v} : Cardinality(Attaches(w)') <= Cardinality(Attaches(w))
    BY <2>1, <2>2
  <2> QED BY <1>1, <2>5, <2>6, NicsChanged
<1> QED BY <1>1, <1>2, <1>3, <1>4, <1>5 DEF CallsInv

-----------------------------------------------------------------------------
(* The steps of a call about a VM, and what they do to it                  *)

(* A call that gives back what it was charged with.                        *)
LEMMA GivesBack ==
  ASSUME CallsInv, NEW c \in calls, c.job \in {"ALLOCATE", "ATTACH", "CHOWN"}, Gives(c)
  PROVE  \E e \in NewCalls :
           /\ Becomes(c, e) /\ CallOK(e) /\ GoesOn(c, e)
           /\ e.op = "GIVE_USER" /\ e.job = "END" /\ e.uid = c.uid /\ e.gid = c.gid /\ e.need = c.need
<1> DEFINE e == [c EXCEPT !.op = "GIVE_USER", !.job = "END"]
<1>1. e = [c EXCEPT !.op = "GIVE_USER", !.job = "END", !.gid = c.gid]
  BY CallFields DEF NewCalls
<1>2. Becomes(c, e)
  BY DEF Gives
<1> HIDE DEF e
<1>3. /\ e \in NewCalls /\ CallOK(e) /\ GoesOn(c, e)
      /\ e.op = "GIVE_USER" /\ e.job = "END" /\ e.uid = c.uid /\ e.gid = c.gid /\ e.need = c.need
  BY <1>1, GivesIs
<1> QED BY <1>2, <1>3

LEMMA pool_allocate_calls ==
  ASSUME CallsInv, NEW c \in calls, pool_allocate(c)
  PROVE  /\ CallsInv' /\ c.op = "INSERT" /\ c.job = "ALLOCATE" /\ UNCHANGED quota_vars
         /\ \/ /\ Goes(c)
               /\ \E v \in VM, r \in VMRecord :
                    /\ BecomesVM(v, r) /\ GoodVM(r) /\ vm[v].state = "NONE"
                    /\ r.state = "POWEROFF" /\ r.uid = c.uid /\ r.gid = c.gid
                    /\ Whole(r.cpu, r.nics) = c.need
            \/ Gives(c) /\ UNCHANGED vm
<1>1. c.op = "INSERT" /\ c.job = "ALLOCATE" /\ UNCHANGED quota_vars
  <2>1. c.op = "INSERT" /\ c.op \in OpsOf(c.job) /\ c.job \in Jobs
    BY CallFields DEF CallOK, pool_allocate
  <2> QED BY <2>1 DEF OpsOf, Jobs, pool_allocate
<1>2. c.uid \in User /\ c.gid \in Group /\ c.need \in WholeNeeds /\ c.need["CPU"] = c.cpu
  BY <1>1, CallFields DEF CallOK, AllocateOK
<1>3. ASSUME NEW v \in VM, vm[v].state = "NONE", Goes(c),
             vm' = [vm EXCEPT ![v] = [state |-> "POWEROFF", uid |-> c.uid, gid |-> c.gid,
                                      cpu |-> c.cpu, nics |-> c.need["LEASES"], attach |-> FALSE]]
      PROVE  /\ CallsInv'
             /\ \E r \in VMRecord :
                    /\ BecomesVM(v, r) /\ GoodVM(r)
                    /\ r.state = "POWEROFF" /\ r.uid = c.uid /\ r.gid = c.gid
                    /\ Whole(r.cpu, r.nics) = c.need
  <2> DEFINE r == [state |-> "POWEROFF", uid |-> c.uid, gid |-> c.gid,
                   cpu |-> c.cpu, nics |-> c.need["LEASES"], attach |-> FALSE]
  <2>1. PICK x \in Nat, n \in 0..MaxNics : c.need = Whole(x, n)
    BY <1>2 DEF WholeNeeds
  <2>2. c.need["LEASES"] = n /\ c.cpu = x
    BY <1>2, <2>1, WholeIs
  <2>3. r \in VMRecord /\ GoodVM(r) /\ r.state = "POWEROFF" /\ r.uid = c.uid /\ r.gid = c.gid
        /\ r.cpu = x /\ r.nics = n /\ ~r.attach
    BY <1>2, <2>2 DEF VMRecord, VmState, GoodVM
  <2>4. BecomesVM(v, r)
    BY <1>3 DEF BecomesVM
  <2> HIDE DEF r
  <2>5. \A y \in calls : y.vm = v => y.job \in {"ALLOCATE", "END", "ROLLBACK"}
    <3> SUFFICES ASSUME NEW y \in calls, y.vm = v, y.job \in {"RESIZE", "ATTACH", "CHOWN"} PROVE FALSE
      BY CallFields DEF Jobs
    <3> QED BY <1>3, CallFields DEF CallOK, ResizeOK, AttachOK, ChownOK
  <2>6. \A y \in calls \ {c} : y.vm = v /\ CallOK(y) => CallOK(y)'
    BY <2>5 DEF CallOK, AllocateOK, EndOK, RollbackOK
  <2>7. r.nics + Cardinality(Attaches(v)') <= MaxNics
    <3>1. Attaches(v)' = {}
      BY <1>3, <2>5 DEF Attaches, Goes
    <3>2. Cardinality(Attaches(v)') = 0
      BY <3>1, FS_EmptySet
    <3>3. n \in Nat /\ n <= MaxNics
      BY QuotasAssumption
    <3> QED BY <2>3, <3>2, <3>3
  <2>8. CallsInv'
    BY <1>3, <2>3, <2>4, <2>6, <2>7, VMAndEnded
  <2> QED BY <2>1, <2>3, <2>4, <2>8
<1>4. ASSUME Gives(c), UNCHANGED vm PROVE CallsInv'
  <2>1. PICK e \in NewCalls : Becomes(c, e) /\ CallOK(e) /\ GoesOn(c, e) /\ e.op = "GIVE_USER"
    BY <1>1, <1>4, GivesBack
  <2> QED BY <1>4, <2>1, CallsMoved
<1> QED BY <1>1, <1>3, <1>4 DEF pool_allocate

(* A resize sets the size that was asked for, or is rolled back.           *)
LEMMA ResizeIs ==
  ASSUME CallsInv, NEW c \in calls, resize(c)
  PROVE  /\ c.op = "RESIZE" /\ c.job = "RESIZE" /\ UNCHANGED quota_vars
         /\ c.vm \in VM /\ IsOwner(c) /\ c.uid \in User /\ c.gid \in Group
         /\ \/ /\ vm[c.vm].state = "POWEROFF" /\ vm' = [vm EXCEPT ![c.vm].cpu = c.cpu]
               /\ Goes(c) /\ UNCHANGED slip_vars
            \/ rollback(c, c.other, {c.uid, c.gid}) /\ UNCHANGED vm
<1>1. c.op = "RESIZE" /\ c.op \in OpsOf(c.job) /\ c.job \in Jobs
  BY CallFields DEF CallOK, resize
<1>2. c.job = "RESIZE"
  BY <1>1 DEF OpsOf, Jobs
<1>3. c.vm \in VM /\ vm[c.vm].state # "NONE" /\ IsOwner(c)
  BY <1>2, CallFields DEF CallOK, ResizeOK
<1>4. c.uid \in User /\ c.gid \in Group
  BY <1>3, VMFields DEF CallsInv, IsOwner
<1> QED BY <1>1, <1>2, <1>3, <1>4 DEF resize

LEMMA resize_rolled ==
  ASSUME CallsInv, NEW c \in calls, resize(c), rollback(c, c.other, {c.uid, c.gid}), UNCHANGED vm
  PROVE  CallsInv'
<1>1. c.job = "RESIZE" /\ c.other \in Halves
  BY ResizeIs, CallFields
<1>2. PICK e \in NewCalls : Becomes(c, e) /\ CallOK(e) /\ GoesOn(c, e) /\ e.op = "GIVE_USER"
  BY <1>1, RolledBack
<1> QED BY <1>2, CallsMoved

LEMMA resize_calls ==
  ASSUME CallsInv, NEW c \in calls, resize(c), vm[c.vm].state = "POWEROFF", Goes(c),
         vm' = [vm EXCEPT ![c.vm].cpu = c.cpu]
  PROVE  /\ CallsInv' /\ c.op = "RESIZE" /\ c.job = "RESIZE" /\ UNCHANGED quota_vars
         /\ c.vm \in VM /\ IsOwner(c)
         /\ c.cpu \in Nat /\ c.need = CpuChange(c.cpu - vm[c.vm].cpu)
         /\ \E r \in VMRecord :
              /\ BecomesVM(c.vm, r) /\ GoodVM(r)
              /\ r.state = "POWEROFF" /\ r.uid = c.uid /\ r.gid = c.gid
              /\ r.cpu = c.cpu /\ r.nics = vm[c.vm].nics
<1>1. c.op = "RESIZE" /\ c.job = "RESIZE" /\ UNCHANGED quota_vars
  BY ResizeIs
<1>2. c.vm \in VM /\ vm[c.vm].state = "POWEROFF" /\ IsOwner(c)
      /\ c.cpu \in Cpus /\ c.need = CpuChange(c.cpu - vm[c.vm].cpu)
  BY <1>1, CallFields DEF CallOK, ResizeOK
<1> DEFINE v == c.vm
           r == [vm[v] EXCEPT !.cpu = c.cpu]
<1>3. Goes(c) /\ vm' = [vm EXCEPT ![v].cpu = c.cpu]
  OBVIOUS
<1>4. vm[v] \in VMRecord /\ vm[v].uid \in User /\ vm[v].gid \in Group /\ ~vm[v].attach
  <2>1. ~vm[v].attach
    BY <1>2 DEF CallsInv, NicsOK
  <2>2. vm[v].uid \in User /\ vm[v].gid \in Group
    BY <1>2, VMFields DEF CallsInv
  <2> QED BY <1>2, <2>1, <2>2 DEF CallsInv, VMTypes, VMRecord
<1>5. c.cpu \in Nat
  BY <1>2, QuotasAssumption
<1>6. /\ r \in VMRecord /\ GoodVM(r) /\ r.state = "POWEROFF" /\ r.uid = c.uid /\ r.gid = c.gid
      /\ r.cpu = c.cpu /\ r.nics = vm[v].nics
  BY <1>2, <1>4, <1>5 DEF VMRecord, GoodVM, IsOwner
<1>7. BecomesVM(v, r)
  BY <1>3, <1>4 DEF BecomesVM, CallsInv, VMTypes
<1> HIDE DEF r, v
<1>8. \A y \in calls \ {c} : y.vm = v /\ CallOK(y) => CallOK(y)'
  <2> SUFFICES ASSUME NEW y \in calls \ {c}, y.vm = v, CallOK(y) PROVE CallOK(y)'
    OBVIOUS
  <2>1. y.job # "RESIZE" /\ y.job # "CHOWN"
    BY <1>1 DEF CallsInv, Alone, v
  <2>2. vm'[v] = r
    BY <1>2, <1>6, <1>7, VMChanged DEF CallsInv, GoodVM, v
  <2>3. y.op # "SET_NIC"
    <3> SUFFICES ASSUME y.op = "SET_NIC" PROVE FALSE
      OBVIOUS
    <3>1. y.job = "ATTACH"
      BY CallFields DEF CallOK, OpsOf, Jobs
    <3> QED BY <1>2, <3>1 DEF CallOK, AttachOK, v
  <2> QED BY <1>2, <1>6, <2>1, <2>2, <2>3 DEF CallOK, AllocateOK, AttachOK, EndOK, RollbackOK, IsOwner, v
<1>9. r.nics + Cardinality(Attaches(v)') <= MaxNics
  <2>0. calls' = calls \ {c} /\ CallTypes'
    BY <1>3, Gone DEF CallsInv
  <2>1. Cardinality(Attaches(v)') <= Cardinality(Attaches(v))
    BY <2>0, AttachesGone DEF CallsInv
  <2>2. Cardinality(Attaches(v)) \in Nat /\ Cardinality(Attaches(v)') \in Nat
    BY <2>0, AttachesSizes DEF CallsInv
  <2>3. vm[v].nics \in Nat /\ vm[v].nics + Cardinality(Attaches(v)) <= MaxNics
    BY <1>2, VMFields DEF CallsInv, NicsOK, v
  <2> QED BY <1>6, <2>1, <2>2, <2>3, QuotasAssumption
<1>10. CallsInv'
  <2>1. v \in VM
    BY <1>2 DEF v
  <2> QED BY <1>3, <1>6, <1>7, <1>8, <1>9, <2>1, VMAndEnded
<1>11. c.vm = v
  BY DEF v
<1> QED BY <1>1, <1>2, <1>3, <1>5, <1>6, <1>7, <1>10, <1>11

LEMMA attach_nic_calls ==
  ASSUME CallsInv, NEW c \in calls, attach_nic(c)
  PROVE  /\ CallsInv' /\ c.op = "HOTPLUG" /\ c.job = "ATTACH" /\ UNCHANGED quota_vars /\ c.vm \in VM
         /\ \/ /\ \E r \in VMRecord :
                    /\ BecomesVM(c.vm, r) /\ GoodVM(r) /\ vm[c.vm].state = "RUNNING"
                    /\ r.state = "HOTPLUG" /\ r.uid = vm[c.vm].uid /\ r.gid = vm[c.vm].gid
                    /\ r.cpu = vm[c.vm].cpu /\ r.nics = vm[c.vm].nics
               /\ \E e \in NewCalls :
                    /\ Becomes(c, e) /\ e.op = "SET_NIC" /\ e.job = "ATTACH" /\ e.uid = c.uid
                    /\ e.gid = c.gid /\ e.need = c.need
            \/ Gives(c) /\ UNCHANGED vm
<1>1. c.op = "HOTPLUG" /\ c.job = "ATTACH" /\ UNCHANGED quota_vars
  <2>1. c.op = "HOTPLUG" /\ c.op \in OpsOf(c.job) /\ c.job \in Jobs
    BY CallFields DEF CallOK, attach_nic
  <2> QED BY <2>1 DEF OpsOf, Jobs, attach_nic
<1>2. c.vm \in VM /\ IsOwner(c) /\ c.need = Lease
  BY <1>1, CallFields DEF CallOK, AttachOK
<1>3. ASSUME vm[c.vm].state = "RUNNING"
      PROVE  /\ CallsInv'
             /\ \E r \in VMRecord :
                    /\ BecomesVM(c.vm, r) /\ GoodVM(r) /\ vm[c.vm].state = "RUNNING"
                    /\ r.state = "HOTPLUG" /\ r.uid = vm[c.vm].uid /\ r.gid = vm[c.vm].gid
                    /\ r.cpu = vm[c.vm].cpu /\ r.nics = vm[c.vm].nics
             /\ \E e \in NewCalls :
                    /\ Becomes(c, e) /\ e.op = "SET_NIC" /\ e.job = "ATTACH" /\ e.uid = c.uid
                    /\ e.gid = c.gid /\ e.need = c.need
  <2> DEFINE v == c.vm
             r == [vm[v] EXCEPT !.state = "HOTPLUG"]
             e == [c EXCEPT !.op = "SET_NIC"]
  <2>1. /\ vm[v] \in VMRecord /\ vm[v].uid \in User /\ vm[v].gid \in Group /\ ~vm[v].attach
    <3>1. vm[v].uid \in User /\ vm[v].gid \in Group
      BY <1>2, <1>3, VMFields DEF CallsInv
    <3>2. ~vm[v].attach
      BY <1>2, <1>3 DEF CallsInv, NicsOK
    <3> QED BY <1>2, <3>1, <3>2 DEF CallsInv, VMTypes, VMRecord
  <2>2. /\ r \in VMRecord /\ GoodVM(r) /\ r.state = "HOTPLUG" /\ r.uid = vm[v].uid /\ r.gid = vm[v].gid
        /\ r.cpu = vm[v].cpu /\ r.nics = vm[v].nics /\ ~r.attach
    BY <2>1 DEF VMRecord, VmState, GoodVM
  <2>3. BecomesVM(v, r) /\ Becomes(c, e)
    BY <1>2, <1>3 DEF BecomesVM, CallsInv, VMTypes, attach_nic
  <2>4. e \in NewCalls /\ e.op = "SET_NIC" /\ e.job = "ATTACH" /\ e.vm = c.vm /\ e.uid = c.uid
        /\ e.gid = c.gid /\ e.need = c.need
    BY <1>1, CallFields DEF NewCalls, Ops
  <2> HIDE DEF e, r
  <2>5. vm'[v] = r
    BY <1>2, <2>2, <2>3, VMChanged DEF CallsInv, GoodVM
  <2>6. \A x : Like(x, e) => CallOK(x)'
    BY <1>2, <2>2, <2>4, <2>5 DEF Like, CallOK, OpsOf, AttachOK, IsOwner
  <2>7. \A y \in calls : y.vm = v => y.op # "SET_NIC" /\ y.job # "CHOWN"
    <3> SUFFICES ASSUME NEW y \in calls, y.vm = v PROVE y.op # "SET_NIC" /\ y.job # "CHOWN"
      OBVIOUS
    <3>1. CallOK(y) /\ y.job \in Jobs
      BY CallFields
    <3>2. y.op # "SET_NIC"
      BY <1>3, <3>1 DEF CallOK, OpsOf, Jobs, AttachOK
    <3>4. y.job # "CHOWN"
      BY <1>1 DEF CallsInv, Alone
    <3> QED BY <3>2, <3>4
  <2>8. \A y \in calls \ {c} : y.vm = v /\ CallOK(y) => CallOK(y)'
    BY <1>3, <2>2, <2>5, <2>7 DEF CallOK, AllocateOK, ResizeOK, AttachOK, EndOK, RollbackOK, IsOwner
  <2>9. GoesOn(c, e)
    BY <1>1, <2>4 DEF GoesOn
  <2>10. CallsInv'
    BY <1>2, <2>2, <2>3, <2>4, <2>6, <2>7, <2>8, <2>9, VMAndMoved
  <2> QED BY <1>3, <2>2, <2>3, <2>4, <2>10
<1>4. ASSUME Gives(c), UNCHANGED vm PROVE CallsInv'
  <2>1. PICK e \in NewCalls : Becomes(c, e) /\ CallOK(e) /\ GoesOn(c, e) /\ e.op = "GIVE_USER"
    BY <1>1, <1>4, GivesBack
  <2> QED BY <1>4, <2>1, CallsMoved
<1> QED BY <1>1, <1>2, <1>3, <1>4 DEF attach_nic

LEMMA set_attach_nic_calls ==
  ASSUME CallsInv, NEW c \in calls, set_attach_nic(c)
  PROVE  /\ CallsInv' /\ c.op = "SET_NIC" /\ c.job = "ATTACH" /\ UNCHANGED quota_vars /\ c.vm \in VM
         /\ vm[c.vm].state = "HOTPLUG" /\ IsOwner(c) /\ c.need = Lease
         /\ \E r \in VMRecord :
              /\ BecomesVM(c.vm, r) /\ GoodVM(r) /\ Alive(c.vm)
              /\ r.state \in {"HOTPLUG", "RUNNING"} /\ r.uid = c.uid /\ r.gid = c.gid
              /\ r.cpu = vm[c.vm].cpu
              /\ \/ Goes(c) /\ r.nics = vm[c.vm].nics + 1
                 \/ Gives(c) /\ r.nics = vm[c.vm].nics
<1>1. c.op = "SET_NIC" /\ c.job = "ATTACH" /\ UNCHANGED quota_vars
  <2>1. c.op = "SET_NIC" /\ c.op \in OpsOf(c.job) /\ c.job \in Jobs
    BY CallFields DEF CallOK, set_attach_nic
  <2> QED BY <2>1 DEF OpsOf, Jobs, set_attach_nic
<1>2. c.vm \in VM /\ IsOwner(c) /\ c.need = Lease /\ vm[c.vm].state = "HOTPLUG" /\ ~vm[c.vm].attach
  BY <1>1, CallFields DEF CallOK, AttachOK
<1> DEFINE v == c.vm
<1>3. /\ vm[v] \in VMRecord /\ vm[v].uid \in User /\ vm[v].gid \in Group
      /\ vm[v].nics \in Nat /\ vm[v].nics <= MaxNics
  <2>1. vm[v].uid \in User /\ vm[v].gid \in Group /\ vm[v].nics \in 0..MaxNics
    BY <1>2, VMFields DEF CallsInv
  <2>2. vm[v].nics \in Nat /\ vm[v].nics <= MaxNics
    BY <2>1, QuotasAssumption
  <2> QED BY <1>2, <2>1, <2>2 DEF CallsInv, VMTypes, VMRecord
<1>4. \A y \in calls \ {c} : y.vm = v => y.op # "SET_NIC" /\ y.job # "CHOWN"
  BY <1>1 DEF CallsInv, Alone
<1>5. ASSUME NEW r \in VMRecord, r.state \in {"HOTPLUG", "RUNNING"}, r.uid = vm[v].uid, r.gid = vm[v].gid,
             r.cpu = vm[v].cpu, vm'[v] = r
      PROVE  \A y \in calls \ {c} : y.vm = v /\ CallOK(y) => CallOK(y)'
  BY <1>4, <1>5 DEF CallOK, AllocateOK, ResizeOK, AttachOK, EndOK, RollbackOK, IsOwner
<1>6. CASE vm' = [vm EXCEPT ![c.vm].nics = @ + 1, ![c.vm].attach = TRUE] /\ Goes(c)
  <2> DEFINE r == [vm[v] EXCEPT !.nics = @ + 1, !.attach = TRUE]
  <2>1. calls' = calls \ {c} /\ CallTypes'
    BY <1>6, Gone DEF CallsInv
  <2>2. Cardinality(Attaches(v)') = Cardinality(Attaches(v)) - 1
    <3>1. c \in Attaches(v)
      BY <1>1 DEF Attaches
    <3> QED BY <2>1, <3>1, AttachesGone DEF CallsInv
  <2>3. Cardinality(Attaches(v)) \in Nat /\ Cardinality(Attaches(v)') \in Nat
    BY <2>1, AttachesSizes DEF CallsInv
  <2>4. vm[v].nics + Cardinality(Attaches(v)) <= MaxNics
    BY <1>2 DEF CallsInv, NicsOK
  <2>5. vm[v].nics + 1 + Cardinality(Attaches(v)') <= MaxNics /\ vm[v].nics + 1 \in 0..MaxNics
    BY <1>3, <2>2, <2>3, <2>4, QuotasAssumption
  <2>6. /\ r \in VMRecord /\ GoodVM(r) /\ r.state = "HOTPLUG" /\ r.uid = vm[v].uid /\ r.gid = vm[v].gid
        /\ r.cpu = vm[v].cpu /\ r.nics = vm[v].nics + 1
    <3> DEFINE n == vm[v].nics + 1
    <3>1. n \in 0..MaxNics /\ n > 0 /\ r = [vm[v] EXCEPT !.nics = n, !.attach = TRUE]
      BY <1>3, <2>5
    <3> HIDE DEF n, r
    <3>2. /\ r \in VMRecord /\ r.state = "HOTPLUG" /\ r.uid = vm[v].uid /\ r.gid = vm[v].gid
          /\ r.cpu = vm[v].cpu /\ r.nics = n
      BY <1>2, <1>3, <3>1 DEF VMRecord
    <3>3. GoodVM(r)
      BY <1>3, <3>1, <3>2 DEF GoodVM
    <3> QED BY <3>2, <3>3 DEF n
  <2>7. BecomesVM(v, r)
    BY <1>2, <1>6 DEF BecomesVM, CallsInv, VMTypes
  <2> HIDE DEF r
  <2>8. vm'[v] = r
    BY <1>2, <2>6, <2>7, VMChanged DEF CallsInv, GoodVM
  <2>9. \A y \in calls \ {c} : y.vm = v /\ CallOK(y) => CallOK(y)'
    BY <1>5, <2>6, <2>8
  <2>10. r.nics + Cardinality(Attaches(v)') <= MaxNics
    BY <2>5, <2>6
  <2>11. CallsInv'
    BY <1>2, <1>6, <2>6, <2>7, <2>9, <2>10, VMAndEnded
  <2> QED BY <1>1, <1>2, <1>6, <2>6, <2>7, <2>11 DEF IsOwner, Alive
<1>7. CASE vm' = [vm EXCEPT ![c.vm].state = IF @ = "HOTPLUG" THEN "RUNNING" ELSE @] /\ Gives(c)
  <2> DEFINE r == [vm[v] EXCEPT !.state = "RUNNING"]
  <2>1. PICK e \in NewCalls : Becomes(c, e) /\ CallOK(e) /\ GoesOn(c, e) /\ e.op = "GIVE_USER" /\ e.job = "END"
    BY <1>1, <1>7, GivesBack
  <2>6. /\ r \in VMRecord /\ GoodVM(r) /\ r.state = "RUNNING" /\ r.uid = vm[v].uid /\ r.gid = vm[v].gid
        /\ r.cpu = vm[v].cpu /\ r.nics = vm[v].nics
    BY <1>2, <1>3 DEF VMRecord, VmState, GoodVM
  <2>7. BecomesVM(v, r)
    BY <1>2, <1>7 DEF BecomesVM, CallsInv, VMTypes
  <2> HIDE DEF r
  <2>8. vm'[v] = r
    BY <1>2, <2>6, <2>7, VMChanged DEF CallsInv, GoodVM
  <2>9. \A y \in calls \ {c} : y.vm = v /\ CallOK(y) => CallOK(y)'
    BY <1>5, <2>6, <2>8
  <2>10. \A x : Like(x, e) => CallOK(x)'
    BY <2>1 DEF Like, CallOK, EndOK, RollbackOK
  <2>11. CallsInv'
    BY <1>2, <2>1, <2>6, <2>7, <2>9, <2>10, VMAndMoved
  <2> QED BY <1>1, <1>2, <1>7, <2>6, <2>7, <2>11 DEF IsOwner, Alive
<1> QED BY <1>6, <1>7 DEF set_attach_nic

LEMMA nic_goes_calls ==
  ASSUME CallsInv, NEW v \in VM, nic_goes(v)
  PROVE  /\ CallsInv' /\ UNCHANGED quota_vars /\ Alive(v) /\ vm[v].nics \in Nat
         /\ \A x \in calls : x.vm = v => x.job # "CHOWN"
         /\ \E r \in VMRecord :
              /\ BecomesVM(v, r) /\ GoodVM(r)
              /\ r.state = "RUNNING" /\ r.uid = vm[v].uid /\ r.gid = vm[v].gid
              /\ r.cpu = vm[v].cpu /\ r.nics = vm[v].nics - 1
         /\ \E e \in NewCalls :
              /\ Starts(e) /\ e.op = "GIVE_USER" /\ e.job = "END"
              /\ e.uid = vm[v].uid /\ e.gid = vm[v].gid /\ e.need = Lease
<1> DEFINE r == [vm[v] EXCEPT !.state = "RUNNING", !.attach = FALSE, !.nics = @ - 1]
           e == Call("GIVE_USER", "END", v, Owner(vm[v].uid, vm[v].gid), Lease, Nobody, 0)
<1>1. vm[v].state = "HOTPLUG" /\ vm[v].attach /\ Starts(e) /\ UNCHANGED quota_vars
  BY DEF nic_goes
<1>2. /\ vm[v] \in VMRecord /\ vm[v].uid \in User /\ vm[v].gid \in Group
      /\ vm[v].nics \in Nat /\ vm[v].nics <= MaxNics /\ vm[v].nics > 0
  <2>1. vm[v].uid \in User /\ vm[v].gid \in Group /\ vm[v].nics \in 0..MaxNics
    BY <1>1, VMFields DEF CallsInv
  <2>2. vm[v].nics \in Nat /\ vm[v].nics <= MaxNics
    BY <2>1, QuotasAssumption
  <2>3. vm[v].nics > 0
    BY <1>1 DEF CallsInv, NicsOK
  <2> QED BY <2>1, <2>2, <2>3 DEF CallsInv, VMTypes, VMRecord
<1>3. /\ r \in VMRecord /\ GoodVM(r)
      /\ r.state = "RUNNING" /\ r.uid = vm[v].uid /\ r.gid = vm[v].gid
      /\ r.cpu = vm[v].cpu /\ r.nics = vm[v].nics - 1
  <2> DEFINE n == vm[v].nics - 1
  <2>1. n \in 0..MaxNics /\ r = [vm[v] EXCEPT !.state = "RUNNING", !.attach = FALSE, !.nics = n]
    BY <1>2, QuotasAssumption
  <2> HIDE DEF n, r
  <2>2. /\ r \in VMRecord /\ r.state = "RUNNING" /\ r.uid = vm[v].uid /\ r.gid = vm[v].gid
        /\ r.cpu = vm[v].cpu /\ r.nics = n /\ ~r.attach
    BY <1>2, <2>1 DEF VMRecord, VmState
  <2>3. GoodVM(r)
    BY <1>2, <2>2 DEF GoodVM
  <2> QED BY <2>2, <2>3 DEF n
<1>4. BecomesVM(v, r)
  BY <1>2 DEF BecomesVM, CallsInv, VMTypes, nic_goes
<1>5. Owner(vm[v].uid, vm[v].gid) \in Halves /\ Owner(vm[v].uid, vm[v].gid).uid = vm[v].uid
      /\ Owner(vm[v].uid, vm[v].gid).gid = vm[v].gid /\ Nobody \in Halves
  BY <1>2, OwnerIs
<1>6. e \in NewCalls /\ e.op = "GIVE_USER" /\ e.job = "END" /\ e.vm = v /\ e.uid = vm[v].uid
      /\ e.gid = vm[v].gid /\ e.need = Lease
  BY <1>5, CallIs DEF Ops, Jobs, AllNeeds
<1> HIDE DEF r, e
<1>7. vm'[v] = r
  BY <1>3, <1>4, VMChanged DEF CallsInv, GoodVM
<1>8. \A y \in calls : y.vm = v => y.op # "SET_NIC" /\ y.job # "CHOWN"
  <2> SUFFICES ASSUME NEW y \in calls, y.vm = v PROVE y.op # "SET_NIC" /\ y.job # "CHOWN"
    OBVIOUS
  <2>1. CallOK(y) /\ y.job \in Jobs
    BY CallFields
  <2>2. y.op # "SET_NIC"
    BY <1>1, <2>1 DEF CallOK, OpsOf, Jobs, AttachOK
  <2>3. y.job # "CHOWN"
    BY <1>1, <2>1 DEF CallOK, ChownOK
  <2> QED BY <2>2, <2>3
<1>9. \A y \in calls : y.vm = v /\ CallOK(y) => CallOK(y)'
  BY <1>3, <1>7, <1>8 DEF CallOK, AllocateOK, ResizeOK, AttachOK, EndOK, RollbackOK, IsOwner
<1>10. CallOK(e)
  BY <1>6 DEF CallOK, EndOK, RollbackOK, OpsOf
<1>11. CallsInv'
  <2>1. r.nics <= vm[v].nics
    BY <1>2, <1>3
  <2> QED BY <1>1, <1>3, <1>4, <1>6, <1>9, <1>10, <2>1, VMAndBegun
<1> QED BY <1>1, <1>2, <1>3, <1>4, <1>6, <1>8, <1>11 DEF Alive

LEMMA vm_del_calls ==
  ASSUME Rash = {}, CallsInv, NEW v \in VM, vm_del(v)
  PROVE  /\ CallsInv' /\ UNCHANGED quota_vars /\ Alive(v)
         /\ \A x \in calls : x.vm = v => x.job # "CHOWN"
         /\ \E r \in VMRecord : BecomesVM(v, r) /\ GoodVM(r) /\ r.state = "DONE"
         /\ \E e \in NewCalls :
              /\ Starts(e) /\ e.op = "GIVE_USER" /\ e.job = "END"
              /\ e.uid = vm[v].uid /\ e.gid = vm[v].gid /\ e.need = Needs(v)
<1> DEFINE r == [vm[v] EXCEPT !.state = "DONE", !.attach = FALSE]
           e == Call("GIVE_USER", "END", v, Owner(vm[v].uid, vm[v].gid), Needs(v), Nobody, 0)
<1>1. /\ Alive(v) /\ vm[v].state # "NONE" /\ Starts(e) /\ UNCHANGED quota_vars
      /\ \A y \in calls : y.vm = v => y.op # "SET_NIC" /\ y.job # "CHOWN"
  BY NoneUnderWay DEF vm_del, Attaching, Alive
<1>2. vm[v] \in VMRecord /\ vm[v].uid \in User /\ vm[v].gid \in Group
  BY <1>1, VMFields DEF CallsInv, VMTypes, VMRecord
<1>3. /\ r \in VMRecord /\ GoodVM(r) /\ r.state = "DONE" /\ r.nics = vm[v].nics /\ r.cpu = vm[v].cpu
      /\ r.uid = vm[v].uid /\ r.gid = vm[v].gid
  BY <1>2 DEF VMRecord, VmState, GoodVM
<1>4. BecomesVM(v, r)
  BY <1>2 DEF BecomesVM, CallsInv, VMTypes, vm_del
<1>5. Owner(vm[v].uid, vm[v].gid) \in Halves /\ Owner(vm[v].uid, vm[v].gid).uid = vm[v].uid
      /\ Owner(vm[v].uid, vm[v].gid).gid = vm[v].gid /\ Nobody \in Halves
  BY <1>2, OwnerIs
<1>6. Needs(v) \in WholeNeeds /\ Needs(v) \in AllNeeds
  BY NeedsWhole DEF CallsInv, AllNeeds
<1>7. e \in NewCalls /\ e.op = "GIVE_USER" /\ e.job = "END" /\ e.vm = v /\ e.uid = vm[v].uid
      /\ e.gid = vm[v].gid /\ e.need = Needs(v)
  BY <1>5, <1>6, CallIs DEF Ops, Jobs
<1> HIDE DEF r, e
<1>8. vm'[v] = r
  BY <1>3, <1>4, VMChanged DEF CallsInv, GoodVM
<1>9. \A y \in calls : y.vm = v /\ CallOK(y) => CallOK(y)'
  BY <1>1, <1>3, <1>8 DEF CallOK, AllocateOK, ResizeOK, AttachOK, EndOK, RollbackOK, IsOwner
<1>10. CallOK(e)
  BY <1>6, <1>7 DEF CallOK, EndOK, RollbackOK, OpsOf
<1>11. CallsInv'
  <2>1. r.nics <= vm[v].nics
    <3>1. vm[v].nics \in Nat
      BY VMFields DEF CallsInv
    <3> QED BY <1>3, <3>1
  <2> QED BY <1>1, <1>3, <1>4, <1>7, <1>9, <1>10, <2>1, VMAndBegun
<1> QED BY <1>1, <1>3, <1>4, <1>7, <1>11

LEMMA set_owner_calls ==
  ASSUME CallsInv, NEW c \in calls, set_owner(c)
  PROVE  /\ CallsInv' /\ c.op = "SET_OWNER" /\ c.job = "CHOWN" /\ UNCHANGED quota_vars /\ Goes(c)
         /\ c.vm \in VM /\ Alive(c.vm)
         /\ \E r \in VMRecord :
              /\ BecomesVM(c.vm, r) /\ GoodVM(r) /\ r.state = vm[c.vm].state
              /\ r.uid = (IF c.other.uid = NoAccount THEN vm[c.vm].uid ELSE c.other.uid)
              /\ r.gid = (IF c.other.gid = NoAccount THEN vm[c.vm].gid ELSE c.other.gid)
              /\ r.cpu = vm[c.vm].cpu /\ r.nics = vm[c.vm].nics
<1>1. c.op = "SET_OWNER" /\ c.job = "CHOWN" /\ UNCHANGED quota_vars /\ Goes(c)
  <2>1. c.op = "SET_OWNER" /\ c.op \in OpsOf(c.job) /\ c.job \in Jobs
    BY CallFields DEF CallOK, set_owner
  <2> QED BY <2>1 DEF OpsOf, Jobs, set_owner
<1>2. c.vm \in VM /\ vm[c.vm].state \in {"POWEROFF", "RUNNING"}
  BY <1>1, CallFields DEF CallOK, ChownOK
<1> DEFINE v == c.vm
           uid == IF c.other.uid = NoAccount THEN vm[v].uid ELSE c.other.uid
           gid == IF c.other.gid = NoAccount THEN vm[v].gid ELSE c.other.gid
           r == [vm[v] EXCEPT !.uid = uid, !.gid = gid]
<1>3. vm[v] \in VMRecord /\ vm[v].uid \in User /\ vm[v].gid \in Group /\ ~vm[v].attach
  <2>1. ~vm[v].attach
    BY <1>2 DEF CallsInv, NicsOK
  <2> QED BY <1>2, <2>1, VMFields DEF CallsInv, VMTypes, VMRecord
<1>4. uid \in User /\ gid \in Group
  BY <1>3, CallFields
<1>5. BecomesVM(v, r)
  BY <1>2, <1>3 DEF BecomesVM, CallsInv, VMTypes, set_owner
<1>6. /\ r \in VMRecord /\ GoodVM(r) /\ r.state = vm[v].state
      /\ r.uid = uid /\ r.gid = gid /\ r.cpu = vm[v].cpu /\ r.nics = vm[v].nics
  <2> HIDE DEF uid, gid
  <2> QED BY <1>2, <1>3, <1>4 DEF VMRecord, GoodVM
<1> HIDE DEF r
<1>7. \A y \in calls \ {c} : y.vm = v => y.job \in {"END", "ALLOCATE", "ROLLBACK"}
  BY <1>1 DEF CallsInv, Alone
<1>8. \A y \in calls \ {c} : y.vm = v /\ CallOK(y) => CallOK(y)'
  BY <1>7 DEF CallOK, AllocateOK, EndOK, RollbackOK
<1>9. r.nics + Cardinality(Attaches(v)') <= MaxNics
  <2>0. calls' = calls \ {c} /\ CallTypes'
    BY <1>1, Gone DEF CallsInv
  <2>1. Cardinality(Attaches(v)') <= Cardinality(Attaches(v))
    BY <2>0, AttachesGone DEF CallsInv
  <2>2. Cardinality(Attaches(v)) \in Nat /\ Cardinality(Attaches(v)') \in Nat
    BY <2>0, AttachesSizes DEF CallsInv
  <2>3. vm[v].nics \in Nat /\ vm[v].nics + Cardinality(Attaches(v)) <= MaxNics
    BY <1>2, VMFields DEF CallsInv, NicsOK
  <2> QED BY <1>6, <2>1, <2>2, <2>3, QuotasAssumption
<1>10. CallsInv'
  BY <1>1, <1>2, <1>5, <1>6, <1>8, <1>9, VMAndEnded
<1> QED BY <1>1, <1>2, <1>5, <1>6, <1>10 DEF Alive

-----------------------------------------------------------------------------
(* What the steps of the ledgers do                                        *)

LEMMA Familiar ==
  ASSUME NEW need \in AllNeeds, NEW m \in Metric, FamilyOf(m) \notin Families(need)
  PROVE  Of(need, m) = 0
<1>1. m \notin Asked(need)
  BY DEF Families
<1>2. CASE m \notin DOMAIN need
  BY <1>2 DEF Of
<1>3. CASE m \in DOMAIN need
  <2>1. m = "LEASES" /\ ~(need[m] > 0)
    BY <1>1, <1>3 DEF Asked
  <2>2. need \in WholeNeeds \cup {Lease}
    <3>1. need \notin Changes
      BY <1>3, <2>1 DEF CpuChange, Changes
    <3>2. need \notin Excesses
      BY <1>3, <2>1, ExcessIs
    <3> QED BY <3>1, <3>2 DEF AllNeeds
  <2>3. Of(need, m) \in Nat /\ Of(need, m) = need[m]
    BY <1>3, <2>2, GiveTypes DEF Of
  <2> QED BY <2>1, <2>3
<1> QED BY <1>2, <1>3

LEMMA Added ==
  ASSUME LedgerTypes, NEW a \in Account, NEW need \in AllNeeds, add_to_quota(a, need)
  PROVE  /\ LedgerTypes' /\ UNCHANGED limits
         /\ \A b \in Account, m \in Metric :
              usage'[b][m] = usage[b][m] + (IF b = a THEN Of(need, m) ELSE 0)
         /\ KeptIsAll => KeptIsAll'
<1>1. UNCHANGED limits
      /\ usage' = [usage EXCEPT ![a] = [m \in Metric |-> @[m] + Of(need, m)]]
      /\ kept' = [kept EXCEPT ![a] = @ \cup Families(need)]
  BY DEF add_to_quota
<1>2. \A m \in Metric : Of(need, m) \in Int /\ usage[a][m] \in Int
  BY NeedTypes DEF LedgerTypes
<1>3. Families(need) \subseteq Family
  BY DEF Families, FamilyOf, Family
<1>4. usage'[a] = [m \in Metric |-> usage[a][m] + Of(need, m)]
      /\ \A b \in Account \ {a} : usage'[b] = usage[b]
  BY <1>1 DEF LedgerTypes
<1>5. usage' \in [Account -> [Metric -> Int]]
  <2>1. [m \in Metric |-> usage[a][m] + Of(need, m)] \in [Metric -> Int]
    BY <1>2
  <2> QED BY <1>1, <2>1 DEF LedgerTypes
<1>6. LedgerTypes'
  BY <1>1, <1>3, <1>5 DEF LedgerTypes
<1>7. \A b \in Account, m \in Metric :
        usage'[b][m] = usage[b][m] + (IF b = a THEN Of(need, m) ELSE 0)
  <2> SUFFICES ASSUME NEW b \in Account, NEW m \in Metric
               PROVE  usage'[b][m] = usage[b][m] + (IF b = a THEN Of(need, m) ELSE 0)
    OBVIOUS
  <2>1. usage[b][m] \in Int
    BY DEF LedgerTypes
  <2> QED BY <1>4, <2>1
<1>8. ASSUME KeptIsAll, NEW b \in Account, NEW m \in Metric, FamilyOf(m) \notin kept'[b]
      PROVE  usage'[b][m] = 0 /\ limits'[b][m] = TheDefault
  <2>1. FamilyOf(m) \notin kept[b] /\ (b = a => FamilyOf(m) \notin Families(need))
    BY <1>1, <1>8 DEF LedgerTypes
  <2>2. usage[b][m] = 0 /\ limits[b][m] = TheDefault
    BY <1>8, <2>1 DEF KeptIsAll
  <2>3. b = a => Of(need, m) = 0
    BY <2>1, Familiar
  <2> QED BY <1>1, <1>7, <2>2, <2>3
<1> QED BY <1>1, <1>6, <1>7, <1>8 DEF KeptIsAll

LEMMA Deleted ==
  ASSUME LedgerTypes, NEW a \in Account, NEW need \in AllNeeds, quota_del(a, need)
  PROVE  /\ LedgerTypes' /\ UNCHANGED limits
         /\ \A b \in Account, m \in Metric :
              usage'[b][m] = usage[b][m] - (IF b = a /\ FamilyOf(m) \in kept[a] THEN Of(need, m) ELSE 0)
         /\ KeptIsAll => KeptIsAll'
<1>1. UNCHANGED limits
      /\ usage' = [usage EXCEPT ![a] = Left(a, need)]
      /\ kept' = [kept EXCEPT ![a] = @ \ {f \in Families(need) : SaysNothing(Left(a, need), limits[a], f)}]
  BY DEF quota_del
<1>2. \A m \in Metric : Of(need, m) \in Int /\ usage[a][m] \in Int
  BY NeedTypes DEF LedgerTypes
<1>3. Left(a, need) \in [Metric -> Int]
  BY <1>2 DEF Left
<1>4. usage'[a] = Left(a, need) /\ \A b \in Account \ {a} : usage'[b] = usage[b]
  BY <1>1 DEF LedgerTypes
<1>5. LedgerTypes'
  BY <1>1, <1>3 DEF LedgerTypes
<1>6. \A b \in Account, m \in Metric :
        usage'[b][m] = usage[b][m] - (IF b = a /\ FamilyOf(m) \in kept[a] THEN Of(need, m) ELSE 0)
  <2> SUFFICES ASSUME NEW b \in Account, NEW m \in Metric
               PROVE  usage'[b][m] = usage[b][m] - (IF b = a /\ FamilyOf(m) \in kept[a] THEN Of(need, m) ELSE 0)
    OBVIOUS
  <2>1. usage[b][m] \in Int
    BY DEF LedgerTypes
  <2> QED BY <1>2, <1>4, <2>1 DEF Left
<1>7. ASSUME KeptIsAll, NEW b \in Account, NEW m \in Metric, FamilyOf(m) \notin kept'[b]
      PROVE  usage'[b][m] = 0 /\ limits'[b][m] = TheDefault
  <2>1. CASE FamilyOf(m) \notin kept[b]
    <3>1. usage[b][m] = 0 /\ limits[b][m] = TheDefault
      BY <1>7, <2>1 DEF KeptIsAll
    <3> QED BY <1>1, <1>6, <2>1, <3>1
  <2>2. CASE FamilyOf(m) \in kept[b]
    <3>1. b = a /\ SaysNothing(Left(a, need), limits[a], FamilyOf(m))
      BY <1>1, <1>7, <2>2 DEF LedgerTypes
    <3>2. m \in MetricsOf(FamilyOf(m))
      BY DEF MetricsOf, FamilyOf, Metric
    <3> QED BY <1>1, <1>4, <3>1, <3>2 DEF SaysNothing
  <2> QED BY <2>1, <2>2
<1> QED BY <1>1, <1>5, <1>6, <1>7 DEF KeptIsAll

(* Of what is refused, NICs that did fit stay charged.                     *)
LEMMA Refusing ==
  ASSUME LedgerTypes, NEW a \in Account, NEW need \in AllNeeds, quota_refused(a, need)
  PROVE  /\ LedgerTypes' /\ UNCHANGED limits
         /\ \/ usage' = usage
            \/ \E k \in Nat :
                 /\ FitsIn(a, "LEASES", k) /\ ~FitsIn(a, "LEASES", Of(need, "LEASES"))
                 /\ k <= Of(need, "LEASES")
                 /\ usage' = [usage EXCEPT ![a]["LEASES"] = @ + k]
         /\ KeptIsAll => KeptIsAll'
<1>1. UNCHANGED limits
  BY DEF quota_refused
<1>2. Of(need, "LEASES") \in Int
  BY NeedTypes DEF Metric
<1>3. CASE leases_refused(a, need)
  <2> DEFINE n == Of(need, "LEASES")
             k == CHOOSE i \in Charged_before(a, n) : TRUE
  <2>1. kept' = [kept EXCEPT ![a] = @ \cup {"NETWORK"}]
    BY <1>3 DEF leases_refused
  <2>2. usage' = usage \/ (k \in Charged_before(a, n) /\ usage' = [usage EXCEPT ![a]["LEASES"] = @ + k])
    <3>1. Charged_before(a, n) # {} => k \in Charged_before(a, n)
      OBVIOUS
    <3> HIDE DEF k
    <3>2. usage' = IF Charged_before(a, n) = {} THEN usage ELSE [usage EXCEPT ![a]["LEASES"] = @ + k]
      BY <1>3 DEF leases_refused, k
    <3> QED BY <3>1, <3>2
  <2> HIDE DEF k, n
  <2>3. k \in Charged_before(a, n) => k \in Nat /\ k <= n /\ FitsIn(a, "LEASES", k)
    BY <1>2 DEF Charged_before, n
  <2>4. usage' \in [Account -> [Metric -> Int]]
    <3> DEFINE row == [usage[a] EXCEPT !["LEASES"] = @ + k]
    <3>1. usage[a] \in [Metric -> Int] /\ usage[a]["LEASES"] \in Int
      BY DEF LedgerTypes, Metric
    <3>2. k \in Nat => row \in [Metric -> Int]
      <4>1. k \in Nat => usage[a]["LEASES"] + k \in Int
        BY <3>1
      <4> QED BY <3>1, <4>1
    <3>3. [usage EXCEPT ![a]["LEASES"] = @ + k] = [usage EXCEPT ![a] = row]
      BY DEF LedgerTypes
    <3> HIDE DEF row
    <3>4. k \in Nat => [usage EXCEPT ![a] = row] \in [Account -> [Metric -> Int]]
      BY <3>2 DEF LedgerTypes
    <3> QED BY <2>2, <2>3, <3>3, <3>4 DEF LedgerTypes
  <2>5. LedgerTypes'
    BY <1>1, <2>1, <2>4 DEF LedgerTypes, Family
  <2>6. ASSUME KeptIsAll, NEW b \in Account, NEW m \in Metric, FamilyOf(m) \notin kept'[b]
        PROVE  usage'[b][m] = 0 /\ limits'[b][m] = TheDefault
    <3>1. FamilyOf(m) \notin kept[b] /\ (b = a => FamilyOf(m) # "NETWORK")
      BY <2>1, <2>6 DEF LedgerTypes
    <3>2. b = a => m # "LEASES"
      BY <3>1 DEF FamilyOf
    <3>3. usage'[b][m] = usage[b][m]
      BY <2>2, <3>2 DEF LedgerTypes
    <3> QED BY <1>1, <2>6, <3>1, <3>3 DEF KeptIsAll
  <2>7. ~FitsIn(a, "LEASES", n)
    BY <1>3 DEF leases_refused, n
  <2> QED BY <1>1, <2>2, <2>3, <2>5, <2>6, <2>7 DEF n, KeptIsAll
<1>4. CASE vms_refused(a, need)
  <2>1. usage' = usage
        /\ kept' = [kept EXCEPT ![a] = (@ \cup {"VM"})
                      \ {f \in Families(need) \ {"VM"} : SaysNothing(usage[a], limits[a], f)}]
    BY <1>4 DEF vms_refused
  <2>2. LedgerTypes'
    BY <1>1, <2>1 DEF LedgerTypes, Family
  <2>3. ASSUME KeptIsAll, NEW b \in Account, NEW m \in Metric, FamilyOf(m) \notin kept'[b]
        PROVE  usage'[b][m] = 0 /\ limits'[b][m] = TheDefault
    <3>1. CASE FamilyOf(m) \notin kept[b]
      BY <1>1, <2>1, <2>3, <3>1 DEF KeptIsAll
    <3>2. CASE FamilyOf(m) \in kept[b]
      <4>1. b = a /\ SaysNothing(usage[a], limits[a], FamilyOf(m))
        BY <2>1, <2>3, <3>2 DEF LedgerTypes
      <4>2. m \in MetricsOf(FamilyOf(m))
        BY DEF MetricsOf, FamilyOf, Metric
      <4> QED BY <1>1, <2>1, <4>1, <4>2 DEF SaysNothing
    <3> QED BY <3>1, <3>2
  <2> QED BY <1>1, <2>1, <2>2, <2>3 DEF KeptIsAll
<1> QED BY <1>3, <1>4 DEF quota_refused

(* Nobody is refused some of the NICs of a VM only.                        *)
LEMMA RefusingWhole ==
  ASSUME LedgerTypes, LeasesAsMeant, NEW a \in Account, NEW need \in AllNeeds, quota_refused(a, need)
  PROVE  LedgerTypes' /\ UNCHANGED <<usage, limits>> /\ (KeptIsAll => KeptIsAll')
<1> SUFFICES usage' = usage
  BY Refusing
<1>1. SUFFICES ASSUME NEW k \in Nat, ~FitsIn(a, "LEASES", Of(need, "LEASES")), FitsIn(a, "LEASES", k),
                      k <= Of(need, "LEASES"), usage' = [usage EXCEPT ![a]["LEASES"] = @ + k]
               PROVE  usage' = usage
  BY Refusing
<1> DEFINE n == Of(need, "LEASES")
<1>2. n \in Int /\ k # n
  BY <1>1, NeedTypes DEF Metric
<1>3. CASE MaxNics <= 1
  <2>1. n <= 1
    <3>1. CASE need \in WholeNeeds
      <4>1. PICK x \in Nat, i \in 0..MaxNics : need = Whole(x, i)
        BY <3>1 DEF WholeNeeds
      <4>2. n \in {0, i} /\ i <= 1
        BY <1>3, <4>1, WholeIs, QuotasAssumption DEF Of
      <4> QED BY <4>2
    <3>2. CASE need = Lease \/ \E d \in Int : need = CpuChange(d)
      BY <3>2 DEF Lease, CpuChange, Of
    <3>3. CASE need \in Excesses
      BY <3>3, ExcessIs
    <3> QED BY <3>1, <3>2, <3>3 DEF AllNeeds, Changes
  <2> HIDE DEF n
  <2>2. k = 0
    BY <1>1, <1>2, <2>1 DEF n
  <2>3. usage[a]["LEASES"] \in Int /\ usage \in [Account -> [Metric -> Int]]
    BY DEF LedgerTypes, Metric
  <2> QED BY <1>1, <2>2, <2>3
<1>4. CASE NeverLimited(User, "USERS", "LEASES") /\ NeverLimited(Group, "GROUPS", "LEASES")
  <2>1. LimitOf(a, "LEASES") = Unlimited
    <3>1. a \in User \/ (a \in Group /\ a \notin User)
      BY QuotasAssumption DEF Account
    <3> QED BY <1>4, <3>1 DEF NeverLimited, LimitOf, DefaultOf, TheDefault, Unlimited
  <2> QED BY <1>1, <2>1 DEF FitsIn
<1> QED BY <1>3, <1>4 DEF LeasesAsMeant

-----------------------------------------------------------------------------
(* Limits are set                                                          *)

LEMMA TakenIs ==
  ASSUME NEW s \in Settings
  PROVE  /\ Taken(s) \subseteq MetricsOf(s.family) /\ MetricsOf(s.family) \subseteq Metric
         /\ \A m \in Taken(s) : ~Refused(s.to, s.limit[m]) /\ s.limit[m] \in Int
         /\ ~HasAttribute(s) => Taken(s) \in {{}, MetricsOf(s.family)}
         /\ \A m \in Metric : m \in MetricsOf(s.family) <=> FamilyOf(m) = s.family
<1>1. /\ s.family \in Family /\ s.limit \in [MetricsOf(s.family) -> Int]
  BY QuotasAssumption
<1>2. MetricsOf(s.family) \subseteq Metric /\ \A m \in Metric : m \in MetricsOf(s.family) <=> FamilyOf(m) = s.family
  BY <1>1 DEF Family, MetricsOf, Metric, FamilyOf
<1>3. /\ Taken(s) \subseteq MetricsOf(s.family) /\ \A m \in Taken(s) : ~Refused(s.to, s.limit[m])
      /\ ~HasAttribute(s) => Taken(s) \in {{}, MetricsOf(s.family)}
  BY DEF Taken, update_limits, new_quota
<1> QED BY <1>1, <1>2, <1>3

LEMMA LimitsSet ==
  ASSUME LedgerTypes, NEW s \in Settings, set_quota(s)
  PROVE  /\ \A a \in Account \cup Default, m \in Metric :
              limits'[a][m] = IF a = s.to /\ m \in Taken(s) THEN s.limit[m] ELSE limits[a][m]
         /\ limits' \in [Account \cup Default -> [Metric -> Int]]
<1> DEFINE row == [m \in Metric |-> IF m \in Taken(s) THEN s.limit[m] ELSE limits[s.to][m]]
<1>1. limits' = [limits EXCEPT ![s.to] = row]
  BY DEF set_quota
<1>2. limits \in [Account \cup Default -> [Metric -> Int]] /\ s.to \in Account \cup Default
  BY QuotasAssumption DEF LedgerTypes
<1>3. row \in [Metric -> Int]
  <2>1. \A m \in Metric : limits[s.to][m] \in Int
    BY <1>2
  <2> QED BY <2>1, TakenIs
<1>4. \A m \in Metric : row[m] = IF m \in Taken(s) THEN s.limit[m] ELSE limits[s.to][m]
  OBVIOUS
<1> HIDE DEF row
<1>5. limits' \in [Account \cup Default -> [Metric -> Int]] /\ limits'[s.to] = row
      /\ \A a \in (Account \cup Default) \ {s.to} : limits'[a] = limits[a]
  BY <1>1, <1>2, <1>3
<1> QED BY <1>4, <1>5

LEMMA SettingLedgers ==
  ASSUME LedgerTypes, NEW s \in Settings, set_quota(s)
  PROVE  LedgerTypes' /\ UNCHANGED <<vm, usage, calls>> /\ (KeptIsAll => KeptIsAll')
<1>1. UNCHANGED <<vm, usage, calls>>
      /\ kept' = IF s.to \in Default \/ Taken(s) # MetricsOf(s.family) THEN kept
                 ELSE [kept EXCEPT ![s.to] =
                         (@ \cup {s.family}) \ {f \in {s.family} : SaysNothing(usage[s.to], s.limit, f)}]
  BY DEF set_quota
<1>2. s.to \in Account \cup Default /\ s.family \in Family /\ Account \cap Default = {}
  BY QuotasAssumption
<1>3. kept' \in [Account -> SUBSET Family]
  BY <1>1, <1>2 DEF LedgerTypes
<1>4. ASSUME KeptIsAll, NEW b \in Account, NEW m \in Metric, FamilyOf(m) \notin kept'[b]
      PROVE  usage'[b][m] = 0 /\ limits'[b][m] = TheDefault
  <2>1. limits'[b][m] = IF b = s.to /\ m \in Taken(s) THEN s.limit[m] ELSE limits[b][m]
    BY LimitsSet
  <2>2. FamilyOf(m) \notin kept[b] => usage[b][m] = 0 /\ limits[b][m] = TheDefault
    BY <1>4 DEF KeptIsAll
  <2>3. CASE b # s.to
    <3>1. kept'[b] = kept[b]
      BY <1>1, <2>3 DEF LedgerTypes
    <3> QED BY <1>1, <1>4, <2>1, <2>2, <2>3, <3>1
  <2>4. CASE b = s.to /\ Taken(s) # MetricsOf(s.family)
    <3>1. kept' = kept
      BY <1>1, <2>4
    <3>2. m \notin Taken(s)
      <4>1. CASE s.family \in kept[b]
        BY <1>4, <3>1, <4>1, TakenIs
      <4>2. CASE s.family \notin kept[b]
        <5>1. ~HasAttribute(s)
          BY <1>2, <2>4, <4>2 DEF HasAttribute
        <5> QED BY <2>4, <5>1, TakenIs
      <4> QED BY <4>1, <4>2
    <3> QED BY <1>1, <1>4, <2>1, <2>2, <3>1, <3>2
  <2>5. CASE b = s.to /\ Taken(s) = MetricsOf(s.family)
    <3>1. kept'[b] = (kept[b] \cup {s.family}) \ {f \in {s.family} : SaysNothing(usage[b], s.limit, f)}
      BY <1>1, <1>2, <2>5 DEF LedgerTypes
    <3>2. CASE FamilyOf(m) = s.family
      <4>1. SaysNothing(usage[b], s.limit, s.family) /\ m \in Taken(s)
        BY <1>4, <2>5, <3>1, <3>2, TakenIs
      <4> QED BY <1>1, <2>1, <2>5, <4>1, <3>2, TakenIs DEF SaysNothing
    <3>3. CASE FamilyOf(m) # s.family
      BY <1>1, <1>4, <2>1, <2>2, <3>1, <3>3, TakenIs
    <3> QED BY <3>2, <3>3
  <2> QED BY <2>3, <2>4, <2>5
<1>5. LedgerTypes'
  BY <1>1, <1>3, LimitsSet DEF LedgerTypes
<1> QED BY <1>1, <1>4, <1>5 DEF KeptIsAll

(* What nobody limits at the start nobody limits later.                    *)
LEMMA StaysUnlimited ==
  ASSUME LedgerTypes, NEW s \in Settings, set_quota(s), NEW m \in Metric,
         NEW A, NEW d, (A = User /\ d = "USERS") \/ (A = Group /\ d = "GROUPS"),
         NeverLimits(A, d, m), NeverLimited(A, d, m)
  PROVE  NeverLimited(A, d, m)'
<1>1. A \subseteq Account /\ d \in Default /\ Account \cap Default = {}
  BY QuotasAssumption DEF Account, Default
<1>2. m \in Taken(s) /\ s.to \in A \cup {d} => s.limit[m] <= Unlimited
  BY TakenIs DEF NeverLimits
<1>3. ASSUME NEW a \in A PROVE limits'[a][m] \in {Unlimited, TheDefault}
  <2>1. limits[a][m] \in {Unlimited, TheDefault} /\ a \notin Default
    BY <1>1 DEF NeverLimited
  <2>2. limits'[a][m] = IF a = s.to /\ m \in Taken(s) THEN s.limit[m] ELSE limits[a][m]
    BY <1>1, LimitsSet
  <2>3. a = s.to /\ m \in Taken(s) => s.limit[m] \in {Unlimited, TheDefault}
    <3>1. ASSUME a = s.to, m \in Taken(s) PROVE s.limit[m] \in {Unlimited, TheDefault}
      <4>1. ~Refused(s.to, s.limit[m]) /\ s.limit[m] \in Int
        BY <3>1, TakenIs
      <4>2. s.limit[m] >= -1 /\ s.limit[m] <= 0
        BY <1>2, <2>1, <3>1, <4>1 DEF Refused, TheDefault, Unlimited
      <4> QED BY <4>1, <4>2 DEF TheDefault, Unlimited
    <3> QED BY <3>1
  <2> QED BY <2>1, <2>2, <2>3
<1>4. limits'[d][m] = Unlimited
  <2>1. limits'[d][m] = IF d = s.to /\ m \in Taken(s) THEN s.limit[m] ELSE limits[d][m]
    BY <1>1, LimitsSet
  <2>2. ASSUME d = s.to, m \in Taken(s) PROVE s.limit[m] = Unlimited
    <3>1. ~Refused(s.to, s.limit[m]) /\ s.limit[m] \in Int
      BY <2>2, TakenIs
    <3>2. s.limit[m] >= 0 /\ s.limit[m] <= 0
      BY <1>1, <1>2, <2>2, <3>1 DEF Refused, Unlimited
    <3> QED BY <3>1, <3>2 DEF Unlimited
  <2> QED BY <2>1, <2>2 DEF NeverLimited
<1> QED BY <1>3, <1>4 DEF NeverLimited

-----------------------------------------------------------------------------
(* What a step does to the ledgers, and that calls stay good               *)

(* The ledgers are changed by a setting, or by a call at one of four       *)
(* steps; everything else leaves them alone.                               *)
LedgerCall(c) ==
  \/ user_quota_authorization(c) \/ group_quota_authorization(c)
  \/ user_quota_del(c) \/ group_quota_del(c)

LEMMA LedgerSteps ==
  ASSUME [Next]_vars
  PROVE  \/ UNCHANGED quota_vars
         \/ \E c \in calls : LedgerCall(c)
         \/ \E s \in Settings : set_quota(s)
<1>1. CASE UNCHANGED vars
  BY <1>1 DEF vars, quota_vars
<1>2. ASSUME NEW u \in User, vm_allocate(u) \/ \E v \in VM : vm_attach_nic(u, v) PROVE UNCHANGED quota_vars
  BY <1>2 DEF vm_allocate, vm_attach_nic, quota_vars
<1>3. ASSUME NEW v \in VM, \/ vm_start(v) \/ vm_poweroff(v) \/ detach_nic(v)
                           \/ nic_stays(v) \/ nic_goes(v) \/ vm_del(v)
                           \/ \E asker \in Askers : vm_resize(v, asker)
                           \/ \E new \in Owners : vm_chown(v, new)
      PROVE  UNCHANGED quota_vars
  BY <1>3 DEF vm_start, vm_poweroff, vm_resize, detach_nic, nic_stays, nic_goes, vm_del, vm_chown, quota_vars
<1>4. ASSUME NEW c \in calls, CallStep(c) PROVE LedgerCall(c) \/ UNCHANGED quota_vars
  BY <1>4 DEF CallStep, LedgerCall, pool_allocate, resize, attach_nic, set_attach_nic, set_owner, quota_vars
<1>5. ASSUME NEW s \in Settings, UserSetQuota(s) \/ GroupSetQuota(s) \/ QuotaUpdate(s)
      PROVE  set_quota(s)
  BY <1>5 DEF UserSetQuota, GroupSetQuota, QuotaUpdate
<1> QED BY <1>1, <1>2, <1>3, <1>4, <1>5 DEF Next

(* What a step of a call does to a ledger.                                 *)
LEMMA LedgerCallIs ==
  ASSUME CallsInv, NEW c \in calls, LedgerCall(c)
  PROVE  /\ c.need \in AllNeeds
         /\ c.uid # NoAccount => c.uid \in Account
         /\ c.gid # NoAccount => c.gid \in Account
         /\ \/ UNCHANGED quota_vars
            \/ /\ c.op \in {"CHECK_USER", "CHECK_GROUP"}
               /\ \E a \in {c.uid, c.gid} : 
                    /\ a \in Account
                    /\ \/ check_quota(a, c.need) /\ add_to_quota(a, c.need)
                       \/ quota_refused(a, c.need)
            \/ /\ c.op \in {"GIVE_USER", "GIVE_GROUP"}
               /\ \E a \in {c.uid, c.gid} : a \in Account /\ quota_del(a, c.need)
<1>1. /\ c.need \in AllNeeds
      /\ c.uid # NoAccount => c.uid \in Account
      /\ c.gid # NoAccount => c.gid \in Account
  BY CallFields DEF Account
<1>2. CASE user_quota_authorization(c)
  BY <1>1, <1>2 DEF user_quota_authorization
<1>3. CASE group_quota_authorization(c)
  BY <1>1, <1>3 DEF group_quota_authorization, group_refuses
<1>4. CASE user_quota_del(c)
  BY <1>1, <1>4 DEF user_quota_del
<1>5. CASE group_quota_del(c)
  BY <1>1, <1>5 DEF group_quota_del
<1> QED BY <1>1, <1>2, <1>3, <1>4, <1>5 DEF LedgerCall

LEMMA LedgersStep ==
  ASSUME CallsInv, LedgerTypes, [Next]_vars
  PROVE  /\ LedgerTypes' /\ (KeptIsAll => KeptIsAll')
         /\ UNCHANGED limits \/ \E s \in Settings : set_quota(s)
<1>1. CASE UNCHANGED quota_vars
  BY <1>1 DEF quota_vars, LedgerTypes, KeptIsAll
<1>2. ASSUME NEW c \in calls, LedgerCall(c) 
      PROVE  LedgerTypes' /\ (KeptIsAll => KeptIsAll') /\ UNCHANGED limits
  <2>1. CASE UNCHANGED quota_vars
    BY <2>1 DEF quota_vars, LedgerTypes, KeptIsAll
  <2>2. ASSUME NEW a \in Account, add_to_quota(a, c.need)
        PROVE  LedgerTypes' /\ (KeptIsAll => KeptIsAll') /\ UNCHANGED limits
    BY <1>2, <2>2, LedgerCallIs, Added
  <2>3. ASSUME NEW a \in Account, quota_refused(a, c.need)
        PROVE  LedgerTypes' /\ (KeptIsAll => KeptIsAll') /\ UNCHANGED limits
    BY <1>2, <2>3, LedgerCallIs, Refusing
  <2>4. ASSUME NEW a \in Account, quota_del(a, c.need)
        PROVE  LedgerTypes' /\ (KeptIsAll => KeptIsAll') /\ UNCHANGED limits
    BY <1>2, <2>4, LedgerCallIs, Deleted
  <2> QED BY <1>2, <2>1, <2>2, <2>3, <2>4, LedgerCallIs
<1>3. ASSUME NEW s \in Settings, set_quota(s) PROVE LedgerTypes' /\ (KeptIsAll => KeptIsAll')
  BY <1>3, SettingLedgers
<1> QED BY <1>1, <1>2, <1>3, LedgerSteps DEF quota_vars

LEMMA NeverLimitedStep ==
  ASSUME CallsInv, LedgerTypes, [Next]_vars, NEW m \in Metric,
         NEW A, NEW d, (A = User /\ d = "USERS") \/ (A = Group /\ d = "GROUPS"),
         NeverLimits(A, d, m), NeverLimited(A, d, m)
  PROVE  NeverLimited(A, d, m)'
<1>1. CASE UNCHANGED limits
  BY <1>1 DEF NeverLimited
<1>2. CASE \E s \in Settings : set_quota(s)
  BY <1>2, StaysUnlimited
<1> QED BY <1>1, <1>2, LedgersStep

LEMMA CallsStep ==
  ASSUME Rash = {}, CallsInv, [Next]_vars
  PROVE  CallsInv'
<1>1. CASE UNCHANGED <<vm, calls>>
  BY <1>1, CallsUnmoved DEF CallsInv, CallTypes, Alone, NicsOK, Attaches, VMTypes
<1>2. ASSUME NEW u \in User, vm_allocate(u) \/ \E v \in VM : vm_attach_nic(u, v) PROVE CallsInv'
  BY <1>2, vm_allocate_calls, vm_attach_nic_calls
<1>3. ASSUME NEW v \in VM, \/ vm_start(v) \/ vm_poweroff(v) \/ detach_nic(v) \/ nic_stays(v)
      PROVE  CallsInv'
  BY <1>3, StateSteps
<1>4. ASSUME NEW v \in VM, \/ \E asker \in Askers : vm_resize(v, asker)
                           \/ nic_goes(v) \/ vm_del(v) \/ \E new \in Owners : vm_chown(v, new)
      PROVE  CallsInv'
  BY <1>4, vm_resize_calls, nic_goes_calls, vm_del_calls, vm_chown_calls
<1>5. ASSUME NEW c \in calls, CallStep(c) PROVE CallsInv'
  BY <1>5, user_quota_authorization_calls, group_quota_authorization_calls, user_quota_del_calls,
     group_quota_del_calls, pool_allocate_calls, ResizeIs, resize_rolled, resize_calls, attach_nic_calls,
     set_attach_nic_calls, set_owner_calls DEF CallStep
<1>6. ASSUME NEW s \in Settings, UserSetQuota(s) \/ GroupSetQuota(s) \/ QuotaUpdate(s)
      PROVE  UNCHANGED <<vm, calls>>
  BY <1>6 DEF UserSetQuota, GroupSetQuota, QuotaUpdate, set_quota
<1> QED BY <1>1, <1>2, <1>3, <1>4, <1>5, <1>6 DEF Next, vars

-----------------------------------------------------------------------------
(* Who is charged amiss                                                    *)

LEMMA RolledStays ==
  ASSUME CallsInv, Slips, UNCHANGED slip_vars,
         \A d \in calls' \ calls : d.job = "ROLLBACK" =>
            \E c \in calls : c.job = "ROLLBACK" /\ d.uid = c.uid /\ d.gid = c.gid
  PROVE  Slips'
  BY DEF Slips, RolledFits, slip_vars

LEMMA RolledMoved ==
  ASSUME CallsInv, Slips, UNCHANGED slip_vars, NEW c \in calls, NEW e \in NewCalls, Becomes(c, e),
         e.job = "ROLLBACK" => c.job = "ROLLBACK" /\ e.uid = c.uid /\ e.gid = c.gid
  PROVE  Slips'
<1>1. PICK d : Like(d, e) /\ calls' = (calls \ {c}) \cup {d}
  BY Became DEF CallsInv
<1> QED BY <1>1, RolledStays DEF Like

LEMMA RolledBegun ==
  ASSUME CallsInv, Slips, UNCHANGED slip_vars, NEW e \in NewCalls, Starts(e), e.job # "ROLLBACK"
  PROVE  Slips'
<1>1. PICK d : Like(d, e) /\ calls' = calls \cup {d}
  BY Started DEF CallsInv
<1> QED BY <1>1, RolledStays DEF Like

(* A roll-back marks whom it gives back to.                                *)
LEMMA RolledMarked ==
  ASSUME CallsInv, Slips, NEW c \in calls, c.job = "RESIZE", NEW owner \in Halves,
         NEW charged \in SUBSET (Account \cup {NoAccount}), rollback(c, owner, charged)
  PROVE  Slips' /\ amiss \subseteq amiss' /\ charged \subseteq amiss' \cup {NoAccount}
         /\ {owner.uid, owner.gid} \subseteq amiss' \cup {NoAccount}
<1>1. /\ slips < MaxSlips /\ slips' = slips + 1
      /\ amiss' = (amiss \cup {owner.uid, owner.gid} \cup charged) \ {NoAccount}
  BY DEF rollback
<1>2. PICK e \in NewCalls : Becomes(c, e) /\ e.job = "ROLLBACK" /\ e.uid = owner.uid /\ e.gid = owner.gid
  BY RolledBack
<1>3. PICK d : Like(d, e) /\ calls' = (calls \ {c}) \cup {d}
  BY <1>2, Became DEF CallsInv
<1>4. slips' \in 0..MaxSlips
  BY <1>1, QuotasAssumption DEF Slips
<1>5. amiss' \subseteq Account /\ amiss \subseteq amiss'
  <2>1. NoAccount \notin Account /\ amiss \subseteq Account
    BY QuotasAssumption DEF Slips
  <2>2. owner.uid \in Account \cup {NoAccount} /\ owner.gid \in Account \cup {NoAccount}
    BY DEF Halves, Account
  <2> QED BY <1>1, <2>1, <2>2
<1>6. RolledFits'
  <2>1. d.uid \in amiss' \cup {NoAccount} /\ d.gid \in amiss' \cup {NoAccount}
    BY <1>1, <1>2, <1>3 DEF Like
  <2> QED BY <1>3, <1>5, <2>1 DEF Slips, RolledFits
<1> QED BY <1>1, <1>4, <1>5, <1>6 DEF Slips

LEMMA SlipsSame ==
  ASSUME Slips, UNCHANGED slip_vars, calls' \subseteq calls PROVE Slips'
  BY DEF Slips, RolledFits, slip_vars

LEMMA CallSlips ==
  ASSUME CallsInv, Slips, NEW c \in calls, CallStep(c)
  PROVE  Slips' /\ amiss \subseteq amiss'
<1>1. c \in NewCalls
  BY CallFields
<1>2. CASE user_quota_authorization(c)
  <2> DEFINE e == [c EXCEPT !.op = "CHECK_GROUP"]
  <2>1. e \in NewCalls /\ e.job = c.job /\ e.uid = c.uid /\ e.gid = c.gid
    BY <1>1 DEF NewCalls, Ops
  <2>2. UNCHANGED slip_vars /\ (Goes(c) \/ Becomes(c, e)) /\ amiss' = amiss
    BY <1>2 DEF user_quota_authorization, slip_vars
  <2> HIDE DEF e
  <2>3. CASE Becomes(c, e)
    <3>1. c.job = "ROLLBACK" \/ e.job # "ROLLBACK"
      BY <2>1
    <3> QED BY <2>1, <2>2, <2>3, RolledMoved
  <2>4. CASE Goes(c)
    <3>1. calls' \subseteq calls
      BY <2>4 DEF Goes
    <3> QED BY <2>2, <3>1, SlipsSame
  <2> QED BY <2>2, <2>3, <2>4
<1>3. CASE group_quota_authorization(c)
  <2>0. c.op = "CHECK_GROUP"
    BY <1>3 DEF group_quota_authorization
  <2>1. CASE group_refuses(c) /\ c.job = "RESIZE"
    <3>1. PICK owner \in Halves : rollback(c, owner, {})
      <4>1. c.uid \in User /\ rollback(c, Owner(c.uid, NoAccount), {})
        BY <2>0, <2>1, RefusedIs
      <4> QED BY <4>1, OwnerIs
    <3> QED BY <2>1, <3>1, RolledMarked
  <2>2. CASE group_refuses(c) /\ c.job # "RESIZE"
    <3> DEFINE e == [c EXCEPT !.op = "GIVE_USER", !.job = "END", !.gid = NoAccount]
    <3>1. Becomes(c, e) /\ UNCHANGED slip_vars
      BY <2>0, <2>2, RefusedIs
    <3>2. e \in NewCalls /\ e.job = "END"
      BY <1>1 DEF NewCalls, Ops, Jobs
    <3> HIDE DEF e
    <3> QED BY <3>1, <3>2, RolledMoved DEF slip_vars
  <2>3. CASE Becomes(c, Authorized(c)) /\ UNCHANGED slip_vars
    <3> DEFINE e == Authorized(c)
    <3>1. e \in NewCalls /\ e.job = c.job
      BY <2>0, AuthorizedIs
    <3>2. c.job # "ROLLBACK"
      BY <2>0, CallFields DEF CallOK, OpsOf
    <3> HIDE DEF e
    <3>3. Becomes(c, e)
      BY <2>3 DEF e
    <3> QED BY <2>3, <3>1, <3>2, <3>3, RolledMoved DEF slip_vars
  <2> QED BY <1>3, <2>1, <2>2, <2>3 DEF group_quota_authorization
<1>4. CASE user_quota_del(c)
  <2> DEFINE e == [c EXCEPT !.op = "GIVE_GROUP"]
  <2>1. e \in NewCalls /\ e.job = c.job /\ e.uid = c.uid /\ e.gid = c.gid
    BY <1>1 DEF NewCalls, Ops
  <2>2. UNCHANGED slip_vars /\ Becomes(c, e)
    BY <1>4 DEF user_quota_del
  <2> HIDE DEF e
  <2> QED BY <2>1, <2>2, RolledMoved DEF slip_vars
<1>5. CASE group_quota_del(c)
  <2> DEFINE e == [c EXCEPT !.op = "SET_OWNER"]
  <2>1. e \in NewCalls /\ e.job = c.job /\ e.uid = c.uid /\ e.gid = c.gid
    BY <1>1 DEF NewCalls, Ops
  <2>2. UNCHANGED slip_vars /\ (Goes(c) \/ Becomes(c, e))
    BY <1>5 DEF group_quota_del
  <2> HIDE DEF e
  <2> QED BY <2>1, <2>2, RolledMoved, SlipsSame DEF Goes, slip_vars
<1>6. ASSUME Gives(c), UNCHANGED slip_vars PROVE Slips' /\ amiss \subseteq amiss'
  <2> DEFINE e == [c EXCEPT !.op = "GIVE_USER", !.job = "END"]
  <2>1. e \in NewCalls /\ e.job = "END"
    BY <1>1 DEF NewCalls, Ops, Jobs
  <2>2. Becomes(c, e)
    BY <1>6 DEF Gives
  <2> HIDE DEF e
  <2> QED BY <1>6, <2>1, <2>2, RolledMoved DEF slip_vars
<1>7. ASSUME Goes(c), UNCHANGED slip_vars PROVE Slips' /\ amiss \subseteq amiss'
  BY <1>7, SlipsSame DEF Goes, slip_vars
<1>8. CASE pool_allocate(c) \/ set_attach_nic(c) \/ set_owner(c)
  BY <1>6, <1>7, <1>8 DEF pool_allocate, set_attach_nic, set_owner
<1>9. CASE attach_nic(c)
  <2> DEFINE e == [c EXCEPT !.op = "SET_NIC"]
  <2>1. e \in NewCalls /\ e.job = c.job /\ e.uid = c.uid /\ e.gid = c.gid
    BY <1>1 DEF NewCalls, Ops
  <2>2. UNCHANGED slip_vars /\ (Gives(c) \/ Becomes(c, e))
    BY <1>9 DEF attach_nic
  <2> HIDE DEF e
  <2> QED BY <1>6, <2>1, <2>2, RolledMoved DEF slip_vars
<1>10. CASE resize(c)
  <2>1. c.job = "RESIZE" /\ c.other \in Halves /\ {c.uid, c.gid} \in SUBSET (Account \cup {NoAccount})
    BY <1>10, ResizeIs, CallFields DEF Account
  <2>2. CASE rollback(c, c.other, {c.uid, c.gid})
    BY <2>1, <2>2, RolledMarked
  <2> QED BY <1>7, <1>10, <2>2, ResizeIs
<1> QED BY <1>2, <1>3, <1>4, <1>5, <1>8, <1>9, <1>10 DEF CallStep

LEMMA SlipsStep ==
  ASSUME Rash = {}, CallsInv, Slips, [Next]_vars
  PROVE  Slips' /\ amiss \subseteq amiss'
<1>1. CASE UNCHANGED <<calls, slip_vars>>
  BY <1>1, SlipsSame DEF slip_vars
<1>2. ASSUME NEW v \in VM, vm_start(v) \/ vm_poweroff(v) \/ detach_nic(v) \/ nic_stays(v)
      PROVE  UNCHANGED <<calls, slip_vars>>
  BY <1>2 DEF vm_start, vm_poweroff, detach_nic, nic_stays
<1>3. ASSUME NEW s \in Settings, UserSetQuota(s) \/ GroupSetQuota(s) \/ QuotaUpdate(s)
      PROVE  UNCHANGED <<calls, slip_vars>>
  BY <1>3 DEF UserSetQuota, GroupSetQuota, QuotaUpdate, set_quota
<1>4. ASSUME NEW e \in NewCalls, Starts(e), e.job # "ROLLBACK", UNCHANGED slip_vars
      PROVE  Slips' /\ amiss \subseteq amiss'
  BY <1>4, RolledBegun DEF slip_vars
<1>5. ASSUME CheckBegins, UNCHANGED slip_vars PROVE Slips' /\ amiss \subseteq amiss'
  BY <1>4, <1>5 DEF CheckBegins
<1>6. ASSUME NEW u \in User, vm_allocate(u) \/ \E v \in VM : vm_attach_nic(u, v)
      PROVE  CheckBegins /\ UNCHANGED slip_vars
  BY <1>6, vm_allocate_calls, vm_attach_nic_calls DEF vm_allocate, vm_attach_nic
<1>7. ASSUME NEW v \in VM, \/ \E asker \in Askers : vm_resize(v, asker)
                           \/ \E new \in Owners : vm_chown(v, new)
      PROVE  CheckBegins /\ UNCHANGED slip_vars
  BY <1>7, vm_resize_calls, vm_chown_calls DEF vm_resize, vm_chown
<1>8. ASSUME NEW v \in VM, nic_goes(v) \/ vm_del(v) PROVE Slips' /\ amiss \subseteq amiss'
  <2>1. UNCHANGED slip_vars
    BY <1>8 DEF nic_goes, vm_del
  <2>2. PICK e \in NewCalls : Starts(e) /\ e.job = "END"
    BY <1>8, nic_goes_calls, vm_del_calls
  <2>3. e.job # "ROLLBACK"
    BY <2>2
  <2> QED BY <1>4, <2>1, <2>2, <2>3
<1>9. CASE UNCHANGED vars
  BY <1>1, <1>9 DEF vars, slip_vars
<1>10. CASE Next
  BY <1>1, <1>2, <1>3, <1>5, <1>6, <1>7, <1>8, <1>10, CallSlips DEF Next
<1> QED BY <1>1, <1>9, <1>10

-----------------------------------------------------------------------------
(* What holds at the start                                                 *)

LEMMA InitCalls == Init => CallsInv
<1> SUFFICES ASSUME Init PROVE CallsInv
  OBVIOUS
<1>1. calls = {} /\ IsFiniteSet(calls) /\ Cardinality(calls) = 0
  BY FS_EmptySet DEF Init
<1>2. VMTypes /\ \A v \in VM : vm[v].nics = 0 /\ ~vm[v].attach
  BY QuotasAssumption DEF Init, VMTypes, VmState
<1>3. CallTypes /\ Alone /\ \A c \in calls : CallOK(c)
  BY <1>1, QuotasAssumption DEF CallTypes, Alone
<1>4. NicsOK
  <2>1. \A v \in VM : Attaches(v) = {}
    BY <1>1 DEF Attaches
  <2>2. \A v \in VM : Cardinality(Attaches(v)) = 0
    BY <2>1, FS_EmptySet
  <2> QED BY <1>2, <2>2, QuotasAssumption DEF NicsOK
<1> QED BY <1>2, <1>3, <1>4 DEF CallsInv

LEMMA InitLedgers ==
  ASSUME Init PROVE Ledgers /\ KeptIsAll
<1>1. /\ usage = [a \in Account |-> [m \in Metric |-> 0]] /\ limits = FirstLimits
      /\ kept = [a \in Account |-> {f \in Family : ~SaysNothing(usage[a], limits[a], f)}]
  BY DEF Init
<1>2. LedgerTypes
  BY <1>1, QuotasAssumption DEF LedgerTypes
<1>3. ASSUME NEW a \in Account, NEW m \in Metric, FamilyOf(m) \notin kept[a]
      PROVE  usage[a][m] = 0 /\ limits[a][m] = TheDefault
  <2>1. SaysNothing(usage[a], limits[a], FamilyOf(m))
    BY <1>1, <1>3, Metrics
  <2>2. m \in MetricsOf(FamilyOf(m))
    BY DEF MetricsOf, FamilyOf, Metric
  <2> QED BY <2>1, <2>2 DEF SaysNothing
<1>4. Slips
  BY QuotasAssumption DEF Init, Slips, RolledFits
<1> QED BY <1>2, <1>3, <1>4 DEF KeptIsAll, Ledgers

LEMMA InitNeverLimited ==
  ASSUME Init, NEW A, NEW d, NEW m, NeverLimits(A, d, m) PROVE NeverLimited(A, d, m)
  BY DEF Init, NeverLimits, NeverLimited

-----------------------------------------------------------------------------
(* No account is charged beyond its quota                                  *)

(* What is given back is nothing negative, but by a roll-back.             *)
LEMMA GivesNothingNegative ==
  ASSUME CallsInv, NEW c \in calls, c.op \in {"GIVE_USER", "GIVE_GROUP"}, c.job # "ROLLBACK"
  PROVE  c.need \in WholeNeeds \cup {Lease} /\ \A m \in Metric : Of(c.need, m) \in Nat
<1>1. CallOK(c) /\ c.op \in OpsOf(c.job) /\ c.job \in Jobs
  BY CallFields DEF CallOK
<1>2. c.job \in {"CHOWN", "END"}
  BY <1>1 DEF OpsOf, Jobs
<1>3. c.job = "CHOWN" => c.need \in WholeNeeds
  BY <1>1, NeedsWhole DEF CallOK, ChownOK, CallsInv
<1>4. c.job = "END" => c.need \in WholeNeeds \cup {Lease}
  BY <1>1 DEF CallOK, EndOK
<1> QED BY <1>2, <1>3, <1>4, GiveTypes

LEMMA LimitOfType ==
  ASSUME LedgerTypes, NEW a \in Account, NEW m \in Metric
  PROVE  LimitOf(a, m) \in Int /\ usage[a][m] \in Int
<1>1. DefaultOf(a) \in Default
  BY DEF DefaultOf, Default
<1> QED BY <1>1 DEF LedgerTypes, LimitOf

(* A charge that fits stays within the limit.                              *)
LEMMA AddedFits ==
  ASSUME LedgerTypes, NEW a \in Account, NEW need \in AllNeeds, check_quota(a, need),
         add_to_quota(a, need), NEW b \in Account, NEW m \in Metric, usage'[b][m] > usage[b][m]
  PROVE  LimitOf(b, m) = Unlimited \/ usage'[b][m] <= LimitOf(b, m)
<1>1. usage'[b][m] = usage[b][m] + (IF b = a THEN Of(need, m) ELSE 0)
  BY Added
<1>2. b = a /\ Of(need, m) > 0
  BY <1>1, LimitOfType, NeedTypes
<1>3. m \in Asked(need) /\ Of(need, m) = need[m]
  BY <1>2 DEF Of, Asked
<1> QED BY <1>1, <1>2, <1>3 DEF check_quota, FitsIn

LEMMA RefusedFits ==
  ASSUME LedgerTypes, NEW a \in Account, NEW need \in AllNeeds, quota_refused(a, need),
         NEW b \in Account, NEW m \in Metric, usage'[b][m] > usage[b][m]
  PROVE  LimitOf(b, m) = Unlimited \/ usage'[b][m] <= LimitOf(b, m)
<1>1. usage' # usage
  BY LimitOfType
<1>2. PICK k \in Nat : FitsIn(a, "LEASES", k) /\ usage' = [usage EXCEPT ![a]["LEASES"] = @ + k]
  BY <1>1, Refusing
<1>3. usage \in [Account -> [Metric -> Int]] /\ "LEASES" \in Metric
  BY DEF LedgerTypes, Metric
<1>4. b = a /\ m = "LEASES"
  <2>1. b # a \/ m # "LEASES" => usage'[b][m] = usage[b][m]
    BY <1>2, <1>3
  <2> QED BY <2>1, LimitOfType
<1>5. usage'[b][m] = usage[b][m] + k
  BY <1>2, <1>3, <1>4
<1> QED BY <1>2, <1>4, <1>5 DEF FitsIn

(* A call that gives back becomes another one, or goes.                    *)
LEMMA GiverGoes ==
  ASSUME CallsInv, NEW c \in calls, user_quota_del(c) \/ group_quota_del(c), c.job # "CHOWN"
  PROVE  c \notin calls'
<1>1. CASE user_quota_del(c)
  <2> DEFINE e == [c EXCEPT !.op = "GIVE_GROUP"]
  <2>1. c.op = "GIVE_USER" /\ Becomes(c, e)
    BY <1>1 DEF user_quota_del
  <2>2. e \in NewCalls /\ e.op = "GIVE_GROUP"
    BY CallFields DEF NewCalls, Ops
  <2> HIDE DEF e
  <2>3. PICK d : Like(d, e) /\ calls' = (calls \ {c}) \cup {d}
    BY <2>1, <2>2, Became DEF CallsInv
  <2> QED BY <2>1, <2>2, <2>3 DEF Like
<1>2. CASE group_quota_del(c)
  BY <1>2 DEF group_quota_del, Goes
<1> QED BY <1>1, <1>2

LEMMA StepKeepsLimits ==
  ASSUME CallsInv, Ledgers, [Next]_vars, NEW b \in Account, NEW m \in Metric, Charges(b, m)
  PROVE  \/ LimitOf(b, m) = Unlimited \/ usage'[b][m] <= LimitOf(b, m)
         \/ \E c \in calls : Rolls_back(c) /\ Of(c.need, m) < 0
<1>1. LedgerTypes /\ usage[b][m] \in Int /\ usage'[b][m] > usage[b][m]
  BY LimitOfType DEF Ledgers, Charges
<1>2. usage' # usage
  BY <1>1
<1>3. PICK c \in calls : LedgerCall(c)
  BY <1>2, LedgerSteps DEF quota_vars, set_quota
<1>4. c.need \in AllNeeds
  BY <1>3, LedgerCallIs
<1>5. ASSUME NEW a \in Account, check_quota(a, c.need) /\ add_to_quota(a, c.need)
      PROVE  LimitOf(b, m) = Unlimited \/ usage'[b][m] <= LimitOf(b, m)
  BY <1>1, <1>4, <1>5, AddedFits
<1>6. ASSUME NEW a \in Account, quota_refused(a, c.need)
      PROVE  LimitOf(b, m) = Unlimited \/ usage'[b][m] <= LimitOf(b, m)
  BY <1>1, <1>4, <1>6, RefusedFits
<1>7. ASSUME NEW a \in Account, c.op \in {"GIVE_USER", "GIVE_GROUP"}, quota_del(a, c.need)
      PROVE  Rolls_back(c) /\ Of(c.need, m) < 0
  <2>1. usage'[b][m] = usage[b][m] - (IF b = a /\ FamilyOf(m) \in kept[a] THEN Of(c.need, m) ELSE 0)
    BY <1>1, <1>4, <1>7, Deleted
  <2>2. Of(c.need, m) \in Int
    BY <1>4, NeedTypes
  <2>3. Of(c.need, m) < 0
    BY <1>1, <2>1, <2>2
  <2>4. c.job = "ROLLBACK"
    <3>1. Of(c.need, m) \notin Nat
      BY <2>3
    <3> QED BY <1>7, <3>1, GivesNothingNegative
  <2>5. user_quota_del(c) \/ group_quota_del(c)
    BY <1>3, <1>7 DEF LedgerCall, user_quota_authorization, group_quota_authorization
  <2> QED BY <2>3, <2>4, <2>5, GiverGoes DEF Rolls_back
<1> QED BY <1>2, <1>3, <1>5, <1>6, <1>7, LedgerCallIs DEF quota_vars

LEMMA CallsAndLedgers ==
  ASSUME Rash = {} PROVE Spec => [](CallsInv /\ Ledgers)
<1>1. Init => CallsInv /\ Ledgers
  BY InitCalls, InitLedgers
<1>2. CallsInv /\ Ledgers /\ [Next]_vars => (CallsInv /\ Ledgers)'
  <2> SUFFICES ASSUME CallsInv, Ledgers, [Next]_vars PROVE CallsInv' /\ Ledgers'
    OBVIOUS
  <2>1. CallsInv'
    BY CallsStep
  <2>2. LedgerTypes'
    BY LedgersStep DEF Ledgers
  <2>3. Slips'
    BY SlipsStep DEF Ledgers
  <2> QED BY <2>1, <2>2, <2>3 DEF Ledgers
<1> QED BY <1>1, <1>2, PTL DEF Spec

(* The daemon changes no ledger.                                           *)
LEMMA AccountsAlone == StateSpec => Spec
<1>1. StateInit => Init
  BY DEF StateInit
<1>2. [StateNext]_state_vars => [Next]_vars
  BY DEF StateNext, AccountStep, DaemonStep, state_vars, account_vars
<1> QED BY <1>1, <1>2, PTL DEF StateSpec, Spec

(* No account is charged beyond its quota, whatever limits are set and     *)
(* whichever resizes are rolled back, but by the roll-back of one to less: *)
(* the check and the charge of user_quota and group_quota are one step of  *)
(* each ledger, and of what is given back only such a roll-back charges.   *)
THEOREM LimitKeptAlways ==
  ASSUME Rash = {} PROVE StateSpec => LimitKept
<1>1. CallsInv /\ Ledgers /\ [Next]_vars =>
        [\A a \in Account, m \in Metric :
           Charges(a, m) => \/ LimitOf(a, m) = Unlimited \/ usage'[a][m] <= LimitOf(a, m)
                            \/ \E c \in calls : Rolls_back(c) /\ Of(c.need, m) < 0]_vars
  BY StepKeepsLimits
<1>2. StateSpec => [](CallsInv /\ Ledgers)
  BY CallsAndLedgers, AccountsAlone, PTL
<1> QED BY <1>1, <1>2, AccountsAlone, PTL DEF Spec, LimitKept

-----------------------------------------------------------------------------
(* What an account pays for, before and after a step                       *)

Given(a, v) == \E c \in calls : c.vm = v /\ GivenBack(c, a)

LEMMA ShareIs ==
  ASSUME VMTypes, NEW a \in Account, NEW v \in VM, NEW m \in Metric
  PROVE  /\ Share(a, v, m) \in Nat /\ ForVMs(a, m)[v] = Share(a, v, m)
         /\ Share(a, v, m) = IF Owns(a, v) /\ ~Given(a, v) THEN Needs(v)[m] ELSE 0
<1>1. Needs(v)[m] \in Nat
  BY NeedsWhole
<1>2. Pays(a, v) <=> Owns(a, v) /\ ~Given(a, v)
  BY DEF Pays, Given
<1> QED BY <1>1, <1>2 DEF Share, ForVMs

LEMMA ShareIsNext ==
  ASSUME VMTypes', NEW a \in Account, NEW v \in VM, NEW m \in Metric
  PROVE  /\ Share(a, v, m)' \in Nat /\ ForVMs(a, m)'[v] = Share(a, v, m)'
         /\ Share(a, v, m)' = IF Owns(a, v)' /\ ~Given(a, v)' THEN Needs(v)'[m] ELSE 0
<1>1. (VMTypes => /\ Share(a, v, m) \in Nat /\ ForVMs(a, m)[v] = Share(a, v, m)
                  /\ Share(a, v, m) = IF Owns(a, v) /\ ~Given(a, v) THEN Needs(v)[m] ELSE 0)'
  BY ShareIs, PTL
<1> QED BY <1>1

LEMMA VSumType ==
  ASSUME VMTypes, NEW a \in Account, NEW m \in Metric
  PROVE  VSum(a, m) \in Nat /\ \A v \in VM : Share(a, v, m) <= VSum(a, m)
<1> PICK f : f = ForVMs(a, m)
  OBVIOUS
<1>1. \A v \in VM : f[v] \in Nat /\ f[v] = Share(a, v, m)
  BY ShareIs
<1>2. Total(f, VM) \in Nat /\ \A v \in VM : f[v] <= Total(f, VM)
  BY <1>1, TotalBounds, QuotasAssumption
<1> QED BY <1>1, <1>2 DEF VSum

(* One VM changes, or what of it was given back.                           *)
LEMMA VSumChanged ==
  ASSUME VMTypes, VMTypes', NEW a \in Account, NEW m \in Metric, NEW v \in VM,
         \A w \in VM \ {v} : vm'[w] = vm[w] /\ (Given(a, w)' <=> Given(a, w))
  PROVE  VSum(a, m)' = VSum(a, m) + (Share(a, v, m)' - Share(a, v, m))
<1> PICK f, h : f = ForVMs(a, m) /\ h = ForVMs(a, m)'
  OBVIOUS
<1>1. \A w \in VM : f[w] \in Int /\ f[w] = Share(a, w, m)
  BY ShareIs
<1>2. \A w \in VM : h[w] \in Int /\ h[w] = Share(a, w, m)'
  BY ShareIsNext
<1>3. ASSUME NEW w \in VM \ {v} PROVE h[w] = f[w]
  <2>1. (Owns(a, w)' <=> Owns(a, w)) /\ Needs(w)' = Needs(w)
    BY <1>3 DEF Owns, Alive, Needs
  <2> QED BY <1>1, <1>2, <2>1, ShareIs, ShareIsNext
<1>4. Total(h, VM) = Total(f, VM) + (h[v] - f[v])
  BY <1>1, <1>2, <1>3, TotalChanged, QuotasAssumption
<1> QED BY <1>1, <1>2, <1>4 DEF VSum

LEMMA VSumSame ==
  ASSUME NEW a \in Account, NEW m \in Metric, UNCHANGED vm, \A w \in VM : Given(a, w)' <=> Given(a, w)
  PROVE  VSum(a, m)' = VSum(a, m)
<1>1. \A w \in VM : (Pays(a, w)' <=> Pays(a, w)) /\ Needs(w)' = Needs(w)
  BY DEF Pays, Owns, Alive, Needs, Given
<1>2. ForVMs(a, m)' = ForVMs(a, m)
  BY <1>1 DEF ForVMs
<1> QED BY <1>2 DEF VSum

(* What has been given back by calls, when one goes on, ends or begins.    *)
LEMMA GivenMoved ==
  ASSUME NEW a, NEW c \in calls, NEW d, Replaced(c, d), d.vm = c.vm, GivenBack(d, a) <=> GivenBack(c, a)
  PROVE  \A v : Given(a, v)' <=> Given(a, v)
<1>1. calls' = (calls \ {c}) \cup {d}
  BY DEF Replaced
<1>2. \A v : Given(a, v)' <=> \E x \in calls' : x.vm = v /\ GivenBack(x, a)
  BY DEF Given, GivenBack
<1> QED BY <1>1, <1>2 DEF Given

LEMMA GivenGone ==
  ASSUME NEW a, NEW c \in calls, calls' = calls \ {c}, ~GivenBack(c, a)
  PROVE  \A v : Given(a, v)' <=> Given(a, v)
<1>1. \A v : Given(a, v)' <=> \E x \in calls' : x.vm = v /\ GivenBack(x, a)
  BY DEF Given, GivenBack
<1> QED BY <1>1 DEF Given

LEMMA GivenStarted ==
  ASSUME NEW a, NEW d, calls' = calls \cup {d}, ~GivenBack(d, a)
  PROVE  \A v : Given(a, v)' <=> Given(a, v)
<1>1. \A v : Given(a, v)' <=> \E x \in calls' : x.vm = v /\ GivenBack(x, a)
  BY DEF Given, GivenBack
<1> QED BY <1>1 DEF Given

LEMMA SumTypes ==
  ASSUME CallsInv, LedgerTypes, NEW a \in Account, NEW m \in Metric
  PROVE  usage[a][m] \in Int /\ VSum(a, m) \in Int /\ CSum(a, m) \in Int
         /\ \A c \in NewCalls : ForCall(c, a, m) \in Int
  BY VSumType, CSumType, ForCallType DEF CallsInv, LedgerTypes

(* A call goes on, and the VMs stay as they are.                           *)
LEMMA MovedSums ==
  ASSUME CallsInv, NEW c \in calls, NEW e \in NewCalls, Becomes(c, e), e.vm = c.vm, UNCHANGED vm,
         NEW a \in Account, NEW m \in Metric, GivenBack(e, a) <=> GivenBack(c, a)
  PROVE  VSum(a, m)' = VSum(a, m) /\ CSum(a, m)' = CSum(a, m) - ForCall(c, a, m) + ForCall(e, a, m)
<1>1. PICK d : Replaced(c, d) /\ Like(d, e)
               /\ CSum(a, m)' = CSum(a, m) - ForCall(c, a, m) + ForCall(e, a, m)
  BY Became DEF CallsInv, Replaced
<1>2. d.vm = c.vm /\ (GivenBack(d, a) <=> GivenBack(c, a))
  BY <1>1, ForCallLike DEF Like
<1> QED BY <1>1, <1>2, GivenMoved, VSumSame

LEMMA EndedSums ==
  ASSUME CallsInv, NEW c \in calls, Goes(c), UNCHANGED vm,
         NEW a \in Account, NEW m \in Metric, ~GivenBack(c, a)
  PROVE  VSum(a, m)' = VSum(a, m) /\ CSum(a, m)' = CSum(a, m) - ForCall(c, a, m)
<1>1. calls' = calls \ {c} /\ CSum(a, m)' = CSum(a, m) - ForCall(c, a, m)
  BY Gone DEF CallsInv
<1> QED BY <1>1, GivenGone, VSumSame

LEMMA BegunSums ==
  ASSUME CallsInv, NEW e \in NewCalls, Starts(e), UNCHANGED vm,
         NEW a \in Account, NEW m \in Metric, ~GivenBack(e, a)
  PROVE  VSum(a, m)' = VSum(a, m) /\ CSum(a, m)' = CSum(a, m) + ForCall(e, a, m)
<1>1. PICK d : calls' = calls \cup {d} /\ Like(d, e) /\ CSum(a, m)' = CSum(a, m) + ForCall(e, a, m)
  BY Started DEF CallsInv
<1>2. ~GivenBack(d, a)
  BY <1>1, ForCallLike
<1> QED BY <1>1, <1>2, GivenStarted, VSumSame

-----------------------------------------------------------------------------
(* Exact, step by step                                                     *)

(* A request that begins has charged nobody.                               *)
LEMMA CheckBegunExact ==
  ASSUME CallsInv, Ledgers, NEW a \in Account, ExactFor(a), CheckBegins, UNCHANGED <<vm, quota_vars>>
  PROVE  ExactFor(a)'
<1>1. PICK e \in NewCalls : Starts(e) /\ e.op = "CHECK_USER"
  BY DEF CheckBegins
<1> SUFFICES ASSUME NEW m \in Metric PROVE usage'[a][m] = VSum(a, m)' + CSum(a, m)'
  BY DEF ExactFor
<1>2. ForCall(e, a, m) = 0 /\ ~GivenBack(e, a)
  BY <1>1 DEF ForCall, Holds, GivenBack
<1>3. VSum(a, m)' = VSum(a, m) /\ CSum(a, m)' = CSum(a, m) + ForCall(e, a, m)
  BY <1>1, <1>2, BegunSums
<1>4. usage'[a][m] = usage[a][m]
  BY DEF quota_vars
<1> QED BY <1>2, <1>3, <1>4, SumTypes DEF ExactFor, Ledgers

LEMMA StateStepsExact ==
  ASSUME Rash = {}, CallsInv, Ledgers, NEW a \in Account, ExactFor(a), NEW v \in VM,
         vm_start(v) \/ vm_poweroff(v) \/ detach_nic(v) \/ nic_stays(v)
  PROVE  ExactFor(a)'
<1>1. PICK s \in {"RUNNING", "POWEROFF", "HOTPLUG"}, b \in BOOLEAN :
        vm' = [vm EXCEPT ![v] = [vm[v] EXCEPT !.state = s, !.attach = b]]
  BY StateSteps DEF BecomesVM
<1>2. UNCHANGED <<usage, limits, kept, calls>> /\ vm[v].state \in {"RUNNING", "POWEROFF", "HOTPLUG"}
  BY StateSteps
<1>3. VMTypes
  BY DEF CallsInv
<1>4. ASSUME NEW w \in VM PROVE (Alive(w)' <=> Alive(w)) /\ Needs(w)' = Needs(w)
                              /\ vm'[w].uid = vm[w].uid /\ vm'[w].gid = vm[w].gid
  <2>1. CASE w # v
    <3>1. vm'[w] = vm[w]
      BY <1>1, <1>3, <2>1 DEF VMTypes
    <3> QED BY <3>1 DEF Alive, Needs
  <2>2. CASE w = v
    <3>1. vm'[v] = [vm[v] EXCEPT !.state = s, !.attach = b]
      BY <1>1, <1>3 DEF VMTypes
    <3>2. vm[v] \in [state : VmState, uid : User \cup {NoAccount}, gid : Group \cup {NoAccount},
                     cpu : Nat, nics : 0..MaxNics, attach : BOOLEAN]
      BY <1>3 DEF VMTypes
    <3>3. vm'[v].state = s /\ vm'[v].uid = vm[v].uid /\ vm'[v].gid = vm[v].gid
          /\ vm'[v].cpu = vm[v].cpu /\ vm'[v].nics = vm[v].nics
      BY <3>1, <3>2
    <3> QED BY <1>2, <2>2, <3>3 DEF Alive, Needs
  <2> QED BY <2>1, <2>2
<1> SUFFICES ASSUME NEW m \in Metric PROVE usage'[a][m] = VSum(a, m)' + CSum(a, m)'
  BY DEF ExactFor
<1>5. ForVMs(a, m)' = ForVMs(a, m)
  <2>1. \A w : Given(a, w)' <=> Given(a, w)
    BY <1>2 DEF Given
  <2>2. \A w \in VM : Pays(a, w)' <=> Pays(a, w)
    BY <1>4, <2>1 DEF Pays, Given, Owns
  <2> QED BY <1>4, <2>2 DEF ForVMs
<1>6. CSum(a, m)' = CSum(a, m)
  BY <1>2 DEF CSum, ForCalls, ForCall, Holds
<1> QED BY <1>2, <1>5, <1>6 DEF ExactFor, VSum

LEMMA user_quota_authorization_exact ==
  ASSUME LeasesAsMeant, CallsInv, Ledgers, NEW a \in Account, ExactFor(a), NEW c \in calls, user_quota_authorization(c)
  PROVE  ExactFor(a)'
<1> SUFFICES ASSUME NEW m \in Metric PROVE usage'[a][m] = VSum(a, m)' + CSum(a, m)'
  BY DEF ExactFor
<1>1. c \in NewCalls /\ c.op = "CHECK_USER" /\ UNCHANGED vm /\ c.need \in AllNeeds
      /\ (c.uid # NoAccount => c.uid \in Account) /\ LedgerTypes /\ a # NoAccount
  BY CallFields, QuotasAssumption DEF user_quota_authorization, Account, Ledgers
<1>2. ForCall(c, a, m) = 0 /\ ~GivenBack(c, a)
  BY <1>1 DEF ForCall, Holds, GivenBack
<1>3. usage[a][m] = VSum(a, m) + CSum(a, m) /\ usage[a][m] \in Int /\ VSum(a, m) \in Int /\ CSum(a, m) \in Int
  BY SumTypes DEF ExactFor, Ledgers
<1> DEFINE e == [c EXCEPT !.op = "CHECK_GROUP"]
<1>4. ASSUME Becomes(c, e)
      PROVE  VSum(a, m)' = VSum(a, m) /\ CSum(a, m)' = CSum(a, m) + (IF a = c.uid THEN Of(c.need, m) ELSE 0)
  <2>1. e \in NewCalls /\ e.vm = c.vm /\ e.op = "CHECK_GROUP" /\ e.uid = c.uid /\ e.need = c.need
    BY <1>1 DEF NewCalls, Ops
  <2> HIDE DEF e
  <2>2. ~GivenBack(e, a) /\ ForCall(e, a, m) = IF a = c.uid THEN Of(c.need, m) ELSE 0
    BY <2>1 DEF ForCall, Holds, GivenBack
  <2>3. VSum(a, m)' = VSum(a, m) /\ CSum(a, m)' = CSum(a, m) - ForCall(c, a, m) + ForCall(e, a, m)
    BY <1>1, <1>2, <1>4, <2>1, <2>2, MovedSums
  <2>4. Of(c.need, m) \in Int
    BY <1>1, NeedTypes
  <2> QED BY <1>2, <1>3, <2>2, <2>3, <2>4
<1> HIDE DEF e
<1>5. CASE c.uid # NoAccount /\ add_to_quota(c.uid, c.need) /\ Becomes(c, e)
  <2>1. usage'[a][m] = usage[a][m] + (IF a = c.uid THEN Of(c.need, m) ELSE 0)
    BY <1>1, <1>5, Added
  <2>2. Of(c.need, m) \in Int
    BY <1>1, NeedTypes
  <2> QED BY <1>3, <1>4, <1>5, <2>1, <2>2
<1>6. CASE c.uid # NoAccount /\ quota_refused(c.uid, c.need) /\ Goes(c)
  <2>1. usage' = usage
    BY <1>1, <1>6, RefusingWhole
  <2>2. VSum(a, m)' = VSum(a, m) /\ CSum(a, m)' = CSum(a, m) - ForCall(c, a, m)
    BY <1>1, <1>2, <1>6, EndedSums
  <2> QED BY <1>2, <1>3, <2>1, <2>2
<1>7. CASE c.uid = NoAccount /\ Becomes(c, e) /\ UNCHANGED quota_vars
  BY <1>1, <1>3, <1>4, <1>7 DEF quota_vars
<1> QED BY <1>5, <1>6, <1>7 DEF user_quota_authorization, e

LEMMA group_quota_authorization_exact ==
  ASSUME LeasesAsMeant, CallsInv, Ledgers, NEW a \in Account, ExactFor(a), a \notin amiss',
         NEW c \in calls, group_quota_authorization(c)
  PROVE  ExactFor(a)'
<1> SUFFICES ASSUME NEW m \in Metric PROVE usage'[a][m] = VSum(a, m)' + CSum(a, m)'
  BY DEF ExactFor
<1>1. /\ c \in NewCalls /\ c.op = "CHECK_GROUP" /\ UNCHANGED vm /\ c.need \in AllNeeds
      /\ c.gid # NoAccount => c.gid \in Account
      /\ LedgerTypes /\ a # NoAccount /\ c.job \in Jobs
      /\ c.uid \in User \cup {NoAccount} /\ c.gid \in Group \cup {NoAccount}
      /\ c.uid = c.gid => c.uid = NoAccount
  BY CallFields, QuotasAssumption DEF group_quota_authorization, Account, Ledgers
<1>2. ForCall(c, a, m) = (IF a = c.uid THEN Of(c.need, m) ELSE 0) /\ ~GivenBack(c, a)
  BY <1>1 DEF ForCall, Holds, GivenBack
<1>3. usage[a][m] = VSum(a, m) + CSum(a, m) /\ usage[a][m] \in Int /\ VSum(a, m) \in Int /\ CSum(a, m) \in Int
      /\ Of(c.need, m) \in Int
  BY <1>1, SumTypes, NeedTypes DEF ExactFor, Ledgers
<1> DEFINE e == Authorized(c)
<1>4. ASSUME Becomes(c, e)
      PROVE  VSum(a, m)' = VSum(a, m) /\ CSum(a, m)' = CSum(a, m) + (IF a = c.gid THEN Of(c.need, m) ELSE 0)
  <2>1. /\ e \in NewCalls /\ GoesOn(c, e) /\ e.need = c.need /\ e.job = c.job
        /\ e.op \in {"INSERT", "HOTPLUG", "RESIZE", "GIVE_USER"}
        /\ c.job # "CHOWN" => e.uid = c.uid /\ e.gid = c.gid /\ e.op # "GIVE_USER"
        /\ c.job = "CHOWN" => e.other.uid = c.uid /\ e.other.gid = c.gid /\ e.op = "GIVE_USER"
    BY <1>1, AuthorizedIs
  <2> HIDE DEF e
  <2>2. ~GivenBack(e, a) /\ e.vm = c.vm
    BY <2>1 DEF GivenBack, GoesOn
  <2>3. Holds(e, a) <=> a \in {c.uid, c.gid}
    BY <2>1 DEF Holds
  <2>4. VSum(a, m)' = VSum(a, m) /\ CSum(a, m)' = CSum(a, m) - ForCall(c, a, m) + ForCall(e, a, m)
    BY <1>1, <1>2, <1>4, <2>1, <2>2, MovedSums
  <2>5. ForCall(e, a, m) = IF a \in {c.uid, c.gid} THEN Of(c.need, m) ELSE 0
    BY <2>1, <2>3 DEF ForCall
  <2> QED BY <1>1, <1>2, <1>3, <2>4, <2>5
<1> HIDE DEF e
<1>5. CASE c.gid # NoAccount /\ add_to_quota(c.gid, c.need) /\ Becomes(c, e)
  <2>1. usage'[a][m] = usage[a][m] + (IF a = c.gid THEN Of(c.need, m) ELSE 0)
    BY <1>1, <1>5, Added
  <2> QED BY <1>3, <1>4, <1>5, <2>1
<1>6. CASE group_refuses(c)
  <2>0. c.gid # NoAccount /\ quota_refused(c.gid, c.need) /\ usage' = usage
    <3>1. c.gid # NoAccount /\ quota_refused(c.gid, c.need)
      BY <1>6 DEF group_refuses
    <3> QED BY <1>1, <3>1, RefusingWhole
  <2>1. CASE c.job # "RESIZE"
    <3> DEFINE d == [c EXCEPT !.op = "GIVE_USER", !.job = "END", !.gid = NoAccount]
    <3>1. Becomes(c, d) /\ c.job \in {"ALLOCATE", "ATTACH", "CHOWN"}
      BY <1>1, <1>6, <2>1, RefusedIs
    <3>2. d \in NewCalls /\ GoesOn(c, d) /\ d.op = "GIVE_USER" /\ d.job = "END" /\ d.uid = c.uid
          /\ d.gid = NoAccount /\ d.need = c.need
      BY <3>1, GivesIs
    <3> HIDE DEF d
    <3>3. ~GivenBack(d, a) /\ d.vm = c.vm
      BY <3>2 DEF GivenBack, GoesOn
    <3>4. ForCall(d, a, m) = ForCall(c, a, m)
      BY <1>1, <1>2, <3>2 DEF ForCall, Holds
    <3>5. VSum(a, m)' = VSum(a, m) /\ CSum(a, m)' = CSum(a, m) - ForCall(c, a, m) + ForCall(d, a, m)
      BY <1>1, <1>2, <3>1, <3>2, <3>3, MovedSums
    <3> QED BY <1>2, <1>3, <2>0, <3>4, <3>5
  <2>2. CASE c.job = "RESIZE"
    <3>1. c.uid \in User /\ rollback(c, Owner(c.uid, NoAccount), {})
      BY <1>1, <1>6, <2>2, RefusedIs
    <3> PICK owner \in Halves : owner = Owner(c.uid, NoAccount) /\ owner.uid = c.uid
      BY <3>1, OwnerIs
    <3>2. a # c.uid
      <4>1. {owner.uid, owner.gid} \subseteq amiss' \cup {NoAccount}
        BY <2>2, <3>1, RolledMarked DEF Ledgers
      <4> QED BY <1>1, <4>1
    <3>3. PICK d \in NewCalls : /\ Becomes(c, d) /\ GoesOn(c, d) /\ d.op = "GIVE_USER"
                                /\ d.job = "ROLLBACK" /\ d.uid = owner.uid /\ d.gid = owner.gid
      BY <2>2, <3>1, RolledBack
    <3>4. ~GivenBack(d, a) /\ d.vm = c.vm
      BY <3>3 DEF GivenBack, GoesOn
    <3>5. ForCall(d, a, m) = 0 /\ ForCall(c, a, m) = 0
      <4>1. owner.gid = NoAccount
        BY <3>1, OwnerIs
      <4> QED BY <1>1, <1>2, <3>2, <3>3, <4>1 DEF ForCall, Holds
    <3>6. VSum(a, m)' = VSum(a, m) /\ CSum(a, m)' = CSum(a, m) - ForCall(c, a, m) + ForCall(d, a, m)
      BY <1>1, <1>2, <3>3, <3>4, MovedSums
    <3> QED BY <1>3, <2>0, <3>5, <3>6
  <2> QED BY <2>1, <2>2
<1>7. CASE c.gid = NoAccount /\ Becomes(c, e) /\ UNCHANGED quota_vars
  BY <1>1, <1>3, <1>4, <1>7 DEF quota_vars
<1> QED BY <1>5, <1>6, <1>7 DEF group_quota_authorization, e

(* What an account no longer has an attribute for, no call gives back: of  *)
(* VMs and leases it was charged nothing negative, so nothing at all.      *)
LEMMA ChargesAre ==
  ASSUME CallsInv, NEW c \in calls, NEW a \in Account, NEW m \in {"VMS", "LEASES"}
  PROVE  ForCall(c, a, m) \in Nat
<1>1. c.need \in AllNeeds /\ m \in Metric
  BY CallFields DEF Metric
<1>2. c.need \in WholeNeeds \cup {Lease} => Of(c.need, m) \in Nat
  BY <1>1, GiveTypes
<1>3. ASSUME NEW d \in Int, c.need = CpuChange(d) PROVE Of(c.need, m) = 0
  BY <1>3 DEF CpuChange, Of
<1>4. c.need \in Excesses => Of(c.need, m) \in Nat
  BY ExcessIs
<1> QED BY <1>1, <1>2, <1>3, <1>4 DEF AllNeeds, Changes, ForCall

LEMMA CSumBounds ==
  ASSUME CallsInv, NEW a \in Account, NEW m \in {"VMS", "LEASES"}
  PROVE  CSum(a, m) \in Nat /\ \A c \in calls : ForCall(c, a, m) <= CSum(a, m)
<1> PICK f : f = ForCalls(calls, a, m)
  OBVIOUS
<1>1. \A c \in calls : f[c] = ForCall(c, a, m) /\ f[c] \in Nat
  BY ChargesAre DEF ForCalls
<1>2. Total(f, calls) \in Nat /\ \A c \in calls : f[c] <= Total(f, calls)
  BY <1>1, TotalBounds DEF CallsInv, CallTypes
<1> QED BY <1>1, <1>2 DEF CSum

LEMMA NothingForgotten ==
  ASSUME CallsInv, Ledgers, NEW a \in Account, ExactFor(a), KeptIsAll,
         NEW c \in calls, c.op \in {"GIVE_USER", "GIVE_GROUP"}, c.job # "ROLLBACK",
         NEW m \in Metric, FamilyOf(m) \notin kept[a],
         Holds(c, a) \/ (c.job = "CHOWN" /\ Pays(a, c.vm))
  PROVE  Of(c.need, m) = 0
<1>1. c.need \in WholeNeeds \cup {Lease}
  BY GivesNothingNegative
<1>2. ASSUME NEW k \in {"VMS", "LEASES"}, FamilyOf(k) \notin kept[a] PROVE Of(c.need, k) = 0
  <2>1. k \in Metric /\ usage[a][k] = 0 /\ usage[a][k] = VSum(a, k) + CSum(a, k)
    BY <1>2 DEF KeptIsAll, ExactFor, Metric
  <2>2. VSum(a, k) \in Nat /\ CSum(a, k) \in Nat
    BY <2>1, VSumType, CSumBounds DEF CallsInv
  <2>3. VSum(a, k) = 0 /\ CSum(a, k) = 0
    BY <2>1, <2>2
  <2>4. CASE Holds(c, a)
    <3>1. ForCall(c, a, k) \in Nat /\ ForCall(c, a, k) <= 0
      BY <2>3, ChargesAre, CSumBounds
    <3> QED BY <2>4, <3>1 DEF ForCall
  <2>5. CASE c.job = "CHOWN" /\ Pays(a, c.vm)
    <3>1. c.vm \in VM /\ c.need = Needs(c.vm)
      BY <2>5, CallFields DEF CallOK, ChownOK
    <3>2. Share(a, c.vm, k) <= VSum(a, k) /\ Share(a, c.vm, k) \in Nat /\ Share(a, c.vm, k) = c.need[k]
      BY <2>1, <2>5, <3>1, VSumType, ShareIs DEF CallsInv, Share
    <3>3. c.need \in [Metric -> Nat]
      BY <3>1, NeedsWhole DEF CallsInv
    <3> QED BY <2>1, <2>3, <3>2, <3>3 DEF Of
  <2> QED BY <2>4, <2>5
<1>3. CASE m \in {"VMS", "LEASES"}
  BY <1>2, <1>3
<1>4. CASE m = "CPU"
  <2>1. Of(c.need, "VMS") = 0
    BY <1>2, <1>4 DEF FamilyOf
  <2>2. c.need = Lease
    BY <1>1, <2>1, GiveTypes
  <2> QED BY <1>4, <2>2, GiveTypes
<1> QED BY <1>3, <1>4 DEF Metric

(* Only one call at a time gives back what a VM still needs.               *)
LEMMA ChownGiven ==
  ASSUME CallsInv, NEW c \in calls, c.job = "CHOWN", NEW a
  PROVE  /\ Given(a, c.vm) <=> GivenBack(c, a)
         /\ \A d : Replaced(c, d) /\ d.vm = c.vm =>
              /\ Given(a, c.vm)' <=> GivenBack(d, a)
              /\ \A w : w # c.vm => (Given(a, w)' <=> Given(a, w))
         /\ calls' = calls \ {c} => 
              /\ ~Given(a, c.vm)'
              /\ \A w : w # c.vm => (Given(a, w)' <=> Given(a, w))
<1>1. \A v : Given(a, v)' <=> \E x \in calls' : x.vm = v /\ GivenBack(x, a)
  BY DEF Given, GivenBack
<1>2. \A x \in calls : x.vm = c.vm /\ x # c => ~GivenBack(x, a)
  BY DEF CallsInv, Alone, GivenBack
<1> QED BY <1>1, <1>2 DEF Given, Replaced

LEMMA ChownSums ==
  ASSUME CallsInv, CallsInv', NEW c \in calls, c.job = "CHOWN", UNCHANGED vm,
         NEW e \in NewCalls, Becomes(c, e), e.vm = c.vm, NEW a \in Account, NEW m \in Metric
  PROVE  /\ CSum(a, m)' = CSum(a, m) - ForCall(c, a, m) + ForCall(e, a, m)
         /\ VSum(a, m)' = VSum(a, m)
              + (IF Owns(a, c.vm) /\ ~GivenBack(e, a) THEN Of(c.need, m) ELSE 0)
              - (IF Owns(a, c.vm) /\ ~GivenBack(c, a) THEN Of(c.need, m) ELSE 0)
         /\ Of(c.need, m) \in Nat
<1>1. PICK d : Replaced(c, d) /\ Like(d, e)
               /\ CSum(a, m)' = CSum(a, m) - ForCall(c, a, m) + ForCall(e, a, m)
  BY Became DEF CallsInv, Replaced
<1>2. d.vm = c.vm /\ (GivenBack(d, a) <=> GivenBack(e, a))
  BY <1>1, ForCallLike DEF Like
<1>3. c.vm \in VM /\ c.need = Needs(c.vm) /\ VMTypes /\ VMTypes'
  BY CallFields DEF CallOK, ChownOK, CallsInv
<1>4. Of(c.need, m) = Needs(c.vm)[m] /\ Needs(c.vm)[m] \in Nat
  BY <1>3, NeedsWhole DEF Of
<1>5. /\ Given(a, c.vm) <=> GivenBack(c, a)
      /\ Given(a, c.vm)' <=> GivenBack(e, a)
      /\ \A w : w # c.vm => (Given(a, w)' <=> Given(a, w))
  BY <1>1, <1>2, ChownGiven
<1>6. VSum(a, m)' = VSum(a, m) + (Share(a, c.vm, m)' - Share(a, c.vm, m))
  BY <1>3, <1>5, VSumChanged
<1>7. Share(a, c.vm, m) = IF Owns(a, c.vm) /\ ~GivenBack(c, a) THEN Of(c.need, m) ELSE 0
  BY <1>3, <1>4, <1>5, ShareIs
<1>8. Share(a, c.vm, m)' = IF Owns(a, c.vm) /\ ~GivenBack(e, a) THEN Of(c.need, m) ELSE 0
  <2>1. (Owns(a, c.vm)' <=> Owns(a, c.vm)) /\ Needs(c.vm)' = Needs(c.vm)
    BY DEF Owns, Alive, Needs
  <2> QED BY <1>3, <1>4, <1>5, <2>1, ShareIsNext
<1>9. VSum(a, m) \in Int
  BY <1>3, VSumType
<1> QED BY <1>1, <1>4, <1>6, <1>7, <1>8, <1>9

(* The two halves of a call that gives back are of different accounts, and *)
(* of a chown they own the VM that is still to change.                     *)
LEMMA GivesIsOf ==
  ASSUME CallsInv, NEW c \in calls, c.op \in {"GIVE_USER", "GIVE_GROUP", "SET_OWNER"}
  PROVE  /\ c \in NewCalls /\ c.need \in AllNeeds /\ c.vm \in VM \cup {NoVM}
         /\ c.uid \in User \cup {NoAccount} /\ c.gid \in Group \cup {NoAccount}
         /\ c.uid = c.gid => c.uid = NoAccount
         /\ NoAccount \notin Account
         /\ c.uid # NoAccount => c.uid \in Account
         /\ c.gid # NoAccount => c.gid \in Account
         /\ c.job \in {"CHOWN", "END", "ROLLBACK"}
         /\ c.job = "CHOWN" =>
              /\ c.vm \in VM /\ Alive(c.vm) /\ c.need = Needs(c.vm)
              /\ c.uid # NoAccount => Owns(c.uid, c.vm)
              /\ c.gid # NoAccount => Owns(c.gid, c.vm)
<1>1. CallOK(c) /\ c.op \in OpsOf(c.job) /\ c.job \in Jobs
  BY CallFields DEF CallOK
<1>2. c.job \in {"CHOWN", "END", "ROLLBACK"}
  BY <1>1 DEF OpsOf, Jobs
<1>3. ASSUME c.job = "CHOWN"
      PROVE  /\ c.vm \in VM /\ Alive(c.vm) /\ c.need = Needs(c.vm)
             /\ c.uid # NoAccount => Owns(c.uid, c.vm)
             /\ c.gid # NoAccount => Owns(c.gid, c.vm)
  BY <1>1, <1>3 DEF CallOK, ChownOK, Alive, OldAndNew, Owns
<1>4. NoAccount \notin Account /\ User \cap Group = {} /\ NoAccount \notin User /\ NoAccount \notin Group
  BY QuotasAssumption DEF Account
<1> QED BY <1>2, <1>3, <1>4, CallFields DEF Account

LEMMA user_quota_del_exact ==
  ASSUME CallsInv, Ledgers, NEW a \in Account, ExactFor(a), a \notin amiss, KeptIsAll,
         NEW c \in calls, user_quota_del(c)
  PROVE  ExactFor(a)'
<1> SUFFICES ASSUME NEW m \in Metric PROVE usage'[a][m] = VSum(a, m)' + CSum(a, m)'
  BY DEF ExactFor
<1> DEFINE e == [c EXCEPT !.op = "GIVE_GROUP"]
<1>1. c.op = "GIVE_USER" /\ UNCHANGED vm /\ Becomes(c, e) /\ LedgerTypes
  BY DEF user_quota_del, Ledgers
<1>2. /\ c \in NewCalls /\ c.need \in AllNeeds /\ NoAccount \notin Account
      /\ c.uid = c.gid => c.uid = NoAccount
      /\ c.uid # NoAccount => c.uid \in Account
      /\ c.job = "ROLLBACK" => a \notin {c.uid, c.gid}
      /\ c.job = "CHOWN" => /\ c.vm \in VM
                            /\ c.uid # NoAccount => Owns(c.uid, c.vm)
  BY <1>1, GivesIsOf DEF Ledgers, Slips, RolledFits
<1>3. usage[a][m] = VSum(a, m) + CSum(a, m) /\ usage[a][m] \in Int /\ VSum(a, m) \in Int /\ CSum(a, m) \in Int
      /\ Of(c.need, m) \in Int
  BY <1>2, SumTypes, NeedTypes DEF ExactFor, Ledgers
<1>4. e \in NewCalls /\ e.vm = c.vm /\ e.op = "GIVE_GROUP" /\ e.uid = c.uid /\ e.gid = c.gid
      /\ e.need = c.need /\ e.job = c.job /\ e.other = c.other
  BY <1>2 DEF NewCalls, Ops
<1> HIDE DEF e
<1>5. usage'[a][m] = usage[a][m] - (IF a = c.uid THEN Of(c.need, m) ELSE 0)
  <2>1. CASE c.uid = NoAccount
    BY <1>1, <1>2, <1>3, <2>1 DEF user_quota_del, quota_vars
  <2>2. CASE c.uid # NoAccount
    <3>1. usage'[a][m] = usage[a][m] - (IF a = c.uid /\ FamilyOf(m) \in kept[c.uid] THEN Of(c.need, m) ELSE 0)
      BY <1>1, <1>2, <2>2, Deleted DEF user_quota_del
    <3>2. ASSUME a = c.uid, FamilyOf(m) \notin kept[a] PROVE Of(c.need, m) = 0
      <4>1. c.job # "CHOWN" => Holds(c, a)
        BY <1>1, <3>2 DEF Holds
      <4>2. c.job = "CHOWN" => Pays(a, c.vm)
        <5>1. ASSUME c.job = "CHOWN" PROVE ~Given(a, c.vm)
          BY <1>1, <5>1, ChownGiven DEF GivenBack
        <5> QED BY <1>2, <2>2, <3>2, <5>1 DEF Pays, Given
      <4> QED BY <1>1, <1>2, <3>2, <4>1, <4>2, NothingForgotten
    <3> QED BY <1>3, <3>1, <3>2
  <2> QED BY <2>1, <2>2
<1>6. CASE c.job # "CHOWN"
  <2>1. ~GivenBack(c, a) /\ ~GivenBack(e, a)
    BY <1>4, <1>6 DEF GivenBack
  <2>2. VSum(a, m)' = VSum(a, m) /\ CSum(a, m)' = CSum(a, m) - ForCall(c, a, m) + ForCall(e, a, m)
    BY <1>1, <1>4, <2>1, MovedSums
  <2>3. ForCall(c, a, m) = (IF a \in {c.uid, c.gid} THEN Of(c.need, m) ELSE 0)
    BY <1>1, <1>6 DEF ForCall, Holds
  <2>4. ForCall(e, a, m) = (IF a = c.gid THEN Of(c.need, m) ELSE 0)
    BY <1>4, <1>6 DEF ForCall, Holds
  <2> QED BY <1>2, <1>3, <1>5, <2>2, <2>3, <2>4
<1>7. CASE c.job = "CHOWN"
  <2>1. CallsInv'
    BY user_quota_del_calls
  <2>2. /\ CSum(a, m)' = CSum(a, m) - ForCall(c, a, m) + ForCall(e, a, m)
        /\ VSum(a, m)' = VSum(a, m)
              + (IF Owns(a, c.vm) /\ ~GivenBack(e, a) THEN Of(c.need, m) ELSE 0)
              - (IF Owns(a, c.vm) /\ ~GivenBack(c, a) THEN Of(c.need, m) ELSE 0)
    BY <1>1, <1>4, <1>7, <2>1, ChownSums
  <2>3. ~GivenBack(c, a) /\ (GivenBack(e, a) <=> a = c.uid)
    BY <1>1, <1>4, <1>7 DEF GivenBack
  <2>4. ForCall(c, a, m) = ForCall(e, a, m)
    BY <1>1, <1>4, <1>7 DEF ForCall, Holds
  <2>5. ForCall(c, a, m) \in Int
    BY <1>2, ForCallType
  <2>6. a = c.uid => Owns(a, c.vm)
    BY <1>2, <1>7
  <2> QED BY <1>3, <1>5, <2>2, <2>3, <2>4, <2>5, <2>6
<1> QED BY <1>2, <1>6, <1>7

LEMMA group_quota_del_exact ==
  ASSUME CallsInv, Ledgers, NEW a \in Account, ExactFor(a), a \notin amiss, KeptIsAll,
         NEW c \in calls, group_quota_del(c)
  PROVE  ExactFor(a)'
<1> SUFFICES ASSUME NEW m \in Metric PROVE usage'[a][m] = VSum(a, m)' + CSum(a, m)'
  BY DEF ExactFor
<1>1. c.op = "GIVE_GROUP" /\ UNCHANGED vm /\ LedgerTypes
  BY DEF group_quota_del, Ledgers
<1>2. /\ c \in NewCalls /\ c.need \in AllNeeds /\ NoAccount \notin Account
      /\ c.uid = c.gid => c.uid = NoAccount
      /\ c.gid # NoAccount => c.gid \in Account
      /\ c.job = "ROLLBACK" => a \notin {c.uid, c.gid}
      /\ c.job = "CHOWN" => /\ c.vm \in VM
                            /\ c.gid # NoAccount => Owns(c.gid, c.vm)
  BY <1>1, GivesIsOf DEF Ledgers, Slips, RolledFits
<1>3. usage[a][m] = VSum(a, m) + CSum(a, m) /\ usage[a][m] \in Int /\ VSum(a, m) \in Int /\ CSum(a, m) \in Int
      /\ Of(c.need, m) \in Int
  BY <1>2, SumTypes, NeedTypes DEF ExactFor, Ledgers
<1>5. usage'[a][m] = usage[a][m] - (IF a = c.gid THEN Of(c.need, m) ELSE 0)
  <2>1. CASE c.gid = NoAccount
    BY <1>1, <1>2, <1>3, <2>1 DEF group_quota_del, quota_vars
  <2>2. CASE c.gid # NoAccount
    <3>1. usage'[a][m] = usage[a][m] - (IF a = c.gid /\ FamilyOf(m) \in kept[c.gid] THEN Of(c.need, m) ELSE 0)
      BY <1>1, <1>2, <2>2, Deleted DEF group_quota_del
    <3>2. ASSUME a = c.gid, FamilyOf(m) \notin kept[a] PROVE Of(c.need, m) = 0
      <4>1. c.job # "CHOWN" => Holds(c, a)
        BY <1>1, <3>2 DEF Holds
      <4>2. c.job = "CHOWN" => Pays(a, c.vm)
        <5>1. ASSUME c.job = "CHOWN" PROVE ~Given(a, c.vm)
          BY <1>1, <1>2, <2>2, <3>2, <5>1, ChownGiven DEF GivenBack
        <5> QED BY <1>2, <2>2, <3>2, <5>1 DEF Pays, Given
      <4> QED BY <1>1, <1>2, <3>2, <4>1, <4>2, NothingForgotten
    <3> QED BY <1>3, <3>1, <3>2
  <2> QED BY <2>1, <2>2
<1>6. CASE c.job # "CHOWN"
  <2>1. Goes(c) /\ ~GivenBack(c, a)
    BY <1>6 DEF GivenBack, group_quota_del
  <2>2. VSum(a, m)' = VSum(a, m) /\ CSum(a, m)' = CSum(a, m) - ForCall(c, a, m)
    BY <1>1, <2>1, EndedSums
  <2>3. ForCall(c, a, m) = (IF a = c.gid THEN Of(c.need, m) ELSE 0)
    BY <1>1, <1>6 DEF ForCall, Holds
  <2> QED BY <1>3, <1>5, <2>2, <2>3
<1>7. CASE c.job = "CHOWN"
  <2> DEFINE e == [c EXCEPT !.op = "SET_OWNER"]
  <2>1. CallsInv' /\ Becomes(c, e)
    BY <1>7, group_quota_del_calls DEF group_quota_del
  <2>2. e \in NewCalls /\ e.vm = c.vm /\ e.op = "SET_OWNER" /\ e.uid = c.uid /\ e.gid = c.gid
        /\ e.need = c.need /\ e.job = c.job /\ e.other = c.other
    BY <1>2 DEF NewCalls, Ops
  <2> HIDE DEF e
  <2>3. /\ CSum(a, m)' = CSum(a, m) - ForCall(c, a, m) + ForCall(e, a, m)
        /\ VSum(a, m)' = VSum(a, m)
              + (IF Owns(a, c.vm) /\ ~GivenBack(e, a) THEN Of(c.need, m) ELSE 0)
              - (IF Owns(a, c.vm) /\ ~GivenBack(c, a) THEN Of(c.need, m) ELSE 0)
    BY <1>1, <1>7, <2>1, <2>2, ChownSums
  <2>4. (GivenBack(c, a) <=> a = c.uid) /\ (GivenBack(e, a) <=> a \in {c.uid, c.gid})
    BY <1>1, <1>7, <2>2 DEF GivenBack
  <2>5. ForCall(c, a, m) = ForCall(e, a, m)
    BY <1>1, <1>7, <2>2 DEF ForCall, Holds
  <2>6. ForCall(c, a, m) \in Int
    BY <1>2, ForCallType
  <2>7. a = c.gid => Owns(a, c.vm) /\ a # c.uid
    BY <1>2, <1>7
  <2> QED BY <1>3, <1>5, <2>3, <2>4, <2>5, <2>6, <2>7
<1> QED BY <1>2, <1>6, <1>7

(* A VM of which nothing was given back changes, and no such call comes or *)
(* goes.                                                                   *)
NeedsOf(r, m) == Whole(r.cpu, r.nics)[m]
Lives(r)      == r.state \in {"POWEROFF", "RUNNING", "HOTPLUG"}

LEMMA VMSums ==
  ASSUME CallsInv, CallsInv', NEW v \in VM, NEW r \in VMRecord, BecomesVM(v, r), GoodVM(r),
         NEW a \in Account, NEW m \in Metric, \A w \in VM : Given(a, w)' <=> Given(a, w), ~Given(a, v)
  PROVE  /\ VSum(a, m)' = VSum(a, m)
              + (IF Lives(r) /\ a \in {r.uid, r.gid} THEN NeedsOf(r, m) ELSE 0)
              - (IF Owns(a, v) THEN Needs(v)[m] ELSE 0)
         /\ NeedsOf(r, m) \in Nat /\ Needs(v)[m] \in Nat
<1>1. VMTypes /\ VMTypes'
  BY DEF CallsInv
<1>2. vm'[v] = r /\ \A w \in VM \ {v} : vm'[w] = vm[w]
  BY <1>1, VMChanged DEF GoodVM
<1>3. VSum(a, m)' = VSum(a, m) + (Share(a, v, m)' - Share(a, v, m))
  BY <1>1, <1>2, VSumChanged
<1>4. Share(a, v, m) = IF Owns(a, v) THEN Needs(v)[m] ELSE 0
  BY <1>1, ShareIs
<1>5. Share(a, v, m)' = IF Lives(r) /\ a \in {r.uid, r.gid} THEN NeedsOf(r, m) ELSE 0
  <2>1. (Owns(a, v)' <=> Lives(r) /\ a \in {r.uid, r.gid}) /\ Needs(v)'[m] = NeedsOf(r, m)
    BY <1>2 DEF Owns, Alive, Lives, Needs, NeedsOf
  <2> QED BY <1>1, <2>1, ShareIsNext
<1>6. NeedsOf(r, m) \in Nat /\ Needs(v)[m] \in Nat /\ VSum(a, m) \in Int
  <2>1. r.cpu \in Nat /\ r.nics \in 0..MaxNics
    BY DEF VMRecord
  <2> QED BY <1>1, <2>1, WholeIs, NeedsWhole, VSumType DEF NeedsOf
<1> QED BY <1>3, <1>4, <1>5, <1>6

LEMMA NoneGiven ==
  ASSUME NEW v, NEW a, \A x \in calls : x.vm = v => x.job # "CHOWN"
  PROVE  ~Given(a, v)
  BY DEF Given, GivenBack

LEMMA NoneChowns ==
  ASSUME CallsInv, NEW c \in calls, c.job \in {"RESIZE", "ATTACH"}
  PROVE  \A x \in calls : x.vm = c.vm => x.job # "CHOWN"
  BY DEF CallsInv, Alone

(* A call that does not go on gives back what it was charged.              *)
LEMMA GivesExact ==
  ASSUME CallsInv, Ledgers, NEW a \in Account, ExactFor(a), NEW c \in calls, Gives(c), UNCHANGED <<vm, quota_vars>>,
         c.job \in {"ALLOCATE", "ATTACH"}, c.op \in {"INSERT", "HOTPLUG", "SET_NIC"}
  PROVE  ExactFor(a)'
<1> SUFFICES ASSUME NEW m \in Metric PROVE usage'[a][m] = VSum(a, m)' + CSum(a, m)'
  BY DEF ExactFor
<1>1. PICK e \in NewCalls : 
        /\ Becomes(c, e) /\ GoesOn(c, e)
        /\ e.op = "GIVE_USER" /\ e.job = "END" /\ e.uid = c.uid /\ e.gid = c.gid /\ e.need = c.need
  BY GivesBack
<1>2. ~GivenBack(c, a) /\ ~GivenBack(e, a) /\ ForCall(e, a, m) = ForCall(c, a, m) /\ e.vm = c.vm
  BY <1>1 DEF GivenBack, ForCall, Holds, GoesOn
<1>3. VSum(a, m)' = VSum(a, m) /\ CSum(a, m)' = CSum(a, m) - ForCall(c, a, m) + ForCall(e, a, m)
  BY <1>1, <1>2, MovedSums
<1>4. ForCall(c, a, m) \in Int
  BY CallFields, ForCallType
<1> QED BY <1>2, <1>3, <1>4, SumTypes DEF ExactFor, Ledgers, quota_vars

LEMMA pool_allocate_exact ==
  ASSUME CallsInv, Ledgers, NEW a \in Account, ExactFor(a), NEW c \in calls, pool_allocate(c)
  PROVE  ExactFor(a)'
<1>1. CallsInv' /\ c.op = "INSERT" /\ c.job = "ALLOCATE" /\ UNCHANGED quota_vars
  BY pool_allocate_calls
<1>2. CASE Gives(c) /\ UNCHANGED vm
  BY <1>1, <1>2, GivesExact
<1>3. ASSUME Goes(c), NEW v \in VM, NEW r \in VMRecord, BecomesVM(v, r), GoodVM(r), vm[v].state = "NONE",
             r.state = "POWEROFF", r.uid = c.uid, r.gid = c.gid, Whole(r.cpu, r.nics) = c.need
      PROVE  ExactFor(a)'
  <2> SUFFICES ASSUME NEW m \in Metric PROVE usage'[a][m] = VSum(a, m)' + CSum(a, m)'
    BY DEF ExactFor
  <2>1. calls' = calls \ {c} /\ CSum(a, m)' = CSum(a, m) - ForCall(c, a, m)
    BY <1>3, Gone DEF CallsInv
  <2>2. \A w \in VM : Given(a, w)' <=> Given(a, w)
    BY <1>1, <2>1, GivenGone DEF GivenBack
  <2>3. ~Given(a, v)
    BY <1>3, NoneGiven, CallFields DEF CallOK, ChownOK
  <2>4. /\ VSum(a, m)' = VSum(a, m)
              + (IF Lives(r) /\ a \in {r.uid, r.gid} THEN NeedsOf(r, m) ELSE 0)
              - (IF Owns(a, v) THEN Needs(v)[m] ELSE 0)
        /\ NeedsOf(r, m) \in Nat
    BY <1>1, <1>3, <2>2, <2>3, VMSums
  <2>5. Lives(r) /\ ~Owns(a, v)
    BY <1>3 DEF Lives, Owns, Alive
  <2>6. ForCall(c, a, m) = IF a \in {c.uid, c.gid} THEN NeedsOf(r, m) ELSE 0
    BY <1>1, <1>3 DEF ForCall, Holds, NeedsOf, Of, Whole
  <2> QED BY <1>1, <1>3, <2>1, <2>4, <2>5, <2>6, SumTypes DEF ExactFor, Ledgers, quota_vars
<1> QED BY <1>2, <1>3, pool_allocate_calls

LEMMA resize_set_exact ==
  ASSUME CallsInv, Ledgers, NEW a \in Account, ExactFor(a), NEW c \in calls, resize(c),
         vm[c.vm].state = "POWEROFF", Goes(c), vm' = [vm EXCEPT ![c.vm].cpu = c.cpu]
  PROVE  ExactFor(a)'
<1>1. CallsInv' /\ c.op = "RESIZE" /\ c.job = "RESIZE" /\ UNCHANGED quota_vars /\ Goes(c)
      /\ c.vm \in VM /\ vm[c.vm].state = "POWEROFF" /\ IsOwner(c)
      /\ c.cpu \in Nat /\ c.need = CpuChange(c.cpu - vm[c.vm].cpu)
  BY resize_calls
<1>2. PICK r \in VMRecord :
        /\ BecomesVM(c.vm, r) /\ GoodVM(r)
        /\ r.state = "POWEROFF" /\ r.uid = c.uid /\ r.gid = c.gid
        /\ r.cpu = c.cpu /\ r.nics = vm[c.vm].nics
  BY resize_calls
<1> SUFFICES ASSUME NEW m \in Metric PROVE usage'[a][m] = VSum(a, m)' + CSum(a, m)'
  BY DEF ExactFor
<1>3. calls' = calls \ {c} /\ CSum(a, m)' = CSum(a, m) - ForCall(c, a, m)
  BY <1>1, Gone DEF CallsInv
<1>4. \A w \in VM : Given(a, w)' <=> Given(a, w)
  BY <1>1, <1>3, GivenGone DEF GivenBack
<1>5. ~Given(a, c.vm)
  BY <1>1, NoneGiven, NoneChowns
<1>6. /\ VSum(a, m)' = VSum(a, m)
            + (IF Lives(r) /\ a \in {r.uid, r.gid} THEN NeedsOf(r, m) ELSE 0)
            - (IF Owns(a, c.vm) THEN Needs(c.vm)[m] ELSE 0)
      /\ NeedsOf(r, m) \in Nat /\ Needs(c.vm)[m] \in Nat
  BY <1>1, <1>2, <1>4, <1>5, VMSums
<1>7. Lives(r) /\ (Owns(a, c.vm) <=> a \in {c.uid, c.gid})
  BY <1>1, <1>2 DEF Lives, Owns, Alive, IsOwner
<1>8. ForCall(c, a, m) = IF a \in {c.uid, c.gid} THEN Of(c.need, m) ELSE 0
  BY <1>1 DEF ForCall, Holds
<1>9. Of(c.need, m) = NeedsOf(r, m) - Needs(c.vm)[m]
  <2>1. vm[c.vm].cpu \in Nat /\ vm[c.vm].nics \in Nat
    BY <1>1, VMFields DEF CallsInv
  <2>2. m = "CPU" => Of(c.need, m) = c.cpu - vm[c.vm].cpu
    BY <1>1 DEF CpuChange, Of
  <2>3. m # "CPU" => Of(c.need, m) = 0
    BY <1>1 DEF CpuChange, Of
  <2> QED BY <1>2, <2>1, <2>2, <2>3 DEF NeedsOf, Needs, Whole, Metric
<1> QED BY <1>1, <1>2, <1>3, <1>6, <1>7, <1>8, <1>9, SumTypes DEF ExactFor, Ledgers, quota_vars

(* What a roll-back gives back is of accounts it leaves amiss.             *)
LEMMA resize_exact ==
  ASSUME CallsInv, Ledgers, NEW a \in Account, ExactFor(a), a \notin amiss', NEW c \in calls, resize(c)
  PROVE  ExactFor(a)'
<1>1. /\ c.op = "RESIZE" /\ c.job = "RESIZE" /\ UNCHANGED quota_vars /\ c.other \in Halves
      /\ {c.uid, c.gid} \in SUBSET (Account \cup {NoAccount}) /\ a # NoAccount
  BY ResizeIs, CallFields, QuotasAssumption DEF Account
<1>2. CASE rollback(c, c.other, {c.uid, c.gid}) /\ UNCHANGED vm
  <2> SUFFICES ASSUME NEW m \in Metric PROVE usage'[a][m] = VSum(a, m)' + CSum(a, m)'
    BY DEF ExactFor
  <2>1. a \notin {c.uid, c.gid} /\ a \notin {c.other.uid, c.other.gid}
    BY <1>1, <1>2, RolledMarked DEF Ledgers
  <2>2. PICK d \in NewCalls : /\ Becomes(c, d) /\ GoesOn(c, d) /\ d.op = "GIVE_USER"
                              /\ d.job = "ROLLBACK" /\ d.uid = c.other.uid /\ d.gid = c.other.gid
    BY <1>1, <1>2, RolledBack
  <2>3. ~GivenBack(c, a) /\ ~GivenBack(d, a) /\ d.vm = c.vm
    BY <1>1, <2>2 DEF GivenBack, GoesOn
  <2>4. ForCall(d, a, m) = 0 /\ ForCall(c, a, m) = 0
    BY <1>1, <2>1, <2>2 DEF ForCall, Holds
  <2>5. VSum(a, m)' = VSum(a, m) /\ CSum(a, m)' = CSum(a, m) - ForCall(c, a, m) + ForCall(d, a, m)
    BY <1>2, <2>2, <2>3, MovedSums
  <2> QED BY <1>1, <2>4, <2>5, SumTypes DEF ExactFor, Ledgers, quota_vars
<1> QED BY <1>2, ResizeIs, resize_set_exact

LEMMA attach_nic_exact ==
  ASSUME CallsInv, Ledgers, NEW a \in Account, ExactFor(a), NEW c \in calls, attach_nic(c)
  PROVE  ExactFor(a)'
<1>1. CallsInv' /\ c.op = "HOTPLUG" /\ c.job = "ATTACH" /\ UNCHANGED quota_vars /\ c.vm \in VM
  BY attach_nic_calls
<1>2. CASE Gives(c) /\ UNCHANGED vm
  BY <1>1, <1>2, GivesExact
<1>3. ASSUME NEW r \in VMRecord, BecomesVM(c.vm, r), GoodVM(r), vm[c.vm].state = "RUNNING",
             r.state = "HOTPLUG", r.uid = vm[c.vm].uid, r.gid = vm[c.vm].gid,
             r.cpu = vm[c.vm].cpu, r.nics = vm[c.vm].nics,
             NEW e \in NewCalls, Becomes(c, e), e.op = "SET_NIC", e.job = "ATTACH", e.uid = c.uid,
             e.gid = c.gid, e.need = c.need
      PROVE  ExactFor(a)'
  <2> SUFFICES ASSUME NEW m \in Metric PROVE usage'[a][m] = VSum(a, m)' + CSum(a, m)'
    BY DEF ExactFor
  <2>1. PICK d : Replaced(c, d) /\ Like(d, e)
                 /\ CSum(a, m)' = CSum(a, m) - ForCall(c, a, m) + ForCall(e, a, m)
    BY <1>3, Became DEF CallsInv, Replaced
  <2>2. ForCall(e, a, m) = ForCall(c, a, m) /\ ForCall(c, a, m) \in Int
    BY <1>1, <1>3, CallFields, ForCallType DEF ForCall, Holds
  <2>3. d.job = "ATTACH" /\ calls' = (calls \ {c}) \cup {d}
    BY <1>3, <2>1 DEF Like, Replaced
  <2>4. \A w : Given(a, w)' <=> Given(a, w)
    <3>1. \A w : Given(a, w)' <=> \E x \in calls' : x.vm = w /\ GivenBack(x, a)
      BY DEF Given, GivenBack
    <3>2. ~GivenBack(d, a) /\ ~GivenBack(c, a)
      BY <1>1, <2>3 DEF GivenBack
    <3> QED BY <2>3, <3>1, <3>2 DEF Given
  <2>5. ~Given(a, c.vm)
    BY <1>1, NoneGiven, NoneChowns
  <2>6. /\ VSum(a, m)' = VSum(a, m)
              + (IF Lives(r) /\ a \in {r.uid, r.gid} THEN NeedsOf(r, m) ELSE 0)
              - (IF Owns(a, c.vm) THEN Needs(c.vm)[m] ELSE 0)
        /\ NeedsOf(r, m) \in Nat /\ Needs(c.vm)[m] \in Nat
    BY <1>1, <1>3, <2>4, <2>5, VMSums
  <2>7. (Lives(r) /\ a \in {r.uid, r.gid} <=> Owns(a, c.vm)) /\ NeedsOf(r, m) = Needs(c.vm)[m]
    BY <1>3 DEF Lives, Owns, Alive, NeedsOf, Needs
  <2> QED BY <1>1, <2>1, <2>2, <2>6, <2>7, SumTypes DEF ExactFor, Ledgers, quota_vars
<1> QED BY <1>2, <1>3, attach_nic_calls

LEMMA set_attach_nic_exact ==
  ASSUME CallsInv, Ledgers, NEW a \in Account, ExactFor(a), NEW c \in calls, set_attach_nic(c)
  PROVE  ExactFor(a)'
<1>1. CallsInv' /\ c.op = "SET_NIC" /\ c.job = "ATTACH" /\ UNCHANGED quota_vars /\ c.vm \in VM
      /\ vm[c.vm].state = "HOTPLUG" /\ IsOwner(c) /\ c.need = Lease
  BY set_attach_nic_calls
<1>2. PICK r \in VMRecord :
        /\ BecomesVM(c.vm, r) /\ GoodVM(r) /\ Alive(c.vm)
        /\ r.state \in {"HOTPLUG", "RUNNING"} /\ r.uid = c.uid /\ r.gid = c.gid
        /\ r.cpu = vm[c.vm].cpu
        /\ \/ Goes(c) /\ r.nics = vm[c.vm].nics + 1
           \/ Gives(c) /\ r.nics = vm[c.vm].nics
  BY set_attach_nic_calls
<1> SUFFICES ASSUME NEW m \in Metric PROVE usage'[a][m] = VSum(a, m)' + CSum(a, m)'
  BY DEF ExactFor
<1>3. ~GivenBack(c, a) /\ ForCall(c, a, m) = (IF a \in {c.uid, c.gid} THEN Of(Lease, m) ELSE 0)
  BY <1>1 DEF GivenBack, ForCall, Holds
<1>4. ~Given(a, c.vm)
  BY <1>1, NoneGiven, NoneChowns
<1>5. Lives(r) /\ (Owns(a, c.vm) <=> a \in {c.uid, c.gid})
  BY <1>1, <1>2 DEF Lives, Owns, IsOwner
<1>6. ASSUME \A w \in VM : Given(a, w)' <=> Given(a, w)
      PROVE  /\ VSum(a, m)' = VSum(a, m) + (IF a \in {c.uid, c.gid} THEN NeedsOf(r, m) - Needs(c.vm)[m] ELSE 0)
             /\ NeedsOf(r, m) \in Nat /\ Needs(c.vm)[m] \in Nat
  <2>1. /\ VSum(a, m)' = VSum(a, m)
              + (IF Lives(r) /\ a \in {r.uid, r.gid} THEN NeedsOf(r, m) ELSE 0)
              - (IF Owns(a, c.vm) THEN Needs(c.vm)[m] ELSE 0)
        /\ NeedsOf(r, m) \in Nat /\ Needs(c.vm)[m] \in Nat
    BY <1>1, <1>2, <1>4, <1>6, VMSums
  <2> QED BY <1>2, <1>5, <2>1, SumTypes DEF Ledgers
<1>7. vm[c.vm].cpu \in Nat /\ vm[c.vm].nics \in Nat
  BY <1>1, VMFields DEF CallsInv
<1>8. CASE Goes(c) /\ r.nics = vm[c.vm].nics + 1
  <2>1. calls' = calls \ {c} /\ CSum(a, m)' = CSum(a, m) - ForCall(c, a, m)
    BY <1>8, Gone DEF CallsInv
  <2>2. \A w \in VM : Given(a, w)' <=> Given(a, w)
    BY <1>3, <2>1, GivenGone
  <2>3. NeedsOf(r, m) - Needs(c.vm)[m] = Of(Lease, m)
    <3>1. m = "LEASES" => Of(Lease, m) = 1
      BY DEF Of, Lease
    <3>2. m # "LEASES" => Of(Lease, m) = 0
      BY DEF Of, Lease
    <3> QED BY <1>2, <1>7, <1>8, <3>1, <3>2 DEF NeedsOf, Needs, Whole, Metric
  <2> QED BY <1>1, <1>3, <1>6, <2>1, <2>2, <2>3, SumTypes DEF ExactFor, Ledgers, quota_vars
<1>9. CASE Gives(c) /\ r.nics = vm[c.vm].nics
  <2>1. PICK e \in NewCalls : 
          /\ Becomes(c, e) /\ GoesOn(c, e)
          /\ e.op = "GIVE_USER" /\ e.job = "END" /\ e.uid = c.uid /\ e.gid = c.gid /\ e.need = c.need
    BY <1>1, <1>9, GivesBack
  <2>2. PICK d : Replaced(c, d) /\ Like(d, e)
                 /\ CSum(a, m)' = CSum(a, m) - ForCall(c, a, m) + ForCall(e, a, m)
    BY <2>1, Became DEF CallsInv, Replaced
  <2>3. ForCall(e, a, m) = ForCall(c, a, m) /\ ForCall(c, a, m) \in Int
    BY <1>1, <2>1, CallFields, ForCallType DEF ForCall, Holds
  <2>4. d.vm = c.vm /\ ~GivenBack(d, a)
    BY <2>1, <2>2 DEF Like, GoesOn, GivenBack
  <2>5. \A w \in VM : Given(a, w)' <=> Given(a, w)
    BY <1>3, <2>2, <2>4, GivenMoved
  <2>6. NeedsOf(r, m) = Needs(c.vm)[m]
    BY <1>2, <1>9 DEF NeedsOf, Needs
  <2> QED BY <1>1, <1>6, <2>2, <2>3, <2>5, <2>6, SumTypes DEF ExactFor, Ledgers, quota_vars
<1> QED BY <1>2, <1>8, <1>9

(* A VM changes, and a call begins that gives back what it needs no more.  *)
LEMMA VMAndBegunExact ==
  ASSUME CallsInv, CallsInv', Ledgers, NEW a \in Account, ExactFor(a), UNCHANGED quota_vars, NEW v \in VM, Alive(v),
         \A x \in calls : x.vm = v => x.job # "CHOWN",
         NEW r \in VMRecord, BecomesVM(v, r), GoodVM(r), Lives(r) => r.uid = vm[v].uid /\ r.gid = vm[v].gid,
         NEW e \in NewCalls, Starts(e), e.op = "GIVE_USER", e.job = "END",
         e.uid = vm[v].uid, e.gid = vm[v].gid,
         \A m \in Metric : Of(e.need, m) = Needs(v)[m] - (IF Lives(r) THEN NeedsOf(r, m) ELSE 0)
  PROVE  ExactFor(a)'
<1> SUFFICES ASSUME NEW m \in Metric PROVE usage'[a][m] = VSum(a, m)' + CSum(a, m)'
  BY DEF ExactFor
<1>1. PICK d : calls' = calls \cup {d} /\ Like(d, e) /\ CSum(a, m)' = CSum(a, m) + ForCall(e, a, m)
  BY Started DEF CallsInv
<1>2. ~GivenBack(d, a)
  BY <1>1 DEF GivenBack, Like
<1>3. \A w \in VM : Given(a, w)' <=> Given(a, w)
  BY <1>1, <1>2, GivenStarted
<1>4. ~Given(a, v)
  BY NoneGiven
<1>5. /\ VSum(a, m)' = VSum(a, m)
            + (IF Lives(r) /\ a \in {r.uid, r.gid} THEN NeedsOf(r, m) ELSE 0)
            - (IF Owns(a, v) THEN Needs(v)[m] ELSE 0)
      /\ NeedsOf(r, m) \in Nat /\ Needs(v)[m] \in Nat
  BY <1>3, <1>4, VMSums
<1>6. Owns(a, v) <=> a \in {e.uid, e.gid}
  BY DEF Owns
<1>7. ForCall(e, a, m) = IF a \in {e.uid, e.gid} THEN Of(e.need, m) ELSE 0
  BY DEF ForCall, Holds
<1> QED BY <1>1, <1>5, <1>6, <1>7, SumTypes DEF ExactFor, Ledgers, quota_vars

LEMMA nic_goes_exact ==
  ASSUME CallsInv, Ledgers, NEW a \in Account, ExactFor(a), NEW v \in VM, nic_goes(v)
  PROVE  ExactFor(a)'
<1>1. CallsInv' /\ UNCHANGED quota_vars /\ Alive(v) /\ \A x \in calls : x.vm = v => x.job # "CHOWN"
  BY nic_goes_calls
<1>2. PICK r \in VMRecord :
        /\ BecomesVM(v, r) /\ GoodVM(r)
        /\ r.state = "RUNNING" /\ r.uid = vm[v].uid /\ r.gid = vm[v].gid
        /\ r.cpu = vm[v].cpu /\ r.nics = vm[v].nics - 1
  BY nic_goes_calls
<1>3. PICK e \in NewCalls :
        /\ Starts(e) /\ e.op = "GIVE_USER" /\ e.job = "END"
        /\ e.uid = vm[v].uid /\ e.gid = vm[v].gid /\ e.need = Lease
  BY nic_goes_calls
<1>4. Lives(r)
  BY <1>2 DEF Lives
<1>5. ASSUME NEW m \in Metric PROVE Of(e.need, m) = Needs(v)[m] - NeedsOf(r, m)
  <2>1. vm[v].cpu \in Nat /\ vm[v].nics \in Nat
    BY VMFields DEF CallsInv
  <2>2. m = "LEASES" => Of(e.need, m) = 1
    BY <1>3 DEF Of, Lease
  <2>3. m # "LEASES" => Of(e.need, m) = 0
    BY <1>3 DEF Of, Lease
  <2> QED BY <1>2, <2>1, <2>2, <2>3 DEF NeedsOf, Needs, Whole, Metric
<1> QED BY <1>1, <1>2, <1>3, <1>4, <1>5, VMAndBegunExact

LEMMA vm_del_exact ==
  ASSUME Rash = {}, CallsInv, Ledgers, NEW a \in Account, ExactFor(a), NEW v \in VM, vm_del(v)
  PROVE  ExactFor(a)'
<1>1. CallsInv' /\ UNCHANGED quota_vars /\ Alive(v) /\ \A x \in calls : x.vm = v => x.job # "CHOWN"
  BY vm_del_calls
<1>2. PICK r \in VMRecord : BecomesVM(v, r) /\ GoodVM(r) /\ r.state = "DONE"
  BY vm_del_calls
<1>3. PICK e \in NewCalls :
        /\ Starts(e) /\ e.op = "GIVE_USER" /\ e.job = "END"
        /\ e.uid = vm[v].uid /\ e.gid = vm[v].gid /\ e.need = Needs(v)
  BY vm_del_calls
<1>4. ~Lives(r)
  BY <1>2 DEF Lives
<1>5. ASSUME NEW m \in Metric PROVE Of(e.need, m) = Needs(v)[m] /\ Needs(v)[m] \in Nat
  BY <1>3, NeedsWhole DEF CallsInv, Of
<1>6. \A m \in Metric : Of(e.need, m) = Needs(v)[m] - (IF Lives(r) THEN NeedsOf(r, m) ELSE 0)
  BY <1>4, <1>5
<1> QED BY <1>1, <1>2, <1>3, <1>4, <1>6, VMAndBegunExact

(* The VM changes to the owner that was charged, from the one who was      *)
(* given back.                                                             *)
LEMMA set_owner_exact ==
  ASSUME CallsInv, Ledgers, NEW a \in Account, ExactFor(a), NEW c \in calls, set_owner(c)
  PROVE  ExactFor(a)'
<1>1. /\ CallsInv' /\ c.op = "SET_OWNER" /\ c.job = "CHOWN" /\ UNCHANGED quota_vars /\ Goes(c)
      /\ c.vm \in VM /\ Alive(c.vm)
  BY set_owner_calls
<1>2. PICK r \in VMRecord :
        /\ BecomesVM(c.vm, r) /\ GoodVM(r) /\ r.state = vm[c.vm].state
        /\ r.uid = (IF c.other.uid = NoAccount THEN vm[c.vm].uid ELSE c.other.uid)
        /\ r.gid = (IF c.other.gid = NoAccount THEN vm[c.vm].gid ELSE c.other.gid)
        /\ r.cpu = vm[c.vm].cpu /\ r.nics = vm[c.vm].nics
  BY set_owner_calls
<1> SUFFICES ASSUME NEW m \in Metric PROVE usage'[a][m] = VSum(a, m)' + CSum(a, m)'
  BY DEF ExactFor
<1>3. calls' = calls \ {c} /\ CSum(a, m)' = CSum(a, m) - ForCall(c, a, m)
  BY <1>1, Gone DEF CallsInv
<1>4. /\ Given(a, c.vm) <=> a \in {c.uid, c.gid}
      /\ ~Given(a, c.vm)'
      /\ \A w : w # c.vm => (Given(a, w)' <=> Given(a, w))
  BY <1>1, <1>3, ChownGiven DEF GivenBack
<1>5. VMTypes /\ VMTypes' /\ c.need = Needs(c.vm)
      /\ OldAndNew(c.uid, c.other.uid, vm[c.vm].uid) /\ OldAndNew(c.gid, c.other.gid, vm[c.vm].gid)
  BY <1>1, CallFields DEF CallsInv, CallOK, ChownOK
<1>6. vm'[c.vm] = r /\ \A w \in VM \ {c.vm} : vm'[w] = vm[w]
  BY <1>1, <1>2, <1>5, VMChanged DEF GoodVM
<1>7. VSum(a, m)' = VSum(a, m) + (Share(a, c.vm, m)' - Share(a, c.vm, m))
  BY <1>1, <1>4, <1>5, <1>6, VSumChanged
<1>8. Needs(c.vm)[m] \in Nat /\ Of(c.need, m) = Needs(c.vm)[m]
  BY <1>1, <1>5, NeedsWhole DEF Of
<1>9. Share(a, c.vm, m) = IF a \in {vm[c.vm].uid, vm[c.vm].gid} /\ a \notin {c.uid, c.gid}
                          THEN Needs(c.vm)[m] ELSE 0
  BY <1>1, <1>4, <1>5, ShareIs DEF Owns
<1>10. Share(a, c.vm, m)' = IF a \in {r.uid, r.gid} THEN Needs(c.vm)[m] ELSE 0
  <2>1. (Owns(a, c.vm)' <=> a \in {r.uid, r.gid}) /\ Needs(c.vm)'[m] = Needs(c.vm)[m]
    BY <1>1, <1>2, <1>6 DEF Owns, Alive, Needs
  <2> QED BY <1>1, <1>4, <1>5, <2>1, ShareIsNext
<1>11. ForCall(c, a, m) = IF a \in {c.other.uid, c.other.gid} THEN Needs(c.vm)[m] ELSE 0
  BY <1>1, <1>8 DEF ForCall, Holds
<1>12. /\ a # NoAccount /\ NoAccount \notin User /\ NoAccount \notin Group /\ User \cap Group = {}
       /\ vm[c.vm].uid \in User /\ vm[c.vm].gid \in Group
       /\ c.other.uid \in User \cup {NoAccount} /\ c.other.gid \in Group \cup {NoAccount}
       /\ c.uid \in User \cup {NoAccount} /\ c.gid \in Group \cup {NoAccount}
  BY <1>1, <1>5, QuotasAssumption, VMFields, CallFields DEF Account, Alive
<1>13. /\ a \in {r.uid, r.gid} <=> \/ a \in {c.other.uid, c.other.gid}
                                   \/ a \in {vm[c.vm].uid, vm[c.vm].gid} /\ a \notin {c.uid, c.gid}
       /\ ~(a \in {c.other.uid, c.other.gid} /\ a \in {vm[c.vm].uid, vm[c.vm].gid} /\ a \notin {c.uid, c.gid})
  BY <1>2, <1>5, <1>12 DEF OldAndNew
<1> QED BY <1>1, <1>3, <1>7, <1>8, <1>9, <1>10, <1>11, <1>13, SumTypes DEF ExactFor, Ledgers, quota_vars

-----------------------------------------------------------------------------
(* The ledgers are exact                                                   *)

LEMMA ExactStep ==
  ASSUME Rash = {}, CallsInv, Ledgers, LeasesAsMeant, Exact, KeptIsAll, [Next]_vars
  PROVE  Exact'
<1> SUFFICES ASSUME NEW a \in Account \ amiss' PROVE ExactFor(a)'
  BY DEF Exact
<1>0. a \in Account /\ a \notin amiss /\ a \notin amiss' /\ ExactFor(a)
  BY SlipsStep DEF Ledgers, Exact
<1>1. CASE UNCHANGED <<vm, usage, calls>>
  BY <1>0, <1>1 DEF ExactFor, VSum, CSum, ForVMs, ForCalls, Pays, Owns, Alive, Needs
<1>2. ASSUME NEW u \in User, vm_allocate(u) \/ \E v \in VM : vm_attach_nic(u, v) PROVE ExactFor(a)'
  BY <1>0, <1>2, vm_allocate_calls, vm_attach_nic_calls, CheckBegunExact
<1>3. ASSUME NEW v \in VM, \/ vm_start(v) \/ vm_poweroff(v) \/ detach_nic(v) \/ nic_stays(v)
      PROVE  ExactFor(a)'
  BY <1>0, <1>3, StateStepsExact
<1>4. ASSUME NEW v \in VM, \/ \E asker \in Askers : vm_resize(v, asker)
                           \/ \E new \in Owners : vm_chown(v, new)
      PROVE  ExactFor(a)'
  BY <1>0, <1>4, vm_resize_calls, vm_chown_calls, CheckBegunExact
<1>5. ASSUME NEW v \in VM, nic_goes(v) \/ vm_del(v) PROVE ExactFor(a)'
  BY <1>0, <1>5, nic_goes_exact, vm_del_exact
<1>6. ASSUME NEW c \in calls, CallStep(c) PROVE ExactFor(a)'
  BY ZenonT(60), <1>0, <1>6, user_quota_authorization_exact, group_quota_authorization_exact, user_quota_del_exact,
     group_quota_del_exact, pool_allocate_exact, resize_exact, attach_nic_exact, set_attach_nic_exact,
     set_owner_exact DEF CallStep
<1>7. ASSUME NEW s \in Settings, UserSetQuota(s) \/ GroupSetQuota(s) \/ QuotaUpdate(s)
      PROVE  UNCHANGED <<vm, usage, calls>>
  BY <1>7 DEF UserSetQuota, GroupSetQuota, QuotaUpdate, set_quota
<1> QED BY <1>1, <1>2, <1>3, <1>4, <1>5, <1>6, <1>7 DEF Next, vars

LEMMA InitExact ==
  ASSUME Init PROVE Exact
<1> SUFFICES ASSUME NEW a \in Account, NEW m \in Metric PROVE usage[a][m] = VSum(a, m) + CSum(a, m)
  BY DEF Exact, ExactFor
<1>1. usage[a][m] = 0 /\ calls = {} /\ \A v \in VM : vm[v].state = "NONE"
  BY DEF Init
<1>2. CSum(a, m) = 0
  BY <1>1, TotalEmpty DEF CSum
<1> PICK f : f = ForVMs(a, m)
  OBVIOUS
<1>3. \A v \in VM : f[v] = 0
  BY <1>1 DEF ForVMs, Pays, Owns, Alive
<1>4. Total(f, VM) = 0
  BY <1>3, TotalOfNothing, QuotasAssumption
<1> QED BY <1>1, <1>2, <1>4 DEF VSum

LEMMA LeasesAsMeantStep ==
  ASSUME LeasesWhole, CallsInv, Ledgers, LeasesAsMeant, [Next]_vars
  PROVE  LeasesAsMeant'
<1>1. CASE MaxNics <= 1
  BY <1>1 DEF LeasesAsMeant
<1>2. CASE ~(MaxNics <= 1)
  <2>1. /\ NeverLimits(User, "USERS", "LEASES") /\ NeverLimits(Group, "GROUPS", "LEASES")
        /\ NeverLimited(User, "USERS", "LEASES") /\ NeverLimited(Group, "GROUPS", "LEASES")
    BY <1>2 DEF LeasesWhole, LeasesAsMeant
  <2>2. NeverLimited(User, "USERS", "LEASES")' /\ NeverLimited(Group, "GROUPS", "LEASES")'
    BY <2>1, NeverLimitedStep, Metrics DEF Ledgers
  <2> QED BY <2>2 DEF LeasesAsMeant
<1> QED BY <1>1, <1>2

LEMMA QuotasInvariant ==
  ASSUME Rash = {}, LeasesWhole PROVE Spec => []QInv
<1>1. Init => CallsInv /\ Ledgers
  BY InitCalls, InitLedgers
<1>2. Init => LeasesAsMeant /\ Exact /\ KeptIsAll
  BY InitExact, InitLedgers, InitNeverLimited DEF LeasesWhole, LeasesAsMeant
<1>3. (LeasesAsMeant /\ Exact /\ KeptIsAll) /\ (CallsInv /\ Ledgers) /\ [Next]_vars
        => (LeasesAsMeant /\ Exact /\ KeptIsAll)'
  <2> SUFFICES ASSUME LeasesAsMeant, Exact, KeptIsAll, CallsInv, Ledgers, [Next]_vars
               PROVE  LeasesAsMeant' /\ Exact' /\ KeptIsAll'
    OBVIOUS
  <2>1. KeptIsAll'
    BY LedgersStep DEF Ledgers
  <2>2. Exact'
    BY ExactStep
  <2> QED BY <2>1, <2>2, LeasesAsMeantStep
<1>4. Spec => [](CallsInv /\ Ledgers)
  BY CallsAndLedgers
<1>5. (LeasesAsMeant /\ Exact /\ KeptIsAll) /\ (CallsInv /\ Ledgers) => QInv
  BY DEF QInv
<1> QED BY <1>1, <1>2, <1>3, <1>4, <1>5, PTL DEF Spec

LEMMA TypesAreOK ==
  ASSUME CallsInv, Ledgers PROVE TypeOK
<1>1. ASSUME NEW c \in calls
      PROVE  /\ [c EXCEPT !.need = [m \in Metric |-> Of(c.need, m)]] \in CallRecord
             /\ DOMAIN c.need \subseteq Metric
             /\ c.op \in {"RESIZE", "HOTPLUG", "SET_NIC", "SET_OWNER"} => c.vm \in VM
  <2>1. c \in NewCalls /\ c.copy \in 1..MaxCalls /\ CallOK(c) /\ c.need \in AllNeeds
    BY CallFields DEF CallsInv, CallTypes, CallOfCopy
  <2>2. [m \in Metric |-> Of(c.need, m)] \in [Metric -> Int] /\ DOMAIN c.need \subseteq Metric
    BY <2>1, NeedTypes
  <2>3. c.op \in {"RESIZE", "HOTPLUG", "SET_NIC", "SET_OWNER"} => c.job \in {"RESIZE", "ATTACH", "CHOWN"}
    BY <2>1, CallFields DEF CallOK, OpsOf, Jobs
  <2>4. c.job \in {"RESIZE", "ATTACH", "CHOWN"} => c.vm \in VM
    BY <2>1 DEF CallOK, ResizeOK, AttachOK, ChownOK
  <2>5. [c EXCEPT !.need = [m \in Metric |-> Of(c.need, m)]] \in CallRecord
    <3> PICK need \in [Metric -> Int] : need = [m \in Metric |-> Of(c.need, m)]
      BY <2>2
    <3>1. [c EXCEPT !.need = need] \in CallRecord
      BY <2>1 DEF NewCalls, CallRecord, Ops, Jobs, Halves
    <3> QED BY <3>1
  <2> QED BY <2>2, <2>3, <2>4, <2>5
<1>2. VMTypes
  BY DEF CallsInv
<1> QED BY <1>1, <1>2 DEF TypeOK, VMTypes, LedgerTypes, Ledgers, Slips

(* Every account is charged at every moment for the VMs it owns and for    *)
(* what its requests under way have charged, and what has no attribute any *)
(* more said nothing: for any users, groups, VMs, limits, settings and     *)
(* resizes, as long as nobody is refused a part of a VM's leases.  Of the  *)
(* accounts only those may be charged amiss that a resize which was rolled *)
(* back has charged, or that its roll-back was given to.                   *)
THEOREM LedgersAreExact ==
  ASSUME Rash = {}, LeasesWhole PROVE StateSpec => []LedgersExact
<1>1. QInv => LedgersExact
  BY TypesAreOK DEF QInv, Exact, ExactFor, KeptIsAll, LedgersExact, VSum, CSum
<1>2. Spec => []QInv
  BY QuotasInvariant
<1> QED BY <1>1, <1>2, AccountsAlone, PTL

(* Whenever no request is under way, onedb fsck finds what it calculates   *)
(* for every account that no roll-back of a resize has touched.            *)
THEOREM FsckFindsQuotas ==
  ASSUME Rash = {}, LeasesWhole PROVE StateSpec => []FsckQuotas
<1>1. QInv => FsckQuotas
  <2> SUFFICES ASSUME QInv, calls = {}, NEW a \in Account \ amiss, NEW m \in Metric
               PROVE  usage[a][m] = calculate_quotas(a, m)
    BY DEF FsckQuotas
  <2>1. CSum(a, m) = 0
    BY TotalEmpty DEF CSum
  <2>2. ForVMs(a, m) = [v \in VM |-> IF Owns(a, v) THEN Needs(v)[m] ELSE 0]
    BY DEF ForVMs, Pays
  <2>3. VSum(a, m) = calculate_quotas(a, m)
    BY <2>2 DEF VSum, calculate_quotas
  <2>4. usage[a][m] = VSum(a, m) + CSum(a, m) /\ VSum(a, m) \in Int
    BY VSumType DEF QInv, Exact, ExactFor, CallsInv
  <2> QED BY <2>1, <2>3, <2>4
<1>2. Spec => []QInv
  BY QuotasInvariant
<1> QED BY <1>1, <1>2, AccountsAlone, PTL
=============================================================================
