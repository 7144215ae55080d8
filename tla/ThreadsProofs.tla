---------------------------- MODULE ThreadsProofs ----------------------------
(***************************************************************************)
(* Theorems about the threads of the core: those that look for objects in  *)
(* the cache of a pool, and those that wait for the answer of a driver.    *)
(***************************************************************************)
EXTENDS CoreThreads, FiniteSetTheorems, TLAPS

-----------------------------------------------------------------------------
(***************************************************************************)
(* What holds of the cache of a pool and of the locks of its objects, for  *)
(* any number of threads, objects and names, as long as nothing happens of *)
(* what RashKinds lists.                                                   *)
(*                                                                         *)
(* OneCopy and PointersLive are not inductive: that get never makes a      *)
(* second copy, and that replace never frees an object in use, follows     *)
(* from where each thread is, from whose the mutex of the pool is, and     *)
(* from the queue of the replacement, which has each object once.          *)
(***************************************************************************)

Careful == RashKinds \cap Rash = {}

(* A thread keeps the mutex of the pool while it waits for an object, and  *)
(* while it makes room.                                                    *)
Inside    == {"LOCK", "EVICT", "REPLACE"}
MutexFits == \A t \in Thread : mutex = t <=> thread[t].at \in Inside

(* Between the change of a name and that of the index, the object is found *)
(* under the name it had.                                                  *)
Renamed(u, p) == thread[u].at = "INDEX" /\ thread[u].oid = objects[p].oid

IndexFits ==
  /\ \A p \in Ptr : objects[p].live =>
       /\ pool[objects[p].oid] = p /\ objects[p].oid <= lastOID
       /\ rows[objects[p].oid] = IF objects[p].valid THEN objects[p].name ELSE NoName
       /\ name_pool[objects[p].name] = p \/ \E u \in Thread : Renamed(u, p)
  /\ \A o \in OID : pool[o] # Null => objects[pool[o]].live /\ objects[pool[o]].oid = o
  /\ \A n \in Name : name_pool[n] # Null =>
       /\ objects[name_pool[n]].live
       /\ \/ objects[name_pool[n]].name = n
          \/ \E u \in Thread : Renamed(u, name_pool[n]) /\ thread[u].name = n

RowsFit ==
  /\ \A o, p \in Existing : rows[o] = rows[p] => o = p
  /\ \A o \in Existing : o <= lastOID

(* Each object of the pool is in the queue, once; what else is in it was   *)
(* deleted.                                                                *)
QueueFits ==
  /\ \A o \in OID : pool[o] # Null => \E k \in DOMAIN oid_queue : oid_queue[k] = o
  /\ \A k, m \in DOMAIN oid_queue : oid_queue[k] = oid_queue[m] => k = m
  /\ \A k \in DOMAIN oid_queue :
       oid_queue[k] <= lastOID /\ (pool[oid_queue[k]] = Null => oid_queue[k] \notin Existing)

InCache  == {o \in OID : pool[o] # Null}
RoomFits ==
  /\ Cardinality(InCache) <= MaxPool + 1
  /\ At("REPLACE") = {} => Cardinality(InCache) <= MaxPool

CacheFits == IndexFits /\ RowsFit /\ QueueFits /\ RoomFits

(* The name an object is about to take is nobody else's.                   *)
NameFree(n) == name_pool[n] = Null /\ Named(n) = {}

(* What a thread asked for, as far as it has come.                         *)
AskFits(x) ==
  /\ x.op = "NONE" <=> x.at = "IDLE"
  /\ x.op \in ById \cup {"RENAME_CHECK"} => x.oid \in OID
  /\ x.oid \in OID => x.oid <= lastOID
  /\ x.op \in {"FIND", "ALLOCATE"} => x.name \in Name /\ x.oid = -1
  /\ x.op \in Renames => x.new \in Name
  /\ x.op \in {"RENAME_CHECK", "RENAME"} =>
       /\ x.name \in Name /\ x.name # x.new
       /\ rows[x.oid] = IF x.at = "INDEX" THEN x.new ELSE x.name
  /\ x.op = "RENAME" =>
       IF x.at = "INDEX"
       THEN /\ pool[x.oid] # Null /\ name_pool[x.name] = pool[x.oid] /\ name_pool[x.new] = Null
       ELSE NameFree(x.new)

(* Where it is.                                                            *)
StageFits(x) ==
  /\ x.at = "PEEK" \/ x.at = "INSERT" => x.op = "ALLOCATE"
  /\ x.op = "ALLOCATE" => x.at \notin {"LOCK", "HOLD"}
  /\ x.at = "AGAIN" => x.op = "DEPLOY"
  /\ x.at = "INDEX" => x.op = "RENAME"
  /\ x.at # "CRASHED"

(* And the object it has.                                                  *)
HeadFree(o) == \A m \in DOMAIN oid_queue : oid_queue[m] = o =>
  \E k \in 1..(m-1) : pool[oid_queue[k]] # Null /\ objects[pool[oid_queue[k]]].holder = Nobody

Has(t) ==
  /\ IF thread[t].at \in {"IDLE", "GET", "INSERT", "INDEX"} THEN thread[t].ptr = Null
     ELSE thread[t].ptr \in Ptr /\ Object(t).live
  /\ thread[t].at = "HOLD" => Object(t).holder = t
  /\ thread[t].at = "REPLACE" => Object(t).holder = IF thread[t].op = "ALLOCATE" THEN Nobody ELSE t
  /\ thread[t].at \in {"HOLD", "REPLACE"} => Object(t).valid

HasIts(t) ==
  /\ thread[t].at \in {"LOCK", "HOLD", "REPLACE"} /\ thread[t].op \in ById => Object(t).oid = thread[t].oid
  /\ thread[t].at = "LOCK" /\ thread[t].op = "RENAME_CHECK" =>
       Object(t).valid /\ Object(t).name = thread[t].new

MakesWay(t) == thread[t].at = "EVICT" =>
  /\ thread[t].ptr = InTheWay(t) /\ ~Object(t).valid
  /\ thread[t].op \in ById => pool[thread[t].oid] = Null /\ thread[t].oid \in Existing

ObjectFits(t) ==
  /\ Has(t) /\ HasIts(t) /\ MakesWay(t)
  /\ thread[t].at \in {"EVICT", "REPLACE"} => Unindexed = {}
  /\ thread[t].at = "REPLACE" /\ thread[t].op = "ALLOCATE" => HeadFree(Object(t).oid)

ThreadFits(t) == AskFits(thread[t]) /\ StageFits(thread[t]) /\ ObjectFits(t)

(* No two do what goes wrong.                                              *)
Apart(x, y) == ~Races(x, y) /\ ~DeletesRenamed(x, y)
AllApart == \A t, u \in Thread : t # u => Apart(thread[t], thread[u])

PoolInv ==
  /\ TypeOK /\ MutexFits /\ CacheFits /\ AllApart
  /\ \A t \in Thread : ThreadFits(t)

-----------------------------------------------------------------------------
(* Types *)

LEMMA LiveObject ==
  ASSUME TypeOK, NEW p \in Ptr, objects[p].live
  PROVE  /\ objects[p].oid \in OID /\ objects[p].oid \in Nat /\ objects[p].name \in Name
         /\ objects[p].valid \in BOOLEAN /\ objects[p].holder \in Thread \cup {Nobody}
<1>1. objects[p] \in Objects /\ objects[p] # Freed
  BY DEF TypeOK, Freed
<1>2. QED BY <1>1, PoolAssumption DEF Objects

LEMMA SetThread ==
  ASSUME TypeOK, NEW t \in Thread, NEW y \in Threads, Set(t, y)
  PROVE  /\ thread' \in [Thread -> Threads] /\ thread'[t] = y
         /\ \A u \in Thread \ {t} : thread'[u] = thread[u]
BY DEF TypeOK, Set

LEMMA ThreadParts ==
  ASSUME TypeOK, NEW t \in Thread
  PROVE  /\ thread[t] \in Threads /\ thread[t].op \in ByName \cup ById \cup {"NONE"}
         /\ thread[t].at \in Stage /\ thread[t].oid \in OID \cup {-1}
         /\ thread[t].name \in Name \cup {NoName} /\ thread[t].new \in Name \cup {NoName}
         /\ thread[t].ptr \in Ptr \cup {Null}
BY DEF TypeOK, Threads

LEMMA QueueParts ==
  ASSUME TypeOK
  PROVE  /\ \A k \in DOMAIN oid_queue : oid_queue[k] \in OID /\ pool[oid_queue[k]] \in Ptr \cup {Null}
         /\ \A m \in DOMAIN oid_queue : \A k \in 1..(m-1) : k \in DOMAIN oid_queue
         /\ DOMAIN oid_queue = 1..Len(oid_queue) /\ Len(oid_queue) \in Nat
BY DEF TypeOK

LEMMA IdleParts ==
  /\ Idle \in Threads /\ Idle.op = "NONE" /\ Idle.at = "IDLE" /\ Idle.ptr = Null
  /\ Idle.oid = -1 /\ Idle.name = NoName /\ Idle.new = NoName
BY DEF Idle, Threads, Stage

(* A thread that is done fits.                                             *)
LEMMA IdleFits ==
  ASSUME NEW t \in Thread, thread'[t] = Idle
  PROVE  ThreadFits(t)'
<1>1. AskFits(Idle)' /\ StageFits(Idle)
  BY IdleParts, PoolAssumption DEF AskFits, StageFits, ById, Renames
<1>2. ObjectFits(t)'
  BY IdleParts DEF ObjectFits, Has, HasIts, MakesWay
<1>3. QED BY <1>1, <1>2 DEF ThreadFits, StageFits

-----------------------------------------------------------------------------
(* Threads that keep apart *)

About(x, n, table) ==
  n # NoName /\ (n = x.name \/ n = x.new \/ (x.oid \in OID /\ n = table[x.oid]))

LEMMA NamesIn ==
  ASSUME NEW t \in Thread, NEW n
  PROVE  /\ n \in NamesOf(thread[t]) <=> About(thread[t], n, rows)
         /\ n \in NamesOf(thread[t])' <=> About(thread'[t], n, rows')
BY DEF NamesOf, About

Named3(op) == op \in ByName \cup Renames \cup {"DELETE"}

(* A request that goes on is about no more names than it was.              *)
GoesOn(x, y, table) ==
  \/ y.op = "NONE"
  \/ /\ y.op \in Renames => x.op \in Renames
     /\ y.op \in ByName => x.op \in ByName \cup Renames
     /\ y.op = "DELETE" => x.op = "DELETE"
     /\ y.oid = x.oid
     /\ Named3(y.op) => \A n : About(y, n, table) => About(x, n, rows)

LEMMA ApartKept ==
  ASSUME AllApart, \A t \in Thread : GoesOn(thread[t], thread'[t], rows')
  PROVE  AllApart'
<1> SUFFICES ASSUME NEW u \in Thread, NEW w \in Thread, u # w PROVE Apart(thread[u], thread[w])'
  BY DEF AllApart
<1>1. GoesOn(thread[u], thread'[u], rows') /\ GoesOn(thread[w], thread'[w], rows')
  OBVIOUS
<1>2. Apart(thread[u], thread[w])
  BY DEF AllApart
<1>3. ~Races(thread[u], thread[w])'
  BY <1>1, <1>2, NamesIn DEF Apart, Races, GoesOn, Named3, ByName, Renames
<1>4. ~DeletesRenamed(thread[u], thread[w])'
  BY <1>1, <1>2, NamesIn DEF Apart, DeletesRenamed, GoesOn, Named3, ByName, Renames
<1>5. QED BY <1>3, <1>4 DEF Apart

(* What two threads that keep apart are not.                               *)
LEMMA NotTogether ==
  ASSUME PoolInv, NEW t \in Thread, NEW u \in Thread, u # t, thread[t].op \in Renames
  PROVE  /\ thread[u].op \in ByName \cup Renames =>
              \A n : ~(About(thread[t], n, rows) /\ About(thread[u], n, rows))
         /\ thread[u].op = "DELETE" =>
              /\ thread[u].oid # thread[t].oid
              /\ \A n : ~(About(thread[t], n, rows) /\ About(thread[u], n, rows))
<1>1. Apart(thread[t], thread[u])
  BY DEF PoolInv, AllApart
<1>2. QED BY <1>1, NamesIn DEF Apart, Races, DeletesRenamed, ByName, Renames

-----------------------------------------------------------------------------
(* Steps of a thread that has an object, or none, without the mutex *)

(* What a thread does with the object whose lock it has.                   *)
Touched(t, p) ==
  /\ objects[p].live /\ objects[p].valid /\ objects[p].holder = t
  /\ objects'[p].live /\ objects'[p].oid = objects[p].oid /\ objects'[p].holder = Nobody

(* Another thread keeps what it has.                                       *)
LEMMA OthersKeepObjects ==
  ASSUME PoolInv, NEW t \in Thread, NEW u \in Thread, u # t, thread'[u] = thread[u],
         UNCHANGED cache,
         \A p \in Ptr : objects'[p] = objects[p] \/ Touched(t, p),
         \A o \in OID : \/ rows'[o] = rows[o]
                        \/ \E p \in Ptr : Touched(t, p) /\ objects[p].oid = o,
         thread[u].at \in {"EVICT", "REPLACE"} => Unindexed' \subseteq Unindexed,
         \A p \in Ptr : Touched(t, p) /\ thread[u].op = "RENAME_CHECK" /\ objects[p].name = thread[u].new =>
           objects'[p].valid /\ objects'[p].name = objects[p].name
  PROVE  ObjectFits(u)'
<1> DEFINE x == thread[u]
<1>0. TypeOK /\ ObjectFits(u) /\ IndexFits /\ Nobody \notin Thread /\ Null \notin Ptr
  BY PoolAssumption DEF PoolInv, ThreadFits, CacheFits
<1>1. /\ IF x.at \in {"IDLE", "GET", "INSERT", "INDEX"} THEN x.ptr = Null
         ELSE x.ptr \in Ptr /\ objects[x.ptr].live /\ objects'[x.ptr].live
      /\ x.ptr \in Ptr /\ objects[x.ptr].live => objects'[x.ptr].oid = objects[x.ptr].oid
  BY <1>0 DEF ObjectFits, Has, Object, Touched
<1>2. x.at \in {"HOLD", "REPLACE", "EVICT"} => objects'[x.ptr] = objects[x.ptr]
  <2>1. x.at \in {"HOLD", "REPLACE"} => x.ptr \in Ptr /\ objects[x.ptr].holder # t
    BY <1>0 DEF ObjectFits, Has, HasIts, MakesWay, Object
  <2>2. x.at = "EVICT" => x.ptr \in Ptr /\ ~objects[x.ptr].valid
    BY <1>0 DEF ObjectFits, Has, HasIts, MakesWay, Object
  <2>3. QED BY <2>1, <2>2 DEF Touched
<1>3. ASSUME x.at = "EVICT" 
      PROVE  InTheWay(u)' = InTheWay(u) /\ (x.op \in ById => x.oid \in Existing')
  <2>1. CASE x.op \in ByName
    BY <2>1, <1>0 DEF InTheWay, Cached, Key, cache, ByName, ById
  <2>2. CASE x.op \notin ByName
    <3>1. x.op \in ById
      BY <2>2, <1>0, <1>3, ThreadParts DEF PoolInv, ThreadFits, AskFits
    <3>2. pool[x.oid] = Null /\ x.oid \in Existing /\ x.oid \in OID
      BY <1>0, <1>3, <3>1 DEF ObjectFits, MakesWay, Existing
    <3>3. rows'[x.oid] = rows[x.oid]
      BY <1>0, <3>2 DEF IndexFits, Touched
    <3>4. QED BY <1>0, <2>2, <3>2, <3>3 DEF InTheWay, Wanted, Existing, cache
  <2>3. QED BY <2>1, <2>2
<1>4. x.at = "REPLACE" /\ x.op = "ALLOCATE" => HeadFree(Object(u).oid)'
  <2>1. \A p \in Ptr : objects[p].holder = Nobody => objects'[p] = objects[p]
    BY <1>0 DEF Touched
  <2>2. /\ \A k \in DOMAIN oid_queue : pool[oid_queue[k]] # Null => pool[oid_queue[k]] \in Ptr
        /\ \A m \in DOMAIN oid_queue : \A k \in 1..(m-1) : k \in DOMAIN oid_queue
    BY <1>0, QueueParts
  <2>3. ASSUME NEW o, HeadFree(o) PROVE HeadFree(o)'
    BY <2>1, <2>2, <2>3 DEF HeadFree, cache
  <2>4. x.at = "REPLACE" => Object(u)' = Object(u)
    BY <1>2 DEF Object
  <2>5. QED BY <1>0, <2>3, <2>4 DEF ObjectFits
<1>5. Object(u) = objects[x.ptr] /\ Object(u)' = objects'[x.ptr] /\ thread'[u] = x
  BY DEF Object
<1>6. x.at = "LOCK" /\ x.op = "RENAME_CHECK" =>
        objects'[x.ptr].valid /\ objects'[x.ptr].name = objects[x.ptr].name
  BY <1>0, <1>1, <1>5 DEF ObjectFits, HasIts
<1>7. x.at \in {"EVICT", "REPLACE"} => Unindexed' = {}
  BY <1>0 DEF ObjectFits
<1>8. x.at \in {"LOCK", "HOLD", "REPLACE"} => x.ptr \in Ptr /\ objects[x.ptr].live
  BY <1>1
<1>9. Has(u)'
  BY <1>0, <1>1, <1>2, <1>5 DEF ObjectFits, Has
<1>10. HasIts(u)'
  BY <1>0, <1>1, <1>5, <1>6, <1>8 DEF ObjectFits, HasIts
<1>11. MakesWay(u)'
  BY <1>0, <1>2, <1>3, <1>5 DEF ObjectFits, MakesWay, cache
<1>12. QED BY <1>4, <1>5, <1>7, <1>9, <1>10, <1>11 DEF ObjectFits

LEMMA MutexKept ==
  ASSUME MutexFits, NEW t \in Thread, UNCHANGED mutex,
         thread[t].at \notin Inside, thread'[t].at \notin Inside,
         \A u \in Thread \ {t} : thread'[u] = thread[u]
  PROVE  MutexFits'
BY DEF MutexFits

(* The cache, when no more than locks change.                              *)
LEMMA CacheKept ==
  ASSUME TypeOK, CacheFits, NEW t \in Thread, UNCHANGED <<cache, lastOID, rows>>,
         \A p \in Ptr : /\ objects'[p].live <=> objects[p].live
                        /\ objects'[p].oid = objects[p].oid /\ objects'[p].name = objects[p].name
                        /\ objects'[p].valid <=> objects[p].valid,
         \A u \in Thread \ {t} : thread'[u] = thread[u],
         thread[t].at # "INDEX", thread'[t].at # "INDEX", At("REPLACE")' = At("REPLACE")
  PROVE  CacheFits'
<1>0. TypeOK /\ CacheFits
  OBVIOUS
<1>1. \A p \in Ptr : /\ objects'[p].live <=> objects[p].live
                     /\ objects'[p].oid = objects[p].oid /\ objects'[p].name = objects[p].name
                     /\ objects'[p].valid <=> objects[p].valid
  OBVIOUS
<1>2. IndexFits'
  <2>2. \A u \in Thread : /\ thread'[u].at = "INDEX" <=> thread[u].at = "INDEX"
                          /\ thread[u].at = "INDEX" => thread'[u] = thread[u]
    OBVIOUS
  <2>3. \A p \in Ptr, u \in Thread : Renamed(u, p)' <=> Renamed(u, p)
    BY <1>1, <2>2 DEF Renamed
  <2>4. /\ \A o \in OID : pool[o] # Null => pool[o] \in Ptr
        /\ \A n \in Name : name_pool[n] # Null => name_pool[n] \in Ptr
    BY <1>0 DEF TypeOK
  <2>5. \A p \in Ptr : objects'[p].live =>
          /\ pool'[objects'[p].oid] = p /\ objects'[p].oid <= lastOID'
          /\ rows'[objects'[p].oid] = IF objects'[p].valid THEN objects'[p].name ELSE NoName
          /\ name_pool'[objects'[p].name] = p \/ \E u \in Thread : Renamed(u, p)'
    BY <1>0, <1>1, <2>3 DEF CacheFits, IndexFits, cache
  <2>6. \A o \in OID : pool'[o] # Null => objects'[pool'[o]].live /\ objects'[pool'[o]].oid = o
    BY <1>0, <1>1, <2>4 DEF CacheFits, IndexFits, cache
  <2>7. ASSUME NEW n \in Name, name_pool'[n] # Null
        PROVE  /\ objects'[name_pool'[n]].live
               /\ \/ objects'[name_pool'[n]].name = n
                  \/ \E u \in Thread : Renamed(u, name_pool[n])' /\ thread'[u].name = n
    <3>1. name_pool[n] \in Ptr /\ name_pool'[n] = name_pool[n]
      BY <2>4, <2>7 DEF cache
    <3>2. \A u \in Thread : Renamed(u, name_pool[n]) => Renamed(u, name_pool[n])' /\ thread'[u].name = thread[u].name
      BY <2>2, <2>3, <3>1 DEF Renamed, cache
    <3>3. /\ objects[name_pool[n]].live
          /\ \/ objects[name_pool[n]].name = n
             \/ \E u \in Thread : Renamed(u, name_pool[n]) /\ thread[u].name = n
      BY <1>0, <2>7, <3>1 DEF CacheFits, IndexFits
    <3>4. QED BY <1>1, <3>1, <3>2, <3>3
  <2>8. QED BY <2>5, <2>6, <2>7 DEF IndexFits
<1>3. RowsFit' /\ QueueFits'
  BY <1>0 DEF CacheFits, RowsFit, QueueFits, Existing, cache
<1>4. RoomFits'
  BY <1>0 DEF CacheFits, RoomFits, InCache, cache
<1>5. QED BY <1>2, <1>3, <1>4 DEF CacheFits

LEMMA OthersKeepAsking ==
  ASSUME NEW u \in Thread, AskFits(thread[u]), thread'[u] = thread[u], lastOID \in Int, lastOID' \in Int,
         OID \subseteq Nat, UNCHANGED pool,
         lastOID <= lastOID',
         thread[u].op \in {"RENAME_CHECK", "RENAME"} => rows'[thread[u].oid] = rows[thread[u].oid],
         thread[u].op = "RENAME" => UNCHANGED name_pool /\ (NameFree(thread[u].new) => NameFree(thread[u].new)')
  PROVE  AskFits(thread[u])'
<1> DEFINE x == thread[u]
<1>1. x.oid \in OID => x.oid <= lastOID'
  <2>1. x.oid \in OID => x.oid <= lastOID
    BY DEF AskFits
  <2>2. \A o \in OID : o \in Int
    OBVIOUS
  <2>3. \A o \in Int : o <= lastOID => o <= lastOID'
    OBVIOUS
  <2>4. QED BY <2>1, <2>2, <2>3
<1>2. x.op \in {"RENAME_CHECK", "RENAME"} => rows'[x.oid] = IF x.at = "INDEX" THEN x.new ELSE x.name
  BY DEF AskFits
<1>3. x.op = "RENAME" =>
        IF x.at = "INDEX"
        THEN /\ pool'[x.oid] # Null /\ name_pool'[x.name] = pool'[x.oid] /\ name_pool'[x.new] = Null
        ELSE NameFree(x.new)'
  BY DEF AskFits
<1>4. thread'[u] = x
  OBVIOUS
<1>5. QED BY <1>1, <1>2, <1>3, <1>4 DEF AskFits

(* A thread that gives the lock back, if it has it, and does not change    *)
(* the object.                                                             *)
LEMMA ReleaseKeeps ==
  ASSUME PoolInv, NEW t \in Thread, thread' \in [Thread -> Threads],
         \A u \in Thread \ {t} : thread'[u] = thread[u],
         thread[t].at \notin Inside \cup {"INDEX"}, thread'[t].at \notin Inside \cup {"INDEX", "HOLD"},
         UNCHANGED <<mutex, cache, lastOID, rows>>, objects' \in [Ptr -> Objects],
         \A p \in Ptr : \/ objects'[p] = objects[p]
                        \/ Touched(t, p) /\ objects'[p].valid /\ objects'[p].name = objects[p].name,
         AllApart', ThreadFits(t)'
  PROVE  PoolInv'
<1>0. TypeOK /\ MutexFits /\ CacheFits /\ AllApart /\ \A u \in Thread : ThreadFits(u)
  BY DEF PoolInv
<1>1. TypeOK' /\ MutexFits'
  BY <1>0, MutexKept DEF TypeOK, cache
<1>2. CacheFits'
  <2>1. \A p \in Ptr : /\ objects'[p].live <=> objects[p].live
                       /\ objects'[p].oid = objects[p].oid /\ objects'[p].name = objects[p].name
                       /\ objects'[p].valid <=> objects[p].valid
    BY DEF Touched
  <2>2. At("REPLACE")' = At("REPLACE")
    BY DEF At, Inside
  <2>3. QED BY <1>0, <2>1, <2>2, CacheKept
<1>6. ASSUME NEW u \in Thread, u # t PROVE ThreadFits(u)'
  <2>1. AskFits(thread[u])' /\ StageFits(thread[u])'
    <3>1. lastOID \in Int
      BY <1>0, PoolAssumption DEF TypeOK
    <3>2. NameFree(thread[u].new) => NameFree(thread[u].new)'
      BY <1>6 DEF NameFree, Named, Existing, cache
    <3>3. QED BY <1>0, <1>6, <3>1, <3>2, PoolAssumption, OthersKeepAsking DEF ThreadFits, StageFits, cache
  <2>2. Unindexed' \subseteq Unindexed
    BY DEF Unindexed
  <2>3. ObjectFits(u)'
    <3>1. /\ thread'[u] = thread[u] /\ \A p \in Ptr : objects'[p] = objects[p] \/ Touched(t, p)
          /\ \A o \in OID : rows'[o] = rows[o]
      BY <1>6
    <3>2. \A p \in Ptr : Touched(t, p) /\ thread[u].op = "RENAME_CHECK" /\ objects[p].name = thread[u].new =>
            objects'[p].valid /\ objects'[p].name = objects[p].name
      BY DEF Touched
    <3>3. QED BY <1>6, <2>2, <3>1, <3>2, OthersKeepObjects
  <2>4. QED BY <2>1, <2>3 DEF ThreadFits
<1>7. QED BY <1>0, <1>1, <1>2, <1>6 DEF PoolInv

(* The others do not change what they are about when the table does not.   *)
LEMMA ApartWithRows ==
  ASSUME AllApart, UNCHANGED rows, NEW t \in Thread, GoesOn(thread[t], thread'[t], rows'),
         \A u \in Thread \ {t} : thread'[u] = thread[u]
  PROVE  AllApart'
<1>1. \A u \in Thread : GoesOn(thread[u], thread'[u], rows')
  BY DEF GoesOn
<1>2. QED BY <1>1, ApartKept

LEMMA HeldObject ==
  ASSUME PoolInv, NEW t \in Thread, thread[t].at = "HOLD"
  PROVE  /\ thread[t].ptr \in Ptr /\ Object(t) = objects[thread[t].ptr]
         /\ Object(t).live /\ Object(t).valid /\ Object(t).holder = t
         /\ Object(t).oid \in OID /\ Object(t).name \in Name
         /\ pool[Object(t).oid] = thread[t].ptr
         /\ rows[Object(t).oid] = Object(t).name
         /\ thread[t].op \in ById => Object(t).oid = thread[t].oid
         /\ thread[t].op # "NONE"
<1>1. TypeOK /\ IndexFits /\ Has(t) /\ HasIts(t) /\ AskFits(thread[t])
  BY DEF PoolInv, CacheFits, ThreadFits, ObjectFits
<1>2. thread[t].ptr \in Ptr /\ Object(t).live /\ Object(t).valid /\ Object(t).holder = t
      /\ (thread[t].op \in ById => Object(t).oid = thread[t].oid) /\ thread[t].op # "NONE"
  BY <1>1 DEF Has, HasIts, AskFits
<1>3. QED BY <1>1, <1>2, LiveObject DEF IndexFits, Object

(* An object that is stored as it is displaces no other.                   *)
LEMMA StoredAgain ==
  ASSUME PoolInv, NEW o \in Existing
  PROVE  Replaced(o, rows[o]) = rows
<1>1. rows \in [OID -> Name \cup {NoName}] /\ o \in OID /\ rows[o] # NoName
  BY DEF PoolInv, TypeOK, Existing
<1>2. \A x \in OID : rows[x] = rows[o] => x = o
  BY <1>1 DEF PoolInv, CacheFits, RowsFit, Existing
<1>3. QED BY <1>1, <1>2 DEF Replaced

LEMMA StoredUnchanged ==
  ASSUME PoolInv, NEW t \in Thread, thread[t].at = "HOLD",
         rows' = Replaced(Object(t).oid, Object(t).name)
  PROVE  rows' = rows
<1>1. Object(t).oid \in Existing /\ rows[Object(t).oid] = Object(t).name
  BY HeldObject, PoolAssumption DEF Existing
<1>2. Replaced(Object(t).oid, rows[Object(t).oid]) = rows
  BY <1>1, StoredAgain
<1>3. QED BY <1>1, <1>2

LEMMA GivenBack ==
  ASSUME PoolInv, NEW t \in Thread, thread[t].at = "HOLD", Unlocked(thread[t].ptr)
  PROVE  /\ objects' \in [Ptr -> Objects]
         /\ \A p \in Ptr : \/ objects'[p] = objects[p]
                           \/ Touched(t, p) /\ objects'[p].valid /\ objects'[p].name = objects[p].name
<1> DEFINE q == thread[t].ptr
           r == [objects[q] EXCEPT !.holder = Nobody]
<1>1. TypeOK /\ q \in Ptr /\ objects[q].live /\ objects[q].valid /\ objects[q].holder = t
  BY HeldObject DEF PoolInv
<1>2. objects[q] \in Objects /\ objects[q] # Freed
  BY <1>1 DEF TypeOK, Freed
<1>3. r \in Objects /\ r.live /\ r.valid /\ r.name = objects[q].name /\ r.oid = objects[q].oid /\ r.holder = Nobody
  BY <1>1, <1>2 DEF Objects
<1>4. objects' = [objects EXCEPT ![q] = r]
  BY DEF Unlocked
<1> HIDE DEF r
<1>5. objects'[q] = r /\ \A p \in Ptr \ {q} : objects'[p] = objects[p]
  BY <1>1, <1>4 DEF TypeOK
<1>6. QED BY <1>1, <1>3, <1>4, <1>5 DEF Touched, TypeOK

(* A thread that is done with its object.                                  *)
LEMMA DoneKeeps ==
  ASSUME PoolInv, NEW t \in Thread, Set(t, Idle), thread[t].at \notin Inside \cup {"INDEX"},
         UNCHANGED <<mutex, cache, lastOID, rows>>,
         UNCHANGED objects \/ (thread[t].at = "HOLD" /\ Unlocked(thread[t].ptr))
  PROVE  PoolInv'
<1>1. TypeOK /\ AllApart
  BY DEF PoolInv
<1>2. thread' \in [Thread -> Threads] /\ thread'[t] = Idle /\ \A u \in Thread \ {t} : thread'[u] = thread[u]
  BY <1>1, SetThread, IdleParts
<1>3. /\ objects' \in [Ptr -> Objects]
      /\ \A p \in Ptr : \/ objects'[p] = objects[p]
                        \/ Touched(t, p) /\ objects'[p].valid /\ objects'[p].name = objects[p].name
  BY <1>1, GivenBack DEF TypeOK
<1>4. AllApart'
  BY <1>1, <1>2, IdleParts, ApartWithRows DEF GoesOn
<1>5. ThreadFits(t)'
  BY <1>2, IdleFits
<1>6. thread'[t].at \notin Inside \cup {"INDEX", "HOLD"}
  BY <1>2, IdleParts DEF Inside
<1>7. QED BY <1>2, <1>3, <1>4, <1>5, <1>6, ReleaseKeeps

LEMMA SimpleSteps ==
  ASSUME Careful, PoolInv, NEW t \in Thread,
         update(t) \/ unlock_again(t) \/ rename_collides(t) \/ duplicated(t)
  PROVE  PoolInv'
<1>1. CASE update(t)
  <2>1. rows' = rows
    BY <1>1, StoredUnchanged DEF update, Holds
  <2>2. QED BY <1>1, <2>1, DoneKeeps DEF update, Holds, Inside
<1>2. CASE unlock_again(t)
  <2>1. /\ thread[t].ptr \in Ptr /\ Object(t).live /\ Object(t).holder = Nobody
        /\ objects \in [Ptr -> Objects]
    BY <1>2 DEF unlock_again, PoolInv, ThreadFits, ObjectFits, Has, Careful, RashKinds, TypeOK
  <2>2. [objects[thread[t].ptr] EXCEPT !.holder = Nobody] = objects[thread[t].ptr]
    <3>1. objects[thread[t].ptr] \in Objects /\ objects[thread[t].ptr] # Freed
          /\ objects[thread[t].ptr].holder = Nobody
      BY <2>1 DEF Object, Freed
    <3>2. QED BY <3>1 DEF Objects
  <2>3. objects' = objects
    BY <1>2, <2>1, <2>2 DEF unlock_again, Unlocked
  <2>4. QED BY <1>2, <2>3, DoneKeeps DEF unlock_again, Inside
<1>3. CASE rename_collides(t)
  BY <1>3, DoneKeeps DEF rename_collides, Holds, Inside
<1>4. CASE duplicated(t)
  BY <1>4, DoneKeeps DEF duplicated, Inside
<1>5. QED BY <1>1, <1>2, <1>3, <1>4

LEMMA DeployKeeps ==
  ASSUME PoolInv, NEW t \in Thread, deploy(t)
  PROVE  PoolInv'
<1> DEFINE x == thread[t]
           y == [x EXCEPT !.at = "AGAIN"]
<1>1. TypeOK /\ AllApart /\ x \in Threads /\ x.at = "HOLD" /\ x.op = "DEPLOY" /\ AskFits(x) /\ Has(t)
  BY ThreadParts DEF PoolInv, deploy, Holds, ThreadFits, ObjectFits
<1>2. rows' = rows
  BY <1>1, StoredUnchanged DEF deploy
<1>3. y \in Threads /\ y.at = "AGAIN" /\ y.op = x.op /\ y.oid = x.oid /\ y.ptr = x.ptr
  BY <1>1 DEF Threads, Stage
<1>4. Set(t, y)
  BY DEF deploy, Go
<1> HIDE DEF y
<1>5. thread' \in [Thread -> Threads] /\ thread'[t] = y /\ \A u \in Thread \ {t} : thread'[u] = thread[u]
  BY <1>1, <1>3, <1>4, SetThread
<1>6. /\ objects' \in [Ptr -> Objects]
      /\ \A p \in Ptr : \/ objects'[p] = objects[p]
                        \/ Touched(t, p) /\ objects'[p].valid /\ objects'[p].name = objects[p].name
  BY <1>1, GivenBack DEF deploy
<1>7. AllApart'
  <2>1. GoesOn(x, y, rows')
    BY <1>1, <1>3 DEF GoesOn, Named3, Renames, ByName
  <2>2. QED BY <1>1, <1>2, <1>5, <2>1, ApartWithRows
<1>8. ThreadFits(t)'
  <2>1. AskFits(thread[t])' /\ StageFits(thread[t])'
    BY <1>1, <1>3, <1>5 DEF AskFits, StageFits, deploy, ById, Renames
  <2>2. y.ptr \in Ptr /\ objects'[y.ptr].live
    BY <1>1, <1>3, <1>6, HeldObject DEF Touched, Object
  <2>3. ObjectFits(t)'
    BY <1>3, <1>5, <2>2 DEF ObjectFits, Has, HasIts, MakesWay, Object
  <2>4. QED BY <2>1, <2>3 DEF ThreadFits
<1>9. QED BY <1>1, <1>2, <1>3, <1>5, <1>6, <1>7, <1>8, ReleaseKeeps DEF deploy, Inside

LEMMA RenameInfoKeeps ==
  ASSUME PoolInv, NEW t \in Thread, rename_info(t)
  PROVE  PoolInv'
<1> DEFINE x == thread[t]
           y == [x EXCEPT !.op = "RENAME_CHECK", !.at = "GET", !.name = Object(t).name, !.ptr = Null]
<1>1. TypeOK /\ AllApart /\ x \in Threads /\ x.at = "HOLD" /\ x.op = "RENAME_INFO" /\ AskFits(x)
  BY ThreadParts DEF PoolInv, rename_info, Holds, ThreadFits
<1>2. /\ Object(t).oid = x.oid /\ Object(t).name \in Name /\ rows[x.oid] = Object(t).name
      /\ x.oid \in OID
  BY <1>1, HeldObject DEF ById
<1>3. CASE Object(t).name = x.new
  BY <1>1, <1>3, DoneKeeps DEF rename_info, Inside
<1>4. CASE Object(t).name # x.new
  <2>1. /\ y \in Threads /\ y.at = "GET" /\ y.op = "RENAME_CHECK" /\ y.oid = x.oid /\ y.ptr = Null
        /\ y.name = Object(t).name /\ y.new = x.new
    BY <1>1, <1>2 DEF Threads, Stage, ByName
  <2>2. Set(t, y) /\ rows' = rows
    BY <1>4 DEF rename_info
  <2> HIDE DEF y
  <2>3. thread' \in [Thread -> Threads] /\ thread'[t] = y /\ \A u \in Thread \ {t} : thread'[u] = thread[u]
    BY <1>1, <2>1, <2>2, SetThread
  <2>4. /\ objects' \in [Ptr -> Objects]
        /\ \A p \in Ptr : \/ objects'[p] = objects[p]
                          \/ Touched(t, p) /\ objects'[p].valid /\ objects'[p].name = objects[p].name
    BY <1>1, GivenBack DEF rename_info
  <2>5. AllApart'
    <3>1. GoesOn(x, y, rows')
      BY <1>1, <1>2, <2>1, <2>2 DEF GoesOn, Named3, Renames, ByName, About
    <3>2. QED BY <1>1, <2>2, <2>3, <3>1, ApartWithRows
  <2>6. ThreadFits(t)'
    <3>1. AskFits(thread[t])' /\ StageFits(thread[t])'
      BY <1>1, <1>2, <1>4, <2>1, <2>2, <2>3 DEF AskFits, StageFits, rename_info, ById, Renames
    <3>2. ObjectFits(t)'
      BY <2>1, <2>3 DEF ObjectFits, Has, HasIts, MakesWay, Object
    <3>3. QED BY <3>1, <3>2 DEF ThreadFits
  <2>7. QED BY <1>1, <2>1, <2>2, <2>3, <2>4, <2>5, <2>6, ReleaseKeeps DEF rename_info, Inside
<1>5. QED BY <1>3, <1>4

LEMMA RequestKeeps ==
  ASSUME Careful, PoolInv, NEW t \in Thread, request(t)
  PROVE  PoolInv'
<1>1. PICK y \in Requests :
        /\ y.oid <= lastOID /\ Set(t, y)
        /\ \A u \in Thread : ~Races(y, thread[u]) /\ ~DeletesRenamed(y, thread[u])
  BY DEF request, Careful, RashKinds
<1>2. TypeOK /\ AllApart /\ thread[t] = Idle /\ UNCHANGED <<mutex, cache, objects, lastOID, rows>>
  BY DEF PoolInv, request
<1>3. /\ y \in Threads /\ y.at = "GET" /\ y.ptr = Null
      /\ y.op \in {"UPDATE", "DEPLOY", "DELETE", "FIND", "ALLOCATE", "RENAME_INFO"}
      /\ y.op \in ById => y.oid \in OID
      /\ y.op \in {"FIND", "ALLOCATE"} => y.name \in Name /\ y.oid = -1
      /\ y.op = "RENAME_INFO" => y.new \in Name
  BY DEF Requests, Threads, Stage, ByName, ById
<1>4. thread' \in [Thread -> Threads] /\ thread'[t] = y /\ \A u \in Thread \ {t} : thread'[u] = thread[u]
  BY <1>1, <1>2, <1>3, SetThread
<1>5. AllApart'
  <2>2. ASSUME NEW u \in Thread, NEW w \in Thread, u # w PROVE Apart(thread[u], thread[w])'
    <3>1. CASE u # t /\ w # t
      BY <1>2, <1>4, <2>2, <3>1 DEF AllApart, Apart, Races, DeletesRenamed, NamesOf
    <3>2. CASE u = t
      BY <1>1, <1>2, <1>4, <2>2, <3>2 DEF Apart, Races, DeletesRenamed, NamesOf
    <3>3. CASE w = t
      <4>1. Apart(y, thread[u]) /\ thread'[w] = y /\ thread'[u] = thread[u]
        BY <1>1, <1>4, <2>2, <3>3 DEF Apart
      <4>2. Apart(thread[u], y)
        BY <4>1 DEF Apart, Races, DeletesRenamed
      <4>3. QED BY <1>2, <4>1, <4>2 DEF Apart, Races, DeletesRenamed, NamesOf
    <3>4. QED BY <3>1, <3>2, <3>3
  <2>3. QED BY <2>2 DEF AllApart
<1>6. ThreadFits(t)'
  <2>1. AskFits(thread[t])' /\ StageFits(thread[t])'
    BY <1>1, <1>2, <1>3, <1>4 DEF AskFits, StageFits, ById, Renames
  <2>2. ObjectFits(t)'
    BY <1>3, <1>4 DEF ObjectFits, Has, HasIts, MakesWay, Object
  <2>3. QED BY <2>1, <2>2 DEF ThreadFits
<1>7. QED BY <1>2, <1>3, <1>4, <1>5, <1>6, IdleParts, ReleaseKeeps DEF Inside, TypeOK

LEMMA DropKeeps ==
  ASSUME PoolInv, NEW t \in Thread, drop(t)
  PROVE  PoolInv'
<1> DEFINE x == thread[t]
           q == x.ptr
           o == objects[q].oid
           r == [objects[q] EXCEPT !.valid = FALSE, !.holder = Nobody]
<1>0. TypeOK /\ MutexFits /\ CacheFits /\ AllApart /\ UNCHANGED <<mutex, cache, lastOID>>
  BY DEF PoolInv, drop
<1>1. /\ x.at = "HOLD" /\ x.op = "DELETE" /\ q \in Ptr /\ objects[q].live /\ objects[q].valid
      /\ objects[q].holder = t /\ o \in OID /\ pool[o] = q /\ o = x.oid /\ objects[q].name \in Name
      /\ rows[o] = objects[q].name
  BY HeldObject DEF drop, Holds, Object, ById
<1>2. thread' \in [Thread -> Threads] /\ thread'[t] = Idle /\ \A u \in Thread \ {t} : thread'[u] = thread[u]
  BY <1>0, SetThread, IdleParts DEF drop
<1>3. /\ objects[q] \in Objects /\ objects[q] # Freed
      /\ r \in Objects /\ r.live /\ ~r.valid /\ r.name = objects[q].name /\ r.oid = o /\ r.holder = Nobody
  <2>1. objects[q] \in Objects /\ objects[q] # Freed
    BY <1>0, <1>1 DEF TypeOK, Freed
  <2>2. QED BY <1>1, <2>1 DEF Objects
<1>4. objects' = [objects EXCEPT ![q] = r]
  BY DEF drop
<1> HIDE DEF r
<1>5. objects' \in [Ptr -> Objects] /\ objects'[q] = r /\ \A p \in Ptr \ {q} : objects'[p] = objects[p]
  BY <1>0, <1>1, <1>3, <1>4 DEF TypeOK
<1>6. /\ rows' \in [OID -> Name \cup {NoName}] /\ rows'[o] = NoName
      /\ \A k \in OID \ {o} : rows'[k] = rows[k]
  BY <1>0, <1>1 DEF drop, TypeOK, Object
<1>7. TypeOK' /\ MutexFits'
  <2>1. MutexFits'
    BY <1>0, <1>1, <1>2, IdleParts, MutexKept DEF Inside
  <2>2. QED BY <1>0, <1>2, <1>5, <1>6, <2>1 DEF TypeOK, cache
<1>8. Existing' = Existing \ {o} /\ o \in Existing
  BY <1>1, <1>6, PoolAssumption DEF Existing
<1>9. \A p \in Ptr, u \in Thread : Renamed(u, p)' <=> Renamed(u, p)
  BY <1>1, <1>2, <1>3, <1>5, IdleParts DEF Renamed
<1>10. IndexFits'
  <2>1. ASSUME NEW p \in Ptr, objects'[p].live
        PROVE  /\ pool'[objects'[p].oid] = p /\ objects'[p].oid <= lastOID'
               /\ rows'[objects'[p].oid] = IF objects'[p].valid THEN objects'[p].name ELSE NoName
               /\ name_pool'[objects'[p].name] = p \/ \E u \in Thread : Renamed(u, p)'
    <3>1. /\ objects[p].live /\ objects'[p].oid = objects[p].oid /\ objects'[p].name = objects[p].name
          /\ pool[objects[p].oid] = p /\ objects[p].oid <= lastOID /\ objects[p].oid \in OID
          /\ rows[objects[p].oid] = IF objects[p].valid THEN objects[p].name ELSE NoName
          /\ name_pool[objects[p].name] = p \/ \E u \in Thread : Renamed(u, p)
      BY <1>0, <1>1, <1>3, <1>5, <2>1, LiveObject DEF CacheFits, IndexFits
    <3>2. rows'[objects[p].oid] = IF objects'[p].valid THEN objects[p].name ELSE NoName
      <4>1. CASE p = q
        BY <1>3, <1>5, <1>6, <4>1
      <4>2. CASE p # q
        BY <1>1, <1>5, <1>6, <3>1, <4>2
      <4>3. QED BY <4>1, <4>2
    <3>3. QED BY <1>0, <1>9, <3>1, <3>2 DEF cache
  <2>2. \A k \in OID : pool'[k] # Null => objects'[pool'[k]].live /\ objects'[pool'[k]].oid = k
    BY <1>0, <1>1, <1>3, <1>5 DEF CacheFits, IndexFits, TypeOK, cache
  <2>3. ASSUME NEW n \in Name, name_pool'[n] # Null
        PROVE  /\ objects'[name_pool'[n]].live
               /\ \/ objects'[name_pool'[n]].name = n
                  \/ \E u \in Thread : Renamed(u, name_pool[n])' /\ thread'[u].name = n
    <3>1. name_pool[n] \in Ptr /\ name_pool'[n] = name_pool[n]
      BY <1>0, <2>3 DEF TypeOK, cache
    <3>2. \A u \in Thread : Renamed(u, name_pool[n]) => Renamed(u, name_pool[n])' /\ thread'[u] = thread[u]
      BY <1>1, <1>2, <1>9, <3>1 DEF Renamed
    <3>3. /\ objects[name_pool[n]].live
          /\ \/ objects[name_pool[n]].name = n
             \/ \E u \in Thread : Renamed(u, name_pool[n]) /\ thread[u].name = n
      BY <1>0, <2>3, <3>1 DEF CacheFits, IndexFits
    <3>4. objects'[name_pool[n]].live /\ objects'[name_pool[n]].name = objects[name_pool[n]].name
      BY <1>3, <1>5, <3>1, <3>3
    <3>5. QED BY <3>1, <3>2, <3>3, <3>4
  <2>4. QED BY <2>1, <2>2, <2>3 DEF IndexFits
<1>11. RowsFit' /\ QueueFits'
  BY <1>0, <1>6, <1>8 DEF CacheFits, RowsFit, QueueFits, cache, Existing
<1>12. RoomFits'
  <2>1. At("REPLACE")' = At("REPLACE")
    BY <1>1, <1>2, IdleParts DEF At
  <2>2. QED BY <1>0, <2>1 DEF CacheFits, RoomFits, InCache, cache
<1>13. AllApart'
  <2>1. \A u \in Thread : GoesOn(thread[u], thread'[u], rows')
    BY <1>1, <1>2, <1>6, IdleParts DEF GoesOn, About
  <2>2. QED BY <1>0, <2>1, ApartKept
<1>14. ASSUME NEW u \in Thread, u # t PROVE ThreadFits(u)'
  <2>1. thread[u].op \in Renames => thread[u].oid # o
    BY <1>1, <1>14, NotTogether
  <2>2. AskFits(thread[u])' /\ StageFits(thread[u])'
    <3>1. AskFits(thread[u]) /\ StageFits(thread[u]) /\ lastOID \in Int /\ thread'[u] = thread[u]
      BY <1>0, <1>2, <1>14, PoolAssumption DEF PoolInv, ThreadFits, TypeOK
    <3>2. thread[u].op \in {"RENAME", "RENAME_CHECK"} => rows'[thread[u].oid] = rows[thread[u].oid]
      BY <1>6, <2>1, <3>1 DEF AskFits, ById, Renames
    <3>3. NameFree(thread[u].new) => NameFree(thread[u].new)'
      <4>1. \A k \in Existing' : k \in Existing /\ rows'[k] = rows[k]
        BY <1>6, <1>8 DEF Existing
      <4>2. QED BY <1>0, <3>1, <4>1 DEF NameFree, Named, cache
    <3>4. QED BY <1>0, <3>1, <3>2, <3>3, PoolAssumption, OthersKeepAsking DEF StageFits, cache
  <2>3. ObjectFits(u)'
    <3>1. \A p \in Ptr : p = q \/ objects'[p] = objects[p]
      BY <1>5
    <3>2. Touched(t, q)
      BY <1>1, <1>3, <1>5 DEF Touched
    <3>3. \A k \in OID : \/ rows'[k] = rows[k]
                         \/ \E p \in Ptr : Touched(t, p) /\ objects[p].oid = k
      BY <1>1, <1>6, <3>2
    <3>4. Unindexed' \subseteq Unindexed
      BY <1>2, IdleParts DEF Unindexed
    <3>5. ASSUME NEW p \in Ptr, Touched(t, p), thread[u].op = "RENAME_CHECK", objects[p].name = thread[u].new
          PROVE  FALSE
      <4>1. p = q \/ objects'[p] = objects[p]
        BY <3>1
      <4>2. p = q
        BY <3>5, <4>1, PoolAssumption DEF Touched
      <4>3. About(thread[u], objects[q].name, rows) /\ About(x, objects[q].name, rows)
        BY <1>1, <3>5, <4>2, PoolAssumption DEF About
      <4>4. QED BY <1>1, <1>14, <3>5, <4>3, NotTogether DEF Renames
    <3>6. QED BY <1>0, <1>2, <1>14, <3>1, <3>2, <3>3, <3>4, <3>5, OthersKeepObjects
  <2>4. QED BY <2>2, <2>3 DEF ThreadFits
<1>15. ThreadFits(t)'
  BY <1>2, IdleFits
<1>16. QED BY <1>7, <1>10, <1>11, <1>12, <1>13, <1>14, <1>15 DEF PoolInv, CacheFits

LEMMA RenameKeeps ==
  ASSUME PoolInv, NEW t \in Thread, rename(t)
  PROVE  PoolInv'
<1> DEFINE x == thread[t]
           q == x.ptr
           o == objects[q].oid
           r == [objects[q] EXCEPT !.name = x.new, !.holder = Nobody]
           y == [x EXCEPT !.at = "INDEX", !.ptr = Null]
<1>0. /\ TypeOK /\ MutexFits /\ CacheFits /\ AllApart /\ UNCHANGED <<mutex, cache, lastOID>>
      /\ x \in Threads /\ AskFits(x)
  BY ThreadParts DEF PoolInv, rename, ThreadFits
<1>1. /\ x.at = "HOLD" /\ x.op = "RENAME" /\ q \in Ptr /\ objects[q].live /\ objects[q].valid
      /\ objects[q].holder = t /\ o \in OID /\ pool[o] = q /\ o = x.oid /\ objects[q].name = x.name
      /\ rows[o] = x.name /\ x.name \in Name /\ x.new \in Name /\ x.name # x.new /\ NameFree(x.new)
  BY <1>0, HeldObject DEF rename, Holds, Object, ById, AskFits, Renames
<1>2. /\ y \in Threads /\ y.at = "INDEX" /\ y.op = "RENAME" /\ y.oid = o /\ y.name = x.name /\ y.new = x.new
      /\ y.ptr = Null /\ Set(t, y)
  BY <1>0, <1>1 DEF Threads, Stage, rename
<1> HIDE DEF y
<1>3. thread' \in [Thread -> Threads] /\ thread'[t] = y /\ \A u \in Thread \ {t} : thread'[u] = thread[u]
  BY <1>0, <1>2, SetThread
<1>4. r \in Objects /\ r.live /\ r.valid /\ r.name = x.new /\ r.oid = o /\ r.holder = Nobody
  <2>1. objects[q] \in Objects /\ objects[q] # Freed
    BY <1>0, <1>1 DEF TypeOK, Freed
  <2>2. QED BY <1>1, <2>1 DEF Objects
<1>5. objects' = [objects EXCEPT ![q] = r]
  BY DEF rename
<1> HIDE DEF r
<1>6. objects' \in [Ptr -> Objects] /\ objects'[q] = r /\ \A p \in Ptr \ {q} : objects'[p] = objects[p]
  BY <1>0, <1>1, <1>4, <1>5 DEF TypeOK
<1>7. /\ rows' \in [OID -> Name \cup {NoName}] /\ rows'[o] = x.new
      /\ \A k \in OID \ {o} : rows'[k] = rows[k] /\ rows[k] # x.new
  <2>1. \A k \in OID : rows[k] # x.new
    BY <1>1, PoolAssumption DEF NameFree, Named, Existing
  <2>2. rows' = [k \in OID |-> IF k = o THEN x.new ELSE IF rows[k] = x.new THEN NoName ELSE rows[k]]
    BY DEF rename, Replaced, Object
  <2>3. QED BY <1>0, <1>1, <2>1, <2>2 DEF TypeOK
<1>8. TypeOK' /\ MutexFits'
  <2>1. MutexFits'
    BY <1>0, <1>1, <1>2, <1>3, MutexKept DEF Inside
  <2>2. QED BY <1>0, <1>3, <1>6, <1>7, <2>1 DEF TypeOK, cache
<1>9. Existing' = Existing /\ o \in Existing
  BY <1>1, <1>7, PoolAssumption DEF Existing
<1>10. /\ \A p \in Ptr, u \in Thread : Renamed(u, p) => Renamed(u, p)' /\ thread'[u] = thread[u]
       /\ \A p \in Ptr : p = q => Renamed(t, p)'
  <2>1. \A p \in Ptr : objects'[p].oid = objects[p].oid
    BY <1>1, <1>4, <1>6
  <2>2. \A u \in Thread : thread[u].at = "INDEX" => thread'[u] = thread[u]
    BY <1>1, <1>3
  <2>3. QED BY <1>1, <1>2, <1>3, <2>1, <2>2 DEF Renamed
<1>11. \A u \in Thread : ~Renamed(u, q)
  <2> SUFFICES ASSUME NEW u \in Thread, Renamed(u, q) PROVE FALSE
    OBVIOUS
  <2>1. thread[u].at = "INDEX" /\ thread[u].oid = o /\ u # t /\ thread[u].op = "RENAME"
    BY <1>1 DEF Renamed, PoolInv, ThreadFits, StageFits
  <2>2. About(thread[u], x.name, rows) /\ About(x, x.name, rows)
    BY <1>1, <2>1, PoolAssumption DEF About
  <2>3. QED BY <1>1, <2>1, <2>2, NotTogether DEF Renames
<1>12. IndexFits'
  <2>1. ASSUME NEW p \in Ptr, objects'[p].live
        PROVE  /\ pool'[objects'[p].oid] = p /\ objects'[p].oid <= lastOID'
               /\ rows'[objects'[p].oid] = IF objects'[p].valid THEN objects'[p].name ELSE NoName
               /\ name_pool'[objects'[p].name] = p \/ \E u \in Thread : Renamed(u, p)'
    <3>1. /\ objects[p].live /\ objects'[p].oid = objects[p].oid
          /\ pool[objects[p].oid] = p /\ objects[p].oid <= lastOID /\ objects[p].oid \in OID
          /\ rows[objects[p].oid] = IF objects[p].valid THEN objects[p].name ELSE NoName
          /\ name_pool[objects[p].name] = p \/ \E u \in Thread : Renamed(u, p)
      BY <1>0, <1>1, <1>4, <1>6, <2>1, LiveObject DEF CacheFits, IndexFits
    <3>2. CASE p = q
      <4>1. objects'[p].valid /\ objects'[p].name = x.new /\ objects[p].oid = o
        BY <1>4, <1>6, <3>2
      <4>2. QED BY <1>0, <1>7, <1>10, <3>1, <3>2, <4>1 DEF cache
    <3>3. CASE p # q
      <4>1. objects'[p] = objects[p] /\ rows'[objects[p].oid] = rows[objects[p].oid]
        BY <1>1, <1>6, <1>7, <3>1, <3>3
      <4>2. (\E u \in Thread : Renamed(u, p)) => \E w \in Thread : Renamed(w, p)'
        BY <1>10
      <4>3. QED BY <1>0, <1>10, <3>1, <4>1, <4>2 DEF cache
    <3>4. QED BY <3>2, <3>3
  <2>2. \A k \in OID : pool'[k] # Null => objects'[pool'[k]].live /\ objects'[pool'[k]].oid = k
    BY <1>0, <1>1, <1>4, <1>6 DEF CacheFits, IndexFits, TypeOK, cache
  <2>3. ASSUME NEW n \in Name, name_pool'[n] # Null
        PROVE  /\ objects'[name_pool'[n]].live
               /\ \/ objects'[name_pool'[n]].name = n
                  \/ \E u \in Thread : Renamed(u, name_pool[n])' /\ thread'[u].name = n
    <3>1. name_pool[n] \in Ptr /\ name_pool'[n] = name_pool[n]
      BY <1>0, <2>3 DEF TypeOK, cache
    <3>2. /\ objects[name_pool[n]].live
          /\ \/ objects[name_pool[n]].name = n
             \/ \E u \in Thread : Renamed(u, name_pool[n]) /\ thread[u].name = n
      BY <1>0, <2>3, <3>1 DEF CacheFits, IndexFits
    <3>3. CASE name_pool[n] = q
      <4>1. n = x.name /\ thread'[t].name = n
        BY <1>1, <1>2, <1>3, <1>11, <3>2, <3>3
      <4>2. objects'[name_pool[n]].live /\ Renamed(t, name_pool[n])'
        BY <1>0, <1>1, <1>4, <1>6, <1>10, <3>1, <3>3
      <4>3. QED BY <3>1, <4>1, <4>2
    <3>4. CASE name_pool[n] # q
      <4>1. objects'[name_pool[n]] = objects[name_pool[n]]
        BY <1>6, <3>1, <3>4
      <4>2. \A u \in Thread : Renamed(u, name_pool[n]) => Renamed(u, name_pool[n])' /\ thread'[u] = thread[u]
        BY <1>10, <3>1
      <4>3. QED BY <3>1, <3>2, <4>1, <4>2
    <3>5. QED BY <3>3, <3>4
  <2>4. QED BY <2>1, <2>2, <2>3 DEF IndexFits
<1>13. RowsFit' /\ QueueFits'
  <2>1. QueueFits'
    BY <1>0, <1>9 DEF CacheFits, QueueFits, cache
  <2>2. \A k \in Existing : k \in OID
    BY DEF Existing
  <2>3. QED BY <1>0, <1>1, <1>7, <1>9, <2>1, <2>2 DEF CacheFits, RowsFit
<1>14. RoomFits'
  <2>1. At("REPLACE")' = At("REPLACE")
    BY <1>1, <1>2, <1>3 DEF At
  <2>2. QED BY <1>0, <2>1 DEF CacheFits, RoomFits, InCache, cache
<1>15. ASSUME NEW u \in Thread, u # t, Named3(thread[u].op)
       PROVE  thread[u].oid # o
  <2>1. thread[u].op \in ByName \cup Renames => ~About(thread[u], x.name, rows)
    BY <1>1, <1>15, NotTogether, PoolAssumption DEF Renames, About
  <2>2. thread[u].op = "DELETE" => thread[u].oid # x.oid
    BY <1>1, <1>15, NotTogether DEF Renames
  <2>3. QED BY <1>1, <1>15, <2>1, <2>2, PoolAssumption DEF Named3, About
<1>16. AllApart'
  <2>1. ASSUME NEW u \in Thread, u # t PROVE GoesOn(thread[u], thread'[u], rows')
    BY <1>3, <1>7, <1>15, <2>1 DEF GoesOn, About
  <2>2. GoesOn(x, y, rows')
    BY <1>1, <1>2, <1>7 DEF GoesOn, About, Named3, Renames, ByName
  <2>3. QED BY <1>0, <1>3, <2>1, <2>2, ApartKept
<1>17. t \in Unindexed
  BY <1>1 DEF Unindexed
<1>18. ASSUME NEW u \in Thread, u # t PROVE ThreadFits(u)'
  <2>1. AskFits(thread[u])' /\ StageFits(thread[u])'
    <3>1. AskFits(thread[u]) /\ StageFits(thread[u]) /\ lastOID \in Int /\ thread'[u] = thread[u]
      BY <1>0, <1>3, <1>18, PoolAssumption DEF PoolInv, ThreadFits, TypeOK
    <3>2. thread[u].op \in {"RENAME", "RENAME_CHECK"} => rows'[thread[u].oid] = rows[thread[u].oid]
      BY <1>7, <1>15, <1>18, <3>1 DEF AskFits, ById, Renames, Named3
    <3>3. thread[u].op = "RENAME" /\ NameFree(thread[u].new) => NameFree(thread[u].new)'
      <4> SUFFICES ASSUME thread[u].op = "RENAME", NameFree(thread[u].new) PROVE NameFree(thread[u].new)'
        OBVIOUS
      <4>1. thread[u].new # x.new
        BY <1>1, <1>18, NotTogether, PoolAssumption DEF Renames, About
      <4>2. \A k \in Existing : rows'[k] = x.new \/ rows'[k] = rows[k]
        BY <1>7 DEF Existing
      <4>3. QED BY <1>0, <1>9, <3>1, <4>1, <4>2 DEF NameFree, Named, cache
    <3>4. QED BY <1>0, <3>1, <3>2, <3>3, PoolAssumption, OthersKeepAsking DEF StageFits, cache
  <2>2. ObjectFits(u)'
    <3>1. \A p \in Ptr : p = q \/ objects'[p] = objects[p]
      BY <1>6
    <3>2. Touched(t, q)
      BY <1>1, <1>4, <1>6 DEF Touched
    <3>3. \A k \in OID : \/ rows'[k] = rows[k]
                         \/ \E p \in Ptr : Touched(t, p) /\ objects[p].oid = k
      BY <1>1, <1>7, <3>2
    <3>4. thread[u].at \in {"EVICT", "REPLACE"} => Unindexed' \subseteq Unindexed
      BY <1>17 DEF PoolInv, ThreadFits, ObjectFits
    <3>5. ASSUME NEW p \in Ptr, Touched(t, p), thread[u].op = "RENAME_CHECK", objects[p].name = thread[u].new
          PROVE  FALSE
      <4>1. p = q \/ objects'[p] = objects[p]
        BY <3>1
      <4>2. p = q
        BY <3>5, <4>1, PoolAssumption DEF Touched
      <4>3. About(thread[u], x.name, rows) /\ About(x, x.name, rows)
        BY <1>1, <3>5, <4>2, PoolAssumption DEF About
      <4>4. QED BY <1>1, <1>18, <3>5, <4>3, NotTogether DEF Renames
    <3>6. QED BY <1>0, <1>3, <1>18, <3>1, <3>2, <3>3, <3>4, <3>5, OthersKeepObjects
  <2>3. QED BY <2>1, <2>2 DEF ThreadFits
<1>19. ThreadFits(t)'
  <2>1. name_pool'[x.name] = q /\ name_pool'[x.new] = Null /\ pool'[o] = q /\ q # Null
    BY <1>0, <1>1, <1>11, PoolAssumption DEF CacheFits, IndexFits, NameFree, cache
  <2>2. AskFits(thread[t])' /\ StageFits(thread[t])'
    BY <1>0, <1>1, <1>2, <1>3, <1>7, <2>1 DEF AskFits, StageFits, ById, Renames
  <2>3. ObjectFits(t)'
    BY <1>2, <1>3 DEF ObjectFits, Has, HasIts, MakesWay
  <2>4. QED BY <2>2, <2>3 DEF ThreadFits
<1>20. QED BY <1>8, <1>12, <1>13, <1>14, <1>16, <1>18, <1>19 DEF PoolInv, CacheFits

-----------------------------------------------------------------------------
(* Steps of a thread that has, or gets, the mutex of the pool *)

LEMMA OthersOutside ==
  ASSUME PoolInv, NEW t \in Thread, Free \/ mutex = t
  PROVE  \A u \in Thread \ {t} : thread[u].at \notin Inside
BY PoolAssumption DEF PoolInv, MutexFits, Free

LEMMA OutsideKeeps ==
  ASSUME PoolInv, NEW u \in Thread, thread[u].at \notin Inside, thread'[u] = thread[u],
         thread[u].ptr \in Ptr =>
           /\ objects'[thread[u].ptr].live
           /\ thread[u].at = "HOLD" => objects'[thread[u].ptr] = objects[thread[u].ptr]
  PROVE  ObjectFits(u)'
<1> DEFINE x == thread[u]
<1>1. Has(u) /\ HasIts(u) /\ x.at \notin {"LOCK", "EVICT", "REPLACE"}
  BY DEF PoolInv, ThreadFits, ObjectFits, Inside
<1>2. Object(u) = objects[x.ptr] /\ Object(u)' = objects'[x.ptr]
  BY DEF Object
<1>3. Has(u)'
  BY <1>1, <1>2 DEF Has
<1>4. HasIts(u)' /\ MakesWay(u)'
  BY <1>1, <1>2 DEF Has, HasIts, MakesWay
<1>5. QED BY <1>1, <1>3, <1>4 DEF ObjectFits

(* A thread for which get has nothing.                                     *)
LEMMA NotFoundFits ==
  ASSUME PoolInv, NEW t \in Thread, thread[t].at \in {"GET", "LOCK", "EVICT"},
         thread' \in [Thread -> Threads], thread'[t] = NotFound(thread[t]), thread[t].op # "RENAME",
         UNCHANGED <<lastOID, rows>>, thread[t].op = "RENAME_CHECK" => NameFree(thread[t].new)'
  PROVE  /\ ThreadFits(t)' /\ GoesOn(thread[t], thread'[t], rows')
         /\ thread'[t].at \in {"IDLE", "GET", "INSERT"}
<1> DEFINE x == thread[t]
<1>1. AskFits(x) /\ StageFits(x) /\ x \in Threads /\ x.op # "NONE"
  BY ThreadParts DEF PoolInv, ThreadFits, AskFits
<1>2. CASE x.op = "RENAME_CHECK"
  <2> DEFINE y == [x EXCEPT !.op = "RENAME", !.at = "GET", !.ptr = Null]
  <2>1. thread'[t] = y
    BY <1>2 DEF NotFound
  <2>2. /\ y.op = "RENAME" /\ y.at = "GET" /\ y.ptr = Null /\ y.oid = x.oid /\ y.name = x.name /\ y.new = x.new
    BY <1>1 DEF Threads
  <2> HIDE DEF y
  <2>3. AskFits(thread[t])' /\ StageFits(thread[t])'
    BY <1>1, <1>2, <2>1, <2>2 DEF AskFits, StageFits, ById, Renames
  <2>4. ObjectFits(t)'
    BY <2>1, <2>2 DEF ObjectFits, Has, HasIts, MakesWay
  <2>5. GoesOn(x, y, rows')
    BY <1>2, <2>2 DEF GoesOn, About, Named3, Renames, ByName
  <2>6. QED BY <2>1, <2>2, <2>3, <2>4, <2>5 DEF ThreadFits
<1>3. CASE x.op = "ALLOCATE"
  <2> DEFINE y == [x EXCEPT !.at = "INSERT", !.ptr = Null]
  <2>1. thread'[t] = y
    BY <1>3 DEF NotFound
  <2>2. /\ y.op = "ALLOCATE" /\ y.at = "INSERT" /\ y.ptr = Null /\ y.oid = x.oid /\ y.name = x.name /\ y.new = x.new
    BY <1>1, <1>3 DEF Threads
  <2> HIDE DEF y
  <2>3. AskFits(thread[t])' /\ StageFits(thread[t])'
    BY <1>1, <1>3, <2>1, <2>2 DEF AskFits, StageFits, ById, Renames
  <2>4. ObjectFits(t)'
    BY <2>1, <2>2 DEF ObjectFits, Has, HasIts, MakesWay
  <2>5. GoesOn(x, y, rows')
    BY <1>3, <2>2 DEF GoesOn, About, Named3, Renames, ByName
  <2>6. QED BY <2>1, <2>2, <2>3, <2>4, <2>5 DEF ThreadFits
<1>4. CASE x.op \notin {"RENAME_CHECK", "ALLOCATE"}
  <2>1. thread'[t] = Idle
    BY <1>4 DEF NotFound
  <2>2. QED BY <2>1, IdleFits, IdleParts DEF GoesOn
<1>5. QED BY <1>2, <1>3, <1>4

LEMMA AllocateKeeps ==
  ASSUME PoolInv, NEW t \in Thread, allocate(t)
  PROVE  PoolInv'
<1> DEFINE x == thread[t]
           o == lastOID + 1
<1>1. /\ TypeOK /\ MutexFits /\ CacheFits /\ AllApart /\ x.at = "INSERT" /\ x.op = "ALLOCATE"
      /\ UNCHANGED <<mutex, cache, objects>> /\ x.name \in Name /\ lastOID \in Int
  BY PoolAssumption DEF PoolInv, allocate, ThreadFits, StageFits, AskFits, TypeOK
<1>2. thread' \in [Thread -> Threads] /\ thread'[t] = Idle /\ \A u \in Thread \ {t} : thread'[u] = thread[u]
  BY <1>1, SetThread, IdleParts DEF allocate
<1>3. CASE ~Inserted(t)
  BY <1>1, <1>3, DoneKeeps DEF allocate, Inside
<1>4. CASE Inserted(t)
  <2>1. /\ lastOID' = o /\ o \in OID /\ o \in Int /\ lastOID < o
        /\ \A k \in Existing : rows[k] # x.name
        /\ rows' \in [OID -> Name \cup {NoName}] /\ rows'[o] = x.name
        /\ \A k \in OID : k <= lastOID => rows'[k] = rows[k] /\ k # o /\ k <= o
        /\ \A k \in OID \ {o} : rows'[k] = rows[k]
    BY <1>1, <1>4, PoolAssumption DEF allocate, Inserted, Named, TypeOK
  <2>2. Existing' = Existing \cup {o} /\ \A k \in Existing : k <= lastOID /\ k \in OID /\ k # o
    BY <1>1, <2>1, PoolAssumption DEF Existing, CacheFits, RowsFit
  <2>3. TypeOK' /\ MutexFits'
    <3>1. MutexFits'
      BY <1>1, <1>2, IdleParts, MutexKept DEF Inside
    <3>2. QED BY <1>1, <1>2, <2>1, <3>1 DEF TypeOK, cache
  <2>4. \A p \in Ptr, u \in Thread : Renamed(u, p) <=> Renamed(u, p)'
    BY <1>1, <1>2, IdleParts DEF Renamed
  <2>5. IndexFits'
    <3>1. ASSUME NEW p \in Ptr, objects[p].live
          PROVE  /\ pool'[objects'[p].oid] = p /\ objects'[p].oid <= lastOID'
                 /\ rows'[objects'[p].oid] = IF objects'[p].valid THEN objects'[p].name ELSE NoName
                 /\ name_pool'[objects'[p].name] = p \/ \E u \in Thread : Renamed(u, p)'
      <4>1. /\ pool[objects[p].oid] = p /\ objects[p].oid <= lastOID /\ objects[p].oid \in OID
            /\ rows[objects[p].oid] = IF objects[p].valid THEN objects[p].name ELSE NoName
            /\ name_pool[objects[p].name] = p \/ \E u \in Thread : Renamed(u, p)
        BY <1>1, <3>1, LiveObject DEF CacheFits, IndexFits
      <4>2. QED BY <1>1, <2>1, <2>4, <4>1 DEF cache
    <3>2. ASSUME NEW n \in Name, name_pool'[n] # Null
          PROVE  /\ objects'[name_pool'[n]].live
                 /\ \/ objects'[name_pool'[n]].name = n
                    \/ \E u \in Thread : Renamed(u, name_pool[n])' /\ thread'[u].name = n
      <4>1. name_pool[n] \in Ptr /\ name_pool'[n] = name_pool[n] /\ objects' = objects
        BY <1>1, <3>2 DEF TypeOK, cache
      <4>2. \A u \in Thread : Renamed(u, name_pool[n]) => Renamed(u, name_pool[n])' /\ thread'[u] = thread[u]
        BY <1>1, <1>2, <2>4, <4>1 DEF Renamed
      <4>3. QED BY <1>1, <3>2, <4>1, <4>2 DEF CacheFits, IndexFits
    <3>3. QED BY <1>1, <3>1, <3>2 DEF IndexFits, CacheFits, cache
  <2>6. RowsFit' /\ QueueFits'
    <3>1. RowsFit'
      BY <1>1, <2>1, <2>2 DEF CacheFits, RowsFit
    <3>2. \A k \in DOMAIN oid_queue : oid_queue[k] <= lastOID /\ oid_queue[k] \in OID
      BY <1>1, QueueParts DEF CacheFits, QueueFits
    <3>3. QED BY <1>1, <2>1, <2>2, <3>1, <3>2 DEF CacheFits, QueueFits, cache
  <2>7. RoomFits'
    <3>1. At("REPLACE")' = At("REPLACE")
      BY <1>1, <1>2, IdleParts DEF At
    <3>2. QED BY <1>1, <3>1 DEF CacheFits, RoomFits, InCache, cache
  <2>8. ASSUME NEW u \in Thread, u # t
        PROVE  /\ AskFits(thread[u]) /\ StageFits(thread[u]) /\ thread'[u] = thread[u]
               /\ thread[u].oid \in OID => rows'[thread[u].oid] = rows[thread[u].oid]
    <3>1. AskFits(thread[u]) /\ StageFits(thread[u]) /\ thread'[u] = thread[u]
      BY <1>2, <2>8 DEF PoolInv, ThreadFits
    <3>2. thread[u].oid \in OID => thread[u].oid <= lastOID
      BY <3>1 DEF AskFits
    <3>3. QED BY <2>1, <3>1, <3>2
  <2>9. AllApart'
    <3>1. \A u \in Thread : GoesOn(thread[u], thread'[u], rows')
      BY <1>2, <2>8, IdleParts DEF GoesOn, About
    <3>2. QED BY <1>1, <3>1, ApartKept
  <2>10. ASSUME NEW u \in Thread, u # t PROVE ThreadFits(u)'
    <3>1. AskFits(thread[u])' /\ StageFits(thread[u])'
      <4>1. thread[u].op = "RENAME" /\ NameFree(thread[u].new) => NameFree(thread[u].new)'
        <5> SUFFICES ASSUME thread[u].op = "RENAME", NameFree(thread[u].new) PROVE NameFree(thread[u].new)'
          OBVIOUS
        <5>1. thread[u].new # x.name
          BY <1>1, <2>10, NotTogether, PoolAssumption DEF Renames, ByName, About
        <5>2. QED BY <1>1, <2>1, <2>2, <2>8, <2>10, <5>1 DEF NameFree, Named, cache
      <4>2. QED BY <1>1, <2>1, <2>8, <2>10, <4>1, PoolAssumption, OthersKeepAsking
                DEF StageFits, cache, AskFits, ById, Renames
    <3>2. thread[u].at \notin Inside
      BY <2>10, OthersOutside DEF allocate
    <3>3. ObjectFits(u)'
      <4>1. thread[u].ptr \in Ptr => objects[thread[u].ptr].live
        BY <2>10, PoolAssumption DEF PoolInv, ThreadFits, ObjectFits, Has, Object
      <4>2. QED BY <1>1, <2>8, <2>10, <3>2, <4>1, OutsideKeeps
    <3>4. QED BY <3>1, <3>3 DEF ThreadFits
  <2>11. QED BY <1>1, <1>2, <2>3, <2>5, <2>6, <2>7, <2>9, <2>10, IdleFits DEF PoolInv, CacheFits
<1>5. QED BY <1>3, <1>4

LEMMA IndexKeeps ==
  ASSUME PoolInv, NEW t \in Thread, update_cache_index(t)
  PROVE  PoolInv'
<1> DEFINE x == thread[t]
<1>1. /\ TypeOK /\ MutexFits /\ CacheFits /\ AllApart /\ x.at = "INDEX" /\ x.op = "RENAME" /\ AskFits(x)
      /\ UNCHANGED <<mutex, pool, oid_queue, objects, lastOID, rows>>
  BY DEF PoolInv, update_cache_index, ThreadFits, StageFits
<1>2. /\ x.name \in Name /\ x.new \in Name /\ x.name # x.new /\ x.oid \in OID /\ rows[x.oid] = x.new
      /\ pool[x.oid] # Null /\ name_pool[x.name] = pool[x.oid] /\ name_pool[x.new] = Null
  BY <1>1 DEF AskFits, Renames, ById
<1>3. PICK p \in Ptr : p = pool[x.oid]
  BY <1>1, <1>2 DEF TypeOK
<1>4. objects[p].live /\ objects[p].oid = x.oid /\ objects[p].name = x.new
  <2>1. objects[p].live /\ objects[p].oid = x.oid
    BY <1>1, <1>2, <1>3 DEF CacheFits, IndexFits
  <2>2. QED BY <1>1, <1>2, <1>3, <2>1, LiveObject, PoolAssumption DEF CacheFits, IndexFits
<1>5. thread' \in [Thread -> Threads] /\ thread'[t] = Idle /\ \A u \in Thread \ {t} : thread'[u] = thread[u]
  BY <1>1, SetThread, IdleParts DEF update_cache_index
<1>6. /\ name_pool' \in [Name -> Ptr \cup {Null}] /\ name_pool'[x.name] = Null /\ name_pool'[x.new] = p
      /\ \A n \in Name \ {x.name, x.new} : name_pool'[n] = name_pool[n]
  <2>1. name_pool' = [name_pool EXCEPT ![x.name] = Null, ![x.new] = IF @ = Null THEN p ELSE @]
    BY <1>2, <1>3, PoolAssumption DEF update_cache_index
  <2>2. QED BY <1>1, <1>2, <2>1 DEF TypeOK
<1>7. TypeOK' /\ MutexFits'
  <2>1. MutexFits'
    BY <1>1, <1>5, IdleParts, MutexKept DEF Inside
  <2>2. QED BY <1>1, <1>5, <1>6, <2>1 DEF TypeOK
<1>8. \A q \in Ptr, u \in Thread : Renamed(u, q) =>
         (Renamed(u, q)' /\ thread'[u] = thread[u]) \/ (u = t /\ q = p)
  <2> SUFFICES ASSUME NEW q \in Ptr, NEW u \in Thread, Renamed(u, q)
               PROVE  (Renamed(u, q)' /\ thread'[u] = thread[u]) \/ (u = t /\ q = p)
    OBVIOUS
  <2>1. CASE u # t
    BY <1>1, <1>5, <2>1 DEF Renamed
  <2>2. CASE u = t
    <3>1. objects[q].oid = x.oid
      BY <2>2 DEF Renamed
    <3>2. objects[q].live
      <4>1. objects[q] \in Objects /\ objects[q] # Freed
        BY <1>1, <1>2, <3>1, PoolAssumption DEF TypeOK, Freed
      <4>2. QED BY <4>1 DEF Objects
    <3>3. pool[objects[q].oid] = q
      BY <1>1, <3>2 DEF CacheFits, IndexFits
    <3>4. QED BY <1>3, <2>2, <3>1, <3>3
  <2>3. QED BY <2>1, <2>2
<1>9. IndexFits'
  <2>1. ASSUME NEW q \in Ptr, objects[q].live
        PROVE  /\ pool'[objects'[q].oid] = q /\ objects'[q].oid <= lastOID'
               /\ rows'[objects'[q].oid] = IF objects'[q].valid THEN objects'[q].name ELSE NoName
               /\ name_pool'[objects'[q].name] = q \/ \E u \in Thread : Renamed(u, q)'
    <3>1. /\ pool[objects[q].oid] = q /\ objects[q].oid <= lastOID /\ objects[q].name \in Name
          /\ rows[objects[q].oid] = IF objects[q].valid THEN objects[q].name ELSE NoName
          /\ name_pool[objects[q].name] = q \/ \E u \in Thread : Renamed(u, q)
      BY <1>1, <2>1, LiveObject DEF CacheFits, IndexFits
    <3>2. CASE q = p
      BY <1>1, <1>4, <1>6, <3>1, <3>2
    <3>3. CASE q # p
      <4>1. (\E u \in Thread : Renamed(u, q)) => \E u \in Thread : Renamed(u, q)'
        BY <1>8, <3>3
      <4>2. name_pool[objects[q].name] = q => objects[q].name \notin {x.name, x.new}
        BY <1>2, <1>3, <3>3, PoolAssumption
      <4>3. QED BY <1>1, <1>6, <3>1, <4>1, <4>2
    <3>4. QED BY <3>2, <3>3
  <2>2. ASSUME NEW n \in Name, name_pool'[n] # Null
        PROVE  /\ objects'[name_pool'[n]].live
               /\ \/ objects'[name_pool'[n]].name = n
                  \/ \E u \in Thread : Renamed(u, name_pool[n])' /\ thread'[u].name = n
    <3>1. CASE n = x.new
      BY <1>1, <1>4, <1>6, <3>1
    <3>2. CASE n # x.new
      <4>1. n # x.name /\ name_pool'[n] = name_pool[n] /\ name_pool[n] \in Ptr
        BY <1>1, <1>6, <2>2, <3>2 DEF TypeOK
      <4>2. /\ objects[name_pool[n]].live
            /\ \/ objects[name_pool[n]].name = n
               \/ \E u \in Thread : Renamed(u, name_pool[n]) /\ thread[u].name = n
        BY <1>1, <2>2, <4>1 DEF CacheFits, IndexFits
      <4>3. ASSUME NEW u \in Thread, Renamed(u, name_pool[n]), thread[u].name = n
            PROVE  thread'[u].at = "INDEX" /\ thread'[u].oid = objects[name_pool[n]].oid /\ thread'[u].name = n
        BY <1>5, <4>1, <4>3 DEF Renamed
      <4>4. QED BY <1>1, <4>1, <4>2, <4>3 DEF Renamed
    <3>3. QED BY <3>1, <3>2
  <2>3. QED BY <1>1, <2>1, <2>2 DEF IndexFits, CacheFits
<1>10. RowsFit' /\ QueueFits' /\ RoomFits'
  <2>1. At("REPLACE")' = At("REPLACE")
    BY <1>1, <1>5, IdleParts DEF At
  <2>2. QED BY <1>1, <2>1 DEF CacheFits, RowsFit, QueueFits, RoomFits, InCache, Existing
<1>11. AllApart'
  BY <1>1, <1>5, IdleParts, ApartWithRows DEF GoesOn
<1>12. ASSUME NEW u \in Thread, u # t PROVE ThreadFits(u)'
  <2>1. AskFits(thread[u]) /\ StageFits(thread[u]) /\ thread'[u] = thread[u] /\ thread[u].at \notin Inside
    BY <1>5, <1>12, OthersOutside DEF PoolInv, ThreadFits, update_cache_index
  <2>2. ASSUME thread[u].op = "RENAME"
        PROVE  IF thread[u].at = "INDEX"
               THEN /\ name_pool'[thread[u].name] = name_pool[thread[u].name]
                    /\ name_pool'[thread[u].new] = name_pool[thread[u].new]
               ELSE name_pool'[thread[u].new] = name_pool[thread[u].new]
    <3>1. \A n \in {thread[u].name, thread[u].new} : n \in Name /\ n # x.name /\ n # x.new
      BY <1>1, <1>2, <1>12, <2>1, <2>2, NotTogether, PoolAssumption DEF AskFits, Renames, About
    <3>2. QED BY <1>6, <3>1
  <2>3. AskFits(thread[u])'
    BY <1>1, <2>1, <2>2 DEF AskFits, NameFree, Named, Existing
  <2>4. ObjectFits(u)'
    <3>1. thread[u].ptr \in Ptr => objects[thread[u].ptr].live
      BY <1>12, PoolAssumption DEF PoolInv, ThreadFits, ObjectFits, Has, Object
    <3>2. QED BY <1>1, <2>1, <3>1, OutsideKeeps
  <2>5. QED BY <2>1, <2>3, <2>4 DEF ThreadFits, StageFits
<1>13. QED BY <1>5, <1>7, <1>9, <1>10, <1>11, <1>12, IdleFits DEF PoolInv, CacheFits

(* A thread that takes the mutex, or an object with it, or gives it back.  *)
LEMMA LookKeeps ==
  ASSUME PoolInv, NEW t \in Thread, Free \/ mutex = t, TypeOK', MutexFits',
         UNCHANGED <<cache, lastOID, rows>>,
         \A p \in Ptr : \/ objects'[p] = objects[p]
                        \/ /\ objects[p].holder = Nobody /\ (objects'[p].live <=> objects[p].live)
                           /\ (objects'[p].valid <=> objects[p].valid)
                           /\ objects'[p].oid = objects[p].oid /\ objects'[p].name = objects[p].name,
         \A u \in Thread \ {t} : thread'[u] = thread[u],
         thread[t].at \notin {"INDEX", "REPLACE"}, thread'[t].at \notin {"INDEX", "REPLACE"},
         GoesOn(thread[t], thread'[t], rows'), ThreadFits(t)'
  PROVE  PoolInv'
<1>1. TypeOK /\ CacheFits /\ AllApart
  BY DEF PoolInv
<1>2. CacheFits'
  <2>1. At("REPLACE")' = At("REPLACE")
    BY DEF At
  <2>2. \A p \in Ptr : /\ objects'[p].live <=> objects[p].live
                       /\ objects'[p].oid = objects[p].oid /\ objects'[p].name = objects[p].name
                       /\ objects'[p].valid <=> objects[p].valid
    OBVIOUS
  <2>3. QED BY <1>1, <2>1, <2>2, CacheKept
<1>3. AllApart'
  BY <1>1, ApartWithRows
<1>4. ASSUME NEW u \in Thread, u # t PROVE ThreadFits(u)'
  <2>1. AskFits(thread[u]) /\ StageFits(thread[u]) /\ thread'[u] = thread[u] /\ thread[u].at \notin Inside
    BY <1>4, OthersOutside DEF PoolInv, ThreadFits
  <2>2. AskFits(thread[u])' /\ StageFits(thread[u])'
    <3>1. NameFree(thread[u].new)' <=> NameFree(thread[u].new)
      BY <2>1 DEF NameFree, Named, Existing, cache
    <3>2. QED BY <2>1, <3>1 DEF AskFits, StageFits, cache
  <2>3. ObjectFits(u)'
    <3>1. Has(u) /\ u # Nobody
      BY <1>4, PoolAssumption DEF PoolInv, ThreadFits, ObjectFits
    <3>2. thread[u].ptr \in Ptr => objects[thread[u].ptr].live
                                   /\ (thread[u].at = "HOLD" => objects[thread[u].ptr].holder = u)
      BY <3>1, PoolAssumption DEF Has, Object
    <3>3. thread[u].ptr \in Ptr =>
            /\ objects'[thread[u].ptr].live
            /\ thread[u].at = "HOLD" => objects'[thread[u].ptr] = objects[thread[u].ptr]
      BY <3>1, <3>2
    <3>4. QED BY <2>1, <3>3, OutsideKeeps
  <2>4. QED BY <2>2, <2>3 DEF ThreadFits
<1>5. QED BY <1>2, <1>3, <1>4 DEF PoolInv

LEMMA GetCachedKeeps ==
  ASSUME PoolInv, NEW t \in Thread, get_cached(t)
  PROVE  PoolInv'
<1> DEFINE x == thread[t]
           p == Cached(t)
<1>1. /\ TypeOK /\ MutexFits /\ IndexFits /\ x.at = "GET" /\ Free /\ p # Null /\ UNCHANGED <<cache, objects, lastOID, rows>>
      /\ AskFits(x) /\ StageFits(x) /\ x \in Threads /\ x.op # "NONE"
  BY ThreadParts DEF PoolInv, CacheFits, get_cached, ThreadFits, AskFits
<1>2. /\ p \in Ptr /\ objects[p].live
      /\ x.op \in ById => objects[p].oid = x.oid /\ rows[x.oid] = IF objects[p].valid THEN objects[p].name ELSE NoName
      /\ x.op = "RENAME_CHECK" /\ objects[p].valid => objects[p].name = x.new
  <2>1. CASE x.op \in ByName
    <3>1. Key(t) \in Name /\ p = name_pool[Key(t)] /\ x.op \notin ById
      BY <1>1, <2>1 DEF Key, Cached, AskFits, ByName, ById, Renames
    <3>2. p \in Ptr /\ objects[p].live
          /\ (objects[p].name = Key(t) \/ \E u \in Thread : Renamed(u, p) /\ thread[u].name = Key(t))
      BY <1>1, <3>1 DEF TypeOK, IndexFits
    <3>3. ASSUME x.op = "RENAME_CHECK", NEW u \in Thread, Renamed(u, p), thread[u].name = Key(t) PROVE FALSE
      <4>1. u # t /\ thread[u].op = "RENAME" /\ Key(t) = x.new /\ Key(t) # NoName
        BY <1>1, <3>1, <3>3, PoolAssumption DEF Renamed, PoolInv, ThreadFits, StageFits, Key
      <4>2. About(x, x.new, rows) /\ About(thread[u], x.new, rows)
        BY <3>3, <4>1 DEF About
      <4>3. QED BY <3>3, <4>1, <4>2, NotTogether DEF Renames
    <3>4. x.op = "RENAME_CHECK" => Key(t) = x.new
      BY DEF Key
    <3>5. QED BY <3>1, <3>2, <3>3, <3>4
  <2>2. CASE x.op \notin ByName
    <3>1. x.op \in ById /\ x.oid \in OID /\ p = pool[x.oid]
      BY <1>1, <2>2 DEF Cached, AskFits, Threads
    <3>2. QED BY <1>1, <2>2, <3>1 DEF TypeOK, IndexFits, ByName
  <2>3. QED BY <2>1, <2>2
<1>3. CASE ~objects[p].valid
  <2>1. x.op \in ById /\ Set(t, NotFound(x)) /\ UNCHANGED mutex
    BY <1>1, <1>3 DEF get_cached
  <2>2. x.op # "RENAME" /\ x.op # "RENAME_CHECK" /\ x.op # "ALLOCATE"
    BY <1>1, <1>2, <1>3, <2>1, PoolAssumption DEF AskFits, ById
  <2>3. NotFound(x) = Idle
    BY <2>2 DEF NotFound
  <2>4. QED BY <1>1, <2>1, <2>3, DoneKeeps DEF Inside
<1>4. CASE objects[p].valid /\ x.op = "ALLOCATE"
  <2> DEFINE y == [x EXCEPT !.ptr = p, !.at = "PEEK"]
  <2>1. Set(t, y) /\ UNCHANGED mutex
    BY <1>1, <1>4 DEF get_cached, Returned, Threads
  <2>2. y \in Threads /\ y.op = "ALLOCATE" /\ y.at = "PEEK" /\ y.ptr = p /\ y.oid = x.oid /\ y.name = x.name /\ y.new = x.new
    BY <1>1, <1>2, <1>4 DEF Threads, Stage
  <2> HIDE DEF y, p
  <2>3. thread' \in [Thread -> Threads] /\ thread'[t] = y /\ \A u \in Thread \ {t} : thread'[u] = thread[u]
    BY <1>1, <2>1, <2>2, SetThread
  <2>4. TypeOK' /\ MutexFits'
    <3>1. MutexFits'
      BY <1>1, <2>1, <2>2, <2>3, MutexKept DEF Inside
    <3>2. QED BY <1>1, <2>1, <2>3, <3>1 DEF TypeOK, cache
  <2>5. GoesOn(x, y, rows')
    BY <1>1, <1>4, <2>2 DEF GoesOn, About, Named3, Renames, ByName
  <2>6. ThreadFits(t)'
    <3>1. AskFits(thread[t])' /\ StageFits(thread[t])'
      BY <1>1, <1>4, <2>2, <2>3 DEF AskFits, StageFits, ById, Renames
    <3>2. ObjectFits(t)'
      BY <1>1, <1>2, <2>2, <2>3 DEF ObjectFits, Has, HasIts, MakesWay, Object
    <3>3. QED BY <3>1, <3>2 DEF ThreadFits
  <2>7. QED BY <1>1, <2>2, <2>3, <2>4, <2>5, <2>6, LookKeeps
<1>5. CASE objects[p].valid /\ x.op # "ALLOCATE"
  <2> DEFINE y == [x EXCEPT !.at = "LOCK", !.ptr = p]
  <2>1. Set(t, y) /\ mutex' = t
    BY <1>1, <1>5 DEF get_cached
  <2>2. y \in Threads /\ y.op = x.op /\ y.at = "LOCK" /\ y.ptr = p /\ y.oid = x.oid /\ y.name = x.name /\ y.new = x.new
    BY <1>1, <1>2 DEF Threads, Stage
  <2> HIDE DEF y, p
  <2>3. thread' \in [Thread -> Threads] /\ thread'[t] = y /\ \A u \in Thread \ {t} : thread'[u] = thread[u]
    BY <1>1, <2>1, <2>2, SetThread
  <2>4. TypeOK' /\ MutexFits'
    <3>1. MutexFits'
      BY <1>1, <2>1, <2>2, <2>3, OthersOutside DEF MutexFits, Inside
    <3>2. QED BY <1>1, <2>1, <2>3, <3>1 DEF TypeOK, cache
  <2>5. GoesOn(x, y, rows')
    BY <1>1, <2>2 DEF GoesOn, About
  <2>6. ThreadFits(t)'
    <3>1. AskFits(thread[t])' /\ StageFits(thread[t])'
      <4>1. \A n \in Name \cup {NoName} : NameFree(n)' <=> NameFree(n)
        BY <1>1 DEF NameFree, Named, Existing, cache
      <4>2. x.new \in Name \cup {NoName}
        BY <1>1 DEF Threads
      <4>3. QED BY <1>1, <1>5, <2>2, <2>3, <4>1, <4>2 DEF AskFits, StageFits, cache
    <3>2. ObjectFits(t)'
      BY <1>1, <1>2, <1>5, <2>2, <2>3 DEF ObjectFits, Has, HasIts, MakesWay, Object
    <3>3. QED BY <3>1, <3>2 DEF ThreadFits
  <2>7. QED BY <1>1, <2>2, <2>3, <2>4, <2>5, <2>6, LookKeeps
<1>6. QED BY <1>3, <1>4, <1>5

(* A thread that gives the mutex back.                                     *)
LEMMA MutexGivenBack ==
  ASSUME PoolInv, NEW t \in Thread, mutex = t \/ Free, mutex' = Nobody, thread'[t].at \notin Inside,
         \A u \in Thread \ {t} : thread'[u] = thread[u]
  PROVE  MutexFits'
BY OthersOutside, PoolAssumption DEF MutexFits

LEMMA LockKeeps ==
  ASSUME PoolInv, NEW t \in Thread, object_lock(t)
  PROVE  PoolInv'
<1> DEFINE x == thread[t]
           q == x.ptr
<1>1. /\ TypeOK /\ MutexFits /\ IndexFits /\ x.at = "LOCK" /\ mutex = t /\ mutex' = Nobody
      /\ UNCHANGED <<cache, lastOID, rows>>
      /\ AskFits(x) /\ StageFits(x) /\ x \in Threads /\ x.op # "NONE" /\ x.op # "ALLOCATE"
      /\ q \in Ptr /\ objects[q].live /\ objects[q].holder = Nobody
      /\ x.op \in ById => objects[q].oid = x.oid
      /\ x.op = "RENAME_CHECK" => objects[q].valid
  BY ThreadParts DEF PoolInv, CacheFits, object_lock, ThreadFits, AskFits, StageFits, ObjectFits, Has, HasIts, Object, MutexFits, Inside
<1>2. CASE objects[q].valid
  <2> DEFINE y == [x EXCEPT !.at = "HOLD"]
             r == [objects[q] EXCEPT !.holder = t]
  <2>1. Set(t, y) /\ objects' = [objects EXCEPT ![q] = r]
    BY <1>2 DEF object_lock, Go, Object
  <2>2. y \in Threads /\ y.op = x.op /\ y.at = "HOLD" /\ y.ptr = q /\ y.oid = x.oid /\ y.name = x.name /\ y.new = x.new
    BY <1>1 DEF Threads, Stage
  <2>3. /\ r \in Objects /\ r.live /\ r.valid /\ r.holder = t
        /\ r.oid = objects[q].oid /\ r.name = objects[q].name
    <3>1. objects[q] \in Objects /\ objects[q] # Freed
      BY <1>1 DEF TypeOK, Freed
    <3>2. QED BY <1>2, <3>1 DEF Objects
  <2> HIDE DEF y, r, q
  <2>4. thread' \in [Thread -> Threads] /\ thread'[t] = y /\ \A u \in Thread \ {t} : thread'[u] = thread[u]
    BY <1>1, <2>1, <2>2, SetThread
  <2>5. objects' \in [Ptr -> Objects] /\ objects'[q] = r /\ \A p \in Ptr : p # q => objects'[p] = objects[p]
    BY <1>1, <2>1, <2>3 DEF TypeOK
  <2>6. TypeOK' /\ MutexFits'
    <3>1. MutexFits'
      BY <1>1, <2>2, <2>4, MutexGivenBack DEF Inside
    <3>2. QED BY <1>1, <2>4, <2>5, <3>1 DEF TypeOK, cache
  <2>7. GoesOn(x, y, rows')
    BY <1>1, <2>2 DEF GoesOn, About
  <2>8. ThreadFits(t)'
    <3>1. AskFits(thread[t])' /\ StageFits(thread[t])'
      <4>1. \A n \in Name \cup {NoName} : NameFree(n)' <=> NameFree(n)
        BY <1>1 DEF NameFree, Named, Existing, cache
      <4>2. x.new \in Name \cup {NoName}
        BY <1>1 DEF Threads
      <4>3. QED BY <1>1, <2>2, <2>4, <4>1, <4>2 DEF AskFits, StageFits, cache
    <3>2. ObjectFits(t)'
      BY <1>1, <2>2, <2>3, <2>4, <2>5 DEF ObjectFits, Has, HasIts, MakesWay, Object
    <3>3. QED BY <3>1, <3>2 DEF ThreadFits
  <2>9. \A p \in Ptr : \/ objects'[p] = objects[p]
                       \/ /\ objects[p].holder = Nobody /\ (objects'[p].live <=> objects[p].live)
                          /\ (objects'[p].valid <=> objects[p].valid)
                          /\ objects'[p].oid = objects[p].oid /\ objects'[p].name = objects[p].name
    BY <1>1, <1>2, <2>3, <2>5
  <2>10. thread[t].at \notin {"INDEX", "REPLACE"} /\ thread'[t].at \notin {"INDEX", "REPLACE"} /\ thread'[t] = y
    BY <1>1, <2>2, <2>4
  <2>11. QED BY <1>1, <2>4, <2>6, <2>7, <2>8, <2>9, <2>10, LookKeeps
<1>3. CASE ~objects[q].valid
  <2>1. Set(t, NotFound(x)) /\ objects' = objects
    BY <1>3 DEF object_lock, Object
  <2>2. x.op # "RENAME_CHECK"
    BY <1>1, <1>3
  <2>3. x.op # "RENAME"
    <3>1. rows[objects[q].oid] = NoName
      BY <1>1, <1>3 DEF IndexFits
    <3>2. QED BY <1>1, <3>1, PoolAssumption DEF AskFits, ById
  <2>4. NotFound(x) = Idle
    BY <1>1, <2>2, <2>3 DEF NotFound
  <2>5. thread' \in [Thread -> Threads] /\ thread'[t] = Idle /\ \A u \in Thread \ {t} : thread'[u] = thread[u]
    BY <1>1, <2>1, <2>4, SetThread, IdleParts
  <2>6. TypeOK' /\ MutexFits'
    <3>1. MutexFits'
      BY <1>1, <2>5, IdleParts, MutexGivenBack DEF Inside
    <3>2. QED BY <1>1, <2>1, <2>5, <3>1 DEF TypeOK, cache
  <2>7. GoesOn(x, Idle, rows') /\ ThreadFits(t)'
    BY <2>5, IdleFits, IdleParts DEF GoesOn
  <2>8. thread[t].at \notin {"INDEX", "REPLACE"} /\ thread'[t].at \notin {"INDEX", "REPLACE"}
    BY <1>1, <2>5, IdleParts
  <2>9. QED BY <1>1, <2>1, <2>5, <2>6, <2>7, <2>8, LookKeeps
<1>4. QED BY <1>2, <1>3

-----------------------------------------------------------------------------
(* Reading an object into the cache *)

(* A cache of which no object is just being renamed.                       *)
Clean(po, na, ob) ==
  /\ po \in [OID -> Ptr \cup {Null}] /\ na \in [Name -> Ptr \cup {Null}] /\ ob \in [Ptr -> Objects]
  /\ \A p \in Ptr : ob[p].live =>
       /\ po[ob[p].oid] = p /\ ob[p].oid <= lastOID /\ na[ob[p].name] = p
       /\ rows[ob[p].oid] = IF ob[p].valid THEN ob[p].name ELSE NoName
  /\ \A o \in OID : po[o] # Null => ob[po[o]].live /\ ob[po[o]].oid = o
  /\ \A n \in Name : na[n] # Null => ob[na[n]].live /\ ob[na[n]].name = n

LEMMA LiveIn ==
  ASSUME NEW ob \in [Ptr -> Objects], NEW p \in Ptr, ob[p].live
  PROVE  ob[p].oid \in OID /\ ob[p].name \in Name
<1>1. ob[p] \in Objects /\ ob[p] # Freed
  BY DEF Freed
<1>2. QED BY <1>1 DEF Objects

LEMMA NowClean ==
  ASSUME PoolInv, Unindexed = {}
  PROVE  Clean(pool, name_pool, objects)
<1>1. TypeOK /\ IndexFits
  BY DEF PoolInv, CacheFits
<1>2. \A u \in Thread : thread[u].at # "INDEX"
  BY DEF PoolInv, ThreadFits, StageFits, Unindexed
<1>3. QED BY <1>1, <1>2 DEF Clean, IndexFits, TypeOK, Renamed

LEMMA CleanFits ==
  ASSUME TypeOK', Clean(pool', name_pool', objects'), UNCHANGED <<lastOID, rows>>
  PROVE  IndexFits'
BY DEF Clean, IndexFits

(* There is memory for another object.                                     *)
LEMMA FreeMemory ==
  ASSUME NEW po, NEW na, NEW ob, Clean(po, na, ob), NEW o \in OID, po[o] = Null
  PROVE  Fresh(ob) \in Ptr /\ ~ob[Fresh(ob)].live
<1>1. ASSUME \A p \in Ptr : ob[p].live PROVE FALSE
  <2> DEFINE f == [p \in Ptr |-> ob[p].oid]
  <2>1. \A p \in Ptr : ob[p].oid \in OID /\ po[ob[p].oid] = p
    BY <1>1, LiveIn DEF Clean
  <2>2. f \in [Ptr -> OID \ {o}]
    BY <2>1, PoolAssumption
  <2>3. /\ IsFiniteSet(OID \ {o}) /\ Cardinality(OID \ {o}) = Cardinality(OID) - 1
        /\ IsFiniteSet(Ptr) /\ Cardinality(Ptr) \in Nat /\ Cardinality(OID) \in Nat
    BY PoolAssumption, FS_RemoveElement, FS_CardinalityType
  <2>4. Cardinality(OID \ {o}) < Cardinality(Ptr)
    BY <2>3, PoolAssumption
  <2>5. PICK p \in Ptr, q \in Ptr : p # q /\ f[p] = f[q]
    <3> HIDE DEF f
    <3>1. QED BY <2>2, <2>3, <2>4, FS_PigeonHole
  <2>6. QED BY <2>1, <2>5
<1>2. QED BY <1>1 DEF Fresh

LEMMA LoadClean ==
  ASSUME NEW po, NEW na, NEW ob, Clean(po, na, ob), NEW o \in Existing, po[o] = Null, o <= lastOID,
         rows[o] \in Name, na[rows[o]] = Null,
         NEW p \in Ptr, ~ob[p].live, NEW h \in Thread \cup {Nobody},
         NEW x, x = [live |-> TRUE, oid |-> o, name |-> rows[o], valid |-> TRUE, holder |-> h]
  PROVE  Clean([po EXCEPT ![o] = p], [na EXCEPT ![rows[o]] = p], [ob EXCEPT ![p] = x])
<1> DEFINE n  == rows[o]
           po1 == [po EXCEPT ![o] = p]
           na1 == [na EXCEPT ![n] = p]
           ob1 == [ob EXCEPT ![p] = x]
<1>1. o \in OID /\ n \in Name /\ p # Null
  BY PoolAssumption DEF Existing
<1>2. x \in Objects /\ x.live /\ x.oid = o /\ x.name = n /\ x.valid
  BY <1>1 DEF Objects
<1>3. /\ po1 \in [OID -> Ptr \cup {Null}] /\ na1 \in [Name -> Ptr \cup {Null}] /\ ob1 \in [Ptr -> Objects]
      /\ po1[o] = p /\ na1[n] = p /\ ob1[p] = x
      /\ \A k \in OID : k # o => po1[k] = po[k]
      /\ \A k \in Name : k # n => na1[k] = na[k]
      /\ \A q \in Ptr : q # p => ob1[q] = ob[q]
  BY <1>1, <1>2 DEF Clean
<1> HIDE DEF po1, na1, ob1, n
<1>4. ASSUME NEW q \in Ptr, ob1[q].live
      PROVE  /\ po1[ob1[q].oid] = q /\ ob1[q].oid <= lastOID /\ na1[ob1[q].name] = q
             /\ rows[ob1[q].oid] = IF ob1[q].valid THEN ob1[q].name ELSE NoName
  <2>1. CASE q = p
    BY <1>2, <1>3, <2>1 DEF n
  <2>2. CASE q # p
    <3>1. ob1[q] = ob[q] /\ ob[q].oid \in OID /\ ob[q].name \in Name
      BY <1>3, <1>4, <2>2, LiveIn DEF Clean
    <3>2. /\ po[ob[q].oid] = q /\ ob[q].oid <= lastOID /\ na[ob[q].name] = q
          /\ rows[ob[q].oid] = IF ob[q].valid THEN ob[q].name ELSE NoName
      BY <1>4, <3>1 DEF Clean
    <3>3. ob[q].oid # o /\ ob[q].name # n
      BY <3>2, PoolAssumption DEF n
    <3>4. QED BY <1>3, <3>1, <3>2, <3>3
  <2>3. QED BY <2>1, <2>2
<1>5. ASSUME NEW k \in OID, po1[k] # Null PROVE ob1[po1[k]].live /\ ob1[po1[k]].oid = k
  <2>1. CASE k = o
    BY <1>2, <1>3, <2>1
  <2>2. CASE k # o
    BY <1>3, <1>5, <2>2 DEF Clean
  <2>3. QED BY <2>1, <2>2
<1>6. ASSUME NEW k \in Name, na1[k] # Null PROVE ob1[na1[k]].live /\ ob1[na1[k]].name = k
  <2>1. CASE k = n
    BY <1>2, <1>3, <2>1
  <2>2. CASE k # n
    BY <1>3, <1>6, <2>2 DEF Clean
  <2>3. QED BY <2>1, <2>2
<1>7. Clean(po1, na1, ob1)
  BY <1>3, <1>4, <1>5, <1>6 DEF Clean
<1>8. QED BY <1>7 DEF po1, na1, ob1, n

(* The cache that get has when it reads the row.                           *)
Full(po, o) == Cardinality({k \in OID : po[k] # Null} \cup {o}) > MaxPool
Ready(t, po, na, ob) ==
  /\ thread[t].at \in {"GET", "EVICT"} /\ thread[t].op # "NONE" /\ Unindexed = {} /\ Clean(po, na, ob)
  /\ \A o \in OID : po[o] = pool[o] \/ (po[o] = Null /\ o \notin Existing)
  /\ \A n \in Name : na[n] = name_pool[n] \/ na[n] = Null
  /\ \A u \in Thread \ {t} : thread[u].ptr \in Ptr => ob[thread[u].ptr] = objects[thread[u].ptr]
  /\ \A o \in Wanted(t) : po[o] = Null /\ na[rows[o]] = Null
  /\ thread[t].op \in ByName => na[Key(t)] = Null
  /\ thread[t].op = "ALLOCATE" => \A o \in Wanted(t) : Full(po, o) =>
       \E w \in OID : po[w] # Null /\ ob[po[w]].holder = Nobody

LEMMA ReadOthers ==
  ASSUME PoolInv, NEW t \in Thread, Free \/ mutex = t, Unindexed = {},
         NEW u \in Thread, u # t, thread'[u] = thread[u], UNCHANGED <<lastOID, rows>>,
         \A n \in Name : NameFree(n) => name_pool'[n] = Null,
         thread[u].ptr \in Ptr => objects'[thread[u].ptr] = objects[thread[u].ptr]
  PROVE  ThreadFits(u)'
<1> DEFINE x == thread[u]
<1>1. AskFits(x) /\ StageFits(x) /\ Has(u) /\ x.at \notin Inside
  BY OthersOutside DEF PoolInv, ThreadFits, ObjectFits
<1>2. x.op = "RENAME" => x.at # "INDEX" /\ x.new \in Name
  BY <1>1 DEF Unindexed, AskFits, Renames
<1>3. x.op = "RENAME" => NameFree(x.new)'
  BY <1>1, <1>2 DEF AskFits, NameFree, Named, Existing
<1>4. AskFits(thread[u])' /\ StageFits(thread[u])'
  BY <1>1, <1>2, <1>3 DEF AskFits, StageFits
<1>5. ObjectFits(u)'
  <2>1. x.ptr \in Ptr => objects[x.ptr].live
    BY <1>1, PoolAssumption DEF Has, Object
  <2>2. QED BY <1>1, <2>1, OutsideKeeps
<1>6. QED BY <1>4, <1>5 DEF ThreadFits

LEMMA QueueKept ==
  ASSUME PoolInv, pool' \in [OID -> Ptr \cup {Null}], UNCHANGED <<oid_queue, lastOID, rows>>,
         \A o \in OID : pool'[o] = pool[o] \/ (pool'[o] = Null /\ o \notin Existing)
  PROVE  QueueFits'
<1>1. QueueFits /\ \A k \in DOMAIN oid_queue : oid_queue[k] \in OID
  BY QueueParts DEF PoolInv, CacheFits
<1>2. Existing' = Existing
  BY DEF Existing
<1>3. QED BY <1>1, <1>2 DEF QueueFits

LEMMA QueueGrows ==
  ASSUME PoolInv, NEW po \in [OID -> Ptr \cup {Null}], NEW o \in Existing, po[o] = Null,
         NEW p \in Ptr, pool' = [po EXCEPT ![o] = p],
         oid_queue' = Append(oid_queue, o), UNCHANGED <<lastOID, rows>>,
         \A k \in OID : po[k] = pool[k] \/ (po[k] = Null /\ k \notin Existing)
  PROVE  /\ QueueFits' /\ DOMAIN oid_queue' = DOMAIN oid_queue \cup {Len(oid_queue) + 1}
         /\ \A k \in DOMAIN oid_queue : oid_queue'[k] = oid_queue[k] /\ oid_queue[k] # o
         /\ oid_queue'[Len(oid_queue) + 1] = o
<1> DEFINE l == Len(oid_queue) + 1
<1>1. /\ QueueFits /\ RowsFit /\ oid_queue \in Seq(OID) /\ DOMAIN oid_queue = 1..Len(oid_queue) /\ Len(oid_queue) \in Nat
      /\ \A k \in DOMAIN oid_queue : oid_queue[k] \in OID
      /\ o \in OID /\ Existing' = Existing /\ p # Null
  BY QueueParts, PoolAssumption DEF PoolInv, CacheFits, TypeOK, Existing
<1>2. /\ DOMAIN oid_queue' = DOMAIN oid_queue \cup {l} /\ l \notin DOMAIN oid_queue
      /\ \A k \in DOMAIN oid_queue : oid_queue'[k] = oid_queue[k]
      /\ oid_queue'[l] = o
  BY <1>1
<1>3. pool'[o] = p /\ \A k \in OID : k # o => pool'[k] = po[k]
  BY <1>1
<1>4. \A k \in DOMAIN oid_queue : oid_queue[k] # o
  BY <1>1 DEF QueueFits
<1>5. \A k \in OID : pool'[k] # Null => \E m \in DOMAIN oid_queue' : oid_queue'[m] = k
  <2> SUFFICES ASSUME NEW k \in OID, pool'[k] # Null PROVE \E m \in DOMAIN oid_queue' : oid_queue'[m] = k
    OBVIOUS
  <2>1. CASE k = o
    BY <1>2, <2>1
  <2>2. CASE k # o
    <3>1. PICK m \in DOMAIN oid_queue : oid_queue[m] = k
      BY <1>1, <1>3, <2>2 DEF QueueFits
    <3>2. QED BY <1>2, <3>1
  <2>3. QED BY <2>1, <2>2
<1>6. \A k, m \in DOMAIN oid_queue' : oid_queue'[k] = oid_queue'[m] => k = m
  BY <1>1, <1>2, <1>4 DEF QueueFits
<1>7. \A k \in DOMAIN oid_queue' : oid_queue'[k] <= lastOID' /\ (pool'[oid_queue'[k]] = Null => oid_queue'[k] \notin Existing')
  <2> SUFFICES ASSUME NEW k \in DOMAIN oid_queue'
               PROVE  oid_queue'[k] <= lastOID' /\ (pool'[oid_queue'[k]] = Null => oid_queue'[k] \notin Existing')
    OBVIOUS
  <2>1. CASE k = l
    BY <1>1, <1>2, <1>3, <2>1 DEF RowsFit
  <2>2. CASE k # l
    BY <1>1, <1>2, <1>3, <1>4, <2>2 DEF QueueFits
  <2>3. QED BY <2>1, <2>2
<1>8. QueueFits'
  BY <1>5, <1>6, <1>7 DEF QueueFits
<1>9. QED BY <1>2, <1>4, <1>8

(* Room for one more.                                                      *)
LEMMA RoomIn ==
  ASSUME PoolInv, At("REPLACE") = {}, NEW po,
         \A k \in OID : po[k] = pool[k] \/ (po[k] = Null /\ k \notin Existing)
  PROVE  LET C == {k \in OID : po[k] # Null} IN
         /\ IsFiniteSet(C) /\ Cardinality(C) \in Nat /\ Cardinality(C) <= MaxPool
         /\ \A o \in OID : Cardinality(C \cup {o}) \in Nat /\ Cardinality(C \cup {o}) <= MaxPool + 1
<1> DEFINE C == {k \in OID : po[k] # Null}
<1>1. IsFiniteSet(InCache) /\ Cardinality(InCache) <= MaxPool /\ Cardinality(InCache) \in Nat /\ MaxPool \in Nat
  <2>1. InCache \in SUBSET OID
    BY DEF InCache
  <2>2. QED BY <2>1, FS_Subset, FS_CardinalityType, PoolAssumption DEF PoolInv, CacheFits, RoomFits
<1>2. C \in SUBSET InCache
  BY DEF InCache
<1>3. IsFiniteSet(C) /\ Cardinality(C) \in Nat /\ Cardinality(C) <= MaxPool
  <2> HIDE DEF C
  <2>1. IsFiniteSet(C) /\ Cardinality(C) <= Cardinality(InCache)
    BY <1>1, <1>2, FS_Subset
  <2>2. Cardinality(C) \in Nat
    BY <2>1, FS_CardinalityType
  <2>3. QED BY <1>1, <2>1, <2>2
<1>4. ASSUME NEW o \in OID PROVE Cardinality(C \cup {o}) \in Nat /\ Cardinality(C \cup {o}) <= MaxPool + 1
  <2> HIDE DEF C
  <2>1. Cardinality(C \cup {o}) = IF o \in C THEN Cardinality(C) ELSE Cardinality(C) + 1
    BY <1>3, FS_AddElement
  <2>2. QED BY <1>1, <1>3, <2>1
<1>5. QED BY <1>3, <1>4

(* The row is there: a new object is made of it.                           *)
LEMMA LoadKeeps ==
  ASSUME PoolInv, NEW t \in Thread, Free \/ mutex = t, NEW po, NEW na, NEW ob, Ready(t, po, na, ob),
         NEW o \in Wanted(t), load(t, o, po, na, ob), UNCHANGED <<lastOID, rows>>
  PROVE  PoolInv'
<1> DEFINE x  == thread[t]
           n  == rows[o]
           p  == Fresh(ob)
           h  == IF x.op = "ALLOCATE" THEN Nobody ELSE t
           r  == [live |-> TRUE, oid |-> o, name |-> n, valid |-> TRUE, holder |-> h]
           y  == [x EXCEPT !.ptr = p]
           z  == IF Full(po, o) THEN [y EXCEPT !.at = "REPLACE"] ELSE Returned(y)
<1>1. /\ TypeOK /\ RowsFit /\ QueueFits /\ AllApart /\ x \in Threads /\ AskFits(x) /\ StageFits(x)
      /\ Clean(po, na, ob) /\ x.at \in {"GET", "EVICT"} /\ x.op # "NONE" /\ Unindexed = {}
      /\ \A k \in OID : po[k] = pool[k] \/ (po[k] = Null /\ k \notin Existing)
      /\ \A k \in Name : na[k] = name_pool[k] \/ na[k] = Null
      /\ \A u \in Thread \ {t} : thread[u].ptr \in Ptr => ob[thread[u].ptr] = objects[thread[u].ptr]
      /\ po[o] = Null /\ na[n] = Null
      /\ x.op = "ALLOCATE" /\ Full(po, o) => \E w \in OID : po[w] # Null /\ ob[po[w]].holder = Nobody
  BY ThreadParts DEF Ready, PoolInv, CacheFits, ThreadFits
<1>2. /\ o \in OID /\ o \in Existing /\ n \in Name /\ o <= lastOID
      /\ x.op \in ById => o = x.oid
      /\ x.op \in ByName => n = Key(t)
  BY <1>1, PoolAssumption DEF Wanted, Existing, Named, TypeOK, RowsFit, ByName, ById
<1>3. p \in Ptr /\ ~ob[p].live /\ h \in Thread \cup {Nobody} /\ p # Null
  BY <1>1, <1>2, FreeMemory, PoolAssumption
<1> HIDE DEF p
<1>4. /\ objects' = [ob EXCEPT ![p] = r] /\ pool' = [po EXCEPT ![o] = p] /\ name_pool' = [na EXCEPT ![n] = p]
      /\ oid_queue' = Append(oid_queue, o) /\ mutex' = IF Full(po, o) THEN t ELSE Nobody
      /\ Set(t, z)
  BY <1>1 DEF load, Full, p
<1>5. Clean(pool', name_pool', objects')
  BY <1>1, <1>2, <1>3, <1>4, LoadClean
<1>6. /\ objects'[p] = r /\ \A q \in Ptr : q # p => objects'[q] = ob[q]
      /\ pool'[o] = p /\ \A k \in OID : k # o => pool'[k] = po[k]
      /\ name_pool'[n] = p /\ \A k \in Name : k # n => name_pool'[k] = na[k]
  BY <1>1, <1>2, <1>3, <1>4 DEF Clean
<1>7. r.live /\ r.oid = o /\ r.name = n /\ r.valid /\ r.holder = h
  OBVIOUS
<1>8. /\ z \in Threads /\ z.op = x.op /\ z.oid = x.oid /\ z.name = x.name /\ z.new = x.new /\ z.ptr = p
      /\ z.at = IF Full(po, o) THEN "REPLACE" ELSE IF x.op = "ALLOCATE" THEN "PEEK" ELSE "HOLD"
  <2>1. /\ y \in Threads /\ y.op = x.op /\ y.at = x.at /\ y.oid = x.oid /\ y.name = x.name
        /\ y.new = x.new /\ y.ptr = p
    BY <1>1, <1>3 DEF Threads
  <2> HIDE DEF y
  <2>2. QED BY <2>1 DEF Returned, Threads, Stage
<1> HIDE DEF z, y, r
<1>9. thread' \in [Thread -> Threads] /\ thread'[t] = z /\ \A u \in Thread \ {t} : thread'[u] = thread[u]
  BY <1>1, <1>4, <1>8, SetThread
<1>10. /\ QueueFits' /\ DOMAIN oid_queue' = DOMAIN oid_queue \cup {Len(oid_queue) + 1}
       /\ \A k \in DOMAIN oid_queue : oid_queue'[k] = oid_queue[k] /\ oid_queue[k] # o
       /\ oid_queue'[Len(oid_queue) + 1] = o
  <2>1. po \in [OID -> Ptr \cup {Null}]
    BY <1>1 DEF Clean
  <2>2. QED BY <1>1, <1>2, <1>3, <1>4, <2>1, QueueGrows
<1>11. TypeOK'
  <2>1. oid_queue' \in Seq(OID) /\ mutex' \in Thread \cup {Nobody}
    BY <1>1, <1>2, <1>4 DEF TypeOK
  <2>2. QED BY <1>1, <1>5, <1>9, <2>1 DEF TypeOK, Clean
<1>12. MutexFits'
  <2>1. \A u \in Thread \ {t} : thread'[u].at \notin Inside
    BY <1>9, OthersOutside
  <2>2. z.at \in Inside <=> Full(po, o)
    BY <1>8 DEF Inside
  <2>3. mutex' = IF Full(po, o) THEN t ELSE Nobody
    BY <1>4
  <2>4. QED BY <1>9, <2>1, <2>2, <2>3, PoolAssumption DEF MutexFits
<1>13. IndexFits' /\ RowsFit'
  BY <1>1, <1>5, <1>11, CleanFits DEF RowsFit, Existing
<1>14. At("REPLACE") = {}
  BY <1>1, OthersOutside DEF At, Inside
<1>15. RoomFits'
  <2>1. InCache' = {k \in OID : po[k] # Null} \cup {o}
    BY <1>2, <1>3, <1>6 DEF InCache
  <2>2. /\ Cardinality({k \in OID : po[k] # Null} \cup {o}) \in Nat
        /\ Cardinality({k \in OID : po[k] # Null} \cup {o}) <= MaxPool + 1
    BY <1>1, <1>2, <1>14, RoomIn
  <2>3. At("REPLACE")' = {} => ~Full(po, o)
    BY <1>8, <1>9 DEF At
  <2>4. MaxPool \in Nat
    BY PoolAssumption
  <2>5. QED BY <2>1, <2>2, <2>3, <2>4 DEF RoomFits, Full
<1>16. AllApart'
  <2>1. GoesOn(x, z, rows')
    BY <1>8 DEF GoesOn, About
  <2>2. QED BY <1>1, <1>9, <2>1, ApartWithRows
<1>17. \A k \in Name : NameFree(k) => name_pool'[k] = Null
  BY <1>1, <1>2, <1>6 DEF NameFree, Named
<1>18. ASSUME NEW u \in Thread, u # t PROVE ThreadFits(u)'
  <2>1. thread[u].ptr \in Ptr => objects'[thread[u].ptr] = objects[thread[u].ptr]
    <3>1. thread[u].ptr \in Ptr => objects[thread[u].ptr].live
      BY <1>18, PoolAssumption DEF PoolInv, ThreadFits, ObjectFits, Has, Object
    <3>2. QED BY <1>1, <1>3, <1>6, <1>18, <3>1
  <2>2. QED BY <1>1, <1>9, <1>17, <1>18, <2>1, ReadOthers
<1>19. ThreadFits(t)'
  <2>1. AskFits(thread[t])' /\ StageFits(thread[t])'
    <3>1. \A k \in Name : NameFree(k) => NameFree(k)'
      BY <1>17 DEF NameFree, Named, Existing
    <3>2. x.op = "RENAME" => x.new \in Name
      BY <1>1 DEF AskFits, Renames
    <3>3. QED BY <1>1, <1>8, <1>9, <3>1, <3>2 DEF AskFits, StageFits
  <2>2. Object(t)' = r
    BY <1>6, <1>8, <1>9 DEF Object
  <2>3. Has(t)' /\ HasIts(t)' /\ MakesWay(t)'
    BY <1>2, <1>3, <1>7, <1>8, <1>9, <2>2 DEF Has, HasIts, MakesWay, ByName, ById
  <2>4. z.at = "REPLACE" => Unindexed' = {}
    BY <1>1, <1>9, <1>8 DEF Unindexed
  <2>5. z.at = "REPLACE" /\ z.op = "ALLOCATE" => HeadFree(o)'
    <3> SUFFICES ASSUME z.at = "REPLACE", z.op = "ALLOCATE" PROVE HeadFree(o)'
      OBVIOUS
    <3>1. PICK w \in OID : po[w] # Null /\ ob[po[w]].holder = Nobody
      BY <1>1, <1>8
    <3>2. w # o /\ pool[w] # Null /\ pool'[w] = po[w] /\ po[w] \in Ptr /\ ob[po[w]].live
      BY <1>1, <1>6, <3>1 DEF Clean
    <3>3. PICK k \in DOMAIN oid_queue : oid_queue[k] = w
      BY <1>1, <3>2 DEF QueueFits
    <3>4. pool'[oid_queue'[k]] # Null /\ objects'[pool'[oid_queue'[k]]].holder = Nobody
      BY <1>3, <1>6, <1>10, <3>1, <3>2, <3>3
    <3>5. \A m \in DOMAIN oid_queue' : oid_queue'[m] = o => m = Len(oid_queue) + 1
      BY <1>10
    <3>6. k \in 1..Len(oid_queue) /\ Len(oid_queue) \in Nat
      BY <1>1, QueueParts
    <3>7. \A m \in DOMAIN oid_queue' : oid_queue'[m] = o => k \in 1..(m-1)
      BY <3>5, <3>6
    <3>8. QED BY <3>4, <3>7 DEF HeadFree
  <2>6. z.at # "EVICT"
    BY <1>8
  <2>7. ObjectFits(t)'
    BY <1>7, <1>9, <2>2, <2>3, <2>4, <2>5, <2>6 DEF ObjectFits
  <2>8. QED BY <2>1, <2>7 DEF ThreadFits
<1>20. QED BY <1>10, <1>11, <1>12, <1>13, <1>15, <1>16, <1>18, <1>19 DEF PoolInv, CacheFits

(* There is no row.                                                        *)
LEMMA NothingKeeps ==
  ASSUME PoolInv, NEW t \in Thread, Free \/ mutex = t, NEW po, NEW na, NEW ob, Ready(t, po, na, ob),
         Wanted(t) = {}, pool' = po, name_pool' = na, objects' = ob, mutex' = Nobody,
         Set(t, NotFound(thread[t])), UNCHANGED <<oid_queue, lastOID, rows>>
  PROVE  PoolInv'
<1> DEFINE x == thread[t]
<1>1. /\ TypeOK /\ RowsFit /\ QueueFits /\ AllApart /\ x \in Threads /\ AskFits(x) /\ StageFits(x)
      /\ Clean(po, na, ob) /\ x.at \in {"GET", "EVICT"} /\ x.op # "NONE" /\ Unindexed = {}
      /\ \A k \in OID : po[k] = pool[k] \/ (po[k] = Null /\ k \notin Existing)
      /\ \A k \in Name : na[k] = name_pool[k] \/ na[k] = Null
      /\ \A u \in Thread \ {t} : thread[u].ptr \in Ptr => ob[thread[u].ptr] = objects[thread[u].ptr]
      /\ x.op \in ByName => na[Key(t)] = Null
  BY ThreadParts DEF Ready, PoolInv, CacheFits, ThreadFits
<1>2. x.op # "RENAME"
  BY <1>1, PoolAssumption DEF AskFits, Wanted, Existing, ByName, ById
<1>3. NotFound(x) \in Threads /\ (x.op = "RENAME_CHECK" => NotFound(x).new = x.new)
  BY <1>1, <1>2, IdleParts DEF NotFound, Threads, Stage, ById, ByName
<1>4. thread[t].op = "RENAME_CHECK" => NameFree(thread[t].new)'
  <2> SUFFICES ASSUME x.op = "RENAME_CHECK" PROVE NameFree(thread[t].new)'
    OBVIOUS
  <2>1. Key(t) = x.new /\ x.op \in ByName
    BY DEF Key, ByName
  <2>2. Named(x.new) = {} /\ thread'[t].new = x.new
    BY <1>1, <1>3, <2>1, SetThread DEF Wanted
  <2>3. \A n : Named(n)' = Named(n)
    BY DEF Named, Existing
  <2>4. QED BY <1>1, <2>1, <2>2, <2>3 DEF NameFree
<1>5. thread' \in [Thread -> Threads] /\ thread'[t] = NotFound(x) /\ \A u \in Thread \ {t} : thread'[u] = thread[u]
  BY <1>1, <1>3, SetThread
<1>6. ThreadFits(t)' /\ GoesOn(x, thread'[t], rows') /\ thread'[t].at \in {"IDLE", "GET", "INSERT"}
  BY <1>1, <1>2, <1>4, <1>5, NotFoundFits
<1>7. TypeOK'
  BY <1>1, <1>5 DEF TypeOK, Clean
<1>8. MutexFits'
  BY <1>5, <1>6, MutexGivenBack DEF Inside
<1>9. IndexFits' /\ RowsFit'
  <2>1. Clean(pool', name_pool', objects')
    BY <1>1
  <2>2. QED BY <1>1, <1>7, <2>1, CleanFits DEF RowsFit, Existing
<1>10. QueueFits'
  BY <1>1, QueueKept DEF Clean
<1>11. RoomFits'
  <2>1. At("REPLACE") = {}
    BY <1>1, OthersOutside DEF At, Inside
  <2>2. /\ Cardinality({k \in OID : po[k] # Null}) \in Nat
        /\ Cardinality({k \in OID : po[k] # Null}) <= MaxPool
    BY <1>1, <2>1, RoomIn
  <2>3. QED BY <2>2, PoolAssumption DEF RoomFits, InCache
<1>12. AllApart'
  BY <1>1, <1>5, <1>6, ApartWithRows
<1>13. \A k \in Name : NameFree(k) => name_pool'[k] = Null
  BY <1>1 DEF NameFree
<1>14. ASSUME NEW u \in Thread, u # t PROVE ThreadFits(u)'
  BY <1>1, <1>5, <1>13, <1>14, ReadOthers
<1>15. QED BY <1>6, <1>7, <1>8, <1>9, <1>10, <1>11, <1>12, <1>14 DEF PoolInv, CacheFits

LEMMA ReadKeeps ==
  ASSUME PoolInv, NEW t \in Thread, Free \/ mutex = t, NEW po, NEW na, NEW ob, Ready(t, po, na, ob),
         load_or_nothing(t, po, na, ob), UNCHANGED <<lastOID, rows>>
  PROVE  PoolInv'
<1>1. ASSUME NEW o \in Wanted(t), load(t, o, po, na, ob) PROVE PoolInv'
  BY <1>1, LoadKeeps
<1>2. CASE Wanted(t) = {} /\ pool' = po /\ name_pool' = na /\ objects' = ob /\ mutex' = Nobody
           /\ Set(t, NotFound(thread[t])) /\ UNCHANGED oid_queue
  BY <1>2, NothingKeeps
<1>3. QED BY <1>1, <1>2 DEF load_or_nothing

(* What is in the cache for a row has the name of the row.                 *)
LEMMA RowInCache ==
  ASSUME NEW po, NEW na, NEW ob, Clean(po, na, ob), NEW o \in Existing, po[o] # Null
  PROVE  po[o] \in Ptr /\ ob[po[o]].valid /\ na[rows[o]] = po[o]
<1>1. o \in OID /\ rows[o] # NoName /\ po[o] \in Ptr /\ ob[po[o]].live /\ ob[po[o]].oid = o
  BY DEF Clean, Existing
<1>2. QED BY <1>1 DEF Clean

LEMMA Keys ==
  ASSUME PoolInv, NEW t \in Thread, thread[t].op \in ByName
  PROVE  Key(t) \in Name
<1>1. AskFits(thread[t])
  BY DEF PoolInv, ThreadFits
<1>2. QED BY <1>1 DEF AskFits, Key, ByName, Renames

LEMMA GetReadKeeps ==
  ASSUME Careful, PoolInv, NEW t \in Thread, get_read(t)
  PROVE  PoolInv'
<1> DEFINE x == thread[t]
           q == InTheWay(t)
<1>1. /\ TypeOK /\ MutexFits /\ RowsFit /\ x.at = "GET" /\ Free /\ UNCHANGED <<lastOID, rows>>
      /\ AskFits(x) /\ StageFits(x) /\ x \in Threads /\ x.op # "NONE"
      /\ Unindexed = {} /\ (x.op = "ALLOCATE" => ~AllInUse)
      /\ Cached(t) # Null => x.op \in ByName /\ ~objects[Cached(t)].valid
  BY ThreadParts DEF PoolInv, CacheFits, get_read, ThreadFits, AskFits, Careful, RashKinds
<1>2. Clean(pool, name_pool, objects)
  BY <1>1, NowClean
<1>3. /\ x.op \notin ByName => x.op \in ById /\ x.oid \in OID /\ Cached(t) = pool[x.oid] /\ pool[x.oid] = Null
                               /\ Wanted(t) = {x.oid} \cap Existing
      /\ x.op \in ByName => /\ x.op \notin ById /\ Key(t) \in Name /\ Cached(t) = name_pool[Key(t)]
                            /\ q = name_pool[Key(t)] /\ Wanted(t) = Named(Key(t))
  BY <1>1, Keys DEF Cached, InTheWay, Wanted, AskFits, Threads, ByName, ById
<1>4. CASE q # Null
  <2>1. q \in Ptr /\ objects[q].live /\ ~objects[q].valid
        /\ (x.op \in ById => pool[x.oid] = Null /\ x.oid \in Existing)
    <3>1. CASE x.op \in ByName
      BY <1>1, <1>2, <1>3, <1>4, <3>1 DEF Clean
    <3>2. CASE x.op \notin ByName
      <4>1. x.oid \in Existing /\ q = name_pool[rows[x.oid]] /\ rows[x.oid] \in Name
        BY <1>1, <1>3, <1>4, <3>2 DEF InTheWay, Existing, TypeOK
      <4>2. q \in Ptr /\ objects[q].live /\ objects[q].name = rows[x.oid] /\ objects[q].oid \in OID
        BY <1>1, <1>2, <1>4, <4>1, LiveObject DEF Clean
      <4>3. ~objects[q].valid
        <5>1. objects[q].valid => objects[q].oid \in Existing /\ rows[objects[q].oid] = rows[x.oid]
          BY <1>2, <4>1, <4>2, PoolAssumption DEF Clean, Existing
        <5>2. objects[q].valid => objects[q].oid = x.oid
          BY <1>1, <4>1, <5>1 DEF RowsFit
        <5>3. QED BY <1>2, <1>3, <3>2, <4>2, <5>2, PoolAssumption DEF Clean
      <4>4. QED BY <1>3, <3>2, <4>1, <4>2, <4>3
    <3>3. QED BY <3>1, <3>2
  <2> DEFINE y == [x EXCEPT !.at = "EVICT", !.ptr = q]
  <2>2. Set(t, y) /\ mutex' = t /\ UNCHANGED <<cache, objects>>
    BY <1>4 DEF get_read
  <2>3. y \in Threads /\ y.op = x.op /\ y.at = "EVICT" /\ y.ptr = q /\ y.oid = x.oid /\ y.name = x.name /\ y.new = x.new
    BY <1>1, <2>1 DEF Threads, Stage
  <2> HIDE DEF y
  <2>4. thread' \in [Thread -> Threads] /\ thread'[t] = y /\ \A u \in Thread \ {t} : thread'[u] = thread[u]
    BY <1>1, <2>2, <2>3, SetThread
  <2>5. TypeOK' /\ MutexFits'
    <3>1. MutexFits'
      BY <1>1, <2>2, <2>3, <2>4, OthersOutside DEF MutexFits, Inside
    <3>2. QED BY <1>1, <2>2, <2>4, <3>1 DEF TypeOK, cache
  <2>6. GoesOn(x, y, rows')
    BY <1>1, <2>3 DEF GoesOn, About
  <2>7. ThreadFits(t)'
    <3>1. AskFits(thread[t])' /\ StageFits(thread[t])'
      <4>1. \A n \in Name \cup {NoName} : NameFree(n)' <=> NameFree(n)
        BY <1>1, <2>2 DEF NameFree, Named, Existing, cache
      <4>2. x.new \in Name \cup {NoName}
        BY <1>1 DEF Threads
      <4>3. QED BY <1>1, <2>2, <2>3, <2>4, <4>1, <4>2 DEF AskFits, StageFits, cache
    <3>2. InTheWay(t)' = InTheWay(t)
      <4>1. Key(t)' = Key(t)
        BY <2>3, <2>4 DEF Key
      <4>2. Cached(t)' = Cached(t)
        BY <2>2, <2>3, <2>4, <4>1 DEF Cached, cache
      <4>3. Wanted(t)' = Wanted(t)
        BY <1>1, <2>3, <2>4, <4>1 DEF Wanted, Named, Existing
      <4>4. QED BY <1>1, <2>2, <2>3, <2>4, <4>2, <4>3 DEF InTheWay, cache
    <3>3. Unindexed' = {}
      BY <1>1, <2>3, <2>4 DEF Unindexed
    <3>4. Existing' = Existing /\ Object(t)' = objects[q]
      BY <1>1, <2>2, <2>3, <2>4 DEF Existing, Object
    <3>5. Has(t)' /\ HasIts(t)' /\ MakesWay(t)'
      BY <2>1, <2>2, <2>3, <2>4, <3>2, <3>4 DEF Has, HasIts, MakesWay, cache
    <3>6. QED BY <2>3, <2>4, <3>1, <3>3, <3>5 DEF ThreadFits, ObjectFits
  <2>8. thread[t].at \notin {"INDEX", "REPLACE"} /\ thread'[t].at \notin {"INDEX", "REPLACE"} /\ thread'[t] = y
    BY <1>1, <2>3, <2>4
  <2>9. QED BY <1>1, <2>2, <2>4, <2>5, <2>6, <2>7, <2>8, LookKeeps
<1>5. CASE q = Null
  <2>1. ASSUME NEW o \in Wanted(t) PROVE pool[o] = Null /\ name_pool[rows[o]] = Null
    <3>1. o \in Existing /\ (x.op \notin ByName => o = x.oid /\ name_pool[rows[o]] = Null)
          /\ (x.op \in ByName => rows[o] = Key(t))
      BY <1>3, <1>5, <2>1 DEF Named, InTheWay
    <3>2. name_pool[rows[o]] = Null
      BY <1>3, <1>5, <3>1
    <3>3. QED BY <1>2, <3>1, <3>2, RowInCache, PoolAssumption
  <2>2. ASSUME NEW o \in OID, x.op = "ALLOCATE", Full(pool, o)
        PROVE  \E w \in OID : pool[w] # Null /\ objects[pool[w]].holder = Nobody
    <3>1. CASE InPool = {}
      <4>1. {k \in OID : pool[k] # Null} \cup {o} = {o}
        BY <3>1 DEF InPool
      <4>2. QED BY <2>2, <4>1, FS_Singleton, PoolAssumption DEF Full
    <3>2. CASE InPool # {}
      BY <1>1, <2>2, <3>2 DEF AllInUse, InPool
    <3>3. QED BY <3>1, <3>2
  <2>3. x.op \in ByName => name_pool[Key(t)] = Null
    BY <1>3, <1>5
  <2>4. \A o \in Wanted(t) : o \in OID
    BY DEF Wanted, Named, Existing
  <2>5. Ready(t, pool, name_pool, objects)
    BY <1>1, <1>2, <2>1, <2>2, <2>3, <2>4 DEF Ready
  <2>6. load_or_nothing(t, pool, name_pool, objects)
    BY <1>5 DEF get_read
  <2>7. QED BY <1>1, <2>5, <2>6, ReadKeeps
<1>6. QED BY <1>4, <1>5

(* An object goes that nobody waits for or looks at.                       *)
LEMMA EvictClean ==
  ASSUME NEW po, NEW na, NEW ob, Clean(po, na, ob), NEW q \in Ptr, ob[q].live
  PROVE  Clean([po EXCEPT ![ob[q].oid] = Null], [na EXCEPT ![ob[q].name] = Null], [ob EXCEPT ![q] = Freed])
<1> DEFINE v   == ob[q].oid
           n   == ob[q].name
           po1 == [po EXCEPT ![v] = Null]
           na1 == [na EXCEPT ![n] = Null]
           ob1 == [ob EXCEPT ![q] = Freed]
<1>1. v \in OID /\ n \in Name /\ po[v] = q /\ na[n] = q /\ Freed \in Objects /\ ~Freed.live /\ q # Null
  BY LiveIn, PoolAssumption DEF Clean, Objects, Freed
<1>2. /\ po1 \in [OID -> Ptr \cup {Null}] /\ na1 \in [Name -> Ptr \cup {Null}] /\ ob1 \in [Ptr -> Objects]
      /\ po1[v] = Null /\ na1[n] = Null /\ ob1[q] = Freed
      /\ \A k \in OID : k # v => po1[k] = po[k]
      /\ \A k \in Name : k # n => na1[k] = na[k]
      /\ \A p \in Ptr : p # q => ob1[p] = ob[p]
  BY <1>1 DEF Clean
<1> HIDE DEF po1, na1, ob1
<1>3. ASSUME NEW p \in Ptr, ob1[p].live
      PROVE  /\ po1[ob1[p].oid] = p /\ ob1[p].oid <= lastOID /\ na1[ob1[p].name] = p
             /\ rows[ob1[p].oid] = IF ob1[p].valid THEN ob1[p].name ELSE NoName
  <2>1. p # q /\ ob1[p] = ob[p] /\ ob[p].oid \in OID /\ ob[p].name \in Name
    BY <1>1, <1>2, <1>3, LiveIn DEF Clean
  <2>2. /\ po[ob[p].oid] = p /\ ob[p].oid <= lastOID /\ na[ob[p].name] = p
        /\ rows[ob[p].oid] = IF ob[p].valid THEN ob[p].name ELSE NoName
    BY <1>3, <2>1 DEF Clean
  <2>3. ob[p].oid # v /\ ob[p].name # n
    BY <1>1, <2>1, <2>2
  <2>4. QED BY <1>2, <2>1, <2>2, <2>3
<1>4. ASSUME NEW k \in OID, po1[k] # Null PROVE ob1[po1[k]].live /\ ob1[po1[k]].oid = k
  <2>1. k # v /\ po1[k] = po[k] /\ po[k] \in Ptr /\ ob[po[k]].live /\ ob[po[k]].oid = k
    BY <1>2, <1>4 DEF Clean
  <2>2. QED BY <1>2, <2>1
<1>5. ASSUME NEW k \in Name, na1[k] # Null PROVE ob1[na1[k]].live /\ ob1[na1[k]].name = k
  <2>1. k # n /\ na1[k] = na[k] /\ na[k] \in Ptr /\ ob[na[k]].live /\ ob[na[k]].name = k
    BY <1>2, <1>5 DEF Clean
  <2>2. QED BY <1>2, <2>1
<1>6. Clean(po1, na1, ob1)
  BY <1>2, <1>3, <1>4, <1>5 DEF Clean
<1>7. QED BY <1>6 DEF po1, na1, ob1

LEMMA NobodyElseHas ==
  ASSUME PoolInv, NEW t \in Thread, mutex = t, NEW q \in Ptr, objects[q].holder = Nobody, ~Peeked(q)
  PROVE  \A u \in Thread \ {t} : thread[u].ptr # q
<1> SUFFICES ASSUME NEW u \in Thread \ {t}, thread[u].ptr = q PROVE FALSE
  OBVIOUS
<1>1. thread[u].at \notin Inside /\ Has(u) /\ StageFits(thread[u]) /\ thread[u].at \in Stage
  BY OthersOutside, ThreadParts DEF PoolInv, ThreadFits, ObjectFits
<1>2. thread[u].at = "HOLD" \/ thread[u].at \in {"PEEK", "AGAIN"}
  BY <1>1, PoolAssumption DEF Has, StageFits, Stage, Inside
<1>3. QED BY <1>1, <1>2, PoolAssumption DEF Has, Object, Peeked, At

LEMMA EvictKeeps ==
  ASSUME Careful, PoolInv, NEW t \in Thread, evict(t)
  PROVE  PoolInv'
<1> DEFINE x  == thread[t]
           q  == x.ptr
           v  == objects[q].oid
           n  == objects[q].name
           po == [pool EXCEPT ![v] = Null]
           na == [name_pool EXCEPT ![n] = Null]
           ob == [objects EXCEPT ![q] = Freed]
<1>1. /\ TypeOK /\ MutexFits /\ RowsFit /\ x.at = "EVICT" /\ UNCHANGED <<lastOID, rows>>
      /\ AskFits(x) /\ x \in Threads /\ x.op # "NONE" /\ Unindexed = {} /\ mutex = t
      /\ q \in Ptr /\ objects[q].live /\ ~objects[q].valid /\ objects[q].holder = Nobody /\ ~Peeked(q)
      /\ q = InTheWay(t)
      /\ x.op \in ById => pool[x.oid] = Null /\ x.oid \in Existing
  BY ThreadParts DEF PoolInv, CacheFits, evict, ThreadFits, AskFits, ObjectFits, Has, MakesWay, Object,
                     MutexFits, Inside, Careful, RashKinds
<1>2. Clean(pool, name_pool, objects)
  BY <1>1, NowClean
<1>3. v \in OID /\ n \in Name /\ pool[v] = q /\ name_pool[n] = q /\ rows[v] = NoName /\ q # Null
  BY <1>1, <1>2, LiveObject, PoolAssumption DEF Clean
<1>4. IF x.op \in ByName THEN Key(t) = n /\ Wanted(t) = Named(n)
      ELSE x.op \in ById /\ x.oid \in OID /\ Wanted(t) = {x.oid} /\ rows[x.oid] = n
  <2>1. CASE x.op \in ByName
    <3>1. Key(t) \in Name /\ q = name_pool[Key(t)] /\ Wanted(t) = Named(Key(t))
      BY <1>1, <2>1, Keys DEF InTheWay, Cached, Wanted
    <3>2. Key(t) = n
      BY <1>2, <1>3, <3>1 DEF Clean
    <3>3. QED BY <2>1, <3>1, <3>2
  <2>2. CASE x.op \notin ByName
    <3>1. x.op \in ById /\ x.oid \in OID /\ x.oid \in Existing
      BY <1>1, <2>2 DEF AskFits, Threads
    <3>2. Wanted(t) = {x.oid} /\ q = name_pool[rows[x.oid]] /\ rows[x.oid] \in Name
      BY <1>1, <2>2, <3>1 DEF Wanted, InTheWay, Existing, TypeOK
    <3>3. QED BY <1>2, <1>3, <2>2, <3>1, <3>2 DEF Clean
  <2>3. QED BY <2>1, <2>2
<1>5. load_or_nothing(t, po, na, ob)
  BY <1>4 DEF evict, Object
<1>6. Clean(po, na, ob)
  BY <1>1, <1>2, EvictClean
<1>7. /\ po[v] = Null /\ na[n] = Null
      /\ \A k \in OID : k # v => po[k] = pool[k]
      /\ \A k \in Name : k # n => na[k] = name_pool[k]
      /\ \A p \in Ptr : p # q => ob[p] = objects[p]
  BY <1>1, <1>3 DEF TypeOK
<1> HIDE DEF po, na, ob
<1>8. \A o \in OID : po[o] = pool[o] \/ (po[o] = Null /\ o \notin Existing)
  BY <1>3, <1>7 DEF Existing
<1>9. \A k \in Name : na[k] = name_pool[k] \/ na[k] = Null
  BY <1>7
<1>10. \A u \in Thread \ {t} : thread[u].ptr \in Ptr => ob[thread[u].ptr] = objects[thread[u].ptr]
  BY <1>1, <1>7, NobodyElseHas
<1>11. ASSUME NEW o \in Wanted(t) PROVE po[o] = Null /\ na[rows[o]] = Null
  <2>1. o \in Existing /\ rows[o] = n
    BY <1>1, <1>4, <1>11 DEF Named, Existing, ByName, ById
  <2>2. QED BY <1>6, <1>7, <2>1, RowInCache, PoolAssumption
<1>12. x.op \in ByName => na[Key(t)] = Null
  BY <1>4, <1>7
<1>13. \A o \in OID : ~Full(po, o)
  <2> DEFINE C == {k \in OID : po[k] # Null}
  <2>1. C = InCache \ {v} /\ v \in InCache
    BY <1>3, <1>7 DEF InCache
  <2>2. At("REPLACE") = {}
    BY <1>1, OthersOutside DEF At, Inside
  <2>3. IsFiniteSet(InCache) /\ Cardinality(InCache) <= MaxPool /\ Cardinality(InCache) \in Nat
    BY <2>2, RoomIn DEF InCache
  <2> HIDE DEF C
  <2>4. Cardinality(C) = Cardinality(InCache) - 1 /\ IsFiniteSet(C)
    BY <2>1, <2>3, FS_RemoveElement
  <2>5. \A o \in OID : Cardinality(C \cup {o}) = IF o \in C THEN Cardinality(C) ELSE Cardinality(C) + 1
    BY <2>4, FS_AddElement
  <2>6. \A o \in OID : ~(Cardinality(C \cup {o}) > MaxPool)
    BY <2>3, <2>4, <2>5, PoolAssumption
  <2>7. QED BY <2>6 DEF Full, C
<1>14. \A o \in Wanted(t) : o \in OID
  BY DEF Wanted, Named, Existing
<1>15. Ready(t, po, na, ob)
  BY <1>1, <1>6, <1>8, <1>9, <1>10, <1>11, <1>12, <1>13, <1>14 DEF Ready
<1>16. QED BY <1>1, <1>5, <1>15, ReadKeeps

-----------------------------------------------------------------------------
(* Making room in the pool *)

LEMMA Replacing ==
  ASSUME PoolInv, NEW t \in Thread, thread[t].at = "REPLACE"
  PROVE  /\ mutex = t /\ Unindexed = {} /\ thread[t].op # "NONE"
         /\ thread[t].ptr \in Ptr /\ Object(t).live /\ Object(t).valid /\ Object(t).oid \in OID
         /\ Object(t) = objects[thread[t].ptr]
         /\ Object(t).holder = IF thread[t].op = "ALLOCATE" THEN Nobody ELSE t
         /\ pool[Object(t).oid] = thread[t].ptr
         /\ thread[t].op \in ById => Object(t).oid = thread[t].oid
         /\ thread[t].op = "ALLOCATE" => HeadFree(Object(t).oid)
         /\ 1 \in DOMAIN oid_queue /\ Head(oid_queue) = oid_queue[1] /\ oid_queue # <<>>
<1>1. /\ MutexFits /\ TypeOK /\ IndexFits /\ QueueFits /\ Has(t) /\ HasIts(t) /\ Unindexed = {}
      /\ AskFits(thread[t])
      /\ thread[t].op = "ALLOCATE" => HeadFree(Object(t).oid)
  BY DEF PoolInv, CacheFits, ThreadFits, ObjectFits
<1>2. /\ mutex = t /\ thread[t].op # "NONE"
      /\ thread[t].ptr \in Ptr /\ Object(t).live /\ Object(t).valid
      /\ Object(t).holder = IF thread[t].op = "ALLOCATE" THEN Nobody ELSE t
      /\ thread[t].op \in ById => Object(t).oid = thread[t].oid
  BY <1>1 DEF MutexFits, Inside, Has, HasIts, AskFits
<1>3. Object(t).oid \in OID /\ pool[Object(t).oid] = thread[t].ptr /\ Object(t) = objects[thread[t].ptr]
  BY <1>1, <1>2, LiveObject DEF Object, IndexFits
<1>4. PICK k \in DOMAIN oid_queue : oid_queue[k] = Object(t).oid
  BY <1>1, <1>2, <1>3, PoolAssumption DEF QueueFits
<1>5. 1 \in DOMAIN oid_queue /\ oid_queue # <<>>
  BY <1>1, <1>4, QueueParts
<1>6. Head(oid_queue) = oid_queue[1]
  BY <1>5
<1>7. QED BY <1>1, <1>2, <1>3, <1>5, <1>6

LEMMA LengthOfQueue ==
  ASSUME TypeOK, oid_queue # <<>>
  PROVE  \E l \in Nat : l = Len(oid_queue) /\ l > 0
<1>1. oid_queue \in Seq(OID)
  BY DEF TypeOK
<1>2. Len(oid_queue) \in Nat /\ Len(oid_queue) > 0
  BY <1>1
<1>3. QED BY <1>2

LEMMA TailParts ==
  ASSUME TypeOK, oid_queue # <<>>
  PROVE  LET T == Tail(oid_queue)  R == Append(Tail(oid_queue), Head(oid_queue)) IN
         /\ T \in Seq(OID) /\ R \in Seq(OID)
         /\ Len(oid_queue) \in Nat \ {0} /\ DOMAIN oid_queue = 1..Len(oid_queue)
         /\ DOMAIN T = 1..(Len(oid_queue) - 1) /\ DOMAIN R = 1..Len(oid_queue)
         /\ \A k \in 1..(Len(oid_queue) - 1) : T[k] = oid_queue[k+1] /\ R[k] = oid_queue[k+1]
         /\ R[Len(oid_queue)] = oid_queue[1]
<1>1. oid_queue \in Seq(OID) /\ Len(oid_queue) \in Nat \ {0} /\ DOMAIN oid_queue = 1..Len(oid_queue)
  BY DEF TypeOK
<1>2. Tail(oid_queue) \in Seq(OID) /\ Len(Tail(oid_queue)) = Len(oid_queue) - 1
      /\ \A k \in 1..(Len(oid_queue) - 1) : Tail(oid_queue)[k] = oid_queue[k+1]
  BY <1>1
<1>3. Head(oid_queue) = oid_queue[1] /\ Head(oid_queue) \in OID
  BY <1>1
<1>4. QED BY <1>1, <1>2, <1>3

(* A turn of the loop that frees nothing.                                  *)
LEMMA TurnKeeps ==
  ASSUME PoolInv, NEW t \in Thread, thread[t].at = "REPLACE",
         UNCHANGED <<mutex, pool, name_pool, objects, thread, lastOID, rows>>,
         oid_queue' \in Seq(OID), QueueFits',
         thread[t].op = "ALLOCATE" => HeadFree(Object(t).oid)'
  PROVE  PoolInv'
<1>1. TypeOK /\ MutexFits /\ IndexFits /\ RowsFit /\ RoomFits /\ AllApart
  BY DEF PoolInv, CacheFits
<1>2. TypeOK' /\ MutexFits' /\ IndexFits' /\ RowsFit' /\ RoomFits'
  <2>1. TypeOK' /\ MutexFits'
    BY <1>1 DEF TypeOK, MutexFits
  <2>2. \A p \in Ptr, u \in Thread : Renamed(u, p)' <=> Renamed(u, p)
    BY DEF Renamed
  <2>3. IndexFits'
    BY <1>1 DEF IndexFits, Renamed
  <2>4. RowsFit' /\ RoomFits'
    BY <1>1 DEF RowsFit, RoomFits, Existing, InCache, At
  <2>5. QED BY <2>1, <2>3, <2>4
<1>3. AllApart'
  BY <1>1, ApartWithRows DEF GoesOn, About
<1>4. ASSUME NEW u \in Thread PROVE ThreadFits(u)'
  <2>1. ThreadFits(u)
    BY DEF PoolInv
  <2>2. AskFits(thread[u])' /\ StageFits(thread[u])'
    BY <2>1 DEF ThreadFits, AskFits, StageFits, NameFree, Named, Existing
  <2>3. Has(u)' /\ HasIts(u)' /\ MakesWay(u)' /\ Unindexed' = Unindexed /\ Object(u)' = Object(u)
    BY <2>1 DEF ThreadFits, ObjectFits, Has, HasIts, MakesWay, Object, Unindexed,
                InTheWay, Cached, Key, Wanted, Named, Existing
  <2>4. u # t => thread[u].at # "REPLACE"
    BY Replacing, OthersOutside DEF Inside
  <2>5. ObjectFits(u)'
    BY <2>1, <2>3, <2>4 DEF ThreadFits, ObjectFits
  <2>6. QED BY <2>2, <2>5 DEF ThreadFits
<1>5. QED BY <1>2, <1>3, <1>4 DEF PoolInv, CacheFits

LEMMA ReplaceTurns ==
  ASSUME PoolInv, NEW t \in Thread, thread[t].at = "REPLACE",
         UNCHANGED <<mutex, pool, name_pool, objects, thread, lastOID, rows>>,
         \/ Victim = Null /\ oid_queue' = Tail(oid_queue)
         \/ /\ Victim # Null /\ objects[Victim].holder # Nobody
            /\ oid_queue' = Append(Tail(oid_queue), Head(oid_queue))
  PROVE  PoolInv'
<1>0. PICK o \in OID : o = Object(t).oid
  BY Replacing
<1>1. /\ TypeOK /\ QueueFits /\ oid_queue # <<>> /\ Victim = pool[oid_queue[1]]
      /\ thread[t].op = "ALLOCATE" => HeadFree(o)
  BY <1>0, Replacing DEF PoolInv, CacheFits, Victim
<1> PICK l \in Nat : l = Len(oid_queue) /\ l > 0
  BY <1>1, LengthOfQueue
<1>2. /\ DOMAIN oid_queue = 1..l /\ oid_queue' \in Seq(OID)
      /\ \A k \in 1..(l-1) : oid_queue'[k] = oid_queue[k+1]
      /\ Existing' = Existing
  BY <1>1, TailParts DEF Existing
<1>3. o = Object(t)'.oid
  BY <1>0 DEF Object
<1>4. CASE Victim = Null /\ oid_queue' = Tail(oid_queue)
  <2>0. pool[oid_queue[1]] = Null
    BY <1>1, <1>4
  <2>1. DOMAIN oid_queue' = 1..(l-1)
    BY <1>1, <1>4, TailParts
  <2>2. QueueFits'
    <3>1. ASSUME NEW k \in OID, pool[k] # Null PROVE \E m \in DOMAIN oid_queue' : oid_queue'[m] = k
      <4>1. PICK m \in DOMAIN oid_queue : oid_queue[m] = k
        BY <1>1, <3>1 DEF QueueFits
      <4>2. m # 1
        BY <2>0, <3>1, <4>1
      <4>3. m-1 \in 1..(l-1) /\ (m-1)+1 = m
        BY <1>2, <4>2
      <4>4. QED BY <1>2, <2>1, <4>1, <4>3
    <3>2. \A k, m \in 1..(l-1) : oid_queue'[k] = oid_queue'[m] => k = m
      <4> SUFFICES ASSUME NEW k \in 1..(l-1), NEW m \in 1..(l-1), oid_queue'[k] = oid_queue'[m] PROVE k = m
        OBVIOUS
      <4>1. k+1 \in DOMAIN oid_queue /\ m+1 \in DOMAIN oid_queue /\ oid_queue[k+1] = oid_queue[m+1]
        BY <1>2
      <4>2. k+1 = m+1
        BY <1>1, <4>1 DEF QueueFits
      <4>3. QED BY <4>2
    <3>3. \A k \in 1..(l-1) : oid_queue'[k] <= lastOID' /\ (pool'[oid_queue'[k]] = Null => oid_queue'[k] \notin Existing')
      <4>1. \A k \in 1..(l-1) : k+1 \in DOMAIN oid_queue
        BY <1>2
      <4>2. QED BY <1>1, <1>2, <4>1 DEF QueueFits
    <3>4. QED BY <2>1, <3>1, <3>2, <3>3 DEF QueueFits
  <2>3. ASSUME HeadFree(o) PROVE HeadFree(o)'
    <3> SUFFICES ASSUME NEW m \in 1..(l-1), oid_queue'[m] = o
                 PROVE  \E k \in 1..(m-1) : pool[oid_queue'[k]] # Null /\ objects[pool[oid_queue'[k]]].holder = Nobody
      BY <2>1 DEF HeadFree
    <3>1. m+1 \in DOMAIN oid_queue /\ oid_queue[m+1] = o /\ m \in Nat
      BY <1>2
    <3>2. PICK k \in 1..((m+1)-1) : pool[oid_queue[k]] # Null /\ objects[pool[oid_queue[k]]].holder = Nobody
      BY <2>3, <3>1 DEF HeadFree
    <3>3. k # 1
      BY <2>0, <3>2
    <3>4. k-1 \in 1..(m-1) /\ k-1 \in 1..(l-1) /\ (k-1)+1 = k
      BY <3>1, <3>3
    <3>5. QED BY <1>2, <3>2, <3>4
  <2>4. QED BY <1>0, <1>1, <1>2, <1>3, <2>2, <2>3, TurnKeeps
<1>5. CASE /\ Victim # Null /\ objects[Victim].holder # Nobody
           /\ oid_queue' = Append(Tail(oid_queue), Head(oid_queue))
  <2>1. DOMAIN oid_queue' = 1..l /\ oid_queue'[l] = oid_queue[1]
    BY <1>1, <1>5, TailParts
  <2>2. QueueFits'
    <3>1. ASSUME NEW k \in OID, pool[k] # Null PROVE \E m \in DOMAIN oid_queue' : oid_queue'[m] = k
      <4>1. PICK m \in DOMAIN oid_queue : oid_queue[m] = k
        BY <1>1, <3>1 DEF QueueFits
      <4>2. CASE m = 1
        BY <1>2, <2>1, <4>1, <4>2
      <4>3. CASE m # 1
        <5>1. m-1 \in 1..(l-1) /\ (m-1)+1 = m /\ m-1 \in 1..l
          BY <1>2, <4>3
        <5>2. QED BY <1>2, <2>1, <4>1, <5>1
      <4>4. QED BY <4>2, <4>3
    <3>2. \A k \in 1..l : \E m \in DOMAIN oid_queue : oid_queue'[k] = oid_queue[m] /\ m = IF k = l THEN 1 ELSE k+1
      BY <1>2, <2>1
    <3>3. \A k, m \in 1..l : oid_queue'[k] = oid_queue'[m] => k = m
      <4> SUFFICES ASSUME NEW k \in 1..l, NEW m \in 1..l, oid_queue'[k] = oid_queue'[m] PROVE k = m
        OBVIOUS
      <4>1. PICK a \in DOMAIN oid_queue : oid_queue'[k] = oid_queue[a] /\ a = IF k = l THEN 1 ELSE k+1
        BY <3>2
      <4>2. PICK b \in DOMAIN oid_queue : oid_queue'[m] = oid_queue[b] /\ b = IF m = l THEN 1 ELSE m+1
        BY <3>2
      <4>3. a = b
        <5>1. oid_queue[a] = oid_queue[b]
          BY <4>1, <4>2
        <5>2. \A i, j \in DOMAIN oid_queue : oid_queue[i] = oid_queue[j] => i = j
          BY <1>1 DEF QueueFits
        <5>3. QED BY <5>1, <5>2
      <4>4. QED BY <1>2, <4>1, <4>2, <4>3
    <3>4. \A k \in 1..l : oid_queue'[k] <= lastOID' /\ (pool'[oid_queue'[k]] = Null => oid_queue'[k] \notin Existing')
      BY <1>1, <1>2, <3>2 DEF QueueFits
    <3>5. QED BY <2>1, <3>1, <3>3, <3>4 DEF QueueFits
  <2>3. ASSUME HeadFree(o) PROVE HeadFree(o)'
    <3> SUFFICES ASSUME NEW m \in 1..l, oid_queue'[m] = o
                 PROVE  \E k \in 1..(m-1) : pool[oid_queue'[k]] # Null /\ objects[pool[oid_queue'[k]]].holder = Nobody
      BY <2>1 DEF HeadFree
    <3>1. m # l
      BY <1>2, <2>1, <2>3 DEF HeadFree
    <3>2. m+1 \in DOMAIN oid_queue /\ oid_queue[m+1] = o /\ m \in Nat
      BY <1>2, <3>1
    <3>3. PICK k \in 1..((m+1)-1) : pool[oid_queue[k]] # Null /\ objects[pool[oid_queue[k]]].holder = Nobody
      BY <2>3, <3>2 DEF HeadFree
    <3>4. k # 1 /\ k-1 \in 1..(m-1) /\ k-1 \in 1..(l-1) /\ (k-1)+1 = k
      BY <1>1, <1>2, <1>5, <3>2, <3>3
    <3>5. QED BY <1>2, <3>3, <3>4
  <2>4. QED BY <1>0, <1>1, <1>2, <1>3, <2>2, <2>3, TurnKeeps
<1>6. QED BY <1>4, <1>5

(* The turn that finds an object to free.                                  *)
LEMMA VictimGoes ==
  ASSUME Careful, PoolInv, NEW t \in Thread, thread[t].at = "REPLACE",
         Victim # Null, objects[Victim].holder = Nobody, ~Peeked(Victim),
         oid_queue' = Tail(oid_queue), pool' = [pool EXCEPT ![Head(oid_queue)] = Null],
         name_pool' = [name_pool EXCEPT ![objects[Victim].name] = Null],
         objects' = [objects EXCEPT ![Victim] = Freed], mutex' = Nobody, Set(t, Returned(thread[t])),
         UNCHANGED <<lastOID, rows>>
  PROVE  PoolInv'
<1> DEFINE x == thread[t]
           q == x.ptr
           y == Returned(x)
<1>1. /\ TypeOK /\ MutexFits /\ QueueFits /\ RowsFit /\ RoomFits /\ AllApart /\ AskFits(x) /\ x \in Threads
      /\ mutex = t /\ Unindexed = {} /\ x.op # "NONE"
      /\ q \in Ptr /\ objects[q].live /\ objects[q].valid /\ objects[q].oid \in OID
      /\ objects[q].holder = IF x.op = "ALLOCATE" THEN Nobody ELSE t
      /\ pool[objects[q].oid] = q
      /\ x.op \in ById => objects[q].oid = x.oid
      /\ x.op = "ALLOCATE" => HeadFree(objects[q].oid)
      /\ 1 \in DOMAIN oid_queue /\ Head(oid_queue) = oid_queue[1] /\ oid_queue # <<>>
  BY Replacing, ThreadParts DEF PoolInv, CacheFits, ThreadFits
<1>2. PICK v \in OID : v = oid_queue[1]
  BY <1>1, QueueParts
<1>3. PICK p \in Ptr : p = Victim /\ p = pool[v] /\ p # Null
  BY <1>1, <1>2 DEF Victim, TypeOK
<1>4. Clean(pool, name_pool, objects)
  BY <1>1, NowClean
<1>5. objects[p].live /\ objects[p].oid = v /\ objects[p].name \in Name /\ objects[p].holder = Nobody
  BY <1>1, <1>3, <1>4, LiveObject DEF Clean
<1>6. p # q
  <2> SUFFICES ASSUME p = q PROVE FALSE
    OBVIOUS
  <2>1. HeadFree(v)
    BY <1>1, <1>5, PoolAssumption
  <2>2. QED BY <1>1, <1>2, <2>1 DEF HeadFree
<1>7. Clean(pool', name_pool', objects')
  <2>1. /\ pool' = [pool EXCEPT ![objects[p].oid] = Null]
        /\ name_pool' = [name_pool EXCEPT ![objects[p].name] = Null]
        /\ objects' = [objects EXCEPT ![p] = Freed]
    BY <1>1, <1>2, <1>3, <1>5
  <2>2. Clean([pool EXCEPT ![objects[p].oid] = Null], [name_pool EXCEPT ![objects[p].name] = Null],
              [objects EXCEPT ![p] = Freed])
    BY <1>4, <1>5, EvictClean
  <2>3. QED BY <2>1, <2>2
<1>8. /\ pool'[v] = Null /\ \A k \in OID : k # v => pool'[k] = pool[k]
      /\ \A n \in Name : name_pool'[n] = name_pool[n] \/ name_pool'[n] = Null
      /\ \A r \in Ptr : r # p => objects'[r] = objects[r]
  BY <1>1, <1>2, <1>3, <1>5 DEF TypeOK
<1>9. /\ y \in Threads /\ y.op = x.op /\ y.oid = x.oid /\ y.name = x.name /\ y.new = x.new /\ y.ptr = q
      /\ y.at = IF x.op = "ALLOCATE" THEN "PEEK" ELSE "HOLD"
  BY <1>1 DEF Returned, Threads, Stage
<1> HIDE DEF y
<1>10. thread' \in [Thread -> Threads] /\ thread'[t] = y /\ \A u \in Thread \ {t} : thread'[u] = thread[u]
  BY <1>1, <1>9, SetThread DEF y
<1>11. TypeOK'
  <2>1. oid_queue' \in Seq(OID)
    BY <1>1, TailParts
  <2>2. QED BY <1>1, <1>7, <1>10, <2>1 DEF TypeOK, Clean
<1>12. MutexFits'
  BY <1>1, <1>9, <1>10, MutexGivenBack DEF Inside
<1>13. IndexFits' /\ RowsFit'
  BY <1>1, <1>7, <1>11, CleanFits DEF RowsFit, Existing
<1>14. QueueFits'
  <2> PICK l \in Nat : l = Len(oid_queue) /\ l > 0
    <3>1. TypeOK /\ oid_queue # <<>>
      BY <1>1
    <3>2. QED BY <3>1, LengthOfQueue
  <2>1. /\ DOMAIN oid_queue = 1..l /\ DOMAIN oid_queue' = 1..(l-1)
        /\ \A k \in 1..(l-1) : oid_queue'[k] = oid_queue[k+1]
        /\ Existing' = Existing
    BY <1>1, TailParts DEF Existing
  <2>2. ASSUME NEW k \in OID, pool'[k] # Null PROVE \E m \in DOMAIN oid_queue' : oid_queue'[m] = k
    <3>1. k # v /\ pool[k] # Null
      BY <1>8, <2>2
    <3>2. PICK m \in DOMAIN oid_queue : oid_queue[m] = k
      BY <1>1, <3>1 DEF QueueFits
    <3>3. m # 1
      BY <1>2, <3>1, <3>2
    <3>4. m-1 \in 1..(l-1) /\ (m-1)+1 = m
      BY <2>1, <3>3
    <3>5. QED BY <2>1, <3>2, <3>4
  <2>3. ASSUME NEW k \in 1..(l-1)
        PROVE  /\ \A m \in 1..(l-1) : oid_queue'[k] = oid_queue'[m] => k = m
               /\ oid_queue'[k] <= lastOID' /\ (pool'[oid_queue'[k]] = Null => oid_queue'[k] \notin Existing')
    <3>1. /\ \A i, j \in DOMAIN oid_queue : oid_queue[i] = oid_queue[j] => i = j
          /\ \A i \in DOMAIN oid_queue : oid_queue[i] <= lastOID /\ oid_queue[i] \in OID
                                         /\ (pool[oid_queue[i]] = Null => oid_queue[i] \notin Existing)
      BY <1>1, QueueParts DEF QueueFits
    <3>2. k+1 \in DOMAIN oid_queue /\ k+1 # 1 /\ oid_queue'[k] = oid_queue[k+1]
      BY <2>1
    <3>3. oid_queue[k+1] # v
      BY <1>1, <1>2, <3>1, <3>2
    <3>4. ASSUME NEW m \in 1..(l-1), oid_queue'[k] = oid_queue'[m] PROVE k = m
      <4>1. m+1 \in DOMAIN oid_queue /\ oid_queue'[m] = oid_queue[m+1]
        BY <2>1
      <4>2. k+1 = m+1
        BY <3>1, <3>2, <3>4, <4>1
      <4>3. QED BY <4>2
    <3>5. QED BY <1>8, <2>1, <3>1, <3>2, <3>3, <3>4
  <2>4. QED BY <2>1, <2>2, <2>3 DEF QueueFits
<1>15. RoomFits'
  <2>1. InCache' = InCache \ {v} /\ v \in InCache
    BY <1>3, <1>8 DEF InCache
  <2>2. IsFiniteSet(InCache)
    <3>1. InCache \in SUBSET OID
      BY DEF InCache
    <3>2. QED BY <3>1, FS_Subset, PoolAssumption
  <2>3. Cardinality(InCache') = Cardinality(InCache) - 1 /\ Cardinality(InCache) \in Nat
    BY <2>1, <2>2, FS_RemoveElement, FS_CardinalityType
  <2>4. Cardinality(InCache) <= MaxPool + 1 /\ MaxPool \in Nat
    BY <1>1, PoolAssumption DEF RoomFits
  <2>5. Cardinality(InCache') <= MaxPool
    BY <2>3, <2>4
  <2>6. QED BY <2>3, <2>4, <2>5 DEF RoomFits
<1>16. AllApart'
  <2>1. GoesOn(x, y, rows')
    BY <1>9 DEF GoesOn, About
  <2>2. QED BY <1>1, <1>10, <2>1, ApartWithRows
<1>17. \A n \in Name : NameFree(n) => name_pool'[n] = Null
  BY <1>8 DEF NameFree
<1>18. ASSUME NEW u \in Thread, u # t PROVE ThreadFits(u)'
  <2>1. thread[u].ptr # p
    BY <1>1, <1>3, <1>5, <1>18, NobodyElseHas
  <2>2. thread[u].ptr \in Ptr => objects'[thread[u].ptr] = objects[thread[u].ptr]
    BY <1>8, <2>1
  <2>3. QED BY <1>1, <1>10, <1>17, <1>18, <2>2, ReadOthers
<1>19. ThreadFits(t)'
  <2>1. AskFits(thread[t])' /\ StageFits(thread[t])'
    <3>1. \A k \in Name : NameFree(k) => NameFree(k)'
      BY <1>17 DEF NameFree, Named, Existing
    <3>2. x.op = "RENAME" => x.new \in Name
      BY <1>1 DEF AskFits, Renames
    <3>3. QED BY <1>1, <1>9, <1>10, <3>1, <3>2 DEF AskFits, StageFits
  <2>2. Object(t)' = objects[q]
    BY <1>1, <1>6, <1>8, <1>9, <1>10 DEF Object
  <2>3. Has(t)' /\ HasIts(t)' /\ MakesWay(t)'
    BY <1>1, <1>9, <1>10, <2>2 DEF Has, HasIts, MakesWay
  <2>4. QED BY <1>9, <1>10, <2>1, <2>3 DEF ThreadFits, ObjectFits
<1>20. QED BY <1>11, <1>12, <1>13, <1>14, <1>15, <1>16, <1>18, <1>19 DEF PoolInv, CacheFits

LEMMA ReplaceKeeps ==
  ASSUME Careful, PoolInv, NEW t \in Thread, replace(t)
  PROVE  PoolInv'
<1>1. CASE Victim = Null
  BY <1>1, ReplaceTurns DEF replace
<1>2. CASE Victim # Null /\ objects[Victim].holder # Nobody
  BY <1>2, ReplaceTurns DEF replace
<1>3. CASE Victim # Null /\ objects[Victim].holder = Nobody
  BY <1>3, VictimGoes DEF replace, Careful, RashKinds
<1>4. QED BY <1>1, <1>2, <1>3

-----------------------------------------------------------------------------
(* The invariant, and what follows from it *)

LEMMA InitFits == Init => PoolInv
<1> SUFFICES ASSUME Init PROVE PoolInv
  OBVIOUS
<1>1. /\ mutex = Nobody /\ oid_queue = <<>> /\ DOMAIN oid_queue = {}
      /\ \A o \in OID : pool[o] = Null
      /\ \A n \in Name : name_pool[n] = Null
      /\ \A p \in Ptr : ~objects[p].live
      /\ \A t \in Thread : thread[t] = Idle
      /\ rows \in [OID -> Name \cup {NoName}]
      /\ \A o, p \in OID : rows[o] = rows[p] /\ rows[o] # NoName => o = p
      /\ \A o \in Existing : o <= lastOID
  BY PoolAssumption DEF Init, Freed
<1>2. TypeOK
  <2>1. lastOID \in OID \cup {-1}
    BY DEF Init, Existing
  <2>2. Freed \in Objects
    BY DEF Objects
  <2>3. QED BY <1>1, <2>1, <2>2, IdleParts DEF Init, TypeOK
<1>3. MutexFits
  BY <1>1, IdleParts, PoolAssumption DEF MutexFits, Inside
<1>4. IndexFits /\ RowsFit /\ QueueFits
  BY <1>1 DEF IndexFits, RowsFit, QueueFits, Existing
<1>5. RoomFits
  <2>1. InCache = {}
    BY <1>1 DEF InCache
  <2>2. QED BY <2>1, FS_EmptySet, PoolAssumption DEF RoomFits
<1>6. AllApart
  BY <1>1, IdleParts DEF AllApart, Apart, Races, DeletesRenamed, ByName, Renames
<1>7. ASSUME NEW t \in Thread PROVE ThreadFits(t)
  <2>1. AskFits(Idle) /\ StageFits(Idle)
    BY IdleParts, PoolAssumption DEF AskFits, StageFits, ById, Renames
  <2>2. ObjectFits(t)
    BY <1>1, IdleParts DEF ObjectFits, Has, HasIts, MakesWay
  <2>3. QED BY <1>1, <2>1, <2>2 DEF ThreadFits
<1>8. QED BY <1>2, <1>3, <1>4, <1>5, <1>6, <1>7 DEF PoolInv, CacheFits

LEMMA StutterKeeps ==
  ASSUME PoolInv, UNCHANGED vars
  PROVE  PoolInv'
<1>1. UNCHANGED <<mutex, pool, name_pool, oid_queue, objects, lastOID, rows, thread>>
  BY DEF vars
<1>2. TypeOK' /\ MutexFits'
  BY <1>1 DEF PoolInv, TypeOK, MutexFits
<1>3. CacheFits'
  BY <1>1 DEF PoolInv, CacheFits, IndexFits, RowsFit, QueueFits, RoomFits, Renamed, InCache, Existing, At
<1>4. AllApart'
  BY <1>1, ApartKept DEF PoolInv, GoesOn, About
<1>5. ASSUME NEW t \in Thread PROVE ThreadFits(t)'
  <2>1. ThreadFits(t)
    BY DEF PoolInv
  <2>2. AskFits(thread[t])' /\ StageFits(thread[t])'
    BY <1>1, <2>1 DEF ThreadFits, AskFits, StageFits, NameFree, Named, Existing
  <2>3. /\ Has(t)' /\ HasIts(t)' /\ MakesWay(t)' /\ Unindexed' = Unindexed /\ Object(t)' = Object(t)
        /\ \A o : HeadFree(o)' <=> HeadFree(o)
    BY <1>1, <2>1 DEF ThreadFits, ObjectFits, Has, HasIts, MakesWay, HeadFree, Object, Unindexed,
                InTheWay, Cached, Key, Wanted, Named, Existing
  <2>4. ObjectFits(t)'
    BY <1>1, <2>1, <2>3 DEF ThreadFits, ObjectFits
  <2>5. QED BY <2>2, <2>4 DEF ThreadFits
<1>6. QED BY <1>2, <1>3, <1>4, <1>5 DEF PoolInv

LEMMA StepFits ==
  ASSUME Careful, PoolInv, [Next]_vars
  PROVE  PoolInv'
<1>1. CASE UNCHANGED vars
  BY <1>1, StutterKeeps
<1>2. ASSUME NEW t \in Thread, request(t) PROVE PoolInv'
  BY <1>2, RequestKeeps
<1>3. ASSUME NEW t \in Thread, Calls(t) PROVE PoolInv'
  BY <1>3, GetCachedKeeps, GetReadKeeps, AllocateKeeps, IndexKeeps DEF Calls
<1>4. ASSUME NEW t \in Thread, Runs(t) PROVE PoolInv'
  BY <1>4, LockKeeps, EvictKeeps, ReplaceKeeps, SimpleSteps, DeployKeeps, DropKeeps, RenameInfoKeeps, RenameKeeps
     DEF Runs
<1>5. QED BY <1>1, <1>2, <1>3, <1>4 DEF Next

LEMMA FitsLive == PoolInv => PointersLive
<1> SUFFICES ASSUME PoolInv PROVE PointersLive
  OBVIOUS
<1>1. TypeOK /\ IndexFits /\ \A t \in Thread : AskFits(thread[t]) /\ StageFits(thread[t]) /\ Has(t)
  BY DEF PoolInv, CacheFits, ThreadFits, ObjectFits
<1>2. OneCopy
  <2> SUFFICES ASSUME NEW p \in Ptr, objects[p].live, objects[p].valid
               PROVE  /\ pool[objects[p].oid] = p /\ rows[objects[p].oid] = objects[p].name
                      /\ \/ name_pool[objects[p].name] = p
                         \/ \E t \in At("INDEX") : name_pool[thread[t].name] = p
    BY DEF OneCopy
  <2>1. /\ pool[objects[p].oid] = p /\ rows[objects[p].oid] = objects[p].name
        /\ name_pool[objects[p].name] = p \/ \E u \in Thread : Renamed(u, p)
    BY <1>1 DEF IndexFits
  <2>2. ASSUME NEW u \in Thread, Renamed(u, p) PROVE u \in At("INDEX") /\ name_pool[thread[u].name] = p
    BY <1>1, <2>1, <2>2 DEF Renamed, At, AskFits, StageFits
  <2>3. QED BY <2>1, <2>2
<1>3. ASSUME NEW p \in Reachable \ {Null} PROVE objects[p].live
  BY <1>1, <1>3 DEF Reachable, IndexFits, Has, Object
<1>4. At("CRASHED") = {} /\ \A t \in At("HOLD") : Object(t).holder = t
  BY <1>1 DEF At, StageFits, Has
<1>5. QED BY <1>1, <1>2, <1>3, <1>4 DEF PointersLive

LEMMA AlwaysFits == ASSUME Careful PROVE Spec => []PoolInv
<1>1. Careful /\ PoolInv /\ [Next]_vars => PoolInv'
  BY StepFits
<1>2. QED BY <1>1, InitFits, PTL DEF Spec

(* When nobody does what RashKinds lists, no pointer that the cache or a   *)
(* thread has is one to freed memory, no thread goes on with a null one,   *)
(* and an object has one copy, whose lock whoever works with it has: what  *)
(* get, object_lock, evict and replace of PoolSQL are for.                 *)
THEOREM PointersStayLive == ASSUME Careful PROVE Spec => []PointersLive
BY AlwaysFits, FitsLive, PTL

LEMMA StepKeepsRows ==
  ASSUME PoolInv, [Next]_vars, NEW o \in Existing, o \notin Existing'
  PROVE  \E t \in Thread : Holds(t, {"DELETE"}) /\ Object(t).oid = o
<1>0. TypeOK /\ o \in OID /\ rows[o] # NoName /\ rows'[o] = NoName
  BY DEF PoolInv, Existing
<1>1. rows' # rows
  BY <1>0
<1>2. PICK t \in Thread : Calls(t) \/ Runs(t)
  BY <1>1 DEF Next, request, vars
<1>3. allocate(t) \/ update(t) \/ deploy(t) \/ drop(t) \/ rename(t)
  BY <1>1, <1>2 DEF Calls, Runs, get_cached, get_read, update_cache_index, object_lock, evict, replace,
                    unlock_again, rename_info, rename_collides, duplicated
<1>4. ~(update(t) \/ deploy(t))
  BY <1>1, StoredUnchanged DEF update, deploy, Holds
<1>5. ~allocate(t)
  <2> SUFFICES ASSUME allocate(t) PROVE FALSE
    OBVIOUS
  <2>1. rows' = [rows EXCEPT ![lastOID + 1] = thread[t].name] /\ thread[t].at = "INSERT"
    BY <1>1 DEF allocate
  <2>2. thread[t].name \in Name
    BY <2>1 DEF PoolInv, ThreadFits, AskFits, StageFits
  <2>3. QED BY <1>0, <2>1, <2>2, PoolAssumption DEF TypeOK
<1>6. ~rename(t)
  <2> SUFFICES ASSUME rename(t) PROVE FALSE
    OBVIOUS
  <2>1. /\ rows' = Replaced(Object(t).oid, thread[t].new) /\ thread[t].at = "HOLD" /\ thread[t].op = "RENAME"
        /\ AskFits(thread[t])
    BY DEF rename, Holds, PoolInv, ThreadFits
  <2>2. thread[t].new \in Name /\ Named(thread[t].new) = {}
    BY <2>1 DEF AskFits, Renames, NameFree
  <2>3. rows[o] # thread[t].new
    BY <2>2 DEF Named
  <2>4. QED BY <1>0, <2>1, <2>2, <2>3, PoolAssumption DEF Replaced
<1>7. drop(t)
  BY <1>3, <1>4, <1>5, <1>6
<1>8. Holds(t, {"DELETE"}) /\ Object(t).oid = o
  <2>1. rows' = [rows EXCEPT ![Object(t).oid] = NoName]
    BY <1>7 DEF drop
  <2>2. QED BY <1>0, <1>7, <2>1 DEF drop, TypeOK
<1>9. QED BY <1>8

(* A row of the table goes only when its object is deleted: neither the    *)
(* REPLACE INTO of an update nor that of a rename takes the row of another *)
(* object, for its name is in use by nobody else.                          *)
THEOREM RowsAreKept == ASSUME Careful PROVE Spec => RowsKept
<1>1. PoolInv /\ [Next]_vars =>
        [\A o \in Existing : o \notin Existing' =>
           \E t \in Thread : Holds(t, {"DELETE"}) /\ Object(t).oid = o]_vars
  BY StepKeepsRows
<1>2. QED BY <1>1, AlwaysFits, PTL DEF Spec, RowsKept

-----------------------------------------------------------------------------
(***************************************************************************)
(* Requests that wait for a driver, for any number of threads, requests    *)
(* and managers: a pointer to a request is only ever in one place, and in  *)
(* none once the request has been answered.                                *)
(***************************************************************************)

InQueue(c) == \E i \in 1..Len(actions[Authm]) : actions[Authm][i] = c

(* The queues and loops of the authorization manager and of requests.      *)
LoopsOK ==
  /\ DOMAIN actions = Manager /\ DOMAIN loop = Manager /\ DOMAIN acting = Manager
  /\ \A m \in Caller \cup {Authm} : actions[m] \in Seq(Events) /\ loop[m] \in Loop /\ acting[m] \in Events \cup {NoAction}

(* The manager has a request in its queue, once, or in its hands: until it *)
(* has a number, nobody else has it; then the table has it, and the driver *)
(* has not.                                                                *)
ManagerHas ==
  /\ \A i, j \in 1..Len(actions[Authm]) :
       actions[Authm][i] \in Caller /\ actions[Authm][j] = actions[Authm][i] => i = j
  /\ \A c \in Caller : InQueue(c) =>
       Awaiting(c) /\ sync[c].id = NoId /\ sync[c].of = "AUTH" /\ ~Acts(c)
  /\ \A c \in Caller : Acts(c) =>
       \/ sync[c].id = NoId /\ Awaiting(c) /\ sync[c].of = "AUTH"
       \/ /\ sync[c].id \in Ids \ commands["AUTH"] /\ sync_requests["AUTH"][sync[c].id] = c
          /\ sending
  /\ sending => \E c \in Caller : Acts(c)

(* The table or the thread that listens has a request, not both.           *)
TableHas ==
  \A s \in Service, i \in Ids, c \in Caller :
    sync_requests[s][i] = c => Awaiting(c) /\ sync[c].of = s /\ sync[c].id = i /\ listener[s] # c
ListenerHas ==
  \A s \in Service, c \in Caller : listener[s] = c => Awaiting(c) /\ sync[c].of = s /\ sync[c].id # NoId

SyncInv ==
  /\ SyncTypeOK /\ LoopsOK
  /\ ManagerHas /\ TableHas /\ ListenerHas
  /\ \A c \in Caller : sync[c].stage \in {"NONE", "DONE"} => actions[c] = <<>> /\ loop[c] = "LOOK"
  /\ sending => mad["AUTH"] # "REMOVED"

-----------------------------------------------------------------------------
SyncRecord == [stage : {"NONE", "MADE", "WAIT", "DONE"}, of : Service, id : Ids \cup {NoId}, late : BOOLEAN]

(* Whoever is waited for is awaited, and has what was said of it above.    *)
LEMMA Constants ==
  /\ Authm \in Manager /\ Caller \subseteq Manager /\ Authm \notin Caller /\ NoCaller \notin Caller
  /\ Caller \cap Timed = {} /\ Caller \cap {TIMER, FINALIZE, NoAction} = {}
  /\ NoId \notin Ids /\ Handler \subseteq Manager /\ Handler \cap (Caller \cup {Authm}) = {}
BY SyncAssumption, ThreadsAssumption, ActionAssumption DEF NoId, Ids

(* What is done to other loops and other objects does not matter.          *)
LEMMA OthersKeep ==
  ASSUME SyncInv, UNCHANGED sync_vars,
         DOMAIN actions' = Manager, DOMAIN loop' = Manager, DOMAIN acting' = Manager,
         \A m \in Caller \cup {Authm} : actions'[m] = actions[m] /\ loop'[m] = loop[m] /\ acting'[m] = acting[m]
  PROVE  SyncInv'
<1>1. UNCHANGED <<sync, sync_requests, commands, listener, mad, sending>>
  BY DEF sync_vars
<1>2. SyncTypeOK' /\ LoopsOK'
  BY <1>1 DEF SyncInv, SyncTypeOK, LoopsOK
<1>3. \A c \in Caller : Awaiting(c)' = Awaiting(c) /\ Acts(c)' = Acts(c) /\ InQueue(c)' = InQueue(c)
  BY <1>1 DEF Awaiting, Acts, InQueue
<1>4. ManagerHas'
  BY <1>1, <1>3 DEF SyncInv, ManagerHas
<1>5. TableHas' /\ ListenerHas'
  BY <1>1, <1>3 DEF SyncInv, SyncTypeOK, TableHas, ListenerHas
<1>6. QED BY <1>1, <1>2, <1>4, <1>5 DEF SyncInv

LEMMA PoolStepKeeps ==
  ASSUME SyncInv, pool_step, UNCHANGED sync_vars
  PROVE  SyncInv'
<1>1. \/ UNCHANGED am_vars
      \/ \E m \in Handler : acted(m) \/ \E a : trigger(m, a)
  BY DEF pool_step, user_step, user_update, handle, handler_step, finalized, finalize
<1>2. CASE UNCHANGED am_vars
  BY <1>2, OthersKeep DEF am_vars, SyncInv, LoopsOK
<1>3. ASSUME NEW m \in Handler, acted(m) PROVE SyncInv'
  BY <1>3, OthersKeep, Constants DEF acted, SyncInv, LoopsOK
<1>4. ASSUME NEW m \in Handler, NEW a, trigger(m, a) PROVE SyncInv'
  BY <1>4, OthersKeep, Constants DEF trigger, SyncInv, LoopsOK
<1>5. QED BY <1>1, <1>2, <1>3, <1>4

LEMMA OtherLoopKeeps ==
  ASSUME SyncInv, NEW m \in Handler, loop_step(m) \/ time_step(m)
  PROVE  SyncInv'
<1>1. UNCHANGED sync_vars
  BY DEF loop_step, time_step
<1>2. CASE time_step(m)
  BY <1>1, <1>2, OthersKeep DEF time_step, time_passes, SyncInv, LoopsOK
<1>3. CASE loop_step(m)
  BY <1>1, <1>3, OthersKeep, Constants DEF loop_step, LoopStep, wait, take, time_out, push_timer, SyncInv, LoopsOK
<1>4. QED BY <1>2, <1>3

(* The loop of the authorization manager takes the first of its queue.     *)
LEMMA ManagerLoopKeeps ==
  ASSUME SyncInv, loop_step(Authm) \/ time_step(Authm)
  PROVE  SyncInv'
<1>1. UNCHANGED <<sync, sync_requests, commands, listener, mad, sending>>
  BY DEF loop_step, time_step, sync_vars
<1>2. CASE time_step(Authm)
  BY <1>1, <1>2, OthersKeep DEF time_step, time_passes, SyncInv, LoopsOK
<1>3. ASSUME loop_step(Authm), loop[Authm] # "ACT",
             acting'[Authm] = acting[Authm], loop'[Authm] \in Loop \ {"ACT"},
             \A m \in Caller : actions'[m] = actions[m] /\ loop'[m] = loop[m] /\ acting'[m] = acting[m],
             DOMAIN actions' = Manager, DOMAIN loop' = Manager, DOMAIN acting' = Manager,
             actions'[Authm] = actions[Authm] \/ actions'[Authm] = Append(actions[Authm], TIMER)
      PROVE  SyncInv'
  <2>1. actions[Authm] \in Seq(Events) /\ actions'[Authm] \in Seq(Events)
    BY <1>3 DEF SyncInv, LoopsOK, Events
  <2>2. SyncTypeOK' /\ LoopsOK'
    BY <1>1, <1>3, <2>1 DEF SyncInv, SyncTypeOK, LoopsOK
  <2>3. \A c \in Caller : Awaiting(c)' = Awaiting(c) /\ ~Acts(c) /\ ~Acts(c)'
    BY <1>1, <1>3 DEF Awaiting, Acts
  <2>4. /\ Len(actions'[Authm]) >= Len(actions[Authm])
        /\ \A i \in 1..Len(actions'[Authm]) :
             \/ i \in 1..Len(actions[Authm]) /\ actions'[Authm][i] = actions[Authm][i]
             \/ actions'[Authm][i] = TIMER
    BY <1>3, <2>1
  <2>5. \A c \in Caller : InQueue(c)' => InQueue(c)
    BY <2>4, Constants DEF InQueue
  <2>6. ManagerHas'
    <3>1. \A i, j \in 1..Len(actions'[Authm]) :
             actions'[Authm][i] \in Caller /\ actions'[Authm][j] = actions'[Authm][i] => i = j
      BY <2>4, Constants DEF SyncInv, ManagerHas
    <3>2. ~sending
      BY <2>3 DEF SyncInv, ManagerHas
    <3>3. QED BY <1>1, <2>3, <2>5, <3>1, <3>2 DEF SyncInv, ManagerHas
  <2>7. TableHas' /\ ListenerHas'
    BY <1>1, <2>3 DEF SyncInv, SyncTypeOK, TableHas, ListenerHas
  <2>8. QED BY <1>1, <1>3, <2>2, <2>6, <2>7 DEF SyncInv
<1>4. CASE wait(Authm) /\ loop_step(Authm)
  BY <1>3, <1>4, Constants DEF wait, SyncInv, LoopsOK, Loop
<1>5. CASE time_out(Authm) /\ loop_step(Authm)
  BY <1>3, <1>5, Constants DEF time_out, SyncInv, LoopsOK, Loop
<1>6. CASE push_timer(Authm) /\ loop_step(Authm)
  BY <1>3, <1>6, Constants DEF push_timer, SyncInv, LoopsOK, Loop
<1>7. CASE take(Authm)
  <2> DEFINE a == Head(actions[Authm])
  <2>1. /\ loop[Authm] = "LOOK" /\ loop'[Authm] = "ACT" /\ acting'[Authm] = a
        /\ actions'[Authm] = Tail(actions[Authm]) /\ actions[Authm] # <<>> /\ actions[Authm] \in Seq(Events)
        /\ \A m \in Caller : actions'[m] = actions[m] /\ loop'[m] = loop[m] /\ acting'[m] = acting[m]
        /\ DOMAIN actions' = Manager /\ DOMAIN loop' = Manager /\ DOMAIN acting' = Manager
    BY <1>7, Constants DEF take, SyncInv, LoopsOK
  <2>2. /\ a \in Events /\ a = actions[Authm][1] /\ 1 \in 1..Len(actions[Authm])
        /\ Tail(actions[Authm]) \in Seq(Events) /\ Len(actions[Authm]) \in Nat
        /\ Len(Tail(actions[Authm])) = Len(actions[Authm]) - 1
        /\ \A i \in 1..Len(Tail(actions[Authm])) : /\ Tail(actions[Authm])[i] = actions[Authm][i + 1]
                                                 /\ i + 1 \in 1..Len(actions[Authm]) /\ i + 1 # 1
    BY <2>1
  <2>3. SyncTypeOK' /\ LoopsOK'
    BY <1>1, <2>1, <2>2 DEF SyncInv, SyncTypeOK, LoopsOK, Loop
  <2>4. \A c \in Caller : Awaiting(c)' = Awaiting(c) /\ ~Acts(c) /\ (Acts(c)' <=> c = a)
    BY <1>1, <2>1 DEF Awaiting, Acts
  <2>5. ~sending
    BY <2>4 DEF SyncInv, ManagerHas
  <2>6. \A c \in Caller : InQueue(c)' => InQueue(c) /\ c # a
    BY <2>1, <2>2 DEF InQueue, SyncInv, ManagerHas
  <2>7. a \in Caller => InQueue(a)
    BY <2>2 DEF InQueue
  <2>8. \A i, j \in 1..Len(actions'[Authm]) :
           actions'[Authm][i] \in Caller /\ actions'[Authm][j] = actions'[Authm][i] => i = j
    <3> SUFFICES ASSUME NEW i \in 1..Len(actions'[Authm]), NEW j \in 1..Len(actions'[Authm]),
                        actions'[Authm][i] \in Caller, actions'[Authm][j] = actions'[Authm][i]
                 PROVE  i = j
      OBVIOUS
    <3>1. i + 1 = j + 1
      BY <2>1, <2>2 DEF SyncInv, ManagerHas
    <3>2. QED BY <3>1, <2>1, <2>2
  <2>9. ManagerHas'
    BY <1>1, <2>4, <2>5, <2>6, <2>7, <2>8 DEF SyncInv, ManagerHas
  <2>10. TableHas' /\ ListenerHas'
    BY <1>1, <2>4 DEF SyncInv, SyncTypeOK, TableHas, ListenerHas
  <2>11. QED BY <1>1, <2>1, <2>3, <2>5, <2>9, <2>10 DEF SyncInv
<1>8. QED BY <1>2, <1>4, <1>5, <1>6, <1>7 DEF loop_step, LoopStep

-----------------------------------------------------------------------------
(* Whoever is not awaited is nowhere.                                      *)
LEMMA NotAwaited ==
  ASSUME SyncInv, NEW c \in Caller, ~Awaiting(c)
  PROVE  /\ ~InQueue(c) /\ ~Acts(c)
         /\ \A s \in Service : listener[s] # c /\ \A i \in Ids : sync_requests[s][i] # c
<1>1. \A s \in Service : listener[s] # c /\ \A i \in Ids : sync_requests[s][i] # c
  BY Constants DEF SyncInv, TableHas, ListenerHas
<1>2. "AUTH" \in Service
  BY DEF Service
<1>3. QED BY <1>1, <1>2 DEF SyncInv, ManagerHas

(* What a thread does for itself: it is nowhere, or awaited as before.     *)
LEMMA CallerAlone ==
  ASSUME SyncInv, NEW c \in Caller,
         sync' \in [Caller -> SyncRecord], \A d \in Caller \ {c} : sync'[d] = sync[d],
         UNCHANGED <<sync_requests, commands, listener, mad, sending>>,
         DOMAIN actions' = Manager, DOMAIN loop' = Manager, DOMAIN acting' = Manager,
         \A m \in (Caller \ {c}) \cup {Authm} :
            actions'[m] = actions[m] /\ loop'[m] = loop[m] /\ acting'[m] = acting[m],
         actions'[c] \in Seq(Events), loop'[c] \in Loop, acting'[c] \in Events \cup {NoAction},
         sync'[c].stage \in {"NONE", "DONE"} => actions'[c] = <<>> /\ loop'[c] = "LOOK",
         ~Awaiting(c) \/ (Awaiting(c)' /\ sync'[c].of = sync[c].of /\ sync'[c].id = sync[c].id)
  PROVE  SyncInv'
<1>1. SyncTypeOK' /\ LoopsOK'
  BY DEF SyncInv, SyncTypeOK, SyncRecord, LoopsOK
<1>2. \A d \in Caller : Acts(d)' = Acts(d) /\ InQueue(d)' = InQueue(d)
  BY DEF Acts, InQueue
<1>3. \A d \in Caller \ {c} : Awaiting(d)' = Awaiting(d) /\ sync'[d] = sync[d]
  BY DEF Awaiting
<1>4. CASE ~Awaiting(c)
  <2>1. /\ ~InQueue(c) /\ ~Acts(c)
        /\ \A s \in Service : listener[s] # c /\ \A i \in Ids : sync_requests[s][i] # c
    BY <1>4, NotAwaited
  <2>2. ManagerHas'
    BY <1>2, <1>3, <2>1 DEF SyncInv, ManagerHas
  <2>3. TableHas' /\ ListenerHas'
    BY <1>3, <2>1 DEF SyncInv, SyncTypeOK, TableHas, ListenerHas
  <2>4. QED BY <1>1, <2>2, <2>3 DEF SyncInv
<1>5. CASE Awaiting(c)
  <2>1. /\ \A d \in Caller : Awaiting(d) => Awaiting(d)'
        /\ \A d \in Caller : sync'[d].of = sync[d].of /\ sync'[d].id = sync[d].id
    BY <1>3, <1>5
  <2>2. ManagerHas'
    BY <1>2, <2>1 DEF SyncInv, ManagerHas
  <2>3. TableHas' /\ ListenerHas'
    BY <2>1 DEF SyncInv, SyncTypeOK, TableHas, ListenerHas
  <2>4. QED BY <1>1, <2>2, <2>3 DEF SyncInv
<1>6. QED BY <1>4, <1>5

LEMMA CallerStepKeeps ==
  ASSUME SyncInv, NEW c \in Caller,
         caller_step(c) \/ ninety_seconds(c) \/ stat_image_without_driver(c)
  PROVE  SyncInv'
<1>1. sync \in [Caller -> SyncRecord] /\ sync[c] \in SyncRecord
  BY DEF SyncInv, SyncTypeOK, SyncRecord
<1>2. c \in Manager /\ c # Authm /\ actions[c] \in Seq(Events) /\ loop[c] \in Loop /\ acting[c] \in Events \cup {NoAction}
  BY Constants DEF SyncInv, LoopsOK
<1>3. DOMAIN actions = Manager /\ DOMAIN loop = Manager /\ DOMAIN acting = Manager
  BY DEF SyncInv, LoopsOK
<1>4. CASE starts_waiting(c)
  <2>1. sync'[c] = [sync[c] EXCEPT !.stage = "WAIT"] /\ sync[c].stage = "MADE"
    BY <1>1, <1>4 DEF starts_waiting
  <2>2. sync' \in [Caller -> SyncRecord] /\ \A d \in Caller \ {c} : sync'[d] = sync[d]
    BY <1>1, <1>4 DEF starts_waiting, SyncRecord
  <2>3. sync'[c].stage = "WAIT" /\ sync'[c].of = sync[c].of /\ sync'[c].id = sync[c].id
    BY <1>1, <2>1 DEF SyncRecord
  <2>4. UNCHANGED <<sync_requests, commands, listener, mad, sending, actions, loop, acting>>
    BY <1>4 DEF starts_waiting, am_vars
  <2>5. Awaiting(c) => Awaiting(c)'
    BY <2>3, <2>4 DEF Awaiting
  <2>6. QED BY <1>2, <1>3, <2>2, <2>3, <2>4, <2>5, CallerAlone
<1>5. CASE ninety_seconds(c)
  <2>1. sync'[c] = [sync[c] EXCEPT !.late = TRUE] /\ sync[c].stage = "WAIT"
    BY <1>1, <1>5 DEF ninety_seconds
  <2>2. sync' \in [Caller -> SyncRecord] /\ \A d \in Caller \ {c} : sync'[d] = sync[d]
    BY <1>1, <1>5 DEF ninety_seconds, SyncRecord
  <2>3. sync'[c].stage = "WAIT" /\ sync'[c].of = sync[c].of /\ sync'[c].id = sync[c].id
    BY <1>1, <2>1 DEF SyncRecord
  <2>4. UNCHANGED <<sync_requests, commands, listener, mad, sending, actions, loop, acting>>
    BY <1>5 DEF ninety_seconds, am_vars
  <2>5. Awaiting(c) => Awaiting(c)'
    BY <2>3, <2>4 DEF Awaiting
  <2>6. QED BY <1>2, <1>3, <2>2, <2>3, <2>4, <2>5, CallerAlone
<1>6. CASE stat_image_without_driver(c)
  <2>1. sync'[c] = [sync[c] EXCEPT !.stage = "DONE"] /\ sync[c].stage = "NONE"
    BY <1>1, <1>6 DEF stat_image_without_driver
  <2>2. sync' \in [Caller -> SyncRecord] /\ \A d \in Caller \ {c} : sync'[d] = sync[d]
    BY <1>1, <1>6 DEF stat_image_without_driver, SyncRecord
  <2>3. UNCHANGED <<sync_requests, commands, listener, mad, sending, actions, loop, acting>>
    BY <1>6 DEF stat_image_without_driver, am_vars
  <2>4. ~Awaiting(c) /\ actions[c] = <<>> /\ loop[c] = "LOOK"
    BY <2>1 DEF Awaiting, SyncInv
  <2>5. QED BY <1>2, <1>3, <2>2, <2>3, <2>4, CallerAlone
<1>7. CASE returns(c)
  <2>1. sync'[c] \in SyncRecord /\ sync' \in [Caller -> SyncRecord] /\ \A d \in Caller \ {c} : sync'[d] = sync[d]
    BY <1>1, <1>7 DEF returns, SyncRecord, NoSync, Service
  <2>2. UNCHANGED <<sync_requests, commands, listener, mad, sending, acting>>
    BY <1>7 DEF returns
  <2>3. /\ loop[c] = "ENDED" /\ loop' = [loop EXCEPT ![c] = "LOOK"] /\ actions' = [actions EXCEPT ![c] = <<>>]
    BY <1>7 DEF returns
  <2>4. ~Awaiting(c)
    BY <2>3 DEF Awaiting
  <2>5. /\ DOMAIN actions' = Manager /\ DOMAIN loop' = Manager /\ DOMAIN acting' = Manager
        /\ \A m \in (Caller \ {c}) \cup {Authm} :
            actions'[m] = actions[m] /\ loop'[m] = loop[m] /\ acting'[m] = acting[m]
        /\ actions'[c] = <<>> /\ actions'[c] \in Seq(Events) /\ loop'[c] = "LOOK" /\ loop'[c] \in Loop
        /\ acting'[c] \in Events \cup {NoAction}
    BY <1>2, <1>3, <2>2, <2>3, Constants DEF Loop
  <2>6. QED BY <2>1, <2>2, <2>4, <2>5, CallerAlone
<1>8. CASE waits(c)
  <2>1. UNCHANGED <<sync, sync_requests, commands, listener, mad, sending>> /\ sync[c].stage = "WAIT"
    BY <1>8 DEF waits, sync_vars
  <2>2. ~time_out(c)
    BY Constants DEF time_out
  <2>3. CASE wait(c)
    <3>1. Awaiting(c) => Awaiting(c)'
      BY <1>2, <1>3, <2>1, <2>3 DEF wait, Awaiting
    <3>2. /\ DOMAIN actions' = Manager /\ DOMAIN loop' = Manager /\ DOMAIN acting' = Manager
          /\ \A m \in (Caller \ {c}) \cup {Authm} :
              actions'[m] = actions[m] /\ loop'[m] = loop[m] /\ acting'[m] = acting[m]
          /\ actions'[c] \in Seq(Events) /\ loop'[c] \in Loop /\ acting'[c] \in Events \cup {NoAction}
      BY <1>2, <1>3, <2>3, Constants DEF wait, Loop
    <3>3. QED BY <1>1, <2>1, <3>1, <3>2, CallerAlone
  <2>4. CASE take(c) \/ push_timer(c) \/ acted(c)
    <3>1. ~Awaiting(c)
      BY <2>4 DEF take, push_timer, acted, Awaiting
    <3>2. /\ DOMAIN actions' = Manager /\ DOMAIN loop' = Manager /\ DOMAIN acting' = Manager
          /\ \A m \in (Caller \ {c}) \cup {Authm} :
              actions'[m] = actions[m] /\ loop'[m] = loop[m] /\ acting'[m] = acting[m]
          /\ actions'[c] \in Seq(Events) /\ loop'[c] \in Loop /\ acting'[c] \in Events \cup {NoAction}
      <4>1. CASE take(c)
        <5>1. actions[c] # <<>> => Head(actions[c]) \in Events /\ Tail(actions[c]) \in Seq(Events)
          BY <1>2
        <5>2. QED BY <1>2, <1>3, <4>1, <5>1, Constants DEF take, Loop
      <4>2. CASE push_timer(c)
        <5>1. Append(actions[c], TIMER) \in Seq(Events)
          BY <1>2 DEF Events
        <5>2. QED BY <1>2, <1>3, <4>2, <5>1, Constants DEF push_timer, Loop
      <4>3. CASE acted(c)
        BY <1>2, <1>3, <4>3, Constants DEF acted, Loop
      <4>4. QED BY <2>4, <4>1, <4>2, <4>3
    <3>3. QED BY <1>1, <2>1, <3>1, <3>2, CallerAlone
  <2>5. QED BY <1>8, <2>2, <2>3, <2>4 DEF waits, LoopStep
<1>9. QED BY <1>4, <1>5, <1>6, <1>7, <1>8 DEF caller_step

(* A thread asks: it has been nowhere, and is then in the queue or the     *)
(* table.                                                                  *)
LEMMA AuthenticateKeeps ==
  ASSUME SyncInv, NEW c \in Caller, authenticate(c)
  PROVE  SyncInv'
<1>1. sync \in [Caller -> SyncRecord] /\ sync[c].stage = "NONE"
  BY DEF SyncInv, SyncTypeOK, SyncRecord, authenticate
<1>2. UNCHANGED <<sync_requests, commands, listener, mad, sending>> /\ trigger(Authm, c)
  BY DEF authenticate
<1>3. PICK x : /\ sync' = [sync EXCEPT ![c] = x]
               /\ x \in SyncRecord /\ x.stage = "MADE" /\ x.of = "AUTH" /\ x.id = NoId
  <2> DEFINE x == [NoSync EXCEPT !.stage = "MADE", !.of = "AUTH"]
  <2>1. x \in SyncRecord /\ x.stage = "MADE" /\ x.of = "AUTH" /\ x.id = NoId
    BY DEF NoSync, SyncRecord, Service
  <2>2. sync' = [sync EXCEPT ![c] = x]
    BY DEF authenticate, NewRequest
  <2> HIDE DEF x
  <2>3. QED BY <2>1, <2>2
<1>4. /\ sync' \in [Caller -> SyncRecord] /\ \A d \in Caller \ {c} : sync'[d] = sync[d]
      /\ sync'[c].stage = "MADE" /\ sync'[c].of = "AUTH" /\ sync'[c].id = NoId
  BY <1>1, <1>3
<1>5. ~Awaiting(c) /\ actions[c] = <<>> /\ loop[c] = "LOOK"
  BY <1>1 DEF Awaiting, SyncInv
<1>6. /\ ~InQueue(c) /\ ~Acts(c)
      /\ \A s \in Service : listener[s] # c /\ \A i \in Ids : sync_requests[s][i] # c
  BY <1>5, NotAwaited
<1>7. /\ DOMAIN actions' = Manager /\ DOMAIN loop' = Manager /\ acting' = acting
      /\ \A m \in Caller : actions'[m] = actions[m] /\ loop'[m] = loop[m]
      /\ actions'[Authm] = Append(actions[Authm], c) /\ actions[Authm] \in Seq(Events) /\ c \in Events
      /\ loop'[Authm] = IF loop[Authm] = "WAIT" THEN "LOOK" ELSE loop[Authm]
  BY <1>2, Constants, SyncAssumption DEF trigger, SyncInv, LoopsOK, Events
<1>8. /\ actions'[Authm] \in Seq(Events) /\ Len(actions'[Authm]) = Len(actions[Authm]) + 1 /\ Len(actions[Authm]) \in Nat
      /\ \A i \in 1..Len(actions'[Authm]) :
           \/ i \in 1..Len(actions[Authm]) /\ actions'[Authm][i] = actions[Authm][i]
           \/ i = Len(actions[Authm]) + 1 /\ actions'[Authm][i] = c
  BY <1>7
<1>9. SyncTypeOK' /\ LoopsOK'
  BY <1>2, <1>4, <1>7, <1>8, Constants DEF SyncInv, SyncTypeOK, SyncRecord, LoopsOK, Loop
<1>10. \A d \in Caller \ {c} : Awaiting(d)' = Awaiting(d) /\ sync'[d] = sync[d]
  BY <1>4, <1>7 DEF Awaiting
<1>11. \A d \in Caller : Acts(d)' <=> Acts(d)
  BY <1>7 DEF Acts
<1>12. \A d \in Caller \ {c} : InQueue(d)' => InQueue(d)
  BY <1>8 DEF InQueue
<1>13. Awaiting(c)'
  BY <1>4, <1>5, <1>7 DEF Awaiting
<1>14. ManagerHas'
  <2>1. \A i \in 1..Len(actions[Authm]) : actions[Authm][i] # c
    BY <1>6 DEF InQueue
  <2>2. \A i, j \in 1..Len(actions'[Authm]) :
           actions'[Authm][i] \in Caller /\ actions'[Authm][j] = actions'[Authm][i] => i = j
    BY <1>8, <2>1 DEF SyncInv, ManagerHas
  <2>3. QED BY <1>2, <1>4, <1>6, <1>10, <1>11, <1>12, <1>13, <2>2 DEF SyncInv, ManagerHas
<1>15. TableHas' /\ ListenerHas'
  BY <1>2, <1>6, <1>10 DEF SyncInv, SyncTypeOK, TableHas, ListenerHas
<1>16. QED BY <1>2, <1>4, <1>7, <1>9, <1>14, <1>15 DEF SyncInv

LEMMA NewIdIsNew ==
  ASSUME IdsLeft
  PROVE  /\ NewId \in Ids /\ \A s \in Service : sync_requests[s][NewId] = NoCaller /\ NewId \notin commands[s]
         /\ \A c \in Caller : sync[c].id # NewId
<1>1. NewId \in Ids /\ NewId \notin InUse
  BY DEF IdsLeft, NewId
<1>2. \A s \in Service : Entries(s) \cup commands[s] \subseteq InUse
  BY DEF InUse
<1>3. \A c \in Caller : sync[c].id \in InUse
  BY DEF InUse
<1>4. \A s \in Service : sync_requests[s][NewId] = NoCaller
  BY <1>1, <1>2 DEF Entries
<1>5. QED BY <1>1, <1>2, <1>3, <1>4

LEMMA StatImageKeeps ==
  ASSUME SyncInv, NEW c \in Caller, stat_image(c)
  PROVE  SyncInv'
<1>1. sync \in [Caller -> SyncRecord] /\ sync[c].stage = "NONE"
  BY DEF SyncInv, SyncTypeOK, SyncRecord, stat_image
<1>2. UNCHANGED <<listener, mad, sending, actions, loop, acting>>
  BY DEF stat_image, am_vars
<1>3. /\ NewId \in Ids /\ \A s \in Service : sync_requests[s][NewId] = NoCaller /\ NewId \notin commands[s]
      /\ \A d \in Caller : sync[d].id # NewId
  BY NewIdIsNew DEF stat_image
<1> DEFINE new == NewId
<1> HIDE DEF new
<1>4. PICK x : /\ sync' = [sync EXCEPT ![c] = x]
               /\ x \in SyncRecord /\ x.stage = "MADE" /\ x.of = "STAT" /\ x.id = new
  <2> DEFINE x == [NoSync EXCEPT !.stage = "MADE", !.of = "STAT", !.id = new]
  <2>1. x \in SyncRecord /\ x.stage = "MADE" /\ x.of = "STAT" /\ x.id = new
    BY <1>3 DEF NoSync, SyncRecord, Service, new
  <2>2. sync' = [sync EXCEPT ![c] = x]
    BY DEF stat_image, new
  <2> HIDE DEF x
  <2>3. QED BY <2>1, <2>2
<1>5. /\ sync_requests' = [sync_requests EXCEPT !["STAT"][new] = c]
      /\ commands' = [commands EXCEPT !["STAT"] = IF mad["STAT"] = "UP" THEN commands["STAT"] \cup {new} ELSE commands["STAT"]]
  BY DEF stat_image, added, written, new
<1>6. /\ new \in Ids /\ \A s \in Service : sync_requests[s][new] = NoCaller /\ new \notin commands[s]
      /\ \A d \in Caller : sync[d].id # new
  BY <1>3 DEF new
<1>7. /\ sync' \in [Caller -> SyncRecord] /\ \A d \in Caller \ {c} : sync'[d] = sync[d]
      /\ sync'[c].stage = "MADE" /\ sync'[c].of = "STAT" /\ sync'[c].id = new
  BY <1>1, <1>4
<1>8. ~Awaiting(c) /\ actions[c] = <<>> /\ loop[c] = "LOOK"
  BY <1>1 DEF Awaiting, SyncInv
<1>9. /\ ~InQueue(c) /\ ~Acts(c)
      /\ \A s \in Service : listener[s] # c /\ \A i \in Ids : sync_requests[s][i] # c
  BY <1>8, NotAwaited
<1>10. /\ sync_requests' \in [Service -> [Ids -> Caller \cup {NoCaller}]] /\ commands' \in [Service -> SUBSET Ids]
       /\ \A s \in Service, i \in Ids : sync_requests'[s][i] = IF s = "STAT" /\ i = new THEN c ELSE sync_requests[s][i]
       /\ commands'["AUTH"] = commands["AUTH"]
  BY <1>5, <1>6 DEF SyncInv, SyncTypeOK, Service
<1>11. SyncTypeOK' /\ LoopsOK'
  BY <1>2, <1>7, <1>10 DEF SyncInv, SyncTypeOK, SyncRecord, LoopsOK
<1>12. \A d \in Caller : /\ d # c => Awaiting(d)' = Awaiting(d) /\ sync'[d] = sync[d]
                         /\ Acts(d)' = Acts(d) /\ InQueue(d)' = InQueue(d)
  BY <1>2, <1>7 DEF Awaiting, Acts, InQueue
<1>13. Awaiting(c)'
  BY <1>2, <1>7, <1>8 DEF Awaiting
<1>14. ManagerHas'
  <2>1. "AUTH" \in Service /\ "AUTH" # "STAT"
    BY DEF Service
  <2>2. QED BY <1>2, <1>9, <1>10, <1>12, <2>1 DEF SyncInv, ManagerHas
<1>15. TableHas'
  <2> SUFFICES ASSUME NEW s \in Service, NEW i \in Ids, NEW d \in Caller, sync_requests'[s][i] = d
               PROVE  Awaiting(d)' /\ sync'[d].of = s /\ sync'[d].id = i /\ listener'[s] # d
    BY DEF TableHas
  <2>1. CASE s = "STAT" /\ i = new
    BY <2>1, <1>2, <1>7, <1>9, <1>10, <1>13
  <2>2. CASE ~(s = "STAT" /\ i = new)
    BY <2>2, <1>2, <1>9, <1>10, <1>12 DEF SyncInv, TableHas
  <2>3. QED BY <2>1, <2>2
<1>16. ListenerHas'
  BY <1>2, <1>9, <1>12 DEF SyncInv, SyncTypeOK, ListenerHas
<1>17. QED BY <1>2, <1>7, <1>11, <1>14, <1>15, <1>16 DEF SyncInv

-----------------------------------------------------------------------------
(* The manager and the thread that listens: a request moves on, out of the *)
(* queue, into the table, out of it to the thread that listens, and is     *)
(* told when it is nowhere.                                                *)
LEMMA GetMadKeeps ==
  ASSUME SyncInv, NEW c \in Caller, get_mad(c)
  PROVE  SyncInv'
<1>1. UNCHANGED <<sync, sync_requests, commands, listener, mad, actions, loop, acting>> /\ sending' = TRUE
  BY DEF get_mad, am_vars
<1>2. Acts(c) /\ mad["AUTH"] # "REMOVED" /\ \A d \in Caller : Acts(d)' = Acts(d)
  BY <1>1 DEF get_mad, Acts
<1>3. \A d \in Caller : Awaiting(d)' = Awaiting(d) /\ InQueue(d)' = InQueue(d)
  BY <1>1 DEF Awaiting, InQueue
<1>4. ManagerHas'
  BY <1>1, <1>2, <1>3 DEF SyncInv, ManagerHas
<1>5. TableHas' /\ ListenerHas' /\ SyncTypeOK' /\ LoopsOK'
  BY <1>1, <1>3 DEF SyncInv, TableHas, ListenerHas, SyncTypeOK, LoopsOK
<1>6. QED BY <1>1, <1>2, <1>4, <1>5 DEF SyncInv

LEMMA AddRequestKeeps ==
  ASSUME SyncInv, NEW c \in Caller, add_request(c)
  PROVE  SyncInv'
<1> DEFINE new == NewId
<1>1. UNCHANGED <<commands, listener, mad, sending, actions, loop, acting>> /\ Acts(c) /\ sending /\ sync[c].id = NoId
  BY DEF add_request, am_vars
<1>2. /\ new \in Ids /\ \A s \in Service : sync_requests[s][new] = NoCaller /\ new \notin commands[s]
      /\ \A d \in Caller : sync[d].id # new
  BY NewIdIsNew DEF add_request
<1>3. sync_requests' = [sync_requests EXCEPT !["AUTH"][new] = c] /\ sync' = [sync EXCEPT ![c].id = new]
  BY DEF add_request, added
<1> HIDE DEF new
<1>4. Awaiting(c) /\ sync[c].of = "AUTH" /\ new # NoId
  BY <1>1, <1>2, Constants DEF SyncInv, ManagerHas
<1>5. /\ sync' \in [Caller -> SyncRecord] /\ \A d \in Caller \ {c} : sync'[d] = sync[d]
      /\ sync'[c].stage = sync[c].stage /\ sync'[c].of = "AUTH" /\ sync'[c].id = new
  BY <1>2, <1>3, <1>4 DEF SyncInv, SyncTypeOK, SyncRecord
<1>6. /\ sync_requests' \in [Service -> [Ids -> Caller \cup {NoCaller}]]
      /\ \A s \in Service, i \in Ids : sync_requests'[s][i] = IF s = "AUTH" /\ i = new THEN c ELSE sync_requests[s][i]
  BY <1>2, <1>3 DEF SyncInv, SyncTypeOK, Service
<1>7. /\ \A s \in Service : listener[s] # c
      /\ \A s \in Service, i \in Ids : sync_requests[s][i] # c
      /\ ~InQueue(c) /\ \A d \in Caller : Acts(d) => d = c
  BY <1>1, Constants DEF SyncInv, TableHas, ListenerHas, ManagerHas, Acts
<1>8. \A d \in Caller : Awaiting(d)' = Awaiting(d) /\ Acts(d)' = Acts(d) /\ InQueue(d)' = InQueue(d)
  BY <1>1, <1>5 DEF Awaiting, Acts, InQueue
<1>9. SyncTypeOK' /\ LoopsOK'
  BY <1>1, <1>5, <1>6 DEF SyncInv, SyncTypeOK, SyncRecord, LoopsOK
<1>10. ManagerHas'
  <2>1. "AUTH" \in Service
    BY DEF Service
  <2>2. \A d \in Caller : InQueue(d)' => Awaiting(d)' /\ sync'[d].id = NoId /\ sync'[d].of = "AUTH" /\ ~Acts(d)'
    BY <1>5, <1>7, <1>8 DEF SyncInv, ManagerHas
  <2>3. \A d \in Caller : Acts(d)' => /\ sync'[d].id \in Ids \ commands'["AUTH"]
                                      /\ sync_requests'["AUTH"][sync'[d].id] = d /\ sending'
    BY <1>1, <1>2, <1>5, <1>6, <1>7, <1>8, <2>1
  <2>4. QED BY <1>1, <1>8, <2>2, <2>3 DEF SyncInv, ManagerHas
<1>11. TableHas'
  <2> SUFFICES ASSUME NEW s \in Service, NEW i \in Ids, NEW d \in Caller, sync_requests'[s][i] = d
               PROVE  Awaiting(d)' /\ sync'[d].of = s /\ sync'[d].id = i /\ listener'[s] # d
    BY DEF TableHas
  <2>1. CASE s = "AUTH" /\ i = new
    BY <2>1, <1>1, <1>4, <1>5, <1>6, <1>7, <1>8
  <2>2. CASE ~(s = "AUTH" /\ i = new)
    BY <2>2, <1>1, <1>5, <1>6, <1>7, <1>8 DEF SyncInv, TableHas
  <2>3. QED BY <2>1, <2>2
<1>12. ListenerHas'
  BY <1>1, <1>5, <1>7, <1>8 DEF SyncInv, ListenerHas
<1>13. QED BY <1>1, <1>5, <1>9, <1>10, <1>11, <1>12 DEF SyncInv

(* The handler is back; it has told only requests that nobody has any more.*)
LEMMA HandledKeeps ==
  ASSUME SyncInv, NEW cs \in SUBSET Caller, handled(cs), loop[Authm] = "ACT",
         UNCHANGED <<sync, listener, mad>>, sending' = FALSE,
         commands' \in [Service -> SUBSET Ids],
         sync_requests' \in [Service -> [Ids -> Caller \cup {NoCaller}]],
         \A s \in Service, i \in Ids : /\ sync_requests'[s][i] \in {sync_requests[s][i], NoCaller}
                                     /\ sync_requests'[s][i] \notin cs,
         \A c \in cs : /\ ~InQueue(c) /\ \A s \in Service : listener[s] # c
                       /\ sync[c].stage \in {"MADE", "WAIT"}
  PROVE  SyncInv'
<1>1. /\ DOMAIN actions' = Manager /\ DOMAIN loop' = Manager /\ DOMAIN acting' = Manager
      /\ \A c \in cs : actions'[c] = Append(actions[c], FINALIZE) /\ loop'[c] = IF loop[c] = "WAIT" THEN "LOOK" ELSE loop[c]
      /\ \A c \in Caller \ cs : actions'[c] = actions[c] /\ loop'[c] = loop[c]
      /\ \A c \in Caller : acting'[c] = acting[c]
      /\ actions'[Authm] = actions[Authm] /\ loop'[Authm] = "LOOK" /\ acting'[Authm] = NoAction
  BY Constants DEF handled, SyncInv, LoopsOK
<1>2. SyncTypeOK'
  BY DEF SyncInv, SyncTypeOK
<1>3. LoopsOK'
  <2>1. \A c \in Caller : actions'[c] \in Seq(Events)
    <3> TAKE c \in Caller
    <3>1. actions[c] \in Seq(Events) /\ FINALIZE \in Events
      BY DEF SyncInv, LoopsOK, Events
    <3>2. CASE c \in cs
      <4>1. actions'[c] = Append(actions[c], FINALIZE)
        BY <3>2, <1>1
      <4>2. QED BY <3>1, <4>1
    <3>3. CASE c \notin cs
      BY <3>1, <3>3, <1>1
    <3>4. QED BY <3>2, <3>3
  <2>2. QED BY <1>1, <2>1 DEF SyncInv, LoopsOK, Loop
<1>4. \A c \in Caller : ~Acts(c)' /\ InQueue(c)' = InQueue(c)
  BY <1>1 DEF Acts, InQueue
<1>5. \A c \in Caller \ cs : Awaiting(c)' = Awaiting(c)
  BY <1>1 DEF Awaiting
<1>6. ManagerHas'
  BY <1>1, <1>4, <1>5 DEF SyncInv, ManagerHas
<1>7. TableHas' /\ ListenerHas'
  BY <1>5, Constants DEF SyncInv, TableHas, ListenerHas
<1>8. \A c \in Caller : sync'[c].stage \in {"NONE", "DONE"} => actions'[c] = <<>> /\ loop'[c] = "LOOK"
  BY <1>1 DEF SyncInv
<1>9. QED BY <1>2, <1>3, <1>6, <1>7, <1>8 DEF SyncInv

LEMMA NoDriverKeeps ==
  ASSUME SyncInv, NEW c \in Caller, no_driver(c)
  PROVE  SyncInv'
<1>1. UNCHANGED <<sync, sync_requests, commands, listener, mad, sending>> /\ handled({c}) /\ Acts(c) /\ ~sending
  BY DEF no_driver
<1>2. Awaiting(c) /\ sync[c].id = NoId /\ ~InQueue(c)
  BY <1>1 DEF SyncInv, ManagerHas
<1>3. \A s \in Service : listener[s] # c /\ \A i \in Ids : sync_requests[s][i] # c
  BY <1>2, Constants DEF SyncInv, TableHas, ListenerHas
<1>4. sync[c].stage \in {"MADE", "WAIT"} /\ loop[Authm] = "ACT" /\ sending' = FALSE
  BY <1>1, <1>2 DEF Awaiting, Acts, SyncInv, SyncTypeOK
<1>5. /\ {c} \in SUBSET Caller
      /\ commands' \in [Service -> SUBSET Ids]
      /\ sync_requests' \in [Service -> [Ids -> Caller \cup {NoCaller}]]
  BY <1>1 DEF SyncInv, SyncTypeOK
<1>6. \A s \in Service, i \in Ids : /\ sync_requests'[s][i] \in {sync_requests[s][i], NoCaller}
                                   /\ sync_requests'[s][i] \notin {c}
  BY <1>1, <1>3
<1> DEFINE cs == {c}
<1>7. \A d \in cs : /\ ~InQueue(d) /\ \A s \in Service : listener[s] # d
                    /\ sync[d].stage \in {"MADE", "WAIT"}
  BY <1>2, <1>3, <1>4
<1>8. cs \in SUBSET Caller /\ handled(cs)
  BY <1>1, <1>5
<1>9. \A s \in Service, i \in Ids : /\ sync_requests'[s][i] \in {sync_requests[s][i], NoCaller}
                                   /\ sync_requests'[s][i] \notin cs
  BY <1>6
<1> HIDE DEF cs
<1>10. QED BY <1>1, <1>4, <1>5, <1>7, <1>8, <1>9, HandledKeeps

LEMMA SendKeeps ==
  ASSUME SyncInv, NEW c \in Caller, send(c)
  PROVE  SyncInv'
<1>1. /\ UNCHANGED <<sync, sync_requests, listener, mad>> /\ handled({}) /\ Acts(c) /\ sending' = FALSE
      /\ written("AUTH", sync[c].id) /\ sync[c].id # NoId
  BY DEF send
<1>2. commands' \in [Service -> SUBSET Ids]
  BY <1>1 DEF written, SyncInv, SyncTypeOK, Service
<1>3. QED BY <1>1, <1>2, HandledKeeps DEF Acts, SyncInv, SyncTypeOK

LEMMA CheckTimeOutsKeeps ==
  ASSUME SyncInv, check_time_outs
  PROVE  SyncInv'
<1> DEFINE cs == {sync_requests["AUTH"][i] : i \in Expired}
<1>1. /\ UNCHANGED <<sync, commands, listener, mad, sending>> /\ handled(cs) /\ Acts(TIMER)
      /\ sync_requests' = [sync_requests EXCEPT !["AUTH"] =
                             [i \in Ids |-> IF i \in Expired THEN NoCaller ELSE sync_requests["AUTH"][i]]]
  BY DEF check_time_outs
<1>2. "AUTH" \in Service /\ sync_requests \in [Service -> [Ids -> Caller \cup {NoCaller}]]
  BY DEF Service, SyncInv, SyncTypeOK
<1>3. /\ sync_requests' \in [Service -> [Ids -> Caller \cup {NoCaller}]]
      /\ \A s \in Service, i \in Ids :
           sync_requests'[s][i] = IF s = "AUTH" /\ i \in Expired THEN NoCaller ELSE sync_requests[s][i]
  BY <1>1, <1>2
<1>4. \A i \in Expired : i \in Ids /\ sync_requests["AUTH"][i] \in Caller
  BY <1>2 DEF Expired, Entries
<1>5. cs \in SUBSET Caller /\ \A c \in cs : \E i \in Expired : c = sync_requests["AUTH"][i]
  BY <1>4
<1>6. ASSUME NEW c \in cs
      PROVE  /\ Awaiting(c) /\ ~InQueue(c) /\ \A s \in Service : listener[s] # c
             /\ \A s \in Service, i \in Ids : sync_requests[s][i] = c => s = "AUTH" /\ i \in Expired
  <2>1. PICK i \in Expired : i \in Ids /\ c = sync_requests["AUTH"][i] /\ c \in Caller
    BY <1>4, <1>5
  <2>2. Awaiting(c) /\ sync[c].of = "AUTH" /\ sync[c].id = i /\ listener["AUTH"] # c
    BY <1>2, <2>1 DEF SyncInv, TableHas
  <2>3. ~InQueue(c)
    BY <2>1, <2>2, Constants DEF SyncInv, ManagerHas
  <2>4. QED BY <2>1, <2>2, <2>3 DEF SyncInv, TableHas, ListenerHas
<1>7. \A c \in cs : sync[c].stage \in {"MADE", "WAIT"}
  BY <1>6 DEF Awaiting
<1>8. loop[Authm] = "ACT" /\ ~sending
  BY <1>1, Constants DEF Acts, SyncInv, ManagerHas
<1>9. \A s \in Service, i \in Ids : /\ sync_requests'[s][i] \in {sync_requests[s][i], NoCaller}
                                   /\ sync_requests'[s][i] \notin cs
  <2> TAKE s \in Service, i \in Ids
  <2>1. CASE s = "AUTH" /\ i \in Expired
    BY <2>1, <1>3, <1>5, Constants
  <2>2. CASE ~(s = "AUTH" /\ i \in Expired)
    BY <2>2, <1>3, <1>6
  <2>3. QED BY <2>1, <2>2
<1> HIDE DEF cs
<1>10. QED BY <1>1, <1>3, <1>5, <1>6, <1>7, <1>8, <1>9, HandledKeeps DEF SyncInv, SyncTypeOK

LEMMA GetRequestKeeps ==
  ASSUME SyncInv, NEW s \in Service, get_request(s)
  PROVE  SyncInv'
<1>1. PICK i \in commands[s] :
        /\ commands' = [commands EXCEPT ![s] = @ \ {i}]
        /\ listener' = [listener EXCEPT ![s] = sync_requests[s][i]]
        /\ sync_requests' = [sync_requests EXCEPT ![s][i] = NoCaller]
  BY DEF get_request
<1>2. UNCHANGED <<sync, mad, sending, actions, loop, acting>> /\ listener[s] = NoCaller
  BY DEF get_request, am_vars
<1>3. i \in Ids
  BY DEF SyncInv, SyncTypeOK
<1>4. /\ sync_requests' \in [Service -> [Ids -> Caller \cup {NoCaller}]]
      /\ \A r \in Service, j \in Ids : sync_requests'[r][j] = IF r = s /\ j = i THEN NoCaller ELSE sync_requests[r][j]
      /\ listener' \in [Service -> Caller \cup {NoCaller}]
      /\ \A r \in Service : listener'[r] = IF r = s THEN sync_requests[s][i] ELSE listener[r]
      /\ commands' \in [Service -> SUBSET Ids] /\ \A r \in Service : commands'[r] \subseteq commands[r]
  BY <1>1, <1>3 DEF SyncInv, SyncTypeOK
<1>5. SyncTypeOK' /\ LoopsOK'
  BY <1>2, <1>4 DEF SyncInv, SyncTypeOK, LoopsOK
<1>6. \A d \in Caller : Awaiting(d)' = Awaiting(d) /\ Acts(d)' = Acts(d) /\ InQueue(d)' = InQueue(d)
  BY <1>2 DEF Awaiting, Acts, InQueue
<1>7. ManagerHas'
  <2>1. "AUTH" \in Service
    BY DEF Service
  <2>2. \A d \in Caller : Acts(d) /\ sync[d].id # NoId => ~(s = "AUTH" /\ i = sync[d].id)
    BY DEF SyncInv, ManagerHas
  <2>3. \A d \in Caller : Acts(d)' =>
          \/ sync'[d].id = NoId /\ Awaiting(d)' /\ sync'[d].of = "AUTH"
          \/ /\ sync'[d].id \in Ids \ commands'["AUTH"] /\ sync_requests'["AUTH"][sync'[d].id] = d
             /\ sending'
    <3> TAKE d \in Caller
    <3>1. CASE sync[d].id = NoId
      BY <3>1, <1>2, <1>6, Constants DEF SyncInv, ManagerHas
    <3>2. CASE sync[d].id # NoId
      BY <3>2, <1>2, <1>4, <1>6, <2>1, <2>2 DEF SyncInv, ManagerHas
    <3>3. QED BY <3>1, <3>2
  <2>4. QED BY <1>2, <1>6, <2>3 DEF SyncInv, ManagerHas
<1>8. TableHas'
  <2> SUFFICES ASSUME NEW r \in Service, NEW j \in Ids, NEW d \in Caller, sync_requests'[r][j] = d
               PROVE  Awaiting(d)' /\ sync'[d].of = r /\ sync'[d].id = j /\ listener'[r] # d
    BY DEF TableHas
  <2>1. sync_requests[r][j] = d /\ ~(r = s /\ j = i)
    BY <1>4, Constants
  <2>2. Awaiting(d) /\ sync[d].of = r /\ sync[d].id = j /\ listener[r] # d
    BY <2>1 DEF SyncInv, TableHas
  <2>3. listener'[r] # d
    BY <1>3, <1>4, <2>1, <2>2 DEF SyncInv, TableHas
  <2>4. QED BY <1>2, <1>6, <2>2, <2>3
<1>9. ListenerHas'
  BY <1>2, <1>3, <1>4, <1>6, Constants DEF SyncInv, ListenerHas, TableHas
<1>10. QED BY <1>2, <1>5, <1>7, <1>8, <1>9 DEF SyncInv

LEMMA NotifyRequestKeeps ==
  ASSUME SyncInv, NEW s \in Service, notify_request(s)
  PROVE  SyncInv'
<1> DEFINE c == listener[s]
<1>1. /\ UNCHANGED <<sync, sync_requests, commands, mad, sending>> /\ trigger(c, FINALIZE)
      /\ listener' = [listener EXCEPT ![s] = NoCaller] /\ c \in Caller
  BY DEF notify_request, SyncInv, SyncTypeOK
<1>2. Awaiting(c) /\ sync[c].of = s /\ sync[c].id # NoId
  BY <1>1 DEF SyncInv, ListenerHas
<1> HIDE DEF c
<1>3. listener[s] = c
  BY DEF c
<1>4. \A r \in Service, i \in Ids : sync_requests[r][i] # c
  BY <1>1, <1>2, <1>3 DEF SyncInv, TableHas
<1>5. ~InQueue(c) /\ ~Acts(c)
  BY <1>1, <1>2, <1>4 DEF SyncInv, ManagerHas, Service
<1>6. \A r \in Service \ {s} : listener[r] # c
  BY <1>1, <1>2 DEF SyncInv, ListenerHas
<1>7. /\ DOMAIN actions' = Manager /\ DOMAIN loop' = Manager /\ acting' = acting
      /\ \A m \in (Caller \ {c}) \cup {Authm} : actions'[m] = actions[m] /\ loop'[m] = loop[m]
      /\ actions'[c] = Append(actions[c], FINALIZE) /\ loop'[c] \in Loop
  BY <1>1, Constants DEF trigger, SyncInv, LoopsOK, Loop
<1>8. /\ listener' \in [Service -> Caller \cup {NoCaller}]
      /\ \A r \in Service : listener'[r] = IF r = s THEN NoCaller ELSE listener[r]
  BY <1>1 DEF SyncInv, SyncTypeOK
<1>9. SyncTypeOK'
  BY <1>1, <1>8 DEF SyncInv, SyncTypeOK
<1>10. LoopsOK'
  <2>1. actions[c] \in Seq(Events) /\ FINALIZE \in Events
    BY <1>1 DEF SyncInv, LoopsOK, Events
  <2>2. actions'[c] \in Seq(Events)
    BY <1>7, <2>1
  <2>3. QED BY <1>1, <1>7, <2>2 DEF SyncInv, LoopsOK
<1>11. \A d \in Caller : /\ d # c => Awaiting(d)' = Awaiting(d)
                         /\ Acts(d)' = Acts(d) /\ InQueue(d)' = InQueue(d)
  BY <1>1, <1>7 DEF Awaiting, Acts, InQueue
<1>12. ManagerHas'
  BY <1>1, <1>5, <1>7, <1>11 DEF SyncInv, ManagerHas
<1>13. TableHas' /\ ListenerHas'
  BY <1>1, <1>4, <1>6, <1>8, <1>11, Constants DEF SyncInv, TableHas, ListenerHas
<1>14. \A d \in Caller : sync'[d].stage \in {"NONE", "DONE"} => actions'[d] = <<>> /\ loop'[d] = "LOOK"
  BY <1>1, <1>2, <1>7 DEF SyncInv, Awaiting
<1>15. QED BY <1>1, <1>9, <1>10, <1>12, <1>13, <1>14 DEF SyncInv

LEMMA DriverKeeps ==
  ASSUME SyncInv, "MAD_REMOVED" \notin Hasty, NEW s \in Service, mad_dies(s) \/ reload(s)
  PROVE  SyncInv'
<1>1. UNCHANGED <<sync, sync_requests, listener, sending, actions, loop, acting>>
  BY DEF mad_dies, reload, am_vars
<1>2. /\ mad' \in [Service -> {"UP", "DEAD", "REMOVED"}] /\ commands' \in [Service -> SUBSET Ids]
      /\ \A r \in Service : commands'[r] \subseteq commands[r]
      /\ sending => mad'["AUTH"] # "REMOVED"
  <2>1. "AUTH" \in Service /\ mad \in [Service -> {"UP", "DEAD", "REMOVED"}]
        /\ commands \in [Service -> SUBSET Ids] /\ (sending => mad["AUTH"] # "REMOVED")
    BY DEF Service, SyncInv, SyncTypeOK
  <2>2. CASE mad_dies(s)
    <3>1. mad' = [mad EXCEPT ![s] = "DEAD"] /\ commands' = [commands EXCEPT ![s] = {}]
      BY <2>2 DEF mad_dies
    <3>2. QED BY <2>1, <3>1
  <2>3. CASE reload(s)
    BY <2>1, <2>3 DEF reload
  <2>4. QED BY <2>2, <2>3
<1>3. \A d \in Caller : Awaiting(d)' = Awaiting(d) /\ Acts(d)' = Acts(d) /\ InQueue(d)' = InQueue(d)
  BY <1>1 DEF Awaiting, Acts, InQueue
<1>4. SyncTypeOK' /\ LoopsOK'
  BY <1>1, <1>2 DEF SyncInv, SyncTypeOK, LoopsOK
<1>5. ManagerHas'
  BY <1>1, <1>2, <1>3 DEF SyncInv, ManagerHas, Service
<1>6. TableHas' /\ ListenerHas'
  BY <1>1, <1>3 DEF SyncInv, TableHas, ListenerHas
<1>7. QED BY <1>1, <1>2, <1>4, <1>5, <1>6 DEF SyncInv

-----------------------------------------------------------------------------
LEMMA SyncStepKeeps ==
  ASSUME SyncInv, "MAD_REMOVED" \notin Hasty, sync_step
  PROVE  SyncInv'
<1>1. ASSUME NEW c \in Caller, ninety_seconds(c) \/ caller_step(c) PROVE SyncInv'
  BY <1>1, CallerStepKeeps
<1>2. ASSUME NEW c \in Caller, NEW s \in Service, asks(c, s) PROVE SyncInv'
  BY <1>2, CallerStepKeeps, AuthenticateKeeps, StatImageKeeps DEF asks
<1>3. CASE authm_step
  BY <1>3, GetMadKeeps, NoDriverKeeps, AddRequestKeeps, SendKeeps, CheckTimeOutsKeeps DEF authm_step
<1>4. ASSUME NEW s \in Service, get_request(s) \/ listener_step(s) \/ mad_dies(s) PROVE SyncInv'
  BY <1>4, GetRequestKeeps, NotifyRequestKeeps, DriverKeeps DEF listener_step
<1>5. QED BY <1>1, <1>2, <1>3, <1>4 DEF sync_step

LEMMA ThreadsStepKeeps ==
  ASSUME SyncInv, "MAD_REMOVED" \notin Hasty, [ThreadsNext]_all_vars
  PROVE  SyncInv'
<1>1. CASE UNCHANGED all_vars
  BY <1>1, OthersKeep DEF all_vars, am_vars, SyncInv, LoopsOK
<1>2. CASE ThreadsNext
  BY <1>2, PoolStepKeeps, SyncStepKeeps, OtherLoopKeeps, ManagerLoopKeeps DEF ThreadsNext
<1>3. QED BY <1>1, <1>2

LEMMA ThreadsInitInvariant == ThreadsInit => SyncInv
<1> SUFFICES ASSUME ThreadsInit PROVE SyncInv
  OBVIOUS
<1>1. /\ actions = [m \in Manager |-> <<>>] /\ loop = [m \in Manager |-> "LOOK"]
      /\ acting = [m \in Manager |-> NoAction]
  BY DEF ThreadsInit, AmInit
<1>2. /\ sync = [c \in Caller |-> NoSync] /\ sync_requests = [s \in Service |-> [i \in Ids |-> NoCaller]]
      /\ commands = [s \in Service |-> {}] /\ listener = [s \in Service |-> NoCaller]
      /\ mad = [s \in Service |-> "UP"] /\ sending = FALSE
  BY DEF ThreadsInit, SyncInit
<1>3. SyncTypeOK
  BY <1>2 DEF SyncTypeOK, NoSync, Service
<1>4. LoopsOK
  BY <1>1, Constants DEF LoopsOK, Loop
<1>5. actions[Authm] = <<>> /\ acting[Authm] = NoAction
  BY <1>1, Constants
<1>6. \A c \in Caller : ~InQueue(c) /\ ~Acts(c)
  BY <1>5, Constants DEF InQueue, Acts
<1>7. ManagerHas
  BY <1>2, <1>5, <1>6 DEF ManagerHas
<1>8. TableHas /\ ListenerHas
  BY <1>2, Constants DEF TableHas, ListenerHas
<1>9. QED BY <1>1, <1>2, <1>3, <1>4, <1>7, <1>8, Constants DEF SyncInv

(* A request lives on the stack of the thread that waits for it.  Whoever  *)
(* has a pointer to it has it only while that thread waits, however late,  *)
(* twice or not at all drivers answer and whenever they die, unless a      *)
(* driver that cannot be started again is removed under the manager.       *)
THEOREM RequestsAreAlive ==
  ASSUME "MAD_REMOVED" \notin Hasty PROVE ThreadsSpec => []RequestsAlive
<1>1. SyncInv => RequestsAlive
  <2> SUFFICES ASSUME SyncInv PROVE RequestsAlive
    OBVIOUS
  <2>1. \A s \in Service : \A i \in Entries(s) :
          Awaiting(sync_requests[s][i]) /\ sync[sync_requests[s][i]].of = s /\ sync[sync_requests[s][i]].id = i
    <3> TAKE s \in Service
    <3> TAKE i \in Entries(s)
    <3>1. i \in Ids /\ sync_requests[s][i] \in Caller
      BY DEF Entries, SyncInv, SyncTypeOK
    <3>2. QED BY <3>1 DEF SyncInv, TableHas
  <2>2. \A s \in Service : listener[s] # NoCaller => Awaiting(listener[s]) /\ sync[listener[s]].of = s
    <3> TAKE s \in Service
    <3>1. listener[s] \in Caller \cup {NoCaller}
      BY DEF SyncInv, SyncTypeOK
    <3>2. QED BY <3>1 DEF SyncInv, ListenerHas
  <2>3. \A c \in Caller : Queued(Authm, c) \/ Acts(c) => Awaiting(c) \/ sync[c].id # NoId
    BY Constants DEF SyncInv, ManagerHas, Queued, InQueue
  <2>4. QED BY <2>1, <2>2, <2>3 DEF SyncInv, RequestsAlive
<1>2. QED BY <1>1, ThreadsInitInvariant, ThreadsStepKeeps, PTL DEF ThreadsSpec
=============================================================================
