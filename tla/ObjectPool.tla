------------------------------ MODULE ObjectPool ------------------------------
(***************************************************************************)
(* The cache of a pool and the locks of its objects: PoolSQL, and the      *)
(* requests that get, change, create, delete and rename objects.           *)
(*                                                                         *)
(* A thread gets an object by its number or its name.  get looks it up, or *)
(* reads its row of the database, under the mutex of the pool; it waits    *)
(* for the mutex of the object with that of the pool in its hands.  Of a   *)
(* row of the table only the name is told apart: it stands for the key     *)
(* made of name and owner.                                                 *)
(***************************************************************************)
EXTENDS Integers, Sequences, FiniteSets

CONSTANTS Thread, Ptr,         \* the memory that objects are made in
          OID, Name,           \* bound: the objects ever made
          FirstRows,           \* the table at the start, where names are unique
          MaxPool,             \* MAX_POOL_SIZE
          Ops,                 \* bound: the requests that threads make
          Rash,                \* what users do although it goes wrong, see below
          Nobody, Null, NoName

ASSUME PoolAssumption ==
  /\ Nobody \notin Thread /\ Null \notin Ptr /\ NoName \notin Name
  /\ MaxPool \in Nat \ {0}
  /\ OID \subseteq Nat /\ IsFiniteSet(OID) /\ IsFiniteSet(Ptr) /\ Cardinality(Ptr) >= Cardinality(OID)
  /\ FirstRows \subseteq [OID -> Name \cup {NoName}]
  /\ \A r \in FirstRows, o, p \in OID : r[o] = r[p] /\ r[o] # NoName => o = p

(* The kinds of Rash: a name is looked for or taken while an object is     *)
(* renamed from it or to it, another is read between the new name and its  *)
(* entry in the index, an object is deleted while it, or another to its    *)
(* name, is renamed, one that was got without its lock is freed before it  *)
(* is looked at, and the second unlock of deploy meets the lock of another.*)
RashKinds == {"RENAME_RACES", "INDEX_LATE", "DELETE_RENAMED", "PEEK_FREED", "UNLOCK_TWICE"}

VARIABLES mutex,       \* of the pool: who has it
          pool, name_pool, oid_queue,
          objects,     \* what is at each pointer
          lastOID,
          rows,        \* the table of the database
          thread       \* what each thread is doing

vars  == <<mutex, pool, name_pool, oid_queue, objects, lastOID, rows, thread>>
cache == <<pool, name_pool, oid_queue>>

Freed    == [live |-> FALSE, oid |-> -1, name |-> NoName, valid |-> FALSE, holder |-> Nobody]
Objects  == [live : {TRUE}, oid : OID, name : Name,
             valid : BOOLEAN, holder : Thread \cup {Nobody}] \cup {Freed}

ByName   == {"FIND", "RENAME_CHECK", "ALLOCATE"}
ById     == {"UPDATE", "DEPLOY", "DELETE", "RENAME_INFO", "RENAME"}
Stage    == {"IDLE",
             "GET",       \* to call get
             "LOCK",      \* in get, waits for the object
             "EVICT",     \* in get, waits for an object that is in the way
             "REPLACE",   \* in get, makes room in the pool
             "HOLD",      \* has the object
             "PEEK",      \* has a pointer without the lock
             "AGAIN",     \* to unlock what it has unlocked
             "INSERT",    \* to call allocate
             "INDEX",     \* to call update_cache_index
             "CRASHED"}   \* used a null pointer
Idle     == [op |-> "NONE", at |-> "IDLE", oid |-> -1, name |-> NoName, new |-> NoName, ptr |-> Null]
Threads  == [op : ByName \cup ById \cup {"NONE"}, at : Stage, oid : OID \cup {-1},
             name : Name \cup {NoName}, new : Name \cup {NoName}, ptr : Ptr \cup {Null}]

At(s)       == {t \in Thread : thread[t].at = s}
Set(t, x)   == thread' = [thread EXCEPT ![t] = x]
Go(t, s)    == Set(t, [thread[t] EXCEPT !.at = s])
Object(t)   == objects[thread[t].ptr]
Existing    == {o \in OID : rows[o] # NoName}
Named(n)    == {o \in Existing : rows[o] = n}

(* REPLACE INTO, in tables where names are unique: the row takes the place *)
(* of any other that has its name.                                         *)
Replaced(o, name) ==
  [x \in OID |-> IF x = o THEN name ELSE IF rows[x] = name THEN NoName ELSE rows[x]]

-----------------------------------------------------------------------------
(* get *)

Free        == mutex = Nobody
Unindexed   == {u \in Thread : thread[u].op = "RENAME" /\ thread[u].at \in {"HOLD", "INDEX"}}

(* What a thread does next when get gives it nothing.                      *)
NotFound(x) ==
  CASE x.op = "RENAME_CHECK" -> [x EXCEPT !.op = "RENAME", !.at = "GET", !.ptr = Null]
    [] x.op = "ALLOCATE"     -> [x EXCEPT !.at = "INSERT", !.ptr = Null]
    [] x.op = "RENAME"       -> [x EXCEPT !.at = "CRASHED", !.ptr = Null]
    [] OTHER                 -> Idle
Returned(x) == IF x.op = "ALLOCATE" THEN [x EXCEPT !.at = "PEEK"] ELSE [x EXCEPT !.at = "HOLD"]

Key(t)      == IF thread[t].op = "RENAME_CHECK" THEN thread[t].new ELSE thread[t].name
Cached(t)   == IF thread[t].op \in ByName THEN name_pool[Key(t)] ELSE pool[thread[t].oid]
Wanted(t)   == IF thread[t].op \in ByName THEN Named(Key(t)) ELSE {thread[t].oid} \cap Existing

(* The object that has to go first: one deleted that still has the name.   *)
InTheWay(t) ==
  IF thread[t].op \in ByName THEN Cached(t)
  ELSE IF Wanted(t) = {} THEN Null ELSE name_pool[rows[thread[t].oid]]

(* A new object is made of the row; std::map::insert keeps what it has.    *)
Fresh(objects0) == CHOOSE p \in Ptr : ~objects0[p].live
load(t, o, pool0, names0, objects0) ==
  LET p    == Fresh(objects0)
      full == Cardinality({x \in OID : pool0[x] # Null} \cup {o}) > MaxPool
      next == [thread[t] EXCEPT !.ptr = p] IN
    /\ objects' = [objects0 EXCEPT ![p] =
         [live |-> TRUE, oid |-> o, name |-> rows[o], valid |-> TRUE,
          holder |-> IF thread[t].op = "ALLOCATE" THEN Nobody ELSE t]]
    /\ pool'      = IF pool0[o] = Null THEN [pool0 EXCEPT ![o] = p] ELSE pool0
    /\ name_pool' = IF names0[rows[o]] = Null THEN [names0 EXCEPT ![rows[o]] = p] ELSE names0
    /\ oid_queue' = Append(oid_queue, o)
    /\ mutex'     = IF full THEN t ELSE Nobody
    /\ Set(t, IF full THEN [next EXCEPT !.at = "REPLACE"] ELSE Returned(next))

load_or_nothing(t, pool0, names0, objects0) ==
  \/ \E o \in Wanted(t) : load(t, o, pool0, names0, objects0)
  \/ /\ Wanted(t) = {}
     /\ pool' = pool0 /\ name_pool' = names0 /\ objects' = objects0
     /\ mutex' = Nobody
     /\ Set(t, NotFound(thread[t]))
     /\ UNCHANGED oid_queue

get_cached(t) ==
  /\ thread[t].at = "GET" /\ Free
  /\ Cached(t) # Null
  /\ IF ~objects[Cached(t)].valid
     THEN /\ thread[t].op \in ById
          /\ Set(t, NotFound(thread[t]))
          /\ UNCHANGED mutex
     ELSE IF thread[t].op = "ALLOCATE"
     THEN Set(t, Returned([thread[t] EXCEPT !.ptr = Cached(t)])) /\ UNCHANGED mutex
     ELSE /\ Set(t, [thread[t] EXCEPT !.at = "LOCK", !.ptr = Cached(t)])
          /\ mutex' = t
  /\ UNCHANGED <<cache, objects, lastOID, rows>>

InPool    == {pool[o] : o \in OID} \ {Null}
AllInUse  == InPool # {} /\ \A p \in InPool : objects[p].holder # Nobody

get_read(t) ==
  /\ thread[t].at = "GET" /\ Free
  /\ thread[t].op = "ALLOCATE" /\ AllInUse => "PEEK_FREED" \in Rash
  /\ Unindexed # {} => "INDEX_LATE" \in Rash
  /\ Cached(t) # Null => thread[t].op \in ByName /\ ~objects[Cached(t)].valid
  /\ IF InTheWay(t) # Null
     THEN /\ Set(t, [thread[t] EXCEPT !.at = "EVICT", !.ptr = InTheWay(t)])
          /\ mutex' = t
          /\ UNCHANGED <<cache, objects>>
     ELSE load_or_nothing(t, pool, name_pool, objects)
  /\ UNCHANGED <<lastOID, rows>>

object_lock(t) ==
  /\ thread[t].at = "LOCK" /\ Object(t).holder = Nobody
  /\ mutex' = Nobody
  /\ \/ /\ Object(t).valid
        /\ Go(t, "HOLD") /\ objects' = [objects EXCEPT ![thread[t].ptr].holder = t]
     \/ /\ ~Object(t).valid
        /\ Set(t, NotFound(thread[t])) /\ UNCHANGED objects
  /\ UNCHANGED <<cache, lastOID, rows>>

Peeked(p) == \E u \in At("PEEK") \cup At("AGAIN") : thread[u].ptr = p

evict(t) ==
  /\ thread[t].at = "EVICT" /\ Object(t).holder = Nobody
  /\ Peeked(thread[t].ptr) => "PEEK_FREED" \in Rash
  /\ LET key == IF thread[t].op \in ByName THEN Object(t).name ELSE rows[thread[t].oid] IN
     load_or_nothing(t, [pool EXCEPT ![Object(t).oid] = Null],
                        [name_pool EXCEPT ![key] = Null],
                        [objects EXCEPT ![thread[t].ptr] = Freed])
  /\ UNCHANGED <<lastOID, rows>>

(* One turn of the loop of replace.                                        *)
Victim == pool[Head(oid_queue)]
replace_in_use(t) ==   \* mutant
  /\ thread[t].at = "REPLACE"
  /\ IF Victim = Null
     THEN /\ oid_queue' = Tail(oid_queue)
          /\ UNCHANGED <<mutex, pool, name_pool, objects, thread>>
     ELSE /\ oid_queue' = Tail(oid_queue)
          /\ pool' = [pool EXCEPT ![Head(oid_queue)] = Null]
          /\ name_pool' = [name_pool EXCEPT ![objects[Victim].name] = Null]
          /\ objects' = [objects EXCEPT ![Victim] = Freed]
          /\ mutex' = Nobody
          /\ Set(t, Returned(thread[t]))
  /\ UNCHANGED <<lastOID, rows>>
replace(t) ==
  /\ thread[t].at = "REPLACE"
  /\ \/ /\ Victim = Null
        /\ oid_queue' = Tail(oid_queue)
        /\ UNCHANGED <<mutex, pool, name_pool, objects, thread>>
     \/ /\ Victim # Null /\ objects[Victim].holder # Nobody
        /\ oid_queue' = Append(Tail(oid_queue), Head(oid_queue))
        /\ UNCHANGED <<mutex, pool, name_pool, objects, thread>>
     \/ /\ Victim # Null /\ objects[Victim].holder = Nobody
        /\ Peeked(Victim) => "PEEK_FREED" \in Rash
        /\ oid_queue' = Tail(oid_queue)
        /\ pool' = [pool EXCEPT ![Head(oid_queue)] = Null]
        /\ name_pool' = [name_pool EXCEPT ![objects[Victim].name] = Null]
        /\ objects' = [objects EXCEPT ![Victim] = Freed]
        /\ mutex' = Nobody
        /\ Set(t, Returned(thread[t]))
  /\ UNCHANGED <<lastOID, rows>>

-----------------------------------------------------------------------------
(* What threads do with the object, up to its unlock. *)

Holds(t, ops) == thread[t].at = "HOLD" /\ thread[t].op \in ops

Unlocked(p) == objects' = [objects EXCEPT ![p].holder = Nobody]

(* A change, and pool->update.                                             *)
update_fails_locked(t) ==   \* mutant
  /\ Holds(t, {"UPDATE", "FIND"})
  /\ \/ /\ Unlocked(thread[t].ptr)
        /\ rows' = Replaced(Object(t).oid, Object(t).name)
     \/ UNCHANGED <<objects, rows>>
  /\ Set(t, Idle)
  /\ UNCHANGED <<mutex, cache, lastOID>>
update(t) ==
  /\ Holds(t, {"UPDATE", "FIND"})
  /\ Unlocked(thread[t].ptr)
  /\ rows' = Replaced(Object(t).oid, Object(t).name)
  /\ Set(t, Idle)
  /\ UNCHANGED <<mutex, cache, lastOID>>

(* DispatchManager::deploy unlocks the VM, and so does its caller.         *)
deploy(t) ==
  /\ Holds(t, {"DEPLOY"})
  /\ Unlocked(thread[t].ptr)
  /\ rows' = Replaced(Object(t).oid, Object(t).name)
  /\ Go(t, "AGAIN")
  /\ UNCHANGED <<mutex, cache, lastOID>>

unlock_again(t) ==
  /\ thread[t].at = "AGAIN"
  /\ Object(t).holder # Nobody => "UNLOCK_TWICE" \in Rash
  /\ Unlocked(thread[t].ptr)
  /\ Set(t, Idle)
  /\ UNCHANGED <<mutex, cache, lastOID, rows>>

drop(t) ==
  /\ Holds(t, {"DELETE"})
  /\ objects' = [objects EXCEPT ![thread[t].ptr].valid = FALSE, ![thread[t].ptr].holder = Nobody]
  /\ rows' = [rows EXCEPT ![Object(t).oid] = NoName]
  /\ Set(t, Idle)
  /\ UNCHANGED <<mutex, cache, lastOID>>

(* rename: get_info, then the name must not be in use, then the change,    *)
(* and then the index.                                                     *)
rename_info(t) ==
  /\ Holds(t, {"RENAME_INFO"})
  /\ Unlocked(thread[t].ptr)
  /\ Set(t, IF Object(t).name = thread[t].new THEN Idle
            ELSE [thread[t] EXCEPT !.op = "RENAME_CHECK", !.at = "GET",
                                   !.name = Object(t).name, !.ptr = Null])
  /\ UNCHANGED <<mutex, cache, lastOID, rows>>

rename_collides(t) ==
  /\ Holds(t, {"RENAME_CHECK"})
  /\ Unlocked(thread[t].ptr)
  /\ Set(t, Idle)
  /\ UNCHANGED <<mutex, cache, lastOID, rows>>

rename(t) ==
  /\ Holds(t, {"RENAME"})
  /\ objects' = [objects EXCEPT ![thread[t].ptr].name = thread[t].new, ![thread[t].ptr].holder = Nobody]
  /\ rows' = Replaced(Object(t).oid, thread[t].new)
  /\ Set(t, [thread[t] EXCEPT !.at = "INDEX", !.ptr = Null])
  /\ UNCHANGED <<mutex, cache, lastOID>>

update_cache_index(t) ==
  /\ thread[t].at = "INDEX" /\ Free
  /\ LET p == name_pool[thread[t].name] IN
     name_pool' = IF p = Null THEN name_pool
                  ELSE [name_pool EXCEPT ![thread[t].name] = Null,
                                         ![thread[t].new] = IF @ = Null THEN p ELSE @]
  /\ Set(t, Idle)
  /\ UNCHANGED <<mutex, pool, oid_queue, objects, lastOID, rows>>

(* allocate: the name is taken (the answer shows the number of the object  *)
(* that has it, whose lock the thread has not), or a row is inserted.      *)
duplicated(t) ==
  /\ thread[t].at = "PEEK"
  /\ Set(t, Idle)
  /\ UNCHANGED <<mutex, cache, objects, lastOID, rows>>

(* Insertion fails when the name is taken by then (or at the bound).       *)
Inserted(t) == Named(thread[t].name) = {} /\ lastOID + 1 \in OID
allocate_replaces(t) ==   \* mutant
  /\ thread[t].at = "INSERT" /\ Free
  /\ IF lastOID + 1 \in OID
     THEN /\ lastOID' = lastOID + 1
          /\ rows' = Replaced(lastOID + 1, thread[t].name)
     ELSE UNCHANGED <<lastOID, rows>>
  /\ Set(t, Idle)
  /\ UNCHANGED <<mutex, cache, objects>>
allocate(t) ==
  /\ thread[t].at = "INSERT" /\ Free
  /\ IF Inserted(t)
     THEN /\ lastOID' = lastOID + 1
          /\ rows' = [rows EXCEPT ![lastOID + 1] = thread[t].name]
     ELSE UNCHANGED <<lastOID, rows>>
  /\ Set(t, Idle)
  /\ UNCHANGED <<mutex, cache, objects>>

-----------------------------------------------------------------------------
(* Requests *)

Renames == {"RENAME_INFO", "RENAME_CHECK", "RENAME"}
NamesOf(x) ==
  ({x.name, x.new} \cup {rows[o] : o \in {x.oid} \cap OID}) \ {NoName}
Races(x, y) ==
  /\ {x.op, y.op} \subseteq ByName \cup Renames /\ {x.op, y.op} \cap Renames # {}
  /\ NamesOf(x) \cap NamesOf(y) # {}
DeletesRenamed(x, y) ==
  /\ "DELETE" \in {x.op, y.op} /\ {x.op, y.op} \cap Renames # {}
  /\ x.oid = y.oid \/ NamesOf(x) \cap NamesOf(y) # {}

(* What a user may ask for: something of an object by its number, or of a  *)
(* name, or a new name for an object.                                      *)
Requests ==
  [op : Ops \cap {"UPDATE", "DEPLOY", "DELETE"}, at : {"GET"}, oid : OID, name : {NoName}, new : {NoName}, ptr : {Null}]
  \cup [op : Ops \cap {"FIND", "ALLOCATE"}, at : {"GET"}, oid : {-1}, name : Name, new : {NoName}, ptr : {Null}]
  \cup [op : Ops \cap {"RENAME_INFO"}, at : {"GET"}, oid : OID, name : {NoName}, new : Name, ptr : {Null}]

request(t) ==
  /\ thread[t] = Idle
  /\ \E x \in Requests :
       /\ x.oid <= lastOID
       /\ (\E u \in Thread : Races(x, thread[u])) => "RENAME_RACES" \in Rash
       /\ (\E u \in Thread : DeletesRenamed(x, thread[u])) => "DELETE_RENAMED" \in Rash
       /\ Set(t, x)
  /\ UNCHANGED <<mutex, cache, objects, lastOID, rows>>

-----------------------------------------------------------------------------
Init ==
  /\ mutex = Nobody
  /\ pool = [o \in OID |-> Null] /\ name_pool = [n \in Name |-> Null] /\ oid_queue = <<>>
  /\ objects = [p \in Ptr |-> Freed]
  /\ rows \in FirstRows
  /\ lastOID \in Existing \cup {-1} /\ \A o \in Existing : o <= lastOID
  /\ thread = [t \in Thread |-> Idle]

Calls(t) ==   \* the mutex of the pool is taken
  get_cached(t) \/ get_read(t) \/ allocate(t) \/ update_cache_index(t)
Runs(t) ==
  \/ object_lock(t) \/ evict(t) \/ replace(t)
  \/ update(t) \/ deploy(t) \/ unlock_again(t) \/ drop(t) \/ rename_info(t) \/ rename_collides(t) \/ rename(t) \/ duplicated(t)

Next == \E t \in Thread : request(t) \/ Calls(t) \/ Runs(t)

(* A thread that can run does; a mutex that is free again and again does   *)
(* not pass by the same thread for ever.                                   *)
Spec == Init /\ [][Next]_vars /\ \A t \in Thread : WF_vars(Runs(t)) /\ SF_vars(Calls(t))

-----------------------------------------------------------------------------
(* Types.                                                                  *)
TypeOK ==
  /\ mutex \in Thread \cup {Nobody}
  /\ pool \in [OID -> Ptr \cup {Null}]
  /\ name_pool \in [Name -> Ptr \cup {Null}]
  /\ oid_queue \in Seq(OID)
  /\ objects \in [Ptr -> Objects]
  /\ lastOID \in OID \cup {-1}
  /\ rows \in [OID -> Name \cup {NoName}]
  /\ thread \in [Thread -> Threads]

(* There is one copy of an object, the one that both indices lead to: who  *)
(* has its lock is alone with it, and has what its row has.                *)
OneCopy == \A p \in Ptr : objects[p].live /\ objects[p].valid =>
  /\ pool[objects[p].oid] = p
  /\ rows[objects[p].oid] = objects[p].name
  /\ \/ name_pool[objects[p].name] = p
     \/ \E t \in At("INDEX") : name_pool[thread[t].name] = p

(* No pointer that the cache or a thread has is one to freed memory, no    *)
(* thread goes on with a null one, and one that works with an object has   *)
(* its lock: objects are deleted only when nobody can still reach them.    *)
Reachable ==
  {pool[o] : o \in OID} \cup {name_pool[n] : n \in Name} \cup {thread[t].ptr : t \in Thread}
PointersLive ==
  /\ TypeOK /\ OneCopy
  /\ \A p \in Reachable \ {Null} : objects[p].live
  /\ At("CRASHED") = {}
  /\ \A t \in At("HOLD") : Object(t).holder = t

(* A row of the table goes only when its object is deleted.                *)
RowsKept == [][\A o \in Existing : o \notin Existing' =>
                 \E t \in Thread : Holds(t, {"DELETE"}) /\ Object(t).oid = o]_vars

(* Every request gets its objects in the end, and ends.                    *)
RequestsReturn == \A t \in Thread : (thread[t].at # "IDLE") ~> (thread[t].at = "IDLE")
=============================================================================
