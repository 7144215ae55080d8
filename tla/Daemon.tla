-------------------------------- MODULE Daemon --------------------------------
(***************************************************************************)
(* oned from its start to its end, and what it finds in the database when  *)
(* it is started again.                                                    *)
(*                                                                         *)
(* The main thread takes the lock file, makes the tables if there are      *)
(* none, constructs the pools, which make their default objects the first  *)
(* time, starts the managers, loads the drivers and waits for a signal.    *)
(* Every statement of SQL is a step of its own: the daemon may be killed   *)
(* between any two of them, and the script that stops it does kill it when *)
(* it takes more than five seconds.  What is in the database stays, what   *)
(* is in memory does not.                                                  *)
(*                                                                         *)
(* Of the pools, those with default objects are kept, and of an object its *)
(* number.  The numbers below LAST_DEFAULT (99 in the code) are set aside  *)
(* for default groups and datastores.                                      *)
(***************************************************************************)
EXTENDS Integers, Sequences, SequencesExt

CONSTANTS LAST_DEFAULT,  \* the last of the numbers for default objects
          MaxOid,        \* bound: numbers in use
          MaxKills,      \* bound: how often the daemon is killed
          Failing        \* the statements of the bootstrap that may fail

(* The first number of a user's object comes after that of a default one.  *)
ASSUME DaemonAssumption == LAST_DEFAULT \in Nat /\ MaxOid \in Nat

VARIABLES main,          \* where the main thread is
          lock_file,     \* whether there is a lock file
          tables,        \* DATABASE: the tables and rows of the system there are
          stored,        \* DATABASE: the objects of each pool
          pool_control,  \* DATABASE: the last number of each pool, -1 for no row
          last,          \* lastOID of each pool
          making,        \* the object that is being made in each pool
          running,       \* the managers whose threads run
          told,          \* HISTORY: the numbers that users have been told
          kills          \* HISTORY: how often the daemon has been killed

database    == <<tables, stored, pool_control>>
memory      == <<last, making, running>>
history     == <<told, kills>>
daemon_vars == <<main, lock_file, database, memory, history>>

Stored  == {"GROUP", "USER", "DATASTORE", "ACL"}

(* What the bootstrap makes, in this order.                                *)
PoolTables   == <<"vm_pool", "host_pool", "network_pool", "group_pool", "user_pool", "image_pool",
                  "template_pool", "acl", "datastore_pool", "cluster_pool", "document_pool">>
SystemTables == <<"pool_control", "db_versioning", "VERSION", "system_attributes">>
DefaultQuotas == <<"USER_QUOTAS", "GROUP_QUOTAS">>
Bootstrap    == PoolTables \o SystemTables \o DefaultQuotas
TableOf(p)   == CASE p = "GROUP" -> "group_pool" [] p = "USER" -> "user_pool"
                  [] p = "DATASTORE" -> "datastore_pool" [] OTHER -> "acl"

(* What the main thread makes next: pools (that of ACLs is a manager too), *)
(* managers.                                                               *)
StartOrder ==
  <<"GROUP", "USER", "DATASTORE",
    "VMM", "LCM", "IM", "TM", "DM", "HM", "AUTHM", "ACL", "ACLM", "IMAGEM", "RM">>
Managers == ToSet(StartOrder) \ Stored

Defaults(p) == IF p \in {"GROUP", "USER"} THEN 2 ELSE 3

-----------------------------------------------------------------------------
(* The process *)

Down    == [at |-> "DOWN", step |-> 0, open |-> FALSE, made |-> 0, failed |-> FALSE]
At(x)   == main.at = x
Enters(x) == main' = [Down EXCEPT !.at = x, !.step = 1]
Starting(x)  == At("STARTS") /\ StartOrder[main.step] = x
Serving == "RM" \in running

Forgets == /\ main' = Down
           /\ last' = [p \in Stored |-> -1] /\ making' = [p \in Stored |-> "NO"] /\ running' = {}
           /\ UNCHANGED <<database, told>>

(* An exception ends oned_main, and main() removes the lock file.          *)
exits   == Forgets /\ lock_file' = FALSE /\ UNCHANGED kills
killed  == ~At("DOWN") /\ kills < MaxKills /\ Forgets /\ kills' = kills + 1 /\ UNCHANGED lock_file

starts  == /\ At("DOWN") /\ ~lock_file
           /\ lock_file' = TRUE /\ Enters("CHECK")
           /\ UNCHANGED <<database, memory, history>>

(* The script that starts oned erases the file when no oned is running.    *)
setup   == At("DOWN") /\ lock_file /\ lock_file' = FALSE /\ UNCHANGED <<main, database, memory, history>>

(* The configuration, the log or the database are not what they should be. *)
refuses == At("CHECK") /\ exits

-----------------------------------------------------------------------------
(* The tables *)

check_db_version_trusting ==                  \* mutant
  IF {"VERSION", "user_pool"} \cap tables # {} THEN "OK" ELSE "BOOTSTRAP"

(* A database with users but without a version is one of some other        *)
(* version, whatever the reason.                                           *)
check_db_version ==
  IF "VERSION" \in tables THEN "OK"
  ELSE IF "user_pool" \in tables THEN "MISMATCH" ELSE "BOOTSTRAP"

checks ==
  /\ At("CHECK")
  /\ \/ /\ check_db_version = "MISMATCH" /\ exits
     \/ /\ check_db_version = "BOOTSTRAP" /\ Enters("BOOTSTRAP")
        /\ UNCHANGED <<lock_file, database, memory, history>>
     \/ /\ check_db_version = "OK" /\ Enters("STARTS")
        /\ UNCHANGED <<lock_file, database, memory, history>>

(* Tables of pools are made IF NOT EXISTS, like that of the attributes;    *)
(* the others must be new.  A row needs its table.                         *)
CanMake(s) ==
  /\ s \in {"pool_control", "db_versioning"} => s \notin tables
  /\ s = "VERSION" => "db_versioning" \in tables
  /\ s \in ToSet(DefaultQuotas) => "system_attributes" \in tables

(* Statements go on after one that has failed, but the tables of the       *)
(* system are made only when those of the pools are there.                 *)
exec_bootstrap ==
  /\ At("BOOTSTRAP") /\ main.step <= Len(Bootstrap)
  /\ LET s == Bootstrap[main.step] IN
       \/ /\ main.failed /\ s = "pool_control"
          /\ main' = [main EXCEPT !.step = @ + Len(SystemTables)]
          /\ UNCHANGED tables
       \/ /\ ~(main.failed /\ s = "pool_control") /\ CanMake(s)
          /\ main' = [main EXCEPT !.step = @ + 1]
          /\ tables' = tables \cup {s}
       \/ /\ ~(main.failed /\ s = "pool_control")
          /\ ~CanMake(s) \/ (s \in Failing /\ ~main.failed)
          /\ main' = [main EXCEPT !.step = @ + 1, !.failed = TRUE]
          /\ UNCHANGED tables
  /\ UNCHANGED <<lock_file, stored, pool_control, memory, history>>

bootstrapped ==
  /\ At("BOOTSTRAP") /\ main.step > Len(Bootstrap)
  /\ IF main.failed
     THEN exits
     ELSE Enters("STARTS") /\ UNCHANGED <<lock_file, database, memory, history>>

-----------------------------------------------------------------------------
(* Objects of a pool *)

(* The pool's mutex is held from the new number to its row in the table of *)
(* numbers: one object is made at a time.  A number that is taken, by an   *)
(* object that was made before the daemon was killed, is refused by the    *)
(* database and given back.                                                *)
Inserts(p) == /\ making[p] = "NO" /\ TableOf(p) \in tables /\ last[p] + 1 \notin stored[p]
              /\ last[p] < MaxOid
Inserted(p) ==
  /\ Inserts(p)
  /\ last' = [last EXCEPT ![p] = @ + 1]
  /\ stored' = [stored EXCEPT ![p] = @ \cup {last[p] + 1}]
  /\ making' = [making EXCEPT ![p] = "STORED"]
  /\ UNCHANGED <<tables, pool_control>>

Saved_previous(p, n) ==                       \* mutant
  IF "pool_control" \in tables THEN [pool_control EXCEPT ![p] = n - 1] ELSE pool_control
Saved(p, n) == IF "pool_control" \in tables THEN [pool_control EXCEPT ![p] = n] ELSE pool_control

update_lastOID(p) ==
  /\ making[p] = "STORED"
  /\ pool_control' = Saved(p, last[p])
  /\ making' = [making EXCEPT ![p] = "SAVED"]
  /\ UNCHANGED <<main, lock_file, tables, stored, last, running, history>>

-----------------------------------------------------------------------------
(* The pools when they are constructed *)

(* oneadmin is looked for in the table of users, the defaults of the other *)
(* pools by the last number.                                               *)
WantsDefaults(p) == IF p = "USER" THEN 0 \notin stored["USER"] ELSE pool_control[p] = -1

(* The first time oneadmin's name and password are read from a file.  When *)
(* it is not there the constructor says throw without an exception, which  *)
(* ends the process there and then: the lock file stays.                   *)
init_pool ==
  \E p \in Stored :
    /\ Starting(p) /\ ~main.open
    /\ \/ /\ last' = [last EXCEPT ![p] = pool_control[p]]
          /\ main' = IF WantsDefaults(p) THEN [main EXCEPT !.open = TRUE]
                                         ELSE [main EXCEPT !.step = @ + 1]
          /\ UNCHANGED <<lock_file, database, making, running, history>>
       \/ p = "USER" /\ WantsDefaults(p) /\ killed

MakesDefaults(p) == Starting(p) /\ main.open
NextDefault      == main' = [main EXCEPT !.made = @ + 1]

make_default ==
  \E p \in Stored :
    /\ MakesDefaults(p) /\ main.made < Defaults(p)
    /\ Inserted(p)
    /\ UNCHANGED <<main, lock_file, running, history>>

(* A default object that cannot be made ends the daemon: in the case of a  *)
(* user at once, in that of a group or datastore with an exception.  A     *)
(* rule is done without.                                                   *)
default_refused ==
  \E p \in Stored :
    /\ MakesDefaults(p) /\ main.made < Defaults(p) /\ making[p] = "NO" /\ ~Inserts(p)
    /\ \/ p = "ACL" /\ NextDefault /\ UNCHANGED <<lock_file, database, memory, history>>
       \/ p = "USER" /\ killed
       \/ p \in {"GROUP", "DATASTORE"} /\ exits

default_made ==
  \E p \in Stored :
    /\ MakesDefaults(p) /\ making[p] = "SAVED"
    /\ making' = [making EXCEPT ![p] = "NO"]
    /\ NextDefault
    /\ UNCHANGED <<lock_file, database, last, running, history>>

(* What users make is to have higher numbers (set_update_lastOID).         *)
defaults_made ==
  \E p \in Stored :
    /\ MakesDefaults(p) /\ main.made = Defaults(p)
    /\ IF p \in {"GROUP", "DATASTORE"}
       THEN /\ last' = [last EXCEPT ![p] = LAST_DEFAULT]
            /\ pool_control' = Saved(p, LAST_DEFAULT)
       ELSE UNCHANGED <<last, pool_control>>
    /\ main' = [main EXCEPT !.step = @ + 1, !.open = FALSE, !.made = 0]
    /\ UNCHANGED <<lock_file, tables, stored, making, running, history>>

-----------------------------------------------------------------------------
(* The managers *)

(* Requests are served from the moment the request manager is started, two *)
(* seconds and more before the drivers are loaded.                         *)
start_manager ==
  \E m \in Managers :
    /\ Starting(m)
    /\ \/ /\ running' = running \cup {m}
          /\ IF m = "RM" THEN Enters("LOADING") ELSE main' = [main EXCEPT !.step = @ + 1]
          /\ UNCHANGED <<lock_file, database, last, making, history>>
       \/ exits

(* Drivers that do not start are done without.                             *)
load_mads == At("LOADING") /\ Enters("WAITS") /\ UNCHANGED <<lock_file, database, memory, history>>

(* After SIGTERM the managers are told to finalize and joined, except those*)
(* of authorization and of ACLs, which go on until the process ends.       *)
(* Requests go on until the request manager has ended, at the latest when  *)
(* it is joined.                                                           *)
Joins == <<"VMM", "LCM", "TM", "DM", "IM", "RM", "HM", "IMAGEM">>

sigterm == At("WAITS") /\ Enters("ENDS") /\ UNCHANGED <<lock_file, database, memory, history>>

manager_joined ==
  /\ At("ENDS") /\ main.step <= Len(Joins)
  /\ running' = running \ {Joins[main.step]}
  /\ main' = [main EXCEPT !.step = @ + 1]
  /\ UNCHANGED <<lock_file, database, last, making, history>>

ends == At("ENDS") /\ main.step > Len(Joins) /\ exits

-----------------------------------------------------------------------------
(* Requests, whose threads the end of the process ends too *)

create(p) == Serving /\ Inserted(p) /\ UNCHANGED <<main, lock_file, running, history>>

(* A user is also put into a group, and told of only if that is there.     *)
GROUP_OF_USERS == 1
created(p) ==
  /\ making[p] = "SAVED" /\ ~MakesDefaults(p)
  /\ making' = [making EXCEPT ![p] = "NO"]
  /\ told' = IF p = "USER" /\ GROUP_OF_USERS \notin stored["GROUP"] THEN told
             ELSE [told EXCEPT ![p] = @ \cup {last[p]}]
  /\ UNCHANGED <<main, lock_file, database, last, running, kills>>

(* The defaults cannot be deleted, but for rules and the second user.      *)
Deletable(p, n) ==
  /\ p \in {"GROUP", "DATASTORE"} => n > LAST_DEFAULT
  /\ p = "USER" => n # 0

delete(p) ==
  /\ Serving
  /\ \E n \in stored[p] :
       /\ Deletable(p, n) /\ ~(making[p] # "NO" /\ n = last[p])
       /\ stored' = [stored EXCEPT ![p] = @ \ {n}]
  /\ UNCHANGED <<main, lock_file, tables, pool_control, memory, history>>

-----------------------------------------------------------------------------
DaemonInit ==
  /\ main = Down /\ lock_file = FALSE /\ tables = {}
  /\ stored = [p \in Stored |-> {}] /\ pool_control = [p \in Stored |-> -1]
  /\ last = [p \in Stored |-> -1] /\ making = [p \in Stored |-> "NO"] /\ running = {}
  /\ told = [p \in Stored |-> {}] /\ kills = 0

MainStep ==
  \/ starts \/ refuses \/ checks \/ exec_bootstrap \/ bootstrapped
  \/ init_pool \/ make_default \/ default_refused \/ default_made \/ defaults_made
  \/ start_manager \/ load_mads \/ sigterm \/ manager_joined \/ ends
RequestStep(p) == create(p) \/ created(p) \/ delete(p)
DaemonNext(used) ==
  \/ MainStep \/ setup \/ killed
  \/ \E p \in Stored : update_lastOID(p)
  \/ \E p \in used : RequestStep(p)

-----------------------------------------------------------------------------
(* A daemon that serves requests has the tables of every pool and that of  *)
(* numbers, oneadmin, its group and the datastore of the system, whatever  *)
(* has become of the daemons before it.                                    *)
ServesWhole ==
  Serving => /\ ToSet(PoolTables) \cup {"pool_control"} \subseteq tables
             /\ \A p \in {"GROUP", "USER", "DATASTORE"} : 0 \in stored[p]

(* A number that a user has been told is not given to another object, not  *)
(* even after the object is deleted and the daemon is killed.              *)
NumbersGivenOnce == \A p \in Stored : making[p] # "NO" => last[p] \notin told[p]
=============================================================================
