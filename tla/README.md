# A TLA+ model of the OpenNebula core

The repository is Ezilla 3.0, a distribution of OpenNebula 4.4. Its core is the
daemon `oned` (C++, `src/` and `include/` at the top of the repository): pools
of objects kept in a database, an XML-RPC server that changes them, and a dozen
*managers*, each a thread with a queue of actions, that drive external programs
(the *drivers*) and follow each virtual machine (VM) from its creation to its
end. The scheduler is a process beside it. This directory holds specifications
of the core, the model-checking runs over them, and machine-checked proofs.

Contents: 1 inventory, 2 modules and how they correspond to the code, 3 runs,
4 bounds and fairness, 5 what disagrees with the documentation or goes wrong,
6 proofs, 7 what is only model-checked, 8 what is not modelled.

## 1. Inventory

### Components

| component | state it keeps | operations | what makes it right |
|---|---|---|---|
| Request manager (`src/rm`) | none: a thread per XML-RPC call | check, lock an object, change it or call a manager, go on to the next object | what was checked before an unlock still holds where it is used; what was done is undone when a later part fails |
| Dispatch manager, DM (`src/dm`) | a queue; the `VmState` of VMs | request methods (in the caller's thread); result callbacks (in its own) | a result is only accepted from the state it is about; resources are released once; every path unlocks |
| Life-cycle manager, LCM (`src/lcm`) | a queue; the `LcmState` of VMs; host shares | one handler per request and per driver answer; `clean_up_vm` | late answers are refused; shares are added and deleted in pairs; each transient state has somebody working for it |
| Virtual machine manager, VMM (`src/vmm`) | a queue; the pipe of the hypervisor driver | one command per action; answers, polling | an answer is only used in the state it is about |
| Transfer manager, TM (`src/tm`) | a queue; the pipe of the transfer driver | one script per action; answers | a `TRANSFER` answer is for the script the state waits for |
| VM object and history (`src/vm`) | `state`, `lcm_state`, `history`, `previous_history`, disks, NICs | setters, `add_history`, `cp_history`, `set_saveas_state`, `clear_saveas_state` | a handler that uses the record has one |
| Hosts and their shares (`src/host`), information manager (`src/im`) | VM ids, cpu in use; states of monitoring | `add_capacity`, `del_capacity`, `test_capacity`; monitor, answers, timeouts | the share is the sum over the VMs on the host, and no more than the host has |
| Action manager (`src/common`) | queue, mutex, condition, timer | `trigger`, `loop`, `finalize` | no lost wake-up; every action is handled |
| Drivers (`src/mad`), synchronous requests (`include/SyncRequest.h`) | a process, its pending commands; the table of waiting threads | start, write, answer, die, reload | a command lost with its process is recovered from; nobody keeps a pointer to a thread that has gone on |
| Pools and objects (`src/pool`) | cache, two indices, pool mutex, object mutexes | `get`, `drop`, `update`, `allocate`, `replace`, rename | no freed object is used, an object has one copy, a row is lost only by a delete |
| Images and datastores (`src/image`, `src/datastore`) | `state`, `running_vms`, `cloning_ops`, the datastore's quota | register, clone, delete, acquire, release, save-as, hotplug | counters are what the VMs hold; an image in use is not removed |
| Networks and leases (`src/vnm`) | leases with `used` flag and owner, counter, cursor | get, set, hold, free, release, add, remove | an address has at most one owner, who knows of it |
| Quotas (`src/um`) | limits and usages of users and groups | check and add, delete | a usage is the sum of what is in use, within its limit |
| ACL, users, groups, clusters (`src/acl`, `src/um`, `src/group`, `src/cluster`) | rules; members, owners, permissions | authorize, list, add and remove | both sides of a membership agree; no rule outlives what it names; a listing shows what may be used |
| Scheduler (`src/scheduler`) | copies of pools, fetched by XML-RPC | scheduled actions, match, rank, dispatch | stale copies do no harm; everybody is served |
| Hooks (`src/hm`, `src/vm`, `src/host`) | maps of the last states; the pipe of the hook driver | update of an object, execute, answers | once for each time the state is entered |
| The daemon (`src/nebula`) and its database | lock file, tables, rows, last number of each pool | bootstrap, construction of the pools, start and end of the managers | what a killed daemon leaves is finished or refused by the next; a number is given once |
| SQL, web interfaces, parsers | see `PROJECT.json` | | |

### How they interact

    users --XML-RPC--> request manager --calls--> DM (request methods)
                         |  |                       | trigger
                 objects |  | trigger               v
                         |  +--------------------> LCM <---- TM driver thread
                         v                 DM queue <-- |  ^          ^
      networks, images, quotas, rules                   v  +-- VMM driver
      hosts <---- shares -- LCM                  TM, VMM queues --> drivers
        ^                                               ^
        +-- IM driver           scheduler --XML-RPC-----+

All of them share the objects of the pools and take the mutex of an object for
one handler at a time. `trigger` appends to a manager's queue and returns; a
manager takes the head, locks the VM, looks at its state, changes it, perhaps
triggers another manager, and unlocks. Drivers run commands concurrently.

### What is hard here

* Every check and the act it allows may be separated: a request is checked by
  the DM and executed by the LCM later; several requests unlock the object half
  way, and all requests about several objects lock them one after the other.
* An answer names the VM, not the operation it ends (`TRANSFER` does not even
  name the script), so only the state of the VM tells late answers from right
  ones.
* There are two states, `VmState` and `LcmState`, and handlers check one of them.
* Any command fails, a driver dies with all of its commands, and a user may
  delete, resubmit or "recover" the VM at any moment, including twice.
* The mutexes are not recursive and are released by hand on every path.
* The daemon may be killed between any two statements of SQL, and there are no
  transactions.
* Usages, counters, members and rules are copies of something that other objects
  know as well, changed at other times and under other locks.

Each of these, at its line, is in `PROJECT.json` under `hazards`, with the
properties that would show it going wrong.

## 2. The modules

| module | models | extends |
|---|---|---|
| `VMCore` | one VM object, its history records, host shares, queues, drivers' pending commands | |
| `DispatchManager`, `LifeCycleManager`, `VirtualMachineManager`, `TransferManager` | `src/dm`, `src/lcm`, `src/vmm`, `src/tm`: every handler | `VMCore` |
| `RequestManager` | XML-RPC methods on VMs that do more than call one DM method | `DispatchManager` |
| `VMLifecycle` | their composition, its fairness and properties | all of the above |
| `VMStateDiagram` | the documented diagram (`share/doc/states/states-complete.dot`) as an abstract specification | |
| `Guest` | what the commands do to domains and files on the hosts, the front-end and the datastore | `VMLifecycle` |
| `Images` | images, their counters and clones, the datastore driver, the disks of VMs | |
| `Leases` | networks, fixed and ranged leases, the NICs of VMs | |
| `Totals` | the sum of a function over a finite set | |
| `Quotas` | the ledgers and limits of users and groups, requests that charge several, administrators who set limits | `Totals` |
| `Hosts`, `Capacity` | host states, monitoring, shares; deploy, migrate, resize and dispatch against them | `Capacity` extends `Hosts`, `Totals` |
| `ObjectPool` | `PoolSQL`: cache, indices, locks; requests that get, make, rename and delete objects | |
| `ActionManager`, `SyncRequests` | a manager's event loop; requests that wait for a driver | `SyncRequests` extends `ActionManager` |
| `CoreThreads` | threads of requests and managers over `ObjectPool` and `SyncRequests` | both |
| `Acl`, `Access` | rules and permissions as operators; users, groups, clusters, datastores and requests about them | `Access` extends `Acl` |
| `Scheduler`, `Hooks` | the scheduler and what users do meanwhile; hooks on states | |
| `CoreServices` | the image manager, the scheduler and the hooks beside each other | `Images`, `Scheduler`, `Hooks` |
| `Daemon` | `oned` from its start to its end, what is in the database, kills and restarts | |
| `CoreState` | the ledgers and the daemon beside each other | `Quotas`, `Daemon` |
| `MC*` | the instances for TLC | |
| `TotalsProofs` | lemmas about sums, whatever is summed | `Totals` |
| `VMLifecycleProofs`, `LeasesProofs`, `AccessProofs`, `CapacityProofs`, `ServicesProofs`, `ThreadsProofs`, `StateProofs` | theorems | the module they are about: the last three `CoreServices`, `CoreThreads` and `CoreState`; the fourth and the last `TotalsProofs` as well |

### The life cycle of a VM

`vm` is the object: `state`, `lcm`, and the two history records that
the code keeps at hand (host, action, reason of the end). `capacity` is the set
of hosts whose `vm_collection` contains the VM (`Host::add_capacity` and
`del_capacity` count a VM at most once). `queue[m]` is the pending
actions of manager `m`. `driver[d]` is the commands that driver `d` is running.
`rm` is the XML-RPC threads that have unlocked the VM and will come back to it
(two threads that would do the very same thing are one element). `locked` says
that a thread went on without unlocking. `released` counts how often images,
leases and quotas were given back.

There is one action per handler, with the handler's name. A locked section is
one atomic step, which is what the object's mutex makes it; where the code
unlocks and goes on, the rest is an action of its own (`rm_deploy_locked`,
`rm_migrate_locked`, `attach_failed`, `late_trigger`, `rm_savedisk_*`). A
handler in a state it does not expect only takes its action from the queue
(`wrong_state_LCM`, `wrong_state_DM`); `wrong_state_DM` sets `locked` for the two
callbacks that unlock only in the right state. While `locked` holds nobody gets
the VM: `VirtualMachinePool::get` waits for its mutex with the pool's mutex held.
An answer of the VMM driver is ignored in `FAILURE` and `LCM_INIT`
(`VirtualMachineManagerDriver::protocol`); one of the TM is what `Meaning` says.

One VM is modelled. Disks, NICs, snapshots, times, monitoring data, permissions
and authorization are left out here: each hotplug answer, successful or not,
takes the VM back to `RUNNING`. History actions that nobody reads are `"OTHER"`.
`reboot` and `reset` are one request. A request that is refused between its two
halves, for its host or for its owner, has changed nothing and is not
distinguished from none.

`Guest` adds, without changing any of this, the world: `guest` has the hosts on
which a domain of the VM exists, where a complete directory of its files is,
where the current disk and the checkpoint are; `jobs` has, for every pending
command, the hosts and files it was sent with. A command is executed step by
step while the managers go on, and its answer is what the steps did.

### Objects that VMs use

In `Images`, `Leases`, `Quotas` and `Access` a step is what one thread does
between getting an object and releasing it. What is left of a request or of a
callback is a record in `calls` (NIC stages in `Leases`) and any other thread
may come between. A VM is as much of its state as these requests look at.

`Quotas` has an account's counters (`usage`), its limits, and which attributes it has
(`kept`): `del_quota` gives nothing back to an account without the attribute, and
`cleanup_quota` removes one that says nothing. What a call charges is a function on
the metrics it asks for; a check stops at the first metric that does not fit, and the
leases before it stay charged (`leases_refused`). Administrators set limits of
accounts, and the default ones, at any moment (`set_quota`: a new attribute is taken
as a whole, an existing one up to the first number that is not a limit). The code
changes the default quotas without a lock; here a change is one step.

`Capacity` has the VMs' sizes in thousandths of a CPU and shares in hundredths,
since `get_requirements` rounds and `test_capacity` compares. `Hosts` has the
monitoring of hosts by the information manager, with its driver's answers and
its timeouts; a host with no driver stays what an earlier run of the daemon left.

`Acl` states what `AclManager::authorize` answers (the rules of the user, of his
groups and of everybody, in that order, with owner, group and other permissions
first) and, on its own, what the `WHERE` clause of a listing selects. `Access`
lets objects, members, owners, permissions and rules change in the steps the
requests have, and compares the two in every state.

### Threads

`ObjectPool` has the memory: `Ptr` are the places objects are made in, so that a
pointer to freed memory can be told. `get` waits for the object's mutex with the
pool's mutex in its hands, as the code does. `ActionManager` is the queue with
its condition variable and timer: the mutex of the queue is held only while a
thread looks at it, so a step is what it does under it. `SyncRequests` has the
threads that wait for the drivers of authorization and datastores: the request
lies on the stack of its thread and pointers to it go through the queue, the
table and the listener. `CoreThreads` puts requests and managers over a pool,
and looks at the waiting threads by themselves, since they hold no object.

### Scheduler and hooks

`Scheduler` has the copies of VMs and hosts that a cycle goes by, and what users
do between the reading of a copy and its use. A VM needs one unit of a host.
`May` is what the owner has rights to manage, `Fulfil` what his requirements
hold of, `RankOf` the values of the rank expression: given, not computed. Hosts
of equal rank are taken in any order. The capacity of the copy is charged even
when the core refuses; the dispatch limit counts what succeeded. `Hooks` has the
map of last states that a pool keeps, which is empty after a restart.

### The daemon

`Daemon` has the main thread (`main`: where it is in `Nebula::start`, which statement,
pool or manager is next), what is in the database (`tables`, `stored`, `pool_control`) and
what is in memory and gone when the process ends (`last`, `making`, `running`). Every
statement of SQL is a step, so a kill may come between any two of them: `killed` is
`kill -9`, which the script that stops the daemon uses after five seconds, or the abort
of `throw;` in `UserPool`'s constructor. `check_db_version` tells a database that is whole
from one that is empty and one that it refuses. Pools with default objects are those
of groups, users, datastores and rules; what users make of them is `create` (`INSERT`),
`update_lastOID` and `created` (the answer). Configuration and drivers are one step each.

### What goes wrong, and where

Ten modules have a constant for what users, administrators or the environment
do *although it goes wrong*: `Rash` in `Images`, `Leases`, `Quotas`,
`ObjectPool`, `Capacity`, `Access` and `Guest`, `Hasty` in `SyncRequests`,
`Meddling` in `Scheduler`, `Mischance` in `Hooks`. Each of its members is a named
course of events that the code allows and that breaks a property; the runs have
none of them (or those that break nothing the run checks), and section 5 says
what each breaks. So a property that holds says that *nothing else* breaks it,
and the theorems name exactly the kinds they exclude.

### Mutants

An operator marked `mutant` is a plausible bug in the operator of almost the
same name defined after it; no specification uses it. With the mutant in the
operator's place, TLC finds the property that `PROJECT.json` pairs it with
violated: the property does depend on that code.

## 3. The runs

"States" are the distinct states that TLC finds, "depth" the length of the
longest shortest path to one.

| run | module | states | depth | checks |
|---|---|---|---|---|
| `one_request` | `MCVMLifecycle` | 8 295 | 43 | `TypeOK`, `NeverLeftLocked`, `OperationsEnd`, `FollowsDiagram` |
| `driver_crash` | `MCVMLifecycle` | 60 657 | 59 | `CanRecover`, `HostAccounting`, `RunsOnItsHost` |
| `overlapping_requests` | `MCVMLifecycle` | 285 347 | 87 | `StatesAgree`, `UnplacedWaits`, `ReleasedOnce`, `NeverStuck`, `DoneIsFinal`, `CleanupEnds` |
| `guest` | `MCGuest` | 811 810 | 88 | `HostsClean`, `StartsWell`, `DataKept` |
| `images` | `MCImages` | 556 772 | 48 | `UsesCounted`, `FsckClean`, `LockedIsAwaited`, `DatastoreCounted` |
| `leases` | `MCLeases` | 635 328 | 25 | `FsckLeases`, `FreeAddressFound` |
| `quotas` | `MCQuotas` | 812 042 | 202 | `LedgersExact`, `LimitKept`, `ServesWhole`, `NumbersGivenOnce` |
| `capacity` | `MCCapacity` | 1 419 563 | 32 | `FsckHosts`, `WithinCapacity` |
| `object_pool` | `MCObjectPool` | 918 064 | 31 | `PointersLive`, `RowsKept` |
| `threads` | `MCThreads` | 49 649 | 33 | `ActionsHandled`, `ThreadsReturn`, `RequestsAlive` |
| `access` | `MCAccess` | 230 648 | 21 | `FsckMembers`, `RulesLive`, `ListsWhatMayBeUsed` |
| `services` | `MCServices` | 218 191 | 59 | `CopiesHarmless`, `HooksOneShot`, `EditsKept`, `ServicesEnd` |

What they show:

* **The life cycle of a VM.** `one_request`: a user who waits until nothing is
  pending may ask for anything, with every success and failure of the drivers:
  the VM moves along the arrows of the documented diagram (`VMStateDiagram`, with
  `Shown` as the refinement mapping), every operation and every delete ends, no
  lock is left behind. `driver_crash`: requests overlap with each other, with late
  answers and with drivers that die: the hosts that count the VM are those that
  `onedb fsck` expects (`HostAccounting`), the VM runs on the host of its record,
  and `recover` has something to do wherever a VM is left waiting.
  `overlapping_requests`: delete, resubmit, recover, save-as, stop and resume
  overlap: the two states agree, a VM without a record is never used as if it
  had one, resources are given back once, `DONE` is final, something always goes
  on, and a cleanup ends.
* **The world.** `guest`: a VM is booted from its disk, where its files are, and
  on one host only; no domain and no file stays behind on a host that the VM has
  left; the data of its disk is kept until it is deleted.
* **Objects that VMs use.** `images`, `leases`, `quotas`, `capacity`: counters,
  flags, ledgers and shares are what the VMs (and the requests half way) hold,
  which are the rules of `onedb fsck`; an image that is locked has somebody who
  will unlock it; a request for an address is refused only when none is free;
  no account is charged beyond its limits, which change meanwhile, and no host
  is given more than it has.
* **Objects and threads.** `object_pool`: no pointer to freed memory is used, an
  object has one copy, a row is lost only by a delete. `threads`: every action
  triggered is handled, every request returns, and nobody keeps a pointer to a
  request that has returned. `access`: members and lists agree, no rule outlives
  what it names, and a listing shows a user what he may use and nothing else.
* **The daemon.** `quotas` again, in its second part: a daemon that serves requests has every
  table and the default objects that all others need, whatever killed those before
  it; and a number that a user was told is not given to another object.
* **Services.** `services`: whatever the copies that the scheduler goes by, it
  does an action once, overfills no host, undoes no edit, and places every VM that
  can be placed; a hook is executed once for each time its state is entered;
  save-as and hotplug requests end.

## 4. Bounds and fairness

**The life cycle.** `MaxPending` is the only bound: a user or the polling timer acts
only while fewer than `MaxPending` things (queued actions, commands in execution,
threads half way) are pending for the VM. What managers trigger themselves is
not bounded and need not be: every handler triggers a few actions and no chain
of them loops without a request. With 1 (`one_request`) a request meets only
late consequences of its own; with 2 a request meets any state that another is in;
`guest` has 3. Two hosts are what a migration needs; they are symmetric, and
`SYMMETRY` is used in the runs without liveness properties. `Requests` restricts
a run to what its question is about; `DriversDie` adds the death of drivers.

**Others.** `images`: two images, two VMs, one disk each (`MaxDisks`), which has every
pair of requests on an image and a clone. `leases`: one network with two
addresses, two VMs, two NICs each. `quotas`: two users, two groups, one VM, sizes 1
and 2, one NIC and `MaxCalls` 2 requests at once; limits of each kind on a user, his group and
the defaults, and four settings: a lower one, one that is refused, one of a group and
one of the defaults that is taken in part; for the daemon `MaxOid` 3 with
`LAST_DEFAULT` 2, which leaves one number to users, and `MaxKills` 1 (with `MaxOid` 4, or with
two kills, TLC finds no more). Any statement of the bootstrap may fail (`Failing`)
but the one that makes `pool_control`, see section 5. Users make objects of one pool at a
time. `capacity`: two hosts, one of them
without a driver but left `MONITORED` by an earlier run of the daemon, two VMs of
two users, sizes of 0.5 and 1 CPU on hosts of 1. `object_pool`: three threads, four
places, three names and rows, a cache of one. `threads`: two requests and one
manager over two rows, at most two actions in its queue, and two callers of a
driver. `access`: worlds of up to four objects (clusters, groups, hosts,
networks, datastores, images in the mixes where something is shared) and two
requests at once. `services`: three VMs, two hosts with room for one, limits
`MAX_VM` 3, `MAX_DISPATCH` 2, `MAX_HOST` 2, one planned action, three moves of users
(`MaxMoves`). Its three parts share nothing, so `present` looks at one at a time;
the same holds of the two parts of `threads` and of `quotas`.

**Fairness.** Weak fairness of a manager's loop (`ActionManager::loop` runs for ever
and serves its queue in order), of each driver's answer (a command ends, or the
driver's own timeouts end it), and of the rest of a request (its thread goes on).
Threads that wait for a mutex get strong fairness: a mutex that is released again
and again is given to each waiter some time. Users, timers and the failures that
managers find themselves (`vmm_error`, `tm_error`) are not fair. Of the drivers that
threads wait for, the datastore's must answer, since `ImageManager`'s loop has no
timer (`im->am.loop(0,0)`); that of authorization need not, since its requests expire.
In `services` the users' moves are bounded, since a user who holds and releases an
older VM at the right moments can starve a younger one.

`CHECK_DEADLOCK FALSE`: a VM that is `DONE`, or users who ask nothing, is no
deadlock; that nobody waits for nothing is `NeverStuck`, `ThreadsReturn`,
`OperationsEnd`, `CleanupEnds` and `ServicesEnd`.

## 5. What disagrees with the documentation or goes wrong

### One VM

None of these courses is in a run; each needs requests or a bound that the runs
leave out, and TLC finds it as soon as they are added.

* *The share of a host and the record disagree.* Deploy with *enforce* unlocks the
  VM for the host check and does not look at its state again
  (`RequestManagerVirtualMachine.cc:531`). Two of them add two records; the share stays
  with the first host and the current record names the second, which `onedb fsck`
  calls an error.
* *A refused migration is not undone.* When the DM refuses a migration, because the VM
  was suspended in between, the new history record stays; the header says that
  the caller recovers.
* *A delete is lost.* Accepted while another operation of the VM is ending, it is
  dropped by the LCM with a message in the log.
* *The daemon freezes.* `failed_action` and `resubmit_action`
  (`DispatchManagerStates.cc:257`, `:290`) return without unlocking when the LCM handled a
  delete between the failure and its report; `DispatchManager.h:220` has "Ends a VM
  life cycle inside ONE".
* *A resubmit is stuck.* `clean_up_vm` has no case for `SHUTDOWN_UNDEPLOY`.
* *A `DONE` VM comes back.* `attach` (`DispatchManagerActions.cc:1065`) releases the VM while
  it sets up the disk and then sets `RUNNING` whatever has happened; deleted in
  between, a poll answer makes the `DONE` VM `FAILED`.

`FollowsDiagram` holds of every overlap tried without delete; with delete it does
not: a delete queued behind a stop can reach the LCM after the VM was
redeployed. `NeverLeftLocked` fails wherever delete, resubmit or recover overlaps
with a failure.

### The named courses of events

Adding the first column to the constant of the module makes TLC find the second.

| module | event | breaks | what happens |
|---|---|---|---|
| `Guest` | `CLEANING_FAILS` | `HostsClean`, `StartsWell` | a cleanup command fails, which nobody looks at |
| | `DELETE_BOOTING`, `DELETE_UNDEPLOYING` | `HostsClean` (the first `StartsWell` too) | `clean_up_vm` sends nothing that removes what is just being made |
| | `WRONG_MONITOR`, `MONITOR_SUSPEND` | all three | a late poll answer decides the end of an operation |
| | `LATE_HALF`, `RESUME_FAILED` | all three | an answer of an earlier operation; a new record that does not say `STOP` (`LifeCycleStates.cc:420`, `:737`) |
| | `RESUBMIT_STOPPED`, `RESUBMIT_AGAIN` | `StartsWell` (the first `DataKept` too) | files in the datastore are not looked for, or removed while they are used |
| | `MIGRATION_FAILED`, `LIVE_UNSHARED` | `HostsClean` | the other host keeps its half |
| `Images` | `SAME_IMAGE` | `UsesCounted` | a VM names one image in two disks, the counter knows VMs (`fsck.rb:827`) |
| | `DELETE_ALLOCATING`, `DELETE_SAVING` | `UsesCounted`, `DatastoreCounted` (the first `FsckClean` too) | an image is deleted while a clone or a save-as makes it |
| | `DELETE_AGAIN` | `DatastoreCounted` | the quota of a datastore is given back twice |
| | `DELETE_ATTACHING` | `UsesCounted` | the second half of an attach acquires for a VM that is gone |
| `Leases` | `DELETE_ATTACHING`, `DELETE_USED` | `FsckLeases` | a VM is deleted half way through an attach; a network under its VMs (`VirtualNetwork.cc:473`) |
| | `REMOVE_CURRENT` | `FreeAddressFound` | the lease at the cursor is removed |
| `Quotas` | `OVERLAP` | `LedgersExact` | a VM is changed while another request goes by its owner or size |
| | `DELETE_ATTACHING` | `LedgersExact` | a VM is deleted half way through an attach |
| | `CHOWN_DONE`, `ATTACH_FOREIGN` | `LedgersExact` | a `DONE` VM is charged to its new owner; attach charges the requester, detach gives back to the owner |
| | `START_RESIZING` | `LedgersExact` | a VM is started while it is resized: the new size is refused, and its roll-back gives back a VM as well (`QuotaVirtualMachine.cc:100`) |
| `Capacity` | `CHANGED_MEANWHILE` | both | the VM or its size changed between check and charge; the roll-back has other units (`RequestManagerVirtualMachine.cc:1502`) |
| | `FRACTIONS` | `FsckHosts` | `:1392` of that file rounds a size otherwise than `VirtualMachine.cc:1315` |
| | `TAKEN_MEANWHILE` | `WithinCapacity` | two deployments pass `check_host` before either is charged; the manual of `onevm` has "Enforce that the host capacity is not exceeded" |
| | `SCHEDULER_STALE`, `UNENFORCED` | `WithinCapacity` (the first `FsckHosts` too) | the scheduler dispatches by its copy and never enforces |
| `ObjectPool` | `RENAME_RACES`, `DELETE_RENAMED` | `PointersLive` (the first `RowsKept` too) | the new name is looked up, given and indexed under three locks; `REPLACE INTO` with `UNIQUE(name,uid)` deletes another's row |
| | `INDEX_LATE` | both | an object is in the index by number before that by name (`PoolSQL.cc:432`) |
| | `PEEK_FREED`, `UNLOCK_TWICE` | `PointersLive` | a host used without its lock (`HostPool.cc:184`); a VM unlocked by callee and caller |
| `Access` | `SAME_OBJECT` | `FsckMembers`, `RulesLive` | two requests move one object; the second takes back what the first did |
| | `CONTAINER_DELETED` | `FsckMembers` | a cluster, found empty, is deleted while an object leaves another for it; the comment at `RequestManagerCluster.cc:184` has "This point should be unreachable" |
| | `RULE_FOR_DELETED` | `RulesLive` | a rule is made about what is just going |
| `SyncRequests` | `MAD_REMOVED` | `RequestsAlive` | `MadManager::get` hands out a driver that the listener deletes when its reload fails |
| | `STAT_LOST` | `ThreadsReturn` | a request lost with the datastore's driver never returns; `SyncRequest.h:82` has "Requests will expire in 1.5 minutes" |
| | `CONSTANT_LOAD` | `ThreadsReturn` | the timer is raised only when the queue is empty (`ActionManager.cc:93`), so constant load starves it; `ActionManager.h:32` has "periodic action" |
| `Scheduler` | `UPDATE_LOST` | `CopiesHarmless` | the note that an action was done is another call, which may fail |
| | `EDITED_MEANWHILE` | `EditsKept` | the scheduler writes the whole user template from a copy |
| `Hooks` | `MAP_RACES`, `FORGOTTEN` | `HooksOneShot` | maps without a mutex; empty after a restart |
| | `HOST_HOOK_FAILS`, `NOT_RELOADED` | `HooksOneShot` | an answer about a host is looked up as a VM's; a driver that does not come back |
| | `STILL_DEAD` | `HooksOneShot` | the `ERROR` hook fires for every failed monitoring of a dead host, though `HostHook.h` has "(one shot)" |

### The daemon that is killed

`ServesWhole` does not hold when `pool_control` cannot be made: the version is recorded
after it (`SystemDB.cc:60`, `:73`), the daemon ends, and the next one takes the database for
whole. What the model shows to go wrong, though no property forbids it:

* A daemon killed between the first table and the version leaves a database that
  all others refuse as one of some other version (`SystemDB.cc:124`).
* One killed between `INSERT` and `update_lastOID` leaves an object whose number is next:
  the pool can make nothing any more, since a refused number is given back
  (`PoolSQL.cc:116`).
* One killed between two default objects leaves the pool without the others, and
  users get the numbers below 100, which are set aside: `DatastorePool.cc:153` has "User
  created datastores will start from ID 100".
* `UserPool`'s constructor ends with `throw;` where there is no exception
  (`UserPool.cc:238`), which aborts the process and leaves the lock file.

### Read in the code, in no model

The cursor of a range may go one past its end (`RangedLeases.cc:136` for `MAC_START`). The
roll-back of a resize goes to the requester who is not the owner
(`RequestManagerVirtualMachine.cc:1403`), unless it is the group that refuses (`:1375`).
`QuotaImage::check` stops at the first refusal without undoing the earlier ones, as
`QuotaNetwork::check` does in the model. `saveas_hot_success` sets an image `READY` whatever it was.
`SaveDisk` returns with the datastore locked for a disk that is a kernel
(`RequestManagerVirtualMachine.cc:874`). `get_disk_images` lists an uninitialised number
for a volatile disk. `UserChown` and `clone_image` have a "TODO" for their roll-back.
`set_error` takes a disabled host with VMs and no driver out of `DISABLED`, and such
hosts are monitored although `Host.h:91` says they are not. `HostStateMapHook::remove_host`
is never called. A remote hook of a VM without history is not executed, a `CREATE`
hook ignores `REMOTE`, and the `RUNNING` hook fires on every return to `RUNNING`.

## 6. Proofs

`tlapm` checks every leaf, for all values of the constants that satisfy the
named assumptions. Where a hypothesis is needed, it excludes events of section 5
by name, and TLC has a counterexample for each.

* **`VMLifecycleProofs`**: `TypeCorrect`, `NeverUsesMissingRecord` (`UnplacedWaits`).
  `TypeOK` says that each queue holds only actions its manager has a handler for
  and that `capacity` holds only hosts. It is not inductive: `deploy_action` adds
  the share of the host in the current record, and that there is one follows only
  from the state in which the VM was found. So the invariant is `IInv == TypeOK /\
  UnplacedWaits`: every handler finds the VM in a state that one without a record
  cannot be in (`Placed`), and no assignment takes a record away (`PlacedVM` is closed
  under all of them); a VM without one is touched only by requests, which give it
  one or keep it waiting (`WaitingStep`). One lemma per module: `LcmRequestOK`,
  `LcmAnswerOK`, `VmmStepOK`, `TmStepOK`, `DmResultOK`, `DmRequestOK`, `RmNextOK`.
* there too: `StatesAlwaysAgree`, `ResourcesReleasedOnce`, `DoneStaysDone`, for
  requests without `ATTACH` and `ATTACH_NIC` (section 5, "A `DONE` VM comes back").
  `SInv` is `IInv`, `StatesAgree`, `ReleasedOnce` and that no attach is half way. They are
  needed together: `done_action` releases only once because a VM is not `DONE` when
  its LCM state is one that it accepts, which is `StatesAgree`.
* and there: `NeverFrozen` (`NeverLeftLocked`), `RunsWhereItCounts` (`RunsOnItsHost`),
  `AlwaysRecoverable` (`CanRecover`) and `HostsAreFreed`, whether or not drivers die, and
  `AccountsMatch` (`HostAccounting`) and `SomebodyWorks` (`NeverStuck`) when they do not:
  for any hosts and all kinds of requests, attaches too, as long as requests come one
  at a time (`OneAtATime`: `MaxPending` is at most 1, as in `one_request`). That is what
  each handler takes for granted; what happens when requests overlap is left to
  TLC (sections 5 and 7). The invariant `SerialInv` is `IInv`, that the mutex is free,
  and `OneJob`, which says where the only piece of work is and what it finds: an action of
  the LCM finds the VM in the state that its handler accepts (`Asked`), a report to the
  DM in one of those it accepts (`Reported`), a command or script in the state
  that waits for its answer (`Commanded`, `Scripted`), the second half of a request in the state
  that the first has left (`Begun`); and each of these says on which hosts the VM counts
  (`Shares`: on two while it migrates). Only the cleaning of a deleted or resubmitted
  VM goes on beside the end of its life (`Cleaning`), and then the VM counts nowhere. One
  lemma per module again: `LcmNextJob`, `DmResultJob`, `VmmStepJob`, `TmStepJob`,
  `DriverLostJob`, `DmRequestJob`, `RmNextJob`; `NothingPending` counts the work.
* and the refinement: `ImplementsDiagram` (`FollowsDiagram`), again for requests one at a time,
  with drivers that may die: `Init` maps to an initial state of `VMStateDiagram` and
  every step (`NextDrawn`) to an arrow, to delete or delete --recreate, or to a stutter of
  `Shown`. `ArrowsTaken` lists the arrows the handlers rely on, and one lemma per module says
  that each of its steps takes one (`LcmRequestDrawn`, `LcmAnswerDrawn`, `DmResultDrawn`,
  `DmRequestDrawn`, `RmNextDrawn`, `DriverDrawn`). Where a handler sets a state
  without looking (a `DEPLOY` is boot, prolog or resume by the record alone; a
  failed attach goes back to `RUNNING`), `SerialInv` says what it finds. With
  overlaps TLC has a counterexample: a `DEPLOY` queued behind a late `DELETE`.
* **`LeasesProofs`**: `TypeCorrect`, `LeasesAgree` (`FsckLeases`), `LeasesCounted`,
  `FreeAddressIsFound`. The invariant says, beyond types, whose each lease is
  (`OwnersHaveLeases`, `LeasesHaveNics`), which stages a VM may have in which state
  (`StagesOfStates`), and that the counter is a cardinality (`TotalLeases`). That a
  free address is found needs `CursorsInside` as well: the search goes from the
  cursor to the end and then once more from the start.
* **`ServicesProofs`**, of images: `ImageUsesAreCounted` (`UsesCounted`). An image counts a VM
  exactly when the VM, or a request that works for it, holds it (`HoldingFits`).
  This is inductive only with: a VM holds an image in one way (`HeldOnce`), during an
  attach nothing else happens to the VM (`AttachAlone`), and an image that is being
  made is locked and has one maker (`MakersFit`).
* there too, on that invariant: `DatastoreIsCounted` (`DatastoreCounted`):
  each step that lets an image in or out of the count takes or gives one unit.
  `FsckFindsNothing` (`FsckClean`): an image counts a copy of itself from `clone_count` to
  `release_cloning_image`, and in between the copy is in the hands of one call or command
  (`CopiesInv`). `LockedImagesAreAwaited` (`LockedIsAwaited`), also without `DETACH_SAVED`:
  at most one thing is under way for the save-as of a VM (`OneSave`), the disk it saves
  stays where it is meanwhile (`Marks`), and whoever makes an image hands it to the next
  (`AwaitedStep`).
* **`AccessProofs`**: `MembersAreListed` (`FsckMembers`), `RulesGoWithObjects` (`RulesLive`),
  `ListingsShowWhatMayBeUsed`. What a container lists is what its members say, except
  for the objects that the requests half way have in their hands (`ListsFit`), so
  each request must say where its object was and where it goes (`CallFits`), and no
  two may have the same one (`OneCall`). The third theorem has no hypothesis: the
  `WHERE` clause and `AclManager::authorize` agree on every set of rules, because the
  clause asks for all objects, for those of groups, of clusters and for single ones as the
  four lookups of the manager do.
* **`ThreadsProofs`**, of pools: `PointersStayLive` (`PointersLive`) and `RowsAreKept`
  (`RowsKept`, an action property), for any number of threads, objects and names,
  as long as nothing of `RashKinds` happens and there is memory for every object
  (`PoolAssumption`; the code does not check what `new` returns). `PoolInv` says
  whose the mutex of the pool is (`MutexFits`), that each object is once in either
  index and once in the queue of the replacement (`IndexFits`, `QueueFits`), that
  the cache is over its limit by one only while `replace` makes room (`RoomFits`),
  and what each thread has (`ThreadFits`): who waits in `get` waits for an object
  that is still there, and the name that a rename takes is nobody's (`NameFree`),
  since requests that would take it keep apart (`AllApart`). That `replace` never
  frees the object just read for `allocate`, which has no lock, needs the order of
  the queue (`HeadFree`: another object that is free comes first).
* **`ServicesProofs`**, of hooks and the scheduler: `HooksFireOnce` (`HooksOneShot`), from the map following the
  states (`MapFollows`, `InMapOrNew`); `CopiesDoNoHarm` (`CopiesHarmless`) and `EditsAreKept`
  (`EditsKept`, an action property), from `SchedInv`: what is edited is counted, a
  done action is marked, the room in the copies is at most the room there is, and
  what is left of a copy is fresh.
* **`ThreadsProofs`**, of drivers: `RequestsAreAlive` (`RequestsAlive`), from where a request is
  (`ManagerHas`, `TableHas`, `ListenerHas`): a thread returns only when the manager has
  handed its request over or given it up, and that takes it out of the table.
* **`StateProofs`**, of the daemon: `ServesAWholeDatabase` (`ServesWhole`) and `NumbersAreGivenOnce`
  (`NumbersGivenOnce`), for any number of kills, anywhere, when any statement of the
  bootstrap may fail but the one that makes `pool_control`. `DInv` says what the place
  of the main thread tells of the database (`TablesFit`: the version is recorded when all
  tables are there, and not before), that a pool that has been read has the number of
  the database, or the next one between `INSERT` and `update_lastOID`, and that whoever
  was told a number was told no larger one (`NumbersFit`), and that the first default
  is there as soon as a number has been given (`FirstFits`). Setting the numbers up to
  `LAST_DEFAULT` aside keeps this, as nobody has been told a number of that pool before.

* **`TotalsProofs`**: what `Total` is. `MapThenSumSet` folds over a set by taking any
  element and going on with the rest, so that every sum is a recursive definition;
  induction over subsets (`OverSubsets`), from the well-foundedness of the natural
  numbers, gives that the sum exists (`SummingSums`) and that any element may be taken
  out (`TotalWithout`), put in or changed (`TotalChanged`). `Quotas` and `Capacity` then
  need only who changes in a step.
* **`StateProofs`**, of ledgers: `LimitKeptAlways` (`LimitKept`, an action property),
  `LedgersAreExact` (`LedgersExact`) and `FsckFindsQuotas`. The first needs what each
  call is at each of its steps (`CallsInv`: who it is for, what it charges, and that a
  VM has at most one call of a kind), since a call that gives back must not give back
  less than nothing. The others add that a counter is the sum of the VMs its account pays
  for (`VSum`) and of what calls have charged it (`CSum`): a step moves one share
  between the two. Hypotheses: nothing of `Rash` is done (`QuotasAsMeant`); no group
  limits the CPU, because the roll-back of a resize that a group refuses takes away a VM
  as well; and for the last two a VM has one NIC or leases are not limited (`LeasesWhole`),
  because of those that stay charged. The instance of the run satisfies them all.
* **`CapacityProofs`**: `SharesAreExact` (`FsckHosts`) and `HostsHaveRoom` (`WithinCapacity`),
  when nothing of `RashKinds` is done. A share is the sum of what the VMs on its host need
  and of what resizes have changed (`Shares`). That hosts have room is not
  inductive: a VM waits between its record and the LCM's handler. What is invariant
  is what a host has committed (`Committed`: its usage, and the VMs that wait for it);
  it leaves room for what the request that passed `check_host` is about to add, and for
  all that the scheduler believes to be free (`Room`). This takes that requests
  that take capacity are alone and the scheduler at rest (`Exclusive`), and that
  a request's VM is still what the request has seen (`Asking`).

Each invariant was an invariant of a TLC run over the instance of section 3 (those
of `Images` and `Access` over a larger one as well) before it was proved.

## 7. What is only model-checked

* Liveness (`OperationsEnd`, `CleanupEnds`, `ActionsHandled`, `ThreadsReturn`, `ServicesEnd`)
  rests on fairness and `ENABLED`, which are beyond these provers.
* `Guest`'s properties (`HostsClean`, `StartsWell`, `DataKept`).
* `NeverStuck`, `CanRecover`, `HostAccounting`, `RunsOnItsHost`, `FollowsDiagram` and
  `NeverLeftLocked` when requests overlap. The first four hold of the overlaps in
  their runs, the other two of those that section 5 does not exclude; with all requests
  at once none of them does, and the theorems are about requests one at a time.

## 8. What is not modelled

SQL (a write is one step), the configuration, documents and VM templates
(stores of attributes), passwords and sessions, accounting, context, the bytes of
the pipes, Sunstone, OZones, the cloud servers, the command line and the
generated parsers. Of VM methods: monitoring and the queries of pools. An
expression of the scheduler is given by its values; a quota of each kind is one
amount; an address is a small number. Each component of `PROJECT.json` says
how much of it is in which module.
