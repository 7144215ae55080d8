-------------------------------- MODULE Guest --------------------------------
(***************************************************************************)
(* What the control of VMLifecycle does to the world: the domain that the  *)
(* hypervisors run, the directory with its disks on the hosts, on the      *)
(* front-end and in the datastore, and the checkpoint in it.  The managers *)
(* send the drivers commands that name hosts and files as the VM's history *)
(* had them at that moment; the drivers execute them, step by step, while  *)
(* the managers go on, and answer afterwards.                              *)
(***************************************************************************)
EXTENDS VMLifecycle

CONSTANTS FrontEnd,  \* where the files of a stopped VM are kept
          Store,     \* the datastore of the VM's (persistent) image
          Rash       \* the imprudences (see the end) that happen

VARIABLES guest,     \* [domains, files, current, memory]
          jobs,      \* per driver, what its commands say, and their answer
          deploy_id, \* the core knows the name the hypervisor gave the VM
          shared,    \* the system datastore is shared by all hosts
          given_up   \* the user has asked to delete or to start over

world     == <<guest, jobs, deploy_id, shared, given_up>>
guestVars == <<vars, world>>

Places == Hosts \cup {FrontEnd}

(* domains: the hosts on which a domain of the VM exists; files: whether a *)
(* directory is there, complete; current, memory: where the disk, and the  *)
(* checkpoint, are those that the guest has left when it ran last.         *)
GuestType == [domains : SUBSET Hosts,
              files   : [Places -> {"none", "part", "all"}],
              current : SUBSET (Places \cup {Store}),
              memory  : SUBSET Places]

(* A shared directory has the same path on the front-end and on each host. *)
at(h) == IF shared THEN FrontEnd ELSE h

-----------------------------------------------------------------------------
(* Transfer scripts: lines that the driver executes one after the other    *)
Line(op, from, to) == [op |-> op, from |-> from, to |-> to]

(* CLONE, LN, MKIMAGE or MKSWAP puts a disk into the directory of the VM.  *)
prolog_transfer_command == Line("CLONE", Store, at(vm.hist.hid))

prolog_action == <<prolog_transfer_command, Line("CONTEXT", Store, at(vm.hist.hid))>>

prolog_migr_action == <<Line("MV", at(vm.prev.hid), at(vm.hist.hid))>>

prolog_resume_action == <<Line("MV", FrontEnd, at(vm.hist.hid))>>

(* A disk that is to be saved is moved to the datastore.                   *)
epilog_transfer_command == Line("MVDS", at(vm.hist.hid), Store)

epilog_action_deletes_first ==                     \* mutant
  <<Line("DELETE", at(vm.hist.hid), Store), epilog_transfer_command>>

epilog_action == <<epilog_transfer_command, Line("DELETE", at(vm.hist.hid), Store)>>

epilog_stop_action == <<Line("MV", at(vm.hist.hid), FrontEnd)>>

(* A copy of the running guest's disk for an image of its own.             *)
saveas_hot_action == <<Line("CPDS", at(vm.hist.hid), Store)>>

epilog_delete_commands(local, previous) ==
  <<Line("DELETE",
         IF local THEN FrontEnd
         ELSE IF previous THEN at(vm.prev.hid) ELSE at(vm.hist.hid), Store)>>

epilog_delete_action(local) == epilog_delete_commands(local, FALSE)

epilog_delete_both_action ==
  epilog_delete_commands(FALSE, FALSE) \o epilog_delete_commands(FALSE, TRUE)

Script(s) ==
  CASE s = "PROLOG"             -> prolog_action
    [] s = "PROLOG_MIGR"        -> prolog_migr_action
    [] s = "PROLOG_RESUME"      -> prolog_resume_action
    [] s = "EPILOG"             -> epilog_action
    [] s = "EPILOG_STOP"        -> epilog_stop_action
    [] s = "EPILOG_DELETE"      -> epilog_delete_action(FALSE)
    [] s = "EPILOG_DELETE_STOP" -> epilog_delete_action(TRUE)
    [] s = "EPILOG_DELETE_BOTH" -> epilog_delete_both_action
    [] s = "SAVEAS_HOT"         -> saveas_hot_action

(* What a line that works does.                                            *)
remove(w, p) == [w EXCEPT !.files[p] = "none", !.current = @ \ {p}, !.memory = @ \ {p}]

mv(w, from, to) ==
  IF from = to THEN w
  ELSE remove([w EXCEPT !.files[to] = w.files[from],
                        !.current = IF from \in @ THEN @ \cup {to} ELSE @ \ {to},
                        !.memory = IF from \in @ THEN @ \cup {to} ELSE @ \ {to}], from)

Does(w, l) ==
  CASE l.op = "CLONE" ->
         [remove(w, l.to) EXCEPT !.files[l.to] = "part",
                                 !.current = IF Store \in @ THEN @ \cup {l.to} ELSE @]
    [] l.op = "CONTEXT" -> [w EXCEPT !.files[l.to] = "all"]
    [] l.op = "MV"      -> mv(w, l.from, l.to)
    [] l.op = "MVDS"    ->
         [w EXCEPT !.current = IF l.from \in @ THEN @ \cup {Store} ELSE @ \ {Store}]
    [] l.op = "CPDS"    -> w
    [] l.op = "DELETE"  -> remove(w, l.from)

Works(w, l) ==
  /\ l.op = "MV"   => l.from = l.to \/ w.files[l.from] # "none"
  /\ l.op \in {"MVDS", "CPDS"} => w.files[l.from] = "all"

(* What a line may leave that fails or is killed.                          *)
Breaks(w, l) ==
  CASE l.op = "CLONE" -> {w, [remove(w, l.to) EXCEPT !.files[l.to] = "part"]}
    [] l.op = "MV"    -> IF l.from = l.to THEN {w}
                         ELSE {w, remove(w, l.to),
                               [remove(w, l.to) EXCEPT !.files[l.to] = "part"]}
    [] l.op = "MVDS"  -> {w, [w EXCEPT !.current = @ \ {Store}]}
    [] OTHER          -> {w}

(* The driver stops at the first line that fails.                          *)
Executed(w, script) ==
  FoldLeft(LAMBDA acc, l : [good |-> {Does(x, l) : x \in {y \in acc.good : Works(y, l)}},
                            bad  |-> acc.bad \cup UNION {Breaks(x, l) : x \in acc.good}],
           [good |-> {w}, bad |-> {}], script)

-----------------------------------------------------------------------------
(* Commands for the hypervisor driver: each handler names the host it is   *)
(* for, the other host, and the domain, whose name is only known when it   *)
(* has been deployed.                                                      *)
Message(on, to) == [on |-> on, to |-> to, known |-> deploy_id, tm |-> <<>>]
OnItsHost       == Message(vm.hist.hid, NoHost)
OnThePrevious   == Message(vm.prev.hid, NoHost)

deploy_message     == [OnItsHost EXCEPT !.known = FALSE]
restore_message    == OnItsHost
save_message       == IF vm.lcm = "SAVE_MIGRATE" THEN OnThePrevious ELSE OnItsHost
shutdown_message   == OnItsHost
cancel_message     == OnItsHost
reboot_message     == OnItsHost
poll_message       == OnItsHost
migrate_message    == Message(vm.prev.hid, vm.hist.hid)
cleanup_message(cancel_previous) ==
  [Message(vm.hist.hid, IF cancel_previous THEN vm.prev.hid ELSE NoHost)
     EXCEPT !.tm = epilog_delete_commands(FALSE, FALSE)]
cleanup_previous_message_current ==                \* mutant
  [OnThePrevious EXCEPT !.tm = epilog_delete_commands(FALSE, FALSE)]
cleanup_previous_message ==
  [OnThePrevious EXCEPT !.tm = epilog_delete_commands(FALSE, TRUE)]
attach_message     == OnItsHost
detach_message     == OnItsHost
attach_nic_message == OnItsHost
snapshot_message   == OnItsHost

MessageOf(cmd) ==
  CASE cmd = "DEPLOY"           -> deploy_message
    [] cmd = "RESTORE"          -> restore_message
    [] cmd = "SAVE"             -> save_message
    [] cmd = "SHUTDOWN"         -> shutdown_message
    [] cmd = "CANCEL"           -> cancel_message
    [] cmd = "REBOOT"           -> reboot_message
    [] cmd = "POLL"             -> poll_message
    [] cmd = "MIGRATE"          -> migrate_message
    [] cmd = "CLEANUP"          -> cleanup_message(FALSE)
    [] cmd = "CLEANUP_BOTH"     -> cleanup_message(TRUE)
    [] cmd = "CLEANUP_PREVIOUS" -> cleanup_previous_message
    [] cmd = "ATTACH"           -> attach_message
    [] cmd = "DETACH"           -> detach_message
    [] cmd \in {"ATTACH_NIC", "DETACH_NIC"} -> attach_nic_message
    [] cmd = "SNAPSHOT"         -> snapshot_message

(* The guest runs on h: what it writes makes every other copy old.         *)
starts(w, h) == [w EXCEPT !.domains = @ \cup {h},
                          !.current = IF shared THEN {at(h), Store} ELSE {at(h)},
                          !.memory = {}]
ends(w, hs)  == [w EXCEPT !.domains = @ \ hs]

(* No step of a clean-up stops it: the domain is cancelled, if it has a    *)
(* name, on the host and on the other, and then the files are deleted.     *)
cleanup(w, j) ==
  FoldLeft(LAMBDA x, l : Does(x, l),
           IF j.known THEN ends(w, {j.on, j.to}) ELSE w, j.tm)

(* The worlds in which a command succeeds, empty when it cannot.           *)
Succeeds(w, cmd, j) ==
  CASE cmd = "DEPLOY" ->
         IF w.files[at(j.on)] = "all" /\ j.on \notin w.domains
         THEN {starts(w, j.on)} ELSE {}
    [] cmd = "RESTORE" ->
         IF w.files[at(j.on)] = "all" /\ at(j.on) \in w.memory /\ j.on \notin w.domains
         THEN {starts(w, j.on)} ELSE {}
    [] cmd = "SAVE" ->
         IF j.on \in w.domains
         THEN {[ends(w, {j.on}) EXCEPT !.memory = {at(j.on)}]} ELSE {}
    [] cmd \in {"SHUTDOWN", "CANCEL"} -> {ends(w, {j.on})}
    [] cmd = "MIGRATE" ->
         IF shared /\ j.on \in w.domains THEN {starts(ends(w, {j.on}), j.to)} ELSE {}
    [] cmd \in {"CLEANUP", "CLEANUP_BOTH", "CLEANUP_PREVIOUS"} ->
         {cleanup(w, j)}
    [] OTHER -> {w}

(* Where it fails, and the guest may be off all the same: the network of   *)
(* the VM is cleaned after the hypervisor has ended the domain.            *)
Fails(w, cmd, j) ==
  {w} \cup IF cmd \in {"SAVE", "SHUTDOWN", "CANCEL"} THEN Succeeds(w, cmd, j) ELSE {}

-----------------------------------------------------------------------------
(* The drivers at work.  A job is a command and the answer it will get.    *)
Running     == "RUNNING"
Cleanups    == {"CLEANUP", "CLEANUP_BOTH", "CLEANUP_PREVIOUS",
                "EPILOG_DELETE", "EPILOG_DELETE_STOP", "EPILOG_DELETE_BOTH"}
CleaningFails(cmd) == cmd \in Cleanups => "CLEANING_FAILS" \in Rash

Good(d, i) ==
  IF d = "TM" THEN Executed(guest, jobs[d][i].what).good
              ELSE Succeeds(guest, driver[d][i], jobs[d][i].what)
Bad(d, i) ==
  IF d = "TM" THEN Executed(guest, jobs[d][i].what).bad
              ELSE Fails(guest, driver[d][i], jobs[d][i].what)

(* The name of the domain comes with the answer to its first deployment: a *)
(* VM deleted before has no name by which the domain could be cancelled.   *)
BeingCleaned == \/ vm.lcm \in CleanupStates \/ vm.state = "DONE"
                \/ \E i \in DOMAIN queue["LCM"] : queue["LCM"][i] \in {"DELETE", "CLEAN"}
TooEarly(d, i) == /\ driver[d][i] = "DEPLOY" /\ ~deploy_id
                  /\ BeingCleaned /\ "DELETE_BOOTING" \notin Rash

NewJob(what)  == [what |-> what, answer |-> Running]
IssueJob(d, what) == jobs' = [jobs EXCEPT ![d] = Append(@, NewJob(what))]

(* A command comes to its end; its answer is on the way.                   *)
job_ends ==
  \E d \in Drivers : \E i \in DOMAIN jobs[d] :
    /\ jobs[d][i].answer = Running
    /\ \E answer \in Outcomes :
         /\ answer = Failure => Good(d, i) = {} \/ CleaningFails(driver[d][i])
         /\ answer = Success => ~TooEarly(d, i)
         /\ guest' \in IF answer = Success THEN Good(d, i) ELSE Bad(d, i)
         /\ jobs' = [jobs EXCEPT ![d][i].answer = answer]
    /\ UNCHANGED <<vars, deploy_id, shared, given_up>>

(* What the cancelled command has done by then, it has done.               *)
Interrupted(d, i) == Bad(d, i) \cup IF TooEarly(d, i) THEN {} ELSE Good(d, i)

job_killed(d) ==
  IF jobs[d] # <<>> /\ Last(jobs[d]).answer = Running
  THEN /\ guest' \in Interrupted(d, Len(jobs[d]))
       /\ driver' = [driver EXCEPT ![d] = Front(@)]
       /\ jobs' = [jobs EXCEPT ![d] = Front(@)]
  ELSE UNCHANGED <<guest, driver, jobs>>

(* The VM needs a previous record for some of the commands.                *)
TwoHostCommands == {"PROLOG_MIGR", "EPILOG_DELETE_BOTH", "MIGRATE", "CLEANUP_PREVIOUS"}
HasItsHosts(cmd) == hasHistory /\ (cmd \in TwoHostCommands => hasPreviousHistory)

TmWorld ==
  \/ /\ tm_transfer
     /\ HasItsHosts(Head(queue["TM"]))
     /\ IssueJob("TM", Script(Head(queue["TM"])))
     /\ UNCHANGED <<guest, deploy_id>>
  \/ /\ tm_error
     /\ CleaningFails(Head(queue["TM"])) \/ ~HasItsHosts(Head(queue["TM"]))
     /\ UNCHANGED <<guest, jobs, deploy_id>>
  \/ tm_driver_cancel /\ job_killed("TM") /\ UNCHANGED deploy_id
  \/ /\ \E i \in DOMAIN jobs["TM"] :
          /\ jobs["TM"][i].answer # Running
          /\ tm_answered(i, jobs["TM"][i].answer = Success)
          /\ jobs' = [jobs EXCEPT !["TM"] = RemoveAt(@, i)]
     /\ UNCHANGED <<guest, deploy_id>>

(* The name of the domain comes with the answer to the deployment.         *)
learns(cmd, answer) ==
  deploy_id' = (deploy_id \/ (cmd = "DEPLOY" /\ answer = Success /\ ~Ignored))

(* A monitored VM is found where it is, unless the probe fails.            *)
SeenAsItIs(i) ==
  \/ "WRONG_MONITOR" \in Rash
  \/ /\ vm'.lcm = "RUNNING" /\ vm.lcm = "UNKNOWN" =>
          jobs["VMM"][i].what.on \in guest.domains
     /\ queue'["LCM"] \notin {Append(queue["LCM"], e) :
                                e \in {"MONITOR_SUSPEND", "MONITOR_FAILURE"}}

VmmWorld ==
  \/ /\ vmm_command
     /\ HasItsHosts(Head(queue["VMM"]))
     /\ IssueJob("VMM", MessageOf(Head(queue["VMM"])))
     /\ UNCHANGED <<guest, deploy_id>>
  \/ /\ vmm_error
     /\ CleaningFails(Head(queue["VMM"])) \/ ~HasItsHosts(Head(queue["VMM"]))
     /\ UNCHANGED <<guest, jobs, deploy_id>>
  \/ vmm_driver_cancel /\ job_killed("VMM") /\ UNCHANGED deploy_id
  \/ \E i \in DOMAIN jobs["VMM"] :
       /\ jobs["VMM"][i].answer # Running
       /\ \/ vmm_answered(i, jobs["VMM"][i].answer)
          \/ vmm_poll_answered(i) /\ SeenAsItIs(i)
       /\ learns(driver["VMM"][i], jobs["VMM"][i].answer)
       /\ jobs' = [jobs EXCEPT !["VMM"] = RemoveAt(@, i)]
       /\ UNCHANGED guest
  \/ /\ vmm_timer
     /\ IssueJob("VMM", poll_message)
     /\ UNCHANGED <<guest, deploy_id>>

-----------------------------------------------------------------------------
(* The managers.  A VM that starts over has the image of the datastore.    *)
GivesUp == \/ vm'.lcm \in CleanupStates
           \/ vm'.state = "DONE" /\ vm.state # "ACTIVE"
StartsOver == vm.lcm = "CLEANUP_RESUBMIT" /\ vm'.state = "PENDING"

managed ==
  /\ given_up' = ((given_up \/ GivesUp) /\ ~StartsOver)
  /\ guest' = IF StartsOver THEN [guest EXCEPT !.current = {Store}, !.memory = {}]
                            ELSE guest
  /\ UNCHANGED <<jobs, deploy_id, shared>>

(* Users wait for what they have asked for; some delete or resubmit at any *)
(* time.  What they should not do unless they are Rash:                    *)
Fragile == \E r \in rm : r.step \in HostSteps \cup AttachSteps
AsItWas == \A r \in rm : CASE r.step = "DEPLOY" -> Deployable
                             [] r.step \in {"MIGRATE", "LIVE_MIGRATE"} -> CanMigrate
                             [] r.step \in AttachSteps -> vm.lcm \in HotplugStates
                             [] OTHER -> TRUE
SecondHalf ==
  /\ \/ rm_deploy_locked \/ rm_migrate_locked \/ rm_savedisk_allocated
     \/ rm_savedisk_undone \/ rm_savedisk_hot \/ late_trigger \/ attach_failed
  /\ Fragile => "LATE_HALF" \in Rash \/ (Pending = 1 /\ AsItWas)

Undeploying == \/ vm.lcm = "SHUTDOWN_UNDEPLOY"
               \/ \E i \in DOMAIN queue["LCM"] : queue["LCM"][i] \in {"UNDEPLOY", "UNDEPLOY_HARD"}
Booting == vm.lcm \in BootStates /\ ~deploy_id
ResumeFailed == vm.state \in {"STOPPED", "UNDEPLOYED"} /\ vm.hist.action \notin {"STOP", "UNDEPLOY"}
StopFailed   == vm.state = "FAILED" /\ vm.hist.action \in {"STOP", "UNDEPLOY"}
MigrationFailed == vm.state = "FAILED" /\ \E h \in Hosts \ {vm.hist.hid} : guest.files[h] # "none"

Prudent == /\ Undeploying     => "DELETE_UNDEPLOYING" \in Rash
           /\ Fragile         => "LATE_HALF"          \in Rash
           /\ Booting         => "DELETE_BOOTING"     \in Rash
           /\ BeingCleaned    => "RESUBMIT_AGAIN"     \in Rash
           /\ ResumeFailed    => "RESUME_FAILED"      \in Rash
           /\ StopFailed      => "RESUBMIT_STOPPED"   \in Rash
           /\ MigrationFailed => "MIGRATION_FAILED"   \in Rash

MovesLive == (\E r \in rm' : r.step = "LIVE_MIGRATE") => shared \/ "LIVE_UNSHARED" \in Rash

Users ==
  \/ SecondHalf /\ UNCHANGED <<driver, locked, released>>
  \/ Pending = 0 /\ Prudent /\ (RmNext \/ DmRequest) /\ MovesLive
  \/ Prudent /\ (finalize \/ resubmit) /\ UNCHANGED <<driver, locked>>

GuestInit ==
  /\ Init
  /\ guest = [domains |-> {}, files |-> [p \in Places |-> "none"],
              current |-> {Store}, memory |-> {}]
  /\ jobs = [d \in Drivers |-> <<>>]
  /\ deploy_id = FALSE /\ given_up = FALSE
  /\ shared \in BOOLEAN

GuestNext ==
  \/ (Users \/ DmResult \/ LcmNext) /\ managed
  \/ TmWorld /\ TmFrame /\ UNCHANGED <<shared, given_up>>
  \/ VmmWorld /\ VmmFrame /\ UNCHANGED <<shared, given_up>>
  \/ job_ends

GuestSpec == GuestInit /\ [][GuestNext]_guestVars

-----------------------------------------------------------------------------
(* Properties *)
JobsOK == \A d \in Drivers : Len(jobs[d]) = Len(driver[d])

(* Where files of the VM may be on the hosts when nobody works for it.     *)
HostsOf ==
  CASE vm.state \in {"PENDING", "HOLD", "DONE"} -> {}
    [] vm.state \in {"STOPPED", "UNDEPLOYED"} -> IF ResumeFailed THEN {vm.hist.hid} ELSE {}
    [] vm.state = "FAILED" -> {vm.hist.hid, vm.prev.hid}
    [] OTHER -> {vm.hist.hid}

(* When nobody works for the VM, no host runs a domain of it or keeps its  *)
(* files but the one it is on: whatever was interrupted, and wherever it   *)
(* was moving, the clean-up was sent to each host that had something.      *)
HostsClean ==
  Pending = 0 =>
    /\ guest.domains \subseteq IF vm.state = "ACTIVE" THEN {vm.hist.hid} ELSE {}
    /\ {h \in Hosts : guest.files[h] # "none"} \subseteq HostsOf
    /\ guest \in GuestType /\ JobsOK

(* Whatever starts finds what it needs, and goes on finding it until it is *)
(* done: the guest is booted from its disk and checkpoint as they were     *)
(* left, on the only host that runs it, and files are moved from where     *)
(* they are.                                                               *)
StartsWell ==
  /\ \A i \in DOMAIN jobs["VMM"] :
       LET on == jobs["VMM"][i].what.on
       IN  driver["VMM"][i] \in {"DEPLOY", "RESTORE"} /\ jobs["VMM"][i].answer = Running =>
             /\ guest.files[at(on)] = "all"
             /\ at(on) \in guest.current
             /\ driver["VMM"][i] = "RESTORE" => at(on) \in guest.memory
             /\ guest.domains \subseteq {on}
  /\ \A i \in DOMAIN jobs["TM"] :
       jobs["TM"][i].answer = Running =>
         \A n \in DOMAIN jobs["TM"][i].what :
           LET l == jobs["TM"][i].what[n]
           IN  l.op \in {"MV", "MVDS"} => guest.files[l.from] = "all"

(* The disk as the guest has left it is never lost, unless the user gives  *)
(* it up, and when nobody works for the VM it is where the next operation  *)
(* will take it from; so is the memory of a VM that was saved.             *)
Resumes == vm.hist.action \in {"STOP", "UNDEPLOY"}
Home ==
  CASE vm.state \in {"PENDING", "HOLD"}        -> IF Resumes THEN FrontEnd ELSE Store
    [] vm.state = "DONE"                       -> Store
    [] vm.state \in {"STOPPED", "UNDEPLOYED"} -> FrontEnd
    [] OTHER                                   -> at(vm.hist.hid)

DataKept ==
  /\ given_up \/ guest.current # {}
  /\ Pending = 0 /\ ~given_up /\ vm.state # "FAILED" /\ ~ResumeFailed =>
       /\ Home \in guest.current
       /\ vm.state \in {"SUSPENDED", "STOPPED"} => Home \in guest.memory
=============================================================================
