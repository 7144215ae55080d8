-------------------------------- MODULE Hosts --------------------------------
(***************************************************************************)
(* The hosts: their states, their monitoring by the information manager    *)
(* and its driver, and their shares, of which one amount is modelled (cpu, *)
(* in percent; memory goes the same way).                                  *)
(***************************************************************************)
EXTENDS Integers, FiniteSets

CONSTANTS Host, VM,
          TOTAL,        \* what the driver finds in a host
          Driverless,   \* the hosts whose information driver is not there
          MaxAsked      \* bound: MONITOR commands of a host in the driver

ASSUME HostAssumption == TOTAL \in Nat /\ Driverless \subseteq Host /\ MaxAsked \in Nat \ {0}

VARIABLES host,    \* Host: state and share
          asked    \* MONITOR commands in the driver

host_vars == <<host, asked>>

HostState == {"INIT", "MONITORED", "ERROR", "DISABLED",
              "MONITORING_INIT", "MONITORING_MONITORED", "MONITORING_ERROR", "MONITORING_DISABLED"}
HostShare == [state : HostState, max : {0, TOTAL}, usage : Int, vms : SUBSET VM]

isEnabled(x)    == x.state \notin {"DISABLED", "MONITORING_DISABLED"}
isMonitoring(x) == x.state \in {"MONITORING_INIT", "MONITORING_MONITORED", "MONITORING_ERROR", "MONITORING_DISABLED"}

MonitoringOf == [ERROR    |-> "MONITORING_ERROR",  MONITORED |-> "MONITORING_MONITORED",
                 INIT     |-> "MONITORING_INIT",   DISABLED  |-> "MONITORING_DISABLED"]
set_monitoring_state(x) == IF isMonitoring(x) THEN x ELSE [x EXCEPT !.state = MonitoringOf[@]]

touch(x, success) ==
  IF ~isMonitoring(x) THEN x
  ELSE [x EXCEPT !.state = IF @ = "MONITORING_DISABLED" THEN "DISABLED"
                           ELSE IF success THEN "MONITORED" ELSE "ERROR"]

(* The share.  A VM is added and taken away once.                          *)
add_capacity(x, v, cpu) ==
  IF v \in x.vms THEN x ELSE [x EXCEPT !.vms = @ \cup {v}, !.usage = @ + cpu]
del_capacity(x, v, cpu) ==
  IF v \in x.vms THEN [x EXCEPT !.vms = @ \ {v}, !.usage = @ - cpu] ELSE x
test_capacity(x, cpu)   == x.max - x.usage >= cpu

(* Hosts are new, or come from an earlier run of the daemon, which had     *)
(* their driver.                                                           *)
NewHost   == [state |-> "INIT", max |-> 0, usage |-> 0, vms |-> {}]
KnownHost == [state |-> "MONITORED", max |-> TOTAL, usage |-> 0, vms |-> {}]
HostInit ==
  /\ host \in [Host -> {NewHost, KnownHost}] /\ \A h \in Driverless : host[h] = KnownHost
  /\ asked = [h \in Host |-> 0]

-----------------------------------------------------------------------------
(* timer_action looks at the hosts that were last monitored long ago; one  *)
(* whose answer is late (monitor_expire) is asked for again.               *)
DoMonitor(x) == isEnabled(x) \/ x.vms # {}
monitor(h) ==
  /\ DoMonitor(host[h])
  /\ \/ /\ h \in Driverless
        /\ host' = [host EXCEPT ![h].state = "ERROR"]
        /\ UNCHANGED asked
     \/ /\ h \notin Driverless /\ asked[h] < MaxAsked
        /\ asked' = [asked EXCEPT ![h] = @ + 1]
        /\ host' = [host EXCEPT ![h] = set_monitoring_state(@)]
touch_disabled(h) ==
  /\ ~DoMonitor(host[h])
  /\ host' = [host EXCEPT ![h] = touch(@, TRUE)]
  /\ UNCHANGED asked
timer_action(h) == monitor(h) \/ touch_disabled(h)

(* The answer of the driver.  What it says of VMs is up to the LCM.        *)
update_info(x) ==
  LET y == touch(x, TRUE) IN IF isEnabled(y) THEN [y EXCEPT !.max = TOTAL] ELSE y
answer(h, success) ==
  /\ asked[h] > 0
  /\ asked' = [asked EXCEPT ![h] = @ - 1]
  /\ host' = [host EXCEPT ![h] = IF success THEN update_info(@) ELSE touch(@, FALSE)]

(* The driver crashes, recover does nothing: the timer asks again.         *)
driver_lost(h) ==
  /\ asked[h] > 0
  /\ asked' = [asked EXCEPT ![h] = 0]
  /\ UNCHANGED host

enable(h) ==
  /\ host' = [host EXCEPT ![h].state = "INIT"]
  /\ UNCHANGED asked
disable(h) ==
  /\ host' = [host EXCEPT ![h].state = "DISABLED", ![h].max = 0]
  /\ UNCHANGED asked

Monitoring(h) ==
  timer_action(h) \/ driver_lost(h) \/ \E success \in BOOLEAN : answer(h, success)

=============================================================================
