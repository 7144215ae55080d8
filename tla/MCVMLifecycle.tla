---------------------------- MODULE MCVMLifecycle ----------------------------
(***************************************************************************)
(* Instances of VMLifecycle for TLC: two hosts, of which neither is        *)
(* special, and every kind of request.                                     *)
(***************************************************************************)
EXTENDS VMLifecycle

CONSTANTS h1, h2

MCHosts  == {h1, h2}
Symmetry == Permutations(MCHosts)

AllRequests ==
  {"DEPLOY", "DEPLOY_ENFORCE", "MIGRATE", "LIVE_MIGRATE", "SHUTDOWN", "CANCEL",
   "UNDEPLOY", "UNDEPLOY_HARD", "POWEROFF", "POWEROFF_HARD", "STOP", "SUSPEND",
   "ATTACH", "DETACH", "ATTACH_NIC", "DETACH_NIC", "SNAPSHOT", "REBOOT",
   "RESTART", "HOLD", "RELEASE", "RESUME", "DELETE", "RESUBMIT", "SAVEAS",
   "RECOVER"}
=============================================================================
