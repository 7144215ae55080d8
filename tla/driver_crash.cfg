SPECIFICATION Spec
CONSTANTS
  h1 = h1
  h2 = h2
  NoHost = NoHost
  Hosts <- MCHosts
  MaxPending = 2
  DriversDie = TRUE
  Requests = {"DEPLOY", "SUSPEND", "STOP", "UNDEPLOY", "UNDEPLOY_HARD", "POWEROFF", "POWEROFF_HARD", "RESUME", "DELETE", "DETACH", "SNAPSHOT", "RESTART", "HOLD", "RELEASE", "SAVEAS", "REBOOT"}
INVARIANT CanRecover
INVARIANT HostAccounting
INVARIANT RunsOnItsHost
SYMMETRY Symmetry
\* a VM that is DONE may have nothing left to do
CHECK_DEADLOCK FALSE
