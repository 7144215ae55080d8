SPECIFICATION FairSpec
CONSTANTS
  h1 = h1
  h2 = h2
  NoHost = NoHost
  Hosts <- MCHosts
  MaxPending = 2
  DriversDie = FALSE
  Requests = {"DEPLOY", "STOP", "RESUME", "SAVEAS", "DELETE", "RESUBMIT", "RECOVER"}
INVARIANT StatesAgree
INVARIANT UnplacedWaits
INVARIANT ReleasedOnce
INVARIANT NeverStuck
PROPERTY DoneIsFinal
PROPERTY CleanupEnds
\* a VM that is DONE may have nothing left to do
CHECK_DEADLOCK FALSE
