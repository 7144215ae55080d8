SPECIFICATION FairSpec
CONSTANTS
  h1 = h1
  h2 = h2
  NoHost = NoHost
  Hosts <- MCHosts
  MaxPending = 1
  DriversDie = FALSE
  Requests <- AllRequests
INVARIANT TypeOK
 
PROPERTY OperationsEnd
PROPERTY FollowsDiagram
\* a VM that is DONE may have nothing left to do
CHECK_DEADLOCK FALSE
