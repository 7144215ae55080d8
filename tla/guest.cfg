SPECIFICATION GuestSpec
CONSTANTS
  h1 = h1
  h2 = h2
  NoHost = NoHost
  FrontEnd = FrontEnd
  Store = Store
  Hosts <- MCHosts
  MaxPending = 3
  DriversDie = FALSE
  Requests <- AllRequests
  Rash = {}
INVARIANT HostsClean
INVARIANT StartsWell
INVARIANT DataKept
SYMMETRY Symmetry
\* a VM that is DONE may have nothing left to do
CHECK_DEADLOCK FALSE
