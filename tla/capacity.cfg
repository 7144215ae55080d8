SPECIFICATION Spec
CONSTANTS
  h1 = h1  h2 = h2  v1 = v1  v2 = v2  u1 = u1  u2 = u2
  Host = {h1, h2}
  VM = {v1, v2}
  User = {u1, u2}
  TOTAL = 100
  Driverless = {h2}
  MaxAsked = 1
  CPU = {500, 1000}
  MaxHost = 2
  Rash = {}
  Bounds <- TwoAskers
  NoHost = NoHost  NoVM = NoVM
INVARIANT FsckHosts
INVARIANT WithinCapacity
CHECK_DEADLOCK FALSE
SYMMETRY Symmetric
