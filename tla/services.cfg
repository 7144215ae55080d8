SPECIFICATION ServicesSpec
CONSTANTS
  i1 = i1  i2 = i2  v1 = v1  h1 = h1  h2 = h2
  NoImage = NoImage  NoVM = NoVM  NoNode = NoNode
  Image = {i1, i2}
  VM = {v1}
  MaxDisks = 1
  Rash = {"DELETE_ALLOCATING", "DELETE_ATTACHING", "DETACH_SAVED"}
  Job <- Jobs
  Node = {h1, h2}
  Room = 1
  May <- Managed
  Fulfil <- Meeting
  RankOf <- Ranks
  Planned = {0}
  MAX_VM = 3
  MAX_DISPATCH = 2
  MAX_HOST = 2
  MaxMoves = 3
  Meddling = {}
  Hooked <- Hooks_on
  VmHooks = {"RUNNING", "DONE"}
  HostHooks = {"CREATE", "ERROR"}
  Mischance = {}
INVARIANT CopiesHarmless
INVARIANT HooksOneShot
 
PROPERTY ServicesEnd
CHECK_DEADLOCK FALSE
