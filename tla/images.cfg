SPECIFICATION Spec
SYMMETRY Symmetry
CONSTANTS
  i1 = i1
  i2 = i2
  v1 = v1
  v2 = v2
  NoImage = NoImage
  NoVM = NoVM
  Image <- MCImage
  VM <- MCVM
  MaxDisks = 1
  Rash = {}
INVARIANT UsesCounted
INVARIANT FsckClean
INVARIANT LockedIsAwaited
INVARIANT DatastoreCounted
CHECK_DEADLOCK FALSE
