CONSTANTS
  v1 = v1
  v2 = v2
  Net = {lan}
  VM <- MCVM
  Size = 2
  MaxNics = 2
  Rash = {}
  Absent = Absent
  Free = Free
  Held = Held
  NoNet = NoNet
  AnyIp = AnyIp
SYMMETRY Symmetry
SPECIFICATION Spec
INVARIANT FsckLeases
INVARIANT FreeAddressFound
CHECK_DEADLOCK FALSE
