CONSTANTS
  ds0 = ds0
  oneadmin = oneadmin
  ogroup = ogroup
  c1 = c1
  c2 = c2
  h1 = h1
  d1 = d1
  d2 = d2
  n1 = n1
  i1 = i1
  g1 = g1
  g2 = g2
  u1 = u1
  u2 = u2
  NoId = NoId
  Oneadmin = oneadmin
  OneadminGroup = ogroup
  SystemDS = ds0
  Reserved = {ds0, oneadmin, ogroup}
  Object <- MCObject
  Kind <- MCKind
  Worlds <- MCWorlds
  AclRules <- MCRules
  Bits <- MCBits
  MaxCalls = 2
  Rash = {}
SPECIFICATION Spec
INVARIANT FsckMembers
INVARIANT RulesLive
INVARIANT ListsWhatMayBeUsed
CHECK_DEADLOCK FALSE
