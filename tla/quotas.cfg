CONSTANTS
  alice = alice
  bob = bob
  staff = staff
  guests = guests
  NoAccount = NoAccount
  NoVM = NoVM
  User <- MCUser
  Group <- MCGroup
  GroupOf <- MCGroupOf
  FirstLimits <- MCFirstLimits
  Settings <- MCSettings
  Askers <- MCAskers
  VM = {v1}
  Cpus = {1, 2}
  MaxNics = 1
  MaxCalls = 2
  MaxSlips = 1
  Rash = {}
  LAST_DEFAULT = 2
  MaxOid = 3
  MaxKills = 1
  Failing <- Unsure
SPECIFICATION StateSpec
INVARIANT LedgersExact
INVARIANT ServesWhole
INVARIANT NumbersGivenOnce
PROPERTY LimitKept
CHECK_DEADLOCK FALSE
