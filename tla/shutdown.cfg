SPECIFICATION ShutdownSpec
CONSTANTS
  Clients = {c1, c2}
  LockIds = {l1, l2}
  Signals = {s1}
  Addresses = {k1}
  NoClient = NoClient
  NoAddress = NoAddress
  NoDump = NoDump
  ReleaseAllTimeout = 1
  DefaultReleaseAllTimeout = 1
  TimeoutIsText = FALSE
  MaxBoots = 0
CHECK_DEADLOCK FALSE
SYMMETRY SymmetricIds
INVARIANTS ShutdownTypeOK DumpIsFinal
PROPERTIES HandlersAreMethods
