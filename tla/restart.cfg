SPECIFICATION FairShutdownSpec
CONSTANTS
  Clients = {c1, c2}
  LockIds = {l1}
  Signals = {s1}
  Addresses = {}
  NoClient = NoClient
  NoAddress = NoAddress
  NoDump = NoDump
  ReleaseAllTimeout = 1
  DefaultReleaseAllTimeout = 1
  TimeoutIsText = FALSE
  MaxBoots = 1
CHECK_DEADLOCK FALSE
INVARIANTS MemoryIsWhole
PROPERTIES RestartKeepsLocks ServerExits
