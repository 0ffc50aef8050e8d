SPECIFICATION ShutdownSpec
CONSTANTS
  Clients = {c1, c2}
  LockIds = {l1}
  Signals = {}
  Addresses = {}
  NoClient = NoClient
  NoAddress = NoAddress
  NoDump = NoDump
  ReleaseAllTimeout = 1
  DefaultReleaseAllTimeout = 1
  TimeoutIsText = FALSE
  MaxBoots = 0
CHECK_DEADLOCK FALSE
INVARIANTS DumpIsBetweenOperations
