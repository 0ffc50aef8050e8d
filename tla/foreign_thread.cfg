SPECIFICATION ThreadedSpec
CONSTANTS
  Clients = {c1, c2}
  LockIds = {l1}
  Signals = {}
  Addresses = {k1, k2}
  Processes = {p1, p2}
  NoClient = NoClient
  NoAddress = NoAddress
  ReleaseAllTimeout = 1
  DefaultReleaseAllTimeout = 1
  RepeatConn = FALSE
CHECK_DEADLOCK FALSE
INVARIANTS AcquiredIsOwned
