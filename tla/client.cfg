SPECIFICATION ClientSpec
CONSTANTS
  Clients = {c1, c2}
  LockIds = {l1}
  Signals = {}
  Addresses = {k1, k2}
  NoClient = NoClient
  NoAddress = NoAddress
  ReleaseAllTimeout = 1
  DefaultReleaseAllTimeout = 1
  RepeatConn = FALSE
  Reentrant = FALSE
SYMMETRY Symmetric
INVARIANTS ClientTypeOK OrphansAreOvertaken
PROPERTIES ReliedLocksAreLostByLapseOrLateRelease
