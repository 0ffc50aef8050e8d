SPECIFICATION Spec
CONSTANTS
  Clients = {c1, c2}
  LockIds = {l1, l2}
  Signals = {s1}
  Addresses = {k1, k2, k3}
  NoClient = NoClient
  NoAddress = NoAddress
  ReleaseAllTimeout = 2
  DefaultReleaseAllTimeout = 2
  RepeatConn = TRUE
SYMMETRY Symmetric
INVARIANTS TypeOK IndexesAgree FindAgreesWithAcquire LatestConnectionKeepsLocks
PROPERTIES TenureEndsByReleaseOrLapse ImplementsLease
