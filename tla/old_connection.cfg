SPECIFICATION ClientSpec
CONSTANTS
  Clients = {c1}
  LockIds = {l1}
  Signals = {}
  Addresses = {k1, k2, k3}
  NoClient = NoClient
  NoAddress = NoAddress
  ReleaseAllTimeout = 1
  DefaultReleaseAllTimeout = 1
  RepeatConn = FALSE
  Reentrant = FALSE
PROPERTIES OldConnectionsDoNotMatter
