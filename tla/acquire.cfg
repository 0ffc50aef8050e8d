SPECIFICATION FairLoopSpec
CONSTANTS
  patient = patient
  hasty = hasty
  forever = forever
  Waiters = {patient, hasty, forever}
  NoWaiter = NoWaiter
  Timeout <- MCTimeout
  retry_interval = 4
  MaxDelay = 2
INVARIANTS LoopTypeOK RaisesAtTheDeadline NoLockIsForgotten FreeLockIsTakenInTime
PROPERTIES EveryCallEnds
