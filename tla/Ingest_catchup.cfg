SPECIFICATION FairSpec
CONSTANTS
  Msgs = {m1}
  m1 = m1
  None = None
  EditKeys = TRUE
  MaxEdits = 1
  MaxAck = 1
  MaxQueue = 2
  MaxLost = 2
  MaxDups = 1
  MaxCrashes = 1
  MaxBlocks = 2
  MaxFails = 1
CHECK_DEADLOCK FALSE
CONSTRAINT FewDisturbances
INVARIANT BlockedStaysOut
PROPERTY LogPromise
PROPERTY CatchesUp
