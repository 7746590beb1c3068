SPECIFICATION Spec
CONSTANTS
  Calls = {c1, c2}
  Outgoing = {c1}
  c1 = c1
  c2 = c2
  None = None
  MaxRecs = 2
  MaxStarts = 1
  MaxRefusals = 1
  MaxPageLosses = 1
  MaxReloads = 1
  MaxCrashes = 1
  MaxBlocks = 1
  MaxToggles = 1
CHECK_DEADLOCK FALSE
CONSTRAINT FewDisturbances
INVARIANT RecorderIsHeld
INVARIANT BridgeFollowsCall
