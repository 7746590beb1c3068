SPECIFICATION FairSpec
CONSTANTS
  MaxGen = 4
  MaxRestarts = 1
  MaxStops = 1
  MaxLogouts = 1
  MaxLosses = 2
  MaxAuths = 2
  MaxNoise = 1
  MaxSlow = 1
CHECK_DEADLOCK FALSE
CONSTRAINT FewDisturbances
INVARIANT NeverStranded
INVARIANT PageCodeIsCurrent
PROPERTY ReloadResumes
