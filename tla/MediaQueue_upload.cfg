SPECIFICATION FairSpec
CHECK_DEADLOCK FALSE
CONSTRAINT FewDisturbances
CONSTANTS
  Msgs = {m1}
  Sent = {m1}
  Slots = {s1}
  Files = {f1, f2, f3}
  f1 = f1
  f2 = f2
  f3 = f3
  m1 = m1
  s1 = s1
  None = None
  MAX_ATTEMPTS = 2
  REOFFER_LIMIT = 3
  RestoreLimit = 9
  Offered = {"pending", "none"}
  MaxDrops = 1
  MaxReloads = 1
  MaxCrashes = 1
  MaxWipes = 1
  MaxRetries = 1
  MaxDiskFull = 1

  
PROPERTIES
  EveryDownloadSettles
