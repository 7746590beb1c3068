\* Two accounts but room for one browser, two requests, a shutdown, one exit of a process.
SPECIFICATION FairSpec
CHECK_DEADLOCK FALSE
CONSTANTS
  Ids = {a, b}
  b = b
  Requests = {r1, r2}
  Clients = {"chromium"}
  a = a
  r1 = r1
  r2 = r2
  MaxInstances = 1
  MaxObjs = 2
  MaxRuns = 2
  MaxRequests = 2
  MaxCrashes = 1
  None = None
INVARIANTS
  NoRunIsLost

  
