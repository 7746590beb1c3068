\* Two requests of the admin, visits of the user and one fault; enough workers for every retry.
SPECIFICATION FairSpec
CHECK_DEADLOCK FALSE
CONSTANTS
  Tenants = {2}
  Cmds = {c1, c2}
  Procs = {p1,p2,p3}
  Jobs = {j1,j2}
  c1 = c1
  c2 = c2
  p1 = p1
  p2 = p2
  p3 = p3
  j1 = j1
  j2 = j2
  None = None
  Failed = Failed
  MaxObjs = 4
  MaxJobs = 2
  Faults = {"crash", "spawn", "clean", "front", "shutdown", "timeout"}
  MaxFaults = 1
INVARIANTS
  WorkersAreKnown
PROPERTIES
  DeletionSucceeds
  WorkerComesBack
