SPECIFICATION FairSpec
CONSTANTS
  r1 = r1
  r2 = r2
  r3 = r3
  j1 = j1
  j2 = j2
  t1 = t1
  t2 = t2
  NoRun = NoRun
  NoJob = NoJob
  Runs = {r1, r2, r3}
  Jobs = {}
  Tenants = {t1, t2}
  RunOwner <- TwoTenants
  JobOwner <- TwoOwners
  Slots = 1
  MaxJobs = 2
  MaxCached = 1
  MaxRestarts = 1
  MaxFaults = 0
  MaxTicks = 0
INVARIANT RunsAreSerialized
PROPERTY QueuedIsServed
CHECK_DEADLOCK FALSE
