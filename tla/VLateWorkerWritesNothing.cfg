SPECIFICATION Spec
CONSTANTS
  r1 = r1
  r2 = r2
  r3 = r3
  j1 = j1
  j2 = j2
  t1 = t1
  t2 = t2
  NoRun = NoRun
  NoJob = NoJob
  Runs = {r1, r2}
  Jobs = {j1}
  Tenants = {t1}
  RunOwner <- OneTenant
  JobOwner <- OneOwner
  Slots = 1
  MaxJobs = 2
  MaxCached = 1
  MaxRestarts = 0
  MaxFaults = 0
  MaxTicks = 0
CHECK_DEADLOCK FALSE
PROPERTY LateWorkerWritesNothing
