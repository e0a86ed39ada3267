SPECIFICATION Spec
CONSTANTS
  r1 = r1
  r2 = r2
  Runs = {r1, r2}
  BatchRuns = {r1, r2}
  Place <- FirstThenSecond
  MaxJobs = 2
  Monitor = monitor
  Creator = creator
  Polls = {}
  Cancels = {c1}
INVARIANT TypeOK
INVARIANT RowsTellTheTruth
INVARIANT CancelTakesAll
CHECK_DEADLOCK FALSE
