SPECIFICATION FairSpec
CONSTANTS
  r1 = r1
  r2 = r2
  Runs = {r1, r2}
  BatchRuns = {r1}
  Place <- FirstThenSecond
  MaxJobs = 1
  Monitor = monitor
  Creator = creator
  Polls = {}
  Cancels = {c1}
PROPERTY OutcomesAreShown
CHECK_DEADLOCK FALSE
