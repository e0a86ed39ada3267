SPECIFICATION TaskSpec
CONSTANTS
  Queued = {q1, q2, q3, q4}
  Direct = {}
  Cap = 4
  StreakLimit = 3
  MaxCalls = 1
  MaxDays = 0
  MaxRestarts = 0
PROPERTY FailuresTripTheBreaker
CHECK_DEADLOCK FALSE
