SPECIFICATION Spec
CONSTANTS
  MaxAttempts = 2
  StaleAfter = 0
  BaseDelay = 0
  MaxDelay = 0
  NoJob = NoJob
  MaxCrashes = 2
  Jobs = {j1}
  Workers = {1}
  Pollers = {}
  MaxEdits = 1
  Refusals = FALSE
  RedisFailures = FALSE
INVARIANTS MarkerIngested
CHECK_DEADLOCK FALSE
