SPECIFICATION Spec
CONSTANTS
  MaxAttempts = 2
  StaleAfter = 0
  BaseDelay = 0
  MaxDelay = 0
  NoJob = NoJob
  MaxCrashes = 2
  Jobs = {}
  Workers = {}
  Pollers = {auto}
  MaxEdits = 1
  Refusals = TRUE
  RedisFailures = FALSE
INVARIANTS RefusalShown
