SPECIFICATION PartsSpec
CONSTANTS
  Docs = {"own", "a", "b", "c"}
  Own = "own"
  Given = {"a"}
  Legacy = {"b"}
  MaxChanges = 4
  MaxAttempts = 2
  StaleAfter = 0
  BaseDelay = 0
  MaxDelay = 0
  NoJob = NoJob
  Poller = auto
  MaxCrashes = 1
  Jobs = {j1}
  Workers = {1, 2}
  Pollers = {}
  MaxEdits = 0
  Refusals = TRUE
  RedisFailures = FALSE
INVARIANTS SourcesAgree
PROPERTIES RecordsStand JobsSettle EventuallyFresh
CHECK_DEADLOCK FALSE
