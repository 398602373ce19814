SPECIFICATION PartsSpec
CONSTANTS
  NoJob = NoJob
  Jobs = {j1}
  GoogleJobs = {}
  Workers = {w1, w2, w3}
  Operators = {op1}
  MaxAttempts = 2
  StaleAfter = 1
  BaseDelay = 1
  MaxDelay = 1
  HeartbeatInterval = 1
  StageTimeout = 1
  MaxRetries = 1
  Punctual = FALSE
  DreamJobs = {d1, d2}
  NoteJobs = {n1}
  SyncJobs = {s1, s2}
  BatchSize = 2
  MaxVoiceTasks = 1
  OutboxStop = 10
  VoiceStop = 5
  VoiceTasksStop = 10
  SyncStop = 15
  SyncAck = 1
  Deadline = 40
INVARIANTS OneOwner NoFalseSuccess TimeoutsFit SleepsOnlyWhenDrained ClosedMeansQuiet
PROPERTIES ImplementsLeasedWork CrowdSettles
CHECK_DEADLOCK FALSE
