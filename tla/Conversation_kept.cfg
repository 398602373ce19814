SPECIFICATION Spec
CONSTANTS
  Dreams = {1}
  VoiceKinds = {"interpretation", "single"}
  MaxAsks = 2
  MaxRestarts = 0
  MaxOutages = 0
INVARIANTS KeptForChoice
CHECK_DEADLOCK FALSE
