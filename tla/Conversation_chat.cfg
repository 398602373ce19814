SPECIFICATION Spec
CONSTANTS
  Dreams = {1, 2}
  VoiceKinds = {"interpretation", "single"}
  MaxAsks = 2
  MaxRestarts = 1
  MaxOutages = 1
INVARIANTS DoneMeansAll RunOnce
PROPERTIES KeptUntilAnswered OverStaysOver
CHECK_DEADLOCK FALSE
