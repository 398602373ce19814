SPECIFICATION BothSpec
CONSTANTS
  Nobody = Nobody
  Workers = {w1, w2}
  Chunks = 2
  MaxAttempts = 2
  MaxInterrupts = 2
  LateIngress = FALSE
INVARIANTS OneReply DeliveredWhole RepeatsExplained
PROPERTIES TranscribedOnce SplitEnds
