SPECIFICATION Spec
CONSTANTS
  Nobody = Nobody
  Workers = {w1,w2}
  Chunks = 1
  MaxAttempts = 2
  MaxInterrupts = 1
  LateIngress = TRUE
INVARIANTS OneReply
