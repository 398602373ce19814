SPECIFICATION Spec
CONSTANTS
  Nobody = Nobody
  Workers = {w1,w2}
  Chunks = 1
  MaxAttempts = 2
  MaxInterrupts = 2
  LateIngress = FALSE
PROPERTIES NoFourthAttempt
