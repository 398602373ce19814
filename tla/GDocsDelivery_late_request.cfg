SPECIFICATION Spec
CONSTANTS
  MaxAttempts = 2
  StaleAfter = 1
  BaseDelay = 1
  MaxDelay = 1
  JobSlots = {1}
  UserSlots = {2}
  ReceiptStale = 2
  CallLife = 1
  LateDelivery = TRUE
  MaxEdits = 0
  MaxClaims = 1
INVARIANTS InsertedOnce
