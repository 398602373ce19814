SPECIFICATION BothSpec
CONSTANTS
  MaxAttempts = 3
  StaleAfter = 2
  BaseDelay = 1
  MaxDelay = 4
  JobSlots = {1, 3}
  UserSlots = {2}
  ReceiptStale = 2
  CallLife = 1
  LateDelivery = FALSE
  MaxEdits = 1
  MaxClaims = 1
INVARIANTS InsertedOnce BudgetOutlastsClaim
PROPERTIES ReceiptStands
