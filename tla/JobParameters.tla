--------------------------- MODULE JobParameters ---------------------------
(* The constants of an outbox row and what is assumed of them.               *)
EXTENDS Integers

CONSTANTS
  MaxAttempts,   \* MAX_PROCESSING_ATTEMPTS
  StaleAfter,    \* STALE_JOB_AFTER, in ticks
  BaseDelay,     \* the first retry delay, in ticks
  MaxDelay       \* MAX_RETRY_DELAY, in ticks

ASSUME BudgetAssumption == MaxAttempts \in Nat \ {0}
ASSUME ClockAssumption ==
  StaleAfter \in Nat /\ BaseDelay \in Nat /\ MaxDelay \in Nat
=============================================================================
