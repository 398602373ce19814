------------------------------- MODULE JobRow -------------------------------
(***************************************************************************)
(* One row of a durable outbox table (dream_processing_jobs and, with the  *)
(* same columns, note_processing_jobs) and what each UPDATE of the workers *)
(* does to it.  The module has no variables: the outbox modules apply these *)
(* operators to the rows they keep.                                        *)
(*                                                                         *)
(* Clocks are relative.  age is the time since locked_at, capped just past *)
(* STALE_JOB_AFTER, so that a NULL locked_at and one that is too old are   *)
(* the same value, as they are to every query of the code.  wait is the    *)
(* time left until available_at.                                           *)
(***************************************************************************)
EXTENDS JobParameters

Statuses == {"pending", "running", "retryable", "succeeded", "failed"}
NoToken  == 0                  \* lock_token IS NULL
Unlocked == StaleAfter + 1     \* locked_at IS NULL, or older than the lease

Rows == [status : Statuses, attempts : 0..MaxAttempts, token : Nat,
         age : 0..Unlocked, wait : 0..MaxDelay]

NewRow == [status |-> "pending", attempts |-> 0, token |-> NoToken,
           age |-> Unlocked, wait |-> 0]

Terminal(r) == r.status \in {"succeeded", "failed"}
Waiting(r)  == r.status \in {"pending", "retryable"}

StaleAnyAge(r) == r.status = "running"                       \* mutant of Stale
Stale(r) == r.status = "running" /\ r.age > StaleAfter

Eligible(r) ==
  /\ r.attempts < MaxAttempts
  /\ (Waiting(r) /\ r.wait = 0) \/ Stale(r)

ExhaustedNever(r) == FALSE                                   \* mutant of Exhausted
Exhausted(r) == Stale(r) /\ r.attempts >= MaxAttempts

HeldByStatus(r, t) == r.status = "running"                   \* mutant of HeldBy
HeldBy(r, t) == r.status = "running" /\ r.token = t

RetryDelayFlat(n) == BaseDelay                               \* mutant of RetryDelay
\* min(60 * 2^(n - 1), MAX_RETRY_DELAY)
RetryDelay(n) ==
  LET d == BaseDelay * 2 ^ (n - 1)
  IN  IF d \in 0..MaxDelay THEN d ELSE MaxDelay

Claimed(r, t) ==
  [r EXCEPT !.status = "running", !.attempts = @ + 1, !.token = t, !.age = 0]

Renewed(r) == [r EXCEPT !.age = 0]

Closed(r, s) == [r EXCEPT !.status = s, !.token = NoToken, !.age = Unlocked]

FailedAttempt(r, n) ==
  [Closed(r, IF n >= MaxAttempts THEN "failed" ELSE "retryable")
     EXCEPT !.wait = RetryDelay(n)]

\* The ORM object was loaded with locked_at and lock_token NULL, so assigning
\* None to them changes nothing and the UPDATE leaves both columns alone.
Rearmed(r) == [r EXCEPT !.status = "retryable", !.attempts = 0, !.wait = 0]

Aged(r) == [r EXCEPT !.age  = IF @ < Unlocked THEN @ + 1 ELSE @,
                     !.wait = IF @ > 0 THEN @ - 1 ELSE @]
=============================================================================
