---------------------------- MODULE JobRowProofs ----------------------------
(***************************************************************************)
(* What the row operators of JobRow return, for every attempt budget and   *)
(* every setting of the clocks.                                            *)
(***************************************************************************)
EXTENDS JobRow, TLAPS

LEMMA UnlockedNat == Unlocked \in Nat /\ StaleAfter \in 0..Unlocked
  BY ClockAssumption DEF Unlocked

LEMMA RetryDelayType == \A n : RetryDelay(n) \in 0..MaxDelay
  BY ClockAssumption DEF RetryDelay

LEMMA ClosedType ==
  ASSUME NEW r \in Rows, NEW s \in Statuses
  PROVE  /\ Closed(r, s) \in Rows
         /\ Closed(r, s).status = s /\ Closed(r, s).token = NoToken
         /\ Closed(r, s).attempts = r.attempts
<1>1. Unlocked \in 0..Unlocked /\ NoToken \in Nat
  BY UnlockedNat DEF NoToken
<1>2. Closed(r, s) \in Rows
  BY <1>1, Zenon DEF Closed, Rows
<1>3. QED
  BY <1>2, SMT DEF Closed, Rows

LEMMA ClaimedType ==
  ASSUME NEW r \in Rows, NEW t \in Nat, r.attempts < MaxAttempts
  PROVE  /\ Claimed(r, t) \in Rows
         /\ Claimed(r, t).status = "running" /\ Claimed(r, t).token = t
         /\ Claimed(r, t).attempts = r.attempts + 1
<1>1. /\ r.attempts + 1 \in 0..MaxAttempts
      /\ 0 \in 0..Unlocked /\ "running" \in Statuses
  BY UnlockedNat, BudgetAssumption DEF Rows, Statuses
<1>2. Claimed(r, t) \in Rows
  BY <1>1, Zenon DEF Claimed, Rows
<1>3. QED
  BY <1>2, SMT DEF Claimed, Rows

LEMMA RenewedType ==
  ASSUME NEW r \in Rows
  PROVE  /\ Renewed(r) \in Rows
         /\ Renewed(r).status = r.status /\ Renewed(r).token = r.token
         /\ Renewed(r).attempts = r.attempts
  BY UnlockedNat DEF Renewed, Rows

LEMMA FailedAttemptType ==
  ASSUME NEW r \in Rows, NEW n \in 0..MaxAttempts
  PROVE  /\ FailedAttempt(r, n) \in Rows
         /\ FailedAttempt(r, n).status = IF n >= MaxAttempts THEN "failed" ELSE "retryable"
         /\ FailedAttempt(r, n).token = NoToken
         /\ FailedAttempt(r, n).attempts = r.attempts
<1> DEFINE s == IF n >= MaxAttempts THEN "failed" ELSE "retryable"
<1>1. s \in Statuses
  BY DEF Statuses
<1>2. /\ Closed(r, s) \in Rows /\ Closed(r, s).status = s
      /\ Closed(r, s).token = NoToken /\ Closed(r, s).attempts = r.attempts
  BY <1>1, ClosedType
<1>3. FailedAttempt(r, n) = [Closed(r, s) EXCEPT !.wait = RetryDelay(n)]
  BY DEF FailedAttempt
<1> HIDE DEF s
<1>4. QED
  BY <1>2, <1>3, RetryDelayType DEF Rows, s

LEMMA RearmedType ==
  ASSUME NEW r \in Rows
  PROVE  /\ Rearmed(r) \in Rows
         /\ Rearmed(r).status = "retryable" /\ Rearmed(r).token = r.token
         /\ Rearmed(r).attempts = 0
<1>1. 0 \in 0..MaxAttempts /\ 0 \in 0..MaxDelay /\ "retryable" \in Statuses
  BY ClockAssumption, BudgetAssumption DEF Statuses
<1>2. Rearmed(r) \in Rows
  BY <1>1, Zenon DEF Rearmed, Rows
<1>3. QED
  BY <1>2, SMT DEF Rearmed, Rows

LEMMA AgedType ==
  ASSUME NEW r \in Rows
  PROVE  /\ Aged(r) \in Rows
         /\ Aged(r).status = r.status /\ Aged(r).token = r.token
         /\ Aged(r).attempts = r.attempts
<1> DEFINE a == IF r.age < Unlocked THEN r.age + 1 ELSE r.age
           d == IF r.wait > 0 THEN r.wait - 1 ELSE r.wait
<1>1. a \in 0..Unlocked /\ d \in 0..MaxDelay
  BY UnlockedNat, ClockAssumption DEF Rows
<1>2. Aged(r) = [r EXCEPT !.age = a, !.wait = d]
  BY DEF Aged
<1> HIDE DEF a, d
<1>3. Aged(r) \in Rows
  BY <1>1, <1>2, Zenon DEF Rows
<1>4. QED
  BY <1>2, <1>3, SMT DEF Rows

LEMMA NewRowType == NewRow \in Rows
  BY UnlockedNat, ClockAssumption, BudgetAssumption DEF NewRow, Rows, Statuses, NoToken
=============================================================================
