---------------------------- MODULE OutboxProofs -----------------------------
(***************************************************************************)
(* Proofs about DreamOutbox for every set of jobs, workers and operators,   *)
(* every attempt budget and every setting of the clocks, punctual or not.  *)
(***************************************************************************)
EXTENDS DreamOutbox, JobRowProofs

-----------------------------------------------------------------------------
(* The inductive invariant.                                                *)

\* Lease tokens of live claims are issued ones, and no two claims share one.
Tickets ==
  /\ \A w \in Workers : run[w].pc # "idle" => run[w].token \in 1..issued
  /\ \A w, v \in Workers :
       run[w].pc # "idle" /\ run[v].pc # "idle" /\ run[w].token = run[v].token => w = v

\* A worker about to report success has seen its stage's work stored.
ReportsWork == \A w \in Workers : run[w].pc = "ok" => run[w].job \in done

IInv == /\ TypeOK /\ Tickets /\ OwnerKnowsAttempt
        /\ NoFalseSuccess /\ ReportsWork /\ NothingStranded

LEMMA IdleType == Idle \in Runs
  BY TimerAssumption, BudgetAssumption DEF Idle, Runs, NoToken

LEMMA SweptRows ==
  ASSUME TypeOK, NEW S
  PROVE  /\ Swept(S) \in [Jobs -> Rows]
         /\ \A k \in Jobs :
              \/ Swept(S)[k] = row[k]
              \/ /\ row[k].attempts = MaxAttempts
                 /\ Swept(S)[k].attempts = MaxAttempts
                 /\ Swept(S)[k].status = "failed"
<1>1. "failed" \in Statuses
  BY DEF Statuses
<1>2. ASSUME NEW k \in Jobs
      PROVE  /\ Swept(S)[k] \in Rows
             /\ \/ Swept(S)[k] = row[k]
                \/ /\ row[k].attempts = MaxAttempts
                   /\ Swept(S)[k].attempts = MaxAttempts
                   /\ Swept(S)[k].status = "failed"
  <2>1. row[k] \in Rows
    BY DEF TypeOK
  <2>2. /\ Closed(row[k], "failed") \in Rows
        /\ Closed(row[k], "failed").status = "failed"
        /\ Closed(row[k], "failed").attempts = row[k].attempts
    BY <1>1, <2>1, ClosedType
  <2>3. Exhausted(row[k]) => row[k].attempts = MaxAttempts
    BY <2>1, BudgetAssumption DEF Exhausted, Rows
  <2>4. Swept(S)[k] = IF k \in S /\ Exhausted(row[k])
                      THEN Closed(row[k], "failed") ELSE row[k]
    BY DEF Swept
  <2>5. QED
    BY <2>1, <2>2, <2>3, <2>4
<1>3. QED
  BY <1>2 DEF Swept

LEMMA InitIInv == Init => IInv
<1> SUFFICES ASSUME Init PROVE IInv
  OBVIOUS
<1>1. TypeOK
  BY NewRowType, IdleType, TimerAssumption DEF Init, TypeOK, Idle
<1>2. QED
  BY <1>1, BudgetAssumption
     DEF Init, IInv, Tickets, OwnerKnowsAttempt, Owns, NoFalseSuccess, ReportsWork,
         NothingStranded, NewRow, Idle, Waiting

LEMMA LeaseIInv ==
  ASSUME IInv, NEW w \in Workers, NEW S \in Scopes, NEW j \in S,
         run[w].pc = "idle", Lease(w, S, j), UNCHANGED <<done, plan, retries>>
  PROVE  IInv'
<1> DEFINE claim == [Idle EXCEPT !.pc = "claimed", !.job = j, !.token = issued + 1,
                                 !.attempt = row[j].attempts + 1, !.beating = TRUE]
<1>1. j \in Jobs /\ row[j] \in Rows /\ issued \in Nat /\ issued' = issued + 1
  BY DEF Scopes, IInv, TypeOK, Lease
<1>2. row[j].attempts < MaxAttempts /\ row[j].attempts \in 0..MaxAttempts
  BY <1>1 DEF Lease, Eligible, Rows
<1>3. /\ Swept(S) \in [Jobs -> Rows]
      /\ \A k \in Jobs :
           \/ Swept(S)[k] = row[k]
           \/ /\ row[k].attempts = MaxAttempts
              /\ Swept(S)[k].attempts = MaxAttempts
              /\ Swept(S)[k].status = "failed"
  BY SweptRows DEF IInv
<1>4. Swept(S)[j] = row[j]
  BY <1>1, <1>2, <1>3, BudgetAssumption
<1>5. /\ Claimed(row[j], issued + 1) \in Rows
      /\ Claimed(row[j], issued + 1).status = "running"
      /\ Claimed(row[j], issued + 1).token = issued + 1
      /\ Claimed(row[j], issued + 1).attempts = row[j].attempts + 1
  BY <1>1, <1>2, ClaimedType
<1>6. /\ row' \in [Jobs -> Rows]
      /\ row'[j] = Claimed(row[j], issued + 1)
      /\ \A k \in Jobs \ {j} : row'[k] = Swept(S)[k]
  BY <1>1, <1>3, <1>4, <1>5 DEF Lease
<1>7. row[j].attempts + 1 \in 0..MaxAttempts /\ issued + 1 \in Nat
  BY <1>1, <1>2, BudgetAssumption
<1>8. /\ claim \in Runs /\ claim.pc = "claimed" /\ claim.job = j
      /\ claim.token = issued + 1 /\ claim.attempt = row[j].attempts + 1
  BY <1>1, <1>7, IdleType, Zenon DEF Runs, Idle
<1>9. /\ run' = [run EXCEPT ![w] = claim]
      /\ run \in [Workers -> Runs]
      /\ run'[w] = claim /\ \A v \in Workers \ {w} : run'[v] = run[v]
  BY DEF Lease, IInv, TypeOK
<1> HIDE DEF claim
<1>10. TypeOK'
  BY <1>1, <1>6, <1>7, <1>8, <1>9 DEF IInv, TypeOK
<1>11. Tickets'
  BY <1>1, <1>8, <1>9 DEF IInv, Tickets
<1>12. OwnerKnowsAttempt'
  <2> SUFFICES ASSUME NEW v \in Workers, Owns(v)'
               PROVE  (run[v].attempt = row[run[v].job].attempts)'
    BY DEF OwnerKnowsAttempt
  <2>1. CASE v = w
    BY <2>1, <1>5, <1>6, <1>8, <1>9
  <2>2. CASE v # w
    <3>1. run'[v] = run[v] /\ run[v].pc # "idle" /\ run[v].job \in Jobs
      BY <2>2, <1>9 DEF Owns, IInv, TypeOK
    <3>2. run[v].token \in 1..issued
      BY <3>1 DEF IInv, Tickets
    <3>3. HeldBy(row'[run[v].job], run[v].token)
      BY <3>1 DEF Owns
    <3>4. run[v].job # j
      BY <3>2, <3>3, <1>1, <1>5, <1>6 DEF HeldBy
    <3>5. row'[run[v].job] = row[run[v].job]
      BY <3>1, <3>3, <3>4, <1>3, <1>6 DEF HeldBy
    <3>6. QED
      BY <3>1, <3>3, <3>5 DEF Owns, IInv, OwnerKnowsAttempt
  <2>3. QED
    BY <2>1, <2>2
<1>13. NoFalseSuccess' /\ ReportsWork' /\ NothingStranded'
  BY <1>1, <1>3, <1>5, <1>6, <1>8, <1>9
     DEF IInv, NoFalseSuccess, ReportsWork, NothingStranded, Waiting
<1>14. QED
  BY <1>10, <1>11, <1>12, <1>13 DEF IInv

\* Every other step only shrinks what is owned: a run keeps its claim or becomes
\* idle, a row keeps its lease or leaves "running".
Shrinks ==
  /\ row' \in [Jobs -> Rows] /\ run' \in [Workers -> Runs]
  /\ issued' = issued /\ done \subseteq done' /\ done' \subseteq Jobs
  /\ plan' \in [Operators -> SUBSET Jobs] /\ retries' \in 0..MaxRetries
  /\ \A w \in Workers :
       \/ run'[w].pc = "idle"
       \/ /\ run[w].pc # "idle"
          /\ run'[w].job = run[w].job /\ run'[w].token = run[w].token
          /\ run'[w].attempt = run[w].attempt
          /\ run'[w].pc = "ok" => run[w].job \in done'
  /\ \A j \in Jobs :
       /\ row'[j].status = "running" =>
            /\ row[j].status = "running" /\ row'[j].token = row[j].token
            /\ row'[j].attempts = row[j].attempts
       /\ row'[j].status = "succeeded" => j \in done'
       /\ Waiting(row'[j]) => row'[j].attempts < MaxAttempts
       /\ row'[j].status = "failed" => row'[j].attempts = MaxAttempts

LEMMA ShrinksIInv == ASSUME IInv, Shrinks PROVE IInv'
<1>1. TypeOK'
  BY DEF Shrinks, IInv, TypeOK
<1>2. Tickets'
  BY DEF Shrinks, IInv, Tickets
<1>3. OwnerKnowsAttempt'
  <2> SUFFICES ASSUME NEW w \in Workers, Owns(w)'
               PROVE  (run[w].attempt = row[run[w].job].attempts)'
    BY DEF OwnerKnowsAttempt
  <2>1. /\ run[w].pc # "idle" /\ run[w].job \in Jobs
        /\ run'[w].job = run[w].job /\ run'[w].token = run[w].token
        /\ run'[w].attempt = run[w].attempt
    BY DEF Owns, Shrinks, IInv, TypeOK
  <2>2. row'[run[w].job].status = "running" /\ row'[run[w].job].token = run[w].token
    BY <2>1 DEF Owns, HeldBy
  <2>3. /\ row[run[w].job].status = "running" /\ row[run[w].job].token = run[w].token
        /\ row'[run[w].job].attempts = row[run[w].job].attempts
    BY <2>1, <2>2 DEF Shrinks
  <2>4. Owns(w)
    BY <2>1, <2>3 DEF Owns, HeldBy
  <2>5. QED
    BY <2>1, <2>3, <2>4 DEF IInv, OwnerKnowsAttempt
<1>4. NoFalseSuccess' /\ NothingStranded'
  BY DEF Shrinks, NoFalseSuccess, NothingStranded
<1>5. ReportsWork'
  BY DEF Shrinks, ReportsWork
<1>6. QED
  BY <1>1, <1>2, <1>3, <1>4, <1>5 DEF IInv

\* The rows, seen as Shrinks sees them, in a state that satisfies IInv.
RowKept(j) ==
  /\ row[j].status = "succeeded" => j \in done
  /\ Waiting(row[j]) => row[j].attempts < MaxAttempts
  /\ row[j].status = "failed" => row[j].attempts = MaxAttempts

LEMMA RowsKept == ASSUME IInv PROVE \A j \in Jobs : row[j] \in Rows /\ RowKept(j)
  BY DEF IInv, TypeOK, NoFalseSuccess, NothingStranded, RowKept

LEMMA RunsKept ==
  ASSUME IInv PROVE \A w \in Workers : run[w].pc = "ok" => run[w].job \in done
  BY DEF IInv, ReportsWork

\* A step of one worker that touches no row: CheckLease, the outcomes of a stage,
\* a failed heartbeat, Abandon.
LEMMA RunStep ==
  ASSUME IInv, NEW w \in Workers, NEW r \in Runs,
         run' = [run EXCEPT ![w] = r],
         \/ r.pc = "idle"
         \/ /\ run[w].pc # "idle" /\ r.job = run[w].job /\ r.token = run[w].token
            /\ r.attempt = run[w].attempt /\ (r.pc = "ok" => r.job \in done'),
         done \subseteq done', done' \subseteq Jobs,
         UNCHANGED <<row, issued, plan, retries>>
  PROVE  IInv'
<1>1. run' \in [Workers -> Runs] /\ run'[w] = r /\ \A v \in Workers \ {w} : run'[v] = run[v]
  BY DEF IInv, TypeOK
<1>2. Shrinks
  BY <1>1, RowsKept, RunsKept DEF Shrinks, IInv, TypeOK, RowKept
<1>3. QED
  BY <1>2, ShrinksIInv

\* A step that rewrites rows only, keeping every lease it leaves running.
LEMMA RowStep ==
  ASSUME IInv, NEW f \in [Jobs -> Rows], row' = f,
         UNCHANGED <<run, issued>>, done \subseteq done', done' \subseteq Jobs,
         plan' \in [Operators -> SUBSET Jobs], retries' \in 0..MaxRetries,
         \A j \in Jobs :
           /\ f[j].status = "running" =>
                /\ row[j].status = "running" /\ f[j].token = row[j].token
                /\ f[j].attempts = row[j].attempts
           /\ f[j].status = "succeeded" => j \in done'
           /\ Waiting(f[j]) => f[j].attempts < MaxAttempts
           /\ f[j].status = "failed" => f[j].attempts = MaxAttempts
  PROVE  IInv'
<1>1. Shrinks
  BY RunsKept DEF Shrinks, IInv, TypeOK
<1>2. QED
  BY <1>1, ShrinksIInv

LEMMA OutcomeType ==
  ASSUME TypeOK, NEW w \in Workers, NEW pc \in {"ok", "error"}
  PROVE  [run[w] EXCEPT !.pc = pc, !.beating = FALSE] \in Runs
<1>1. run[w] \in Runs
  BY DEF TypeOK
<1>2. FALSE \in BOOLEAN /\ pc \in {"idle", "claimed", "working", "ok", "error"}
  OBVIOUS
<1>3. QED
  BY <1>1, <1>2, Zenon DEF Runs

LEMMA OutcomeIInv ==
  ASSUME IInv, NEW w \in Workers, NEW pc \in {"ok", "error"}, run[w].pc # "idle",
         Outcome(w, pc), pc = "ok" => run[w].job \in done',
         done \subseteq done', done' \subseteq Jobs,
         UNCHANGED <<row, issued, plan, retries>>
  PROVE  IInv'
<1> DEFINE r == [run[w] EXCEPT !.pc = pc, !.beating = FALSE]
<1>1. TypeOK /\ run[w] \in Runs
  BY DEF IInv, TypeOK
<1>2. r \in Runs
  BY <1>1, OutcomeType
<1>3. /\ r.pc = pc /\ r.job = run[w].job /\ r.token = run[w].token
      /\ r.attempt = run[w].attempt
  BY <1>1 DEF Runs
<1>4. run' = [run EXCEPT ![w] = r]
  BY DEF Outcome
<1> HIDE DEF r
<1>5. QED
  BY <1>2, <1>3, <1>4, RunStep

LEMMA ClaimIInv == ASSUME IInv, NEW w \in Workers, Claim(w) PROVE IInv'
<1>1. PICK S \in Scopes : NothingToLease(S) \/ \E j \in S : Lease(w, S, j)
  BY DEF Claim
<1>2. CASE NothingToLease(S)
  <2>1. /\ Swept(S) \in [Jobs -> Rows] /\ row' = Swept(S)
        /\ \A k \in Jobs :
             \/ Swept(S)[k] = row[k]
             \/ /\ row[k].attempts = MaxAttempts
                /\ Swept(S)[k].attempts = MaxAttempts
                /\ Swept(S)[k].status = "failed"
    BY <1>2, SweptRows DEF IInv, NothingToLease
  <2>2. UNCHANGED <<run, issued, done, plan, retries>>
    BY <1>2 DEF Claim, NothingToLease
  <2>3. \A k \in Jobs : row[k] \in Rows /\ RowKept(k)
    BY RowsKept
  <2> DEFINE f == Swept(S)
  <2>4. f \in [Jobs -> Rows] /\ row' = f
    BY <2>1
  <2>5. \A k \in Jobs :
           /\ f[k].status = "running" =>
                /\ row[k].status = "running" /\ f[k].token = row[k].token
                /\ f[k].attempts = row[k].attempts
           /\ f[k].status = "succeeded" => k \in done'
           /\ Waiting(f[k]) => f[k].attempts < MaxAttempts
           /\ f[k].status = "failed" => f[k].attempts = MaxAttempts
    BY <2>1, <2>2, <2>3 DEF Waiting, RowKept
  <2> HIDE DEF f
  <2>6. QED
    BY <2>2, <2>4, <2>5, RowStep DEF IInv, TypeOK
<1>3. CASE \E j \in S : Lease(w, S, j)
  BY <1>3, LeaseIInv DEF Claim
<1>4. QED
  BY <1>1, <1>2, <1>3

LEMMA CheckLeaseIInv == ASSUME IInv, NEW w \in Workers, CheckLease(w) PROVE IInv'
<1>1. CASE Owns(w)
  <2> DEFINE r == [run[w] EXCEPT !.pc = "working"]
  <2>1. run[w] \in Runs /\ run[w].pc = "claimed"
    BY DEF IInv, TypeOK, CheckLease
  <2>2. /\ r \in Runs /\ r.pc = "working" /\ r.job = run[w].job
        /\ r.token = run[w].token /\ r.attempt = run[w].attempt
    BY <2>1 DEF Runs
  <2>3. run' = [run EXCEPT ![w] = r] /\ UNCHANGED <<row, issued, done, plan, retries>>
    BY <1>1 DEF CheckLease
  <2> HIDE DEF r
  <2>4. QED
    BY <2>1, <2>2, <2>3, RunStep DEF IInv, TypeOK
<1>2. CASE ~Owns(w)
  BY <1>2, OutcomeIInv DEF CheckLease, IInv, TypeOK
<1>3. QED
  BY <1>1, <1>2

LEMMA StageReturnsIInv == ASSUME IInv, NEW w \in Workers, StageReturns(w) PROVE IInv'
  BY OutcomeIInv DEF StageReturns, IInv, TypeOK

LEMMA StageRaisesIInv == ASSUME IInv, NEW w \in Workers, StageRaises(w) PROVE IInv'
<1>1. run[w].pc # "idle" /\ run[w].job \in Jobs
  BY DEF StageRaises, Busy, IInv, TypeOK
<1>2. done \subseteq done' /\ done' \subseteq Jobs
  BY <1>1 DEF StageRaises, IInv, TypeOK
<1>3. QED
  BY <1>1, <1>2, OutcomeIInv DEF StageRaises

LEMMA HeartbeatIInv == ASSUME IInv, NEW w \in Workers, Heartbeat(w) PROVE IInv'
<1>1. run[w] \in Runs /\ run[w].pc # "idle" /\ run[w].job \in Jobs /\ run[w].pc # "ok"
  BY DEF Heartbeat, Busy, IInv, TypeOK
<1>2. CASE run' = [run EXCEPT ![w].beating = FALSE] /\ row' = row
  <2> DEFINE r == [run[w] EXCEPT !.beating = FALSE]
  <2>1. /\ r \in Runs /\ r.pc = run[w].pc /\ r.job = run[w].job
        /\ r.token = run[w].token /\ r.attempt = run[w].attempt
    BY <1>1 DEF Runs
  <2>2. run' = [run EXCEPT ![w] = r] /\ UNCHANGED <<row, issued, done, plan, retries>>
    BY <1>2 DEF Heartbeat
  <2> HIDE DEF r
  <2>3. QED
    BY <1>1, <2>1, <2>2, RunStep DEF IInv, TypeOK
<1>3. CASE /\ Owns(w) /\ row' = [row EXCEPT ![run[w].job] = Renewed(@)]
           /\ run' = [run EXCEPT ![w].since = 0]
  <2> DEFINE j == run[w].job
             r == [run[w] EXCEPT !.since = 0]
  <2>1. /\ r \in Runs /\ r.pc = run[w].pc /\ r.job = run[w].job
        /\ r.token = run[w].token /\ r.attempt = run[w].attempt
    BY <1>1, TimerAssumption DEF Runs
  <2>2. /\ Renewed(row[j]) \in Rows /\ Renewed(row[j]).status = row[j].status
        /\ Renewed(row[j]).token = row[j].token
        /\ Renewed(row[j]).attempts = row[j].attempts
    BY <1>1, RenewedType DEF IInv, TypeOK
  <2>3. /\ row' \in [Jobs -> Rows] /\ row'[j] = Renewed(row[j])
        /\ \A k \in Jobs \ {j} : row'[k] = row[k]
    BY <1>1, <1>3, <2>2 DEF IInv, TypeOK
  <2>4. /\ run' \in [Workers -> Runs] /\ run'[w] = r
        /\ \A v \in Workers \ {w} : run'[v] = run[v]
    BY <1>3, <2>1 DEF IInv, TypeOK
  <2>5. UNCHANGED <<issued, done, plan, retries>>
    BY DEF Heartbeat
  <2> HIDE DEF r
  <2>6. Shrinks
    BY <1>1, <2>1, <2>2, <2>3, <2>4, <2>5, RowsKept, RunsKept
       DEF Shrinks, IInv, TypeOK, RowKept, Waiting
  <2>7. QED
    BY <2>6, ShrinksIInv
<1>4. QED
  BY <1>2, <1>3 DEF Heartbeat

LEMMA SettleIInv == ASSUME IInv, NEW w \in Workers, Settle(w) PROVE IInv'
<1> DEFINE j == run[w].job
<1>1. /\ run[w] \in Runs /\ run[w].pc \in {"ok", "error"} /\ j \in Jobs /\ row[j] \in Rows
      /\ run' = [run EXCEPT ![w] = Idle] /\ UNCHANGED <<issued, done, plan, retries>>
  BY DEF Settle, IInv, TypeOK
<1>2. CASE ~Owns(w)
  <2>1. row' = row /\ Idle.pc = "idle"
    BY <1>2 DEF Settle, Idle
  <2>2. QED
    BY <1>1, <2>1, IdleType, RunStep DEF IInv, TypeOK
<1>3. CASE Owns(w)
  <2>1. run[w].attempt \in 0..MaxAttempts /\ run[w].attempt = row[j].attempts
    BY <1>1, <1>3 DEF Runs, IInv, OwnerKnowsAttempt
  <2>2. "succeeded" \in Statuses
    BY DEF Statuses
  <2>3. /\ SettledRow(w) \in Rows
        /\ SettledRow(w).attempts = row[j].attempts
        /\ \/ SettledRow(w).status = "succeeded" /\ run[w].pc = "ok"
           \/ SettledRow(w).status = "failed" /\ row[j].attempts >= MaxAttempts
           \/ SettledRow(w).status = "retryable" /\ ~(row[j].attempts >= MaxAttempts)
    BY <1>1, <2>1, <2>2, ClosedType, FailedAttemptType DEF SettledRow
  <2>4. row[j].attempts \in 0..MaxAttempts
    BY <1>1 DEF Rows
  <2>5. /\ row' \in [Jobs -> Rows] /\ row'[j] = SettledRow(w)
        /\ \A k \in Jobs \ {j} : row'[k] = row[k]
    BY <1>1, <1>3, <2>3 DEF Settle, IInv, TypeOK
  <2>6. /\ run' \in [Workers -> Runs] /\ run'[w].pc = "idle"
        /\ \A v \in Workers \ {w} : run'[v] = run[v]
    BY <1>1, IdleType DEF Idle, IInv, TypeOK
  <2>7. run[w].pc = "ok" => j \in done
    BY RunsKept
  <2>8. \A k \in Jobs :
          /\ row'[k].status = "running" =>
               /\ row[k].status = "running" /\ row'[k].token = row[k].token
               /\ row'[k].attempts = row[k].attempts
          /\ row'[k].status = "succeeded" => k \in done'
          /\ Waiting(row'[k]) => row'[k].attempts < MaxAttempts
          /\ row'[k].status = "failed" => row'[k].attempts = MaxAttempts
    <3> SUFFICES ASSUME NEW k \in Jobs
                 PROVE  /\ row'[k].status = "running" =>
                             /\ row[k].status = "running" /\ row'[k].token = row[k].token
                             /\ row'[k].attempts = row[k].attempts
                        /\ row'[k].status = "succeeded" => k \in done'
                        /\ Waiting(row'[k]) => row'[k].attempts < MaxAttempts
                        /\ row'[k].status = "failed" => row'[k].attempts = MaxAttempts
      OBVIOUS
    <3>1. CASE k = j
      BY <3>1, <1>1, <2>3, <2>4, <2>5, <2>7, BudgetAssumption DEF Waiting
    <3>2. CASE k # j
      BY <3>2, <1>1, <2>5, RowsKept DEF RowKept, Waiting
    <3>3. QED
      BY <3>1, <3>2
  <2>9. Shrinks
    BY <1>1, <2>5, <2>6, <2>8, RunsKept DEF Shrinks, IInv, TypeOK
  <2>10. QED
    BY <2>9, ShrinksIInv
<1>4. QED
  BY <1>2, <1>3

LEMMA AbandonIInv == ASSUME IInv, NEW w \in Workers, Abandon(w) PROVE IInv'
<1>1. Idle \in Runs /\ Idle.pc = "idle"
  BY IdleType DEF Idle
<1>2. QED
  BY <1>1, RunStep DEF Abandon, IInv, TypeOK

LEMMA OperatorIInv == ASSUME IInv, NEW o \in Operators, OperatorStep(o) PROVE IInv'
<1>1. CASE ReadFailed(o)
  <2>1. plan' \in [Operators -> SUBSET Jobs]
    BY <1>1 DEF ReadFailed, IInv, TypeOK
  <2>2. retries' \in 0..MaxRetries
    BY <1>1, TimerAssumption DEF ReadFailed, IInv, TypeOK
  <2>3. UNCHANGED <<row, run, issued, done>>
    BY <1>1 DEF ReadFailed
  <2>4. Shrinks
    BY <2>1, <2>2, <2>3, RowsKept, RunsKept DEF Shrinks, RowKept, IInv, TypeOK
  <2>5. QED
    BY <2>4, ShrinksIInv
<1>2. CASE WriteRetry(o)
  <2> DEFINE f == [j \in Jobs |-> IF j \in plan[o] THEN Rearmed(row[j]) ELSE row[j]]
  <2>1. \A j \in Jobs :
          /\ row[j] \in Rows /\ RowKept(j)
          /\ Rearmed(row[j]) \in Rows /\ Rearmed(row[j]).status = "retryable"
          /\ Rearmed(row[j]).attempts = 0
    BY RowsKept, RearmedType
  <2>2. f \in [Jobs -> Rows] /\ row' = f
    BY <1>2, <2>1 DEF WriteRetry
  <2>3. plan' \in [Operators -> SUBSET Jobs] /\ retries' \in 0..MaxRetries
    BY <1>2 DEF WriteRetry, IInv, TypeOK
  <2>4. UNCHANGED <<run, issued, done>>
    BY <1>2 DEF WriteRetry
  <2>5. \A j \in Jobs :
          /\ f[j].status = "running" =>
               /\ row[j].status = "running" /\ f[j].token = row[j].token
               /\ f[j].attempts = row[j].attempts
          /\ f[j].status = "succeeded" => j \in done'
          /\ Waiting(f[j]) => f[j].attempts < MaxAttempts
          /\ f[j].status = "failed" => f[j].attempts = MaxAttempts
    BY <2>1, <2>4, BudgetAssumption DEF RowKept, Waiting
  <2> HIDE DEF f
  <2>6. QED
    BY <2>2, <2>3, <2>4, <2>5, RowStep DEF IInv, TypeOK
<1>3. QED
  BY <1>1, <1>2 DEF OperatorStep

LEMMA MarkPresenceIInv == ASSUME IInv, NEW j \in GoogleJobs, MarkPresence(j) PROVE IInv'
<1> DEFINE f == [row EXCEPT ![j] = Closed(@, "succeeded")]
<1>1. j \in Jobs /\ "succeeded" \in Statuses
  BY JobAssumption DEF Statuses
<1>2. /\ Closed(row[j], "succeeded") \in Rows
      /\ Closed(row[j], "succeeded").status = "succeeded"
  BY <1>1, ClosedType DEF IInv, TypeOK
<1>3. /\ f \in [Jobs -> Rows] /\ row' = f /\ f[j] = Closed(row[j], "succeeded")
      /\ \A k \in Jobs \ {j} : f[k] = row[k]
  BY <1>1, <1>2 DEF MarkPresence, IInv, TypeOK
<1>4. /\ UNCHANGED <<run, issued, plan, retries>> /\ done' = done \cup {j}
  BY DEF MarkPresence
<1> HIDE DEF f
<1>5. \A k \in Jobs :
        /\ f[k].status = "running" =>
             /\ row[k].status = "running" /\ f[k].token = row[k].token
             /\ f[k].attempts = row[k].attempts
        /\ f[k].status = "succeeded" => k \in done'
        /\ Waiting(f[k]) => f[k].attempts < MaxAttempts
        /\ f[k].status = "failed" => f[k].attempts = MaxAttempts
  BY <1>2, <1>3, <1>4, RowsKept DEF RowKept, Waiting
<1>6. QED
  BY <1>1, <1>3, <1>4, <1>5, RowStep DEF IInv, TypeOK

LEMMA TickIInv == ASSUME IInv, Tick PROVE IInv'
<1>1. \A j \in Jobs : /\ row[j] \in Rows /\ RowKept(j) /\ Aged(row[j]) \in Rows
                      /\ Aged(row[j]).status = row[j].status
                      /\ Aged(row[j]).token = row[j].token
                      /\ Aged(row[j]).attempts = row[j].attempts
  BY RowsKept, AgedType
<1>2. ASSUME NEW r \in Runs
      PROVE  /\ Older(r) \in Runs /\ Older(r).pc = r.pc /\ Older(r).job = r.job
             /\ Older(r).token = r.token /\ Older(r).attempt = r.attempt
  <2> DEFINE e == IF r.pc \in Busy /\ r.elapsed < StageTimeout THEN r.elapsed + 1 ELSE r.elapsed
             b == IF r.pc \in Busy /\ r.since < HeartbeatInterval THEN r.since + 1 ELSE r.since
  <2>1. e \in 0..StageTimeout /\ b \in 0..HeartbeatInterval
    BY TimerAssumption DEF Runs
  <2>2. Older(r) = [r EXCEPT !.elapsed = e, !.since = b]
    BY DEF Older
  <2> HIDE DEF e, b
  <2>3. Older(r) \in Runs
    BY <2>1, <2>2, Zenon DEF Runs
  <2>4. QED
    BY <2>2, <2>3 DEF Runs
<1>3. row' \in [Jobs -> Rows] /\ \A j \in Jobs : row'[j] = Aged(row[j])
  BY <1>1 DEF Tick
<1>4. run' \in [Workers -> Runs] /\ \A w \in Workers : run'[w] = Older(run[w])
  BY <1>2 DEF Tick, IInv, TypeOK
<1>5. UNCHANGED <<issued, done, plan, retries>>
  BY DEF Tick
<1>6. Shrinks
  BY <1>1, <1>2, <1>3, <1>4, <1>5, RunsKept DEF Shrinks, IInv, TypeOK, RowKept, Waiting
<1>7. QED
  BY <1>6, ShrinksIInv

LEMMA NextIInv == IInv /\ [Next]_vars => IInv'
<1> SUFFICES ASSUME IInv, [Next]_vars PROVE IInv'
  OBVIOUS
<1>1. ASSUME NEW w \in Workers, WorkerStep(w) PROVE IInv'
  <2>1. CASE Claim(w)
    BY <2>1, ClaimIInv
  <2>2. CASE CheckLease(w)
    BY <2>2, CheckLeaseIInv
  <2>3. CASE StageReturns(w)
    BY <2>3, StageReturnsIInv
  <2>4. CASE StageRaises(w) \/ TimeOut(w)
    BY <2>4, StageRaisesIInv DEF TimeOut
  <2>5. CASE Heartbeat(w)
    BY <2>5, HeartbeatIInv
  <2>6. CASE Settle(w)
    BY <2>6, SettleIInv
  <2>7. CASE Abandon(w)
    BY <2>7, AbandonIInv
  <2>8. QED
    BY <1>1, <2>1, <2>2, <2>3, <2>4, <2>5, <2>6, <2>7 DEF WorkerStep
<1>2. CASE UNCHANGED vars
  <2>1. UNCHANGED row /\ UNCHANGED run /\ UNCHANGED issued
        /\ UNCHANGED done /\ UNCHANGED plan /\ UNCHANGED retries
    BY <1>2 DEF vars
  <2>2. QED
    BY <2>1 DEF IInv, TypeOK, Tickets, OwnerKnowsAttempt, NoFalseSuccess, ReportsWork,
                NothingStranded, Owns, HeldBy, Waiting
<1>3. QED
  BY <1>1, <1>2, OperatorIInv, MarkPresenceIInv, TickIInv DEF Next

-----------------------------------------------------------------------------
(* The theorems.                                                           *)

\* Every reachable state has the shape TypeOK says: in particular no attempt
\* count ever exceeds MAX_PROCESSING_ATTEMPTS.
THEOREM TypeCorrect == Spec => []TypeOK
<1>1. Spec => []IInv
  BY InitIInv, NextIInv, PTL DEF Spec
<1>2. IInv => TypeOK
  BY DEF IInv
<1>3. QED
  BY <1>1, <1>2, PTL

\* Fencing: two live claims never both pass the compare-and-swap of one row,
\* however long workers pause and whatever operators and ingests do.
THEOREM Fencing == Spec => []OneOwner
<1>1. Spec => []IInv
  BY InitIInv, NextIInv, PTL DEF Spec
<1>2. IInv => OneOwner
  BY DEF IInv, Tickets, OneOwner, Owns, HeldBy
<1>3. QED
  BY <1>1, <1>2, PTL

\* The attempt count a worker carries in memory is the row's while it owns it,
\* no row claims an unfinished stage succeeded, and no row is stranded between
\* an exhausted budget and the claim query.
THEOREM RowsAreSound == Spec => [](OwnerKnowsAttempt /\ NoFalseSuccess /\ NothingStranded)
<1>1. Spec => []IInv
  BY InitIInv, NextIInv, PTL DEF Spec
<1>2. IInv => OwnerKnowsAttempt /\ NoFalseSuccess /\ NothingStranded
  BY DEF IInv
<1>3. QED
  BY <1>1, <1>2, PTL

-----------------------------------------------------------------------------
(* With one operator and no ingest the outbox implements LeasedWork.  The     *)
(* steps of the two are compared row by row.                                 *)

Kept(j)     == row'[j].status = row[j].status /\ row'[j].token = row[j].token
Finished(j) == /\ row[j].status = "running"
               /\ row'[j].status \in {"retryable", "succeeded", "failed"}
Granted(j)  == /\ row[j].status \in {"pending", "retryable", "running"}
               /\ row'[j].status = "running" /\ row'[j].token = issued + 1
Rearms(j)   == row[j].status = "failed" /\ row'[j].status = "retryable"

\* The rows an operator is about to write are the failed ones.  A second operator
\* may have rearmed one of them meanwhile, an ingest may have closed it.
Planned == \A o \in Operators : \A j \in plan[o] : row[j].status = "failed"

Alone == GoogleJobs = {} /\ \A o, p \in Operators : o = p

LEMMA PhaseIs ==
  \A r \in Rows :
    Phase(r) = IF r.status \in {"pending", "retryable"} THEN "open"
               ELSE IF r.status = "running" THEN "held"
               ELSE IF r.status = "succeeded" THEN "done" ELSE "dead"
  BY DEF Phase, Waiting, Rows, Statuses

\* A row of either state, as LeasedWork sees it.
LEMMA RowsMapped ==
  ASSUME NEW j \in Jobs, row[j] \in Rows, row'[j] \in Rows
  PROVE  /\ Kept(j) => Promise!Same(j)
         /\ Finished(j) => Promise!Settle(j)
         /\ Granted(j) => Promise!Grant(j)
         /\ Rearms(j) => Promise!Reopen(j)
<1>1. /\ Phase(row[j]) = IF row[j].status \in {"pending", "retryable"} THEN "open"
                         ELSE IF row[j].status = "running" THEN "held"
                         ELSE IF row[j].status = "succeeded" THEN "done" ELSE "dead"
      /\ Phase(row'[j]) = IF row'[j].status \in {"pending", "retryable"} THEN "open"
                          ELSE IF row'[j].status = "running" THEN "held"
                          ELSE IF row'[j].status = "succeeded" THEN "done" ELSE "dead"
  BY PhaseIs
<1>2. Kept(j) => Promise!Same(j)
  BY <1>1 DEF Kept, Promise!Same
<1>3. Finished(j) => Promise!Settle(j)
  BY <1>1 DEF Finished, Promise!Settle
<1>4. Granted(j) => Promise!Grant(j)
  BY <1>1 DEF Granted, Promise!Grant
<1>5. Rearms(j) => Promise!Reopen(j)
  BY <1>1 DEF Rearms, Promise!Reopen
<1>6. QED
  BY <1>2, <1>3, <1>4, <1>5

LEMMA CloseStep ==
  ASSUME TypeOK, TypeOK', issued' = issued, \A j \in Jobs : Kept(j) \/ Finished(j)
  PROVE  Promise!Next
<1>1. \A j \in Jobs : Promise!Same(j) \/ Promise!Settle(j)
  BY RowsMapped DEF TypeOK
<1>2. QED
  BY <1>1 DEF Promise!Next, Promise!Close

LEMMA IssueStep ==
  ASSUME TypeOK, TypeOK', issued' = issued + 1, NEW k \in Jobs, Granted(k),
         \A j \in Jobs \ {k} : Kept(j) \/ Finished(j)
  PROVE  Promise!Next
<1>1. Promise!Grant(k) /\ \A j \in Jobs \ {k} : Promise!Same(j) \/ Promise!Settle(j)
  BY RowsMapped DEF TypeOK
<1>2. QED
  BY <1>1 DEF Promise!Next, Promise!Issue

LEMMA OpenStep ==
  ASSUME TypeOK, TypeOK', issued' = issued, \A j \in Jobs : Kept(j) \/ Rearms(j)
  PROVE  Promise!Next
<1>1. \A j \in Jobs : Promise!Same(j) \/ Promise!Reopen(j)
  BY RowsMapped DEF TypeOK
<1>2. QED
  BY <1>1 DEF Promise!Next, Promise!Open

LEMMA SweptMapped ==
  ASSUME TypeOK, NEW S, NEW k \in Jobs
  PROVE  \/ Swept(S)[k] = row[k]
         \/ row[k].status = "running" /\ Swept(S)[k].status = "failed"
<1>1. row[k] \in Rows /\ "failed" \in Statuses
  BY DEF TypeOK, Statuses
<1>2. Closed(row[k], "failed").status = "failed"
  BY <1>1, ClosedType
<1>3. QED
  BY <1>1, <1>2 DEF Swept, Exhausted, Stale

\* A claim issues a ticket, or sweeps and issues none.
LEMMA ClaimMapped ==
  ASSUME IInv, TypeOK', NEW w \in Workers, Claim(w)
  PROVE  /\ Promise!Next
         /\ \A j \in Jobs : row[j].status = "failed" => row'[j].status = "failed"
<1>0. TypeOK
  BY DEF IInv
<1>1. PICK S \in Scopes : NothingToLease(S) \/ \E j \in S : Lease(w, S, j)
  BY DEF Claim
<1>2. CASE NothingToLease(S)
  <2>1. row' = Swept(S) /\ issued' = issued
    BY <1>2 DEF NothingToLease
  <2>2. \A j \in Jobs : Kept(j) \/ Finished(j)
    BY <1>0, <2>1, SweptMapped DEF Kept, Finished
  <2>3. \A j \in Jobs : row[j].status = "failed" => row'[j].status = "failed"
    BY <1>0, <2>1, SweptMapped
  <2>4. QED
    BY <1>0, <2>1, <2>2, <2>3, CloseStep
<1>3. CASE \E j \in S : Lease(w, S, j)
  <2>1. PICK k \in S : Lease(w, S, k)
    BY <1>3
  <2>2. k \in Jobs /\ row[k] \in Rows
    BY <1>0, <1>1 DEF Scopes, TypeOK
  <2>3. /\ issued' = issued + 1 /\ row[k].attempts < MaxAttempts
        /\ row[k].status \in {"pending", "retryable", "running"}
        /\ row' = [Swept(S) EXCEPT ![k] = Claimed(@, issued + 1)]
    BY <2>1 DEF Lease, Eligible, Waiting, Stale
  <2>4. Swept(S)[k] = row[k]
    BY <2>2, <2>3, BudgetAssumption DEF Swept, Exhausted, Rows
  <2>5. /\ row'[k] = Claimed(row[k], issued + 1)
        /\ \A j \in Jobs \ {k} : row'[j] = Swept(S)[j]
    BY <2>2, <2>3, <2>4 DEF Swept
  <2>6. Granted(k)
    BY <1>0, <2>2, <2>3, <2>5, ClaimedType DEF Granted, TypeOK
  <2>7. \A j \in Jobs \ {k} : Kept(j) \/ Finished(j)
    BY <1>0, <2>5, SweptMapped DEF Kept, Finished
  <2>8. \A j \in Jobs : row[j].status = "failed" => row'[j].status = "failed"
    BY <1>0, <2>3, <2>5, SweptMapped
  <2>9. QED
    BY <1>0, <2>2, <2>3, <2>6, <2>7, <2>8, IssueStep
<1>4. QED
  BY <1>1, <1>2, <1>3

LEMMA HeartbeatMapped ==
  ASSUME IInv, NEW w \in Workers, Heartbeat(w)
  PROVE  issued' = issued /\ \A j \in Jobs : Kept(j)
<1>1. run[w].job \in Jobs
  BY DEF Heartbeat, Busy, IInv, TypeOK
<1>2. /\ Renewed(row[run[w].job]).status = row[run[w].job].status
      /\ Renewed(row[run[w].job]).token = row[run[w].job].token
  BY <1>1, RenewedType DEF IInv, TypeOK
<1>3. row' = row \/ row' = [row EXCEPT ![run[w].job] = Renewed(@)]
  BY DEF Heartbeat
<1>4. QED
  BY <1>1, <1>2, <1>3 DEF Heartbeat, Kept, IInv, TypeOK

LEMMA SettleMapped ==
  ASSUME IInv, NEW w \in Workers, Settle(w)
  PROVE  issued' = issued /\ \A j \in Jobs : Kept(j) \/ Finished(j)
<1> DEFINE k == run[w].job
<1>1. k \in Jobs /\ row[k] \in Rows /\ run[w] \in Runs /\ issued' = issued
  BY DEF Settle, IInv, TypeOK
<1>2. CASE ~Owns(w)
  BY <1>1, <1>2 DEF Settle, Kept
<1>3. CASE Owns(w)
  <2>1. run[w].attempt \in 0..MaxAttempts /\ "succeeded" \in Statuses
    BY <1>1 DEF Runs, Statuses
  <2>2. SettledRow(w).status \in {"retryable", "succeeded", "failed"}
    BY <1>1, <2>1, ClosedType, FailedAttemptType DEF SettledRow
  <2>3. row' = [row EXCEPT ![k] = SettledRow(w)]
    BY <1>3 DEF Settle
  <2>4. row[k].status = "running"
    BY <1>3 DEF Owns, HeldBy
  <2>5. QED
    BY <1>1, <2>2, <2>3, <2>4 DEF Kept, Finished, IInv, TypeOK
<1>4. QED
  BY <1>2, <1>3

LEMMA TickMapped ==
  ASSUME IInv, Tick PROVE issued' = issued /\ \A j \in Jobs : Kept(j)
<1>1. \A r \in Rows : Aged(r).status = r.status /\ Aged(r).token = r.token
  BY DEF Aged, Rows
<1>2. QED
  BY <1>1 DEF Tick, Kept, IInv, TypeOK

\* The steps that neither claim nor rearm.
LEMMA OtherMapped ==
  ASSUME IInv, issued' = issued, plan' = plan, \A j \in Jobs : Kept(j) \/ Finished(j),
         Planned, TypeOK'
  PROVE  Promise!Next /\ Planned'
<1>1. Promise!Next
  BY CloseStep DEF IInv
<1>2. Planned'
  BY DEF Planned, Kept, Finished, IInv, TypeOK
<1>3. QED
  BY <1>1, <1>2

LEMMA WorkerMapped ==
  ASSUME IInv, TypeOK', Planned, NEW w \in Workers, WorkerStep(w)
  PROVE  Promise!Next /\ Planned'
<1>1. CASE Claim(w)
  BY <1>1, ClaimMapped DEF Claim, Planned, IInv, TypeOK
<1>2. CASE CheckLease(w) \/ StageReturns(w) \/ StageRaises(w) \/ TimeOut(w) \/ Abandon(w)
  <2>1. UNCHANGED <<row, issued, plan>>
    BY <1>2 DEF CheckLease, StageReturns, StageRaises, TimeOut, Abandon
  <2>2. \A j \in Jobs : Kept(j)
    BY <2>1 DEF Kept
  <2>3. QED
    BY <2>1, <2>2, OtherMapped
<1>3. CASE Heartbeat(w)
  <2>1. plan' = plan
    BY <1>3 DEF Heartbeat
  <2>2. QED
    BY <1>3, <2>1, HeartbeatMapped, OtherMapped
<1>4. CASE Settle(w)
  <2>1. plan' = plan
    BY <1>4 DEF Settle
  <2>2. QED
    BY <1>4, <2>1, SettleMapped, OtherMapped
<1>5. QED
  BY <1>1, <1>2, <1>3, <1>4 DEF WorkerStep

LEMMA OperatorMapped ==
  ASSUME IInv, TypeOK', Planned, Alone, NEW o \in Operators, OperatorStep(o)
  PROVE  Promise!Next /\ Planned'
<1>1. CASE ReadFailed(o)
  <2>1. row' = row /\ issued' = issued
    BY <1>1 DEF ReadFailed
  <2>2. \A j \in Jobs : Kept(j)
    BY <2>1 DEF Kept
  <2>3. Planned'
    BY <1>1, <2>1 DEF ReadFailed, Planned, IInv, TypeOK
  <2>4. QED
    BY <2>1, <2>2, <2>3, CloseStep DEF IInv
<1>2. CASE WriteRetry(o)
  <2>1. /\ row' = [j \in Jobs |-> IF j \in plan[o] THEN Rearmed(row[j]) ELSE row[j]]
        /\ plan' = [plan EXCEPT ![o] = {}] /\ issued' = issued
    BY <1>2 DEF WriteRetry
  <2>2. \A j \in Jobs : Rearmed(row[j]).status = "retryable"
    BY RearmedType DEF IInv, TypeOK
  <2>3. \A j \in Jobs : Kept(j) \/ Rearms(j)
    BY <2>1, <2>2 DEF Kept, Rearms, Planned
  <2>4. Planned'
    BY <2>1 DEF Planned, Alone, IInv, TypeOK
  <2>5. QED
    BY <2>1, <2>3, <2>4, OpenStep DEF IInv
<1>3. QED
  BY <1>1, <1>2 DEF OperatorStep

LEMMA NextMapped ==
  ASSUME Alone, IInv, Planned, [Next]_vars
  PROVE  [Promise!Next]_(Promise!vars) /\ Planned'
<1>1. TypeOK'
  BY NextIInv DEF IInv
<1>2. CASE Tick
  <2>1. plan' = plan
    BY <1>2 DEF Tick
  <2>2. QED
    BY <1>1, <1>2, <2>1, TickMapped, OtherMapped
<1>3. CASE UNCHANGED vars
  <2>1. UNCHANGED row /\ UNCHANGED issued /\ UNCHANGED plan
    BY <1>3 DEF vars
  <2>2. QED
    BY <2>1 DEF Promise!vars, Planned
<1>4. CASE \E j \in GoogleJobs : MarkPresence(j)
  BY <1>4 DEF Alone
<1>5. QED
  BY <1>1, <1>2, <1>3, <1>4, WorkerMapped, OperatorMapped DEF Next

LEMMA InitMapped == Init => Promise!Init /\ Planned
<1> SUFFICES ASSUME Init PROVE Promise!Init /\ Planned
  OBVIOUS
<1>1. NewRow.status = "pending" /\ NewRow \in Rows
  BY NewRowType DEF NewRow
<1>2. Phase(NewRow) = "open"
  BY <1>1, PhaseIs
<1>3. QED
  BY <1>1, <1>2 DEF Init, Planned, Promise!Init

\* With one operator and without an ingest the outbox keeps its promise: every
\* takeover carries a new ticket, only held jobs settle, succeeded jobs are final and
\* failed ones are only ever reopened.
THEOREM KeepsPromise == ASSUME Alone PROVE Spec => ImplementsLeasedWork
<1>1. Init => IInv /\ Promise!Init /\ Planned
  BY InitIInv, InitMapped
<1>2. IInv /\ Planned /\ [Next]_vars
        => IInv' /\ Planned' /\ [Promise!Next]_(Promise!vars)
  BY NextIInv, NextMapped
<1>3. QED
  BY <1>1, <1>2, PTL DEF Spec, ImplementsLeasedWork, Promise!Spec
-----------------------------------------------------------------------------
(* Punctual timers keep the lease of a live worker.                          *)

\* No operator writes, or one operator does and no ingest interferes.
Calm == MaxRetries = 0 \/ Alone

\* The lease of a worker that owns its row is no older than its stage.
Fresh == \A w \in Workers : Owns(w) => row[run[w].job].age <= run[w].elapsed

Unplanned == MaxRetries = 0 => \A o \in Operators : plan[o] = {}

Timely == LiveOwnerKeepsLease /\ Fresh /\ Planned /\ Unplanned

Timing == Punctual /\ StageTimeout <= StaleAfter

\* No claim query selects the row of a live worker, to lease it or to sweep it.
LEMMA LiveRowIsSafe ==
  ASSUME TypeOK, LiveOwnerKeepsLease, Fresh, Timing, NEW w \in Workers, run[w].pc # "idle"
  PROVE  ~Eligible(row[run[w].job]) /\ ~Exhausted(row[run[w].job])
<1> DEFINE r == row[run[w].job]
<1>1. r \in Rows /\ run[w] \in Runs
  BY DEF TypeOK
<1>2. CASE Owns(w)
  <2>1. r.status = "running" /\ r.age <= run[w].elapsed
    BY <1>2 DEF Owns, HeldBy, Fresh
  <2>2. ~(r.age > StaleAfter)
    BY <1>1, <2>1, ClockAssumption, TimerAssumption DEF Timing, Runs, Rows, Unlocked
  <2>3. QED
    BY <2>1, <2>2 DEF Eligible, Exhausted, Stale, Waiting
<1>3. CASE r.status = "succeeded"
  BY <1>3 DEF Eligible, Exhausted, Stale, Waiting
<1>4. QED
  BY <1>2, <1>3 DEF LiveOwnerKeepsLease

\* What holds for a worker that a step leaves alone, row included.
LEMMA UntouchedIsTimely ==
  ASSUME LiveOwnerKeepsLease, Fresh, NEW w \in Workers, run'[w] = run[w],
         run[w].pc # "idle" => row'[run[w].job] = row[run[w].job]
  PROVE  /\ run'[w].pc # "idle" => Owns(w)' \/ row'[run'[w].job].status = "succeeded"
         /\ Owns(w)' => row'[run'[w].job].age <= run'[w].elapsed
  BY DEF LiveOwnerKeepsLease, Fresh, Owns

LEMMA ClaimIsTimely ==
  ASSUME IInv, Timely, Timing, NEW w \in Workers, Claim(w)
  PROVE  LiveOwnerKeepsLease' /\ Fresh'
<1>0. TypeOK
  BY DEF IInv
<1>1. PICK S \in Scopes : NothingToLease(S) \/ \E j \in S : Lease(w, S, j)
  BY DEF Claim
<1>2. \A v \in Workers : run[v].pc # "idle" => Swept(S)[run[v].job] = row[run[v].job]
  BY <1>0, LiveRowIsSafe DEF Swept, Timely, TypeOK
<1>3. CASE NothingToLease(S)
  <2>1. row' = Swept(S) /\ run' = run
    BY <1>3 DEF NothingToLease
  <2>2. QED
    BY <1>2, <2>1, UntouchedIsTimely DEF LiveOwnerKeepsLease, Fresh, Timely
<1>4. CASE \E j \in S : Lease(w, S, j)
  <2> DEFINE claim(j) == [Idle EXCEPT !.pc = "claimed", !.job = j, !.token = issued + 1,
                                      !.attempt = row[j].attempts + 1, !.beating = TRUE]
  <2>1. PICK k \in S : Lease(w, S, k)
    BY <1>4
  <2>2. /\ k \in Jobs /\ row[k] \in Rows /\ Eligible(row[k]) /\ issued \in Nat
        /\ row' = [Swept(S) EXCEPT ![k] = Claimed(@, issued + 1)]
        /\ run' = [run EXCEPT ![w] = claim(k)]
    BY <1>0, <1>1, <2>1 DEF Scopes, TypeOK, Lease
  <2>3. Swept(S)[k] = row[k]
    BY <2>2, BudgetAssumption DEF Swept, Exhausted, Eligible, Rows
  <2>4. /\ row'[k].status = "running" /\ row'[k].token = issued + 1 /\ row'[k].age = 0
        /\ \A j \in Jobs \ {k} : row'[j] = Swept(S)[j]
    BY <2>2, <2>3 DEF Swept, Claimed, Rows
  <2>5. /\ run'[w].pc = "claimed" /\ run'[w].job = k /\ run'[w].token = issued + 1
        /\ run'[w].elapsed = 0
    BY <1>0, <2>2 DEF TypeOK, Idle
  <2>6. Owns(w)' /\ row'[run'[w].job].age <= run'[w].elapsed
    BY <2>4, <2>5 DEF Owns, HeldBy
  <2>7. ASSUME NEW v \in Workers \ {w}
        PROVE  run'[v] = run[v] /\ (run[v].pc # "idle" => row'[run[v].job] = row[run[v].job])
    <3>1. run'[v] = run[v]
      BY <1>0, <2>2 DEF TypeOK
    <3>2. run[v].pc # "idle" => run[v].job \in Jobs \ {k}
      BY <1>0, <2>2, LiveRowIsSafe DEF Timely, TypeOK
    <3>3. QED
      BY <1>2, <2>4, <3>1, <3>2
  <2>8. QED
    BY <2>6, <2>7, UntouchedIsTimely DEF LiveOwnerKeepsLease, Fresh, Timely
<1>5. QED
  BY <1>1, <1>3, <1>4

\* The worker goes on or ends, and no row changes.
LEMMA RunIsTimely ==
  ASSUME IInv, Timely, NEW w \in Workers, NEW r, row' = row, run' = [run EXCEPT ![w] = r],
         \/ r.pc = "idle"
         \/ run[w].pc # "idle" /\ r.job = run[w].job /\ r.token = run[w].token
              /\ r.elapsed = run[w].elapsed
  PROVE  LiveOwnerKeepsLease' /\ Fresh'
<1>1. run'[w] = r /\ \A v \in Workers \ {w} : run'[v] = run[v]
  BY DEF IInv, TypeOK
<1>2. \A v \in Workers \ {w} : /\ run'[v].pc # "idle" => Owns(v)' \/ row'[run'[v].job].status = "succeeded"
                               /\ Owns(v)' => row'[run'[v].job].age <= run'[v].elapsed
  BY <1>1, UntouchedIsTimely DEF Timely
<1>3. /\ run'[w].pc # "idle" => Owns(w)' \/ row'[run'[w].job].status = "succeeded"
      /\ Owns(w)' => row'[run'[w].job].age <= run'[w].elapsed
  BY <1>1 DEF Timely, LiveOwnerKeepsLease, Fresh, Owns
<1>4. QED
  BY <1>2, <1>3 DEF LiveOwnerKeepsLease, Fresh

LEMMA HeartbeatIsTimely ==
  ASSUME IInv, Timely, NEW w \in Workers, Heartbeat(w)
  PROVE  LiveOwnerKeepsLease' /\ Fresh'
<1>1. CASE row' = row /\ run' = [run EXCEPT ![w].beating = FALSE]
  <2>1. PICK r : r = [run[w] EXCEPT !.beating = FALSE]
    OBVIOUS
  <2>2. /\ run' = [run EXCEPT ![w] = r]
        /\ run[w].pc # "idle" /\ r.job = run[w].job /\ r.token = run[w].token
        /\ r.elapsed = run[w].elapsed
    BY <1>1, <2>1 DEF Heartbeat, Busy, IInv, TypeOK, Runs
  <2>3. QED
    BY <1>1, <2>2, RunIsTimely
<1>2. CASE Owns(w) /\ row' = [row EXCEPT ![run[w].job] = Renewed(@)]
           /\ run' = [run EXCEPT ![w].since = 0]
  <2>1. row \in [Jobs -> Rows] /\ run \in [Workers -> Runs]
    BY DEF IInv, TypeOK
  <2>2. \A j \in Jobs : /\ row'[j].status = row[j].status /\ row'[j].token = row[j].token
                        /\ row'[j].age = row[j].age \/ row'[j].age = 0
    BY <1>2, <2>1 DEF Renewed, Rows
  <2>3. \A v \in Workers : /\ run'[v].pc = run[v].pc /\ run'[v].job = run[v].job
                           /\ run'[v].token = run[v].token /\ run'[v].elapsed = run[v].elapsed
                           /\ run[v].elapsed \in Nat
    BY <1>2, <2>1, TimerAssumption DEF Runs
  <2>4. \A v \in Workers : run[v].pc # "idle" => run[v].job \in Jobs
    BY DEF IInv, TypeOK
  <2>5. QED
    BY <2>2, <2>3, <2>4 DEF LiveOwnerKeepsLease, Fresh, Timely, Owns, HeldBy
<1>3. QED
  BY <1>1, <1>2 DEF Heartbeat

\* Two workers with one job: neither is robbed when the other settles.
LEMMA SettleIsTimely ==
  ASSUME IInv, Timely, NEW w \in Workers, Settle(w)
  PROVE  LiveOwnerKeepsLease' /\ Fresh'
<1>1. run'[w] = Idle /\ \A v \in Workers \ {w} : run'[v] = run[v]
  BY DEF Settle, IInv, TypeOK
<1>2. ~Owns(w)' /\ run'[w].pc = "idle"
  BY <1>1 DEF Owns, Idle
<1>3. ASSUME NEW v \in Workers \ {w}, run[v].pc # "idle"
      PROVE  row'[run[v].job] = row[run[v].job]
  <2>1. CASE ~Owns(w)
    BY <2>1 DEF Settle
  <2>2. CASE Owns(w)
    <3>1. row' = [row EXCEPT ![run[w].job] = SettledRow(w)]
      BY <2>2 DEF Settle
    <3>2. run[v].job # run[w].job
      BY <1>3, <2>2 DEF Timely, LiveOwnerKeepsLease, Owns, HeldBy, IInv, Tickets
    <3>3. QED
      BY <1>3, <3>1, <3>2 DEF IInv, TypeOK
  <2>3. QED
    BY <2>1, <2>2
<1>4. QED
  BY <1>1, <1>2, <1>3, UntouchedIsTimely DEF LiveOwnerKeepsLease, Fresh, Timely

LEMMA WriteRetryIsTimely ==
  ASSUME IInv, Timely, NEW o \in Operators, WriteRetry(o)
  PROVE  LiveOwnerKeepsLease' /\ Fresh'
<1>1. \A v \in Workers : run[v].pc # "idle" => run[v].job \in Jobs \ plan[o]
  BY DEF Timely, LiveOwnerKeepsLease, Planned, Owns, HeldBy, IInv, TypeOK
<1>2. run' = run /\ \A j \in Jobs \ plan[o] : row'[j] = row[j]
  BY DEF WriteRetry
<1>3. QED
  BY <1>1, <1>2, UntouchedIsTimely DEF LiveOwnerKeepsLease, Fresh, Timely

LEMMA MarkPresenceIsTimely ==
  ASSUME IInv, Timely, NEW j \in GoogleJobs, MarkPresence(j)
  PROVE  LiveOwnerKeepsLease' /\ Fresh'
<1>1. j \in Jobs /\ row[j] \in Rows /\ "succeeded" \in Statuses
  BY JobAssumption DEF IInv, TypeOK, Statuses
<1>2. run' = run /\ row'[j].status = "succeeded" /\ \A k \in Jobs \ {j} : row'[k] = row[k]
  BY <1>1, ClosedType DEF MarkPresence, IInv, TypeOK
<1>3. QED
  BY <1>2 DEF LiveOwnerKeepsLease, Fresh, Timely, Owns, HeldBy, IInv, TypeOK

LEMMA TickIsTimely ==
  ASSUME IInv, Timely, Timing, Tick
  PROVE  LiveOwnerKeepsLease' /\ Fresh'
<1>1. row \in [Jobs -> Rows] /\ run \in [Workers -> Runs]
  BY DEF IInv, TypeOK
<1>2. \A j \in Jobs : /\ row'[j].status = row[j].status /\ row'[j].token = row[j].token
                      /\ row[j].age \in Nat /\ row'[j].age \in Nat
                      /\ row'[j].age <= row[j].age + 1
  <2> SUFFICES ASSUME NEW j \in Jobs
               PROVE  /\ row'[j].status = row[j].status /\ row'[j].token = row[j].token
                      /\ row[j].age \in Nat /\ row'[j].age \in Nat
                      /\ row'[j].age <= row[j].age + 1
    OBVIOUS
  <2>1. row[j] \in Rows /\ row'[j] = Aged(row[j])
    BY <1>1 DEF Tick
  <2>2. Aged(row[j]).age = IF row[j].age < Unlocked THEN row[j].age + 1 ELSE row[j].age
    BY <2>1 DEF Aged, Rows
  <2>3. row[j].age \in Nat
    BY <2>1, UnlockedNat DEF Rows
  <2>4. QED
    BY <2>1, <2>2, <2>3, AgedType
<1>3. \A v \in Workers : /\ run'[v].pc = run[v].pc /\ run'[v].job = run[v].job
                         /\ run'[v].token = run[v].token
  BY <1>1 DEF Tick, Older, Runs
<1>4. \A v \in Workers : run[v].pc # "idle" =>
        /\ run[v].elapsed \in Nat /\ run'[v].elapsed = run[v].elapsed + 1
        /\ run[v].job \in Jobs
  <2> SUFFICES ASSUME NEW v \in Workers, run[v].pc # "idle"
               PROVE  /\ run[v].elapsed \in Nat /\ run'[v].elapsed = run[v].elapsed + 1
                      /\ run[v].job \in Jobs
    OBVIOUS
  <2>1. run[v].pc \in Busy /\ run[v].elapsed # StageTimeout
    BY <1>1 DEF Tick, Timing, Due, Busy, Runs
  <2>2. run[v].elapsed \in 0..StageTimeout
    BY <1>1 DEF Runs
  <2>3. run[v].job \in Jobs
    BY DEF IInv, TypeOK
  <2>4. run'[v] = Older(run[v])
    BY DEF Tick
  <2>5. QED
    BY <1>1, <2>1, <2>2, <2>3, <2>4, TimerAssumption DEF Older, Runs
<1>5. \A v \in Workers : run[v].pc # "idle" => (Owns(v)' <=> Owns(v))
  BY <1>2, <1>3, <1>4 DEF Owns, HeldBy
<1>6. LiveOwnerKeepsLease'
  BY <1>2, <1>3, <1>4, <1>5 DEF LiveOwnerKeepsLease, Timely
<1>7. Fresh'
  <2> SUFFICES ASSUME NEW v \in Workers, Owns(v)'
               PROVE  row'[run'[v].job].age <= run'[v].elapsed
    BY DEF Fresh
  <2>1. run[v].pc # "idle" /\ Owns(v)
    BY <1>3, <1>5 DEF Owns
  <2>2. row[run[v].job].age <= run[v].elapsed
    BY <2>1 DEF Fresh, Timely
  <2>3. QED
    BY <1>2, <1>3, <1>4, <2>1, <2>2
<1>8. QED
  BY <1>6, <1>7

\* Planned rows stay failed until they are written: nobody else touches them.
LEMMA PlansKept ==
  ASSUME Calm, IInv, Planned, Unplanned, [Next]_vars
  PROVE  Planned' /\ Unplanned'
<1>1. CASE MaxRetries = 0
  <2>1. retries = 0 /\ \A o \in Operators : plan[o] = {}
    BY <1>1 DEF IInv, TypeOK, Unplanned
  <2>2. plan' = plan
    BY <1>1, <2>1
       DEF Next, vars, WorkerStep, OperatorStep, Claim, CheckLease, StageReturns,
           StageRaises, TimeOut, Heartbeat, Settle, Abandon, ReadFailed, WriteRetry,
           MarkPresence, Tick
  <2>3. QED
    BY <2>1, <2>2 DEF Planned, Unplanned
<1>2. CASE MaxRetries # 0
  BY <1>2, NextMapped DEF Calm, Unplanned
<1>3. QED
  BY <1>1, <1>2

LEMMA WorkerIsTimely ==
  ASSUME IInv, Timely, Timing, NEW w \in Workers, WorkerStep(w)
  PROVE  LiveOwnerKeepsLease' /\ Fresh'
<1>0. run \in [Workers -> Runs]
  BY DEF IInv, TypeOK
<1>1. CASE CheckLease(w) \/ StageReturns(w) \/ StageRaises(w) \/ TimeOut(w)
  <2>1. /\ row' = row /\ run[w].pc # "idle"
        /\ \/ run' = [run EXCEPT ![w].pc = "working"]
           \/ \E pc \in {"ok", "error"} : Outcome(w, pc)
    BY <1>1 DEF CheckLease, StageReturns, StageRaises, TimeOut, Busy
  <2>2. CASE run' = [run EXCEPT ![w].pc = "working"]
    <3>1. PICK r : r = [run[w] EXCEPT !.pc = "working"]
      OBVIOUS
    <3>2. run' = [run EXCEPT ![w] = r] /\ r.job = run[w].job /\ r.token = run[w].token
          /\ r.elapsed = run[w].elapsed
      BY <1>0, <2>2, <3>1 DEF Runs
    <3>3. QED
      BY <2>1, <3>2, RunIsTimely
  <2>3. ASSUME NEW pc \in {"ok", "error"}, Outcome(w, pc)
        PROVE  LiveOwnerKeepsLease' /\ Fresh'
    <3>1. PICK r : r = [run[w] EXCEPT !.pc = pc, !.beating = FALSE]
      OBVIOUS
    <3>2. run' = [run EXCEPT ![w] = r] /\ r.job = run[w].job /\ r.token = run[w].token
          /\ r.elapsed = run[w].elapsed
      BY <1>0, <2>3, <3>1 DEF Outcome, Runs
    <3>3. QED
      BY <2>1, <3>2, RunIsTimely
  <2>4. QED
    BY <2>1, <2>2, <2>3
<1>2. CASE Abandon(w)
  <2>1. row' = row /\ run' = [run EXCEPT ![w] = Idle] /\ Idle.pc = "idle"
    BY <1>2 DEF Abandon, Idle
  <2>2. QED
    BY <2>1, RunIsTimely
<1>3. QED
  BY <1>1, <1>2, ClaimIsTimely, HeartbeatIsTimely, SettleIsTimely DEF WorkerStep

LEMMA NextIsTimely ==
  ASSUME IInv, Timely, Timing, Calm, [Next]_vars
  PROVE  Timely'
<1>1. Planned' /\ Unplanned'
  BY PlansKept DEF Timely
<1>2. LiveOwnerKeepsLease' /\ Fresh'
  <2>1. CASE UNCHANGED vars \/ \E o \in Operators : ReadFailed(o)
    <3>1. row' = row /\ run' = run
      BY <2>1 DEF vars, ReadFailed
    <3>2. QED
      BY <3>1, UntouchedIsTimely DEF LiveOwnerKeepsLease, Fresh, Timely
  <2>2. QED
    BY <2>1, WorkerIsTimely, WriteRetryIsTimely, MarkPresenceIsTimely, TickIsTimely
       DEF Next, OperatorStep
<1>3. QED
  BY <1>1, <1>2 DEF Timely

\* While timers are punctual and a stage times out before its lease can go stale
\* (PROCESSING_STAGE_TIMEOUT <= STALE_JOB_AFTER), a live worker is never robbed of its
\* lease, even when its heartbeats fail.  Only an ingest closes a row under its worker,
\* and a retry that has read the row before would reopen it: no two of these (Calm).
THEOREM OwnerKeepsLease ==
  ASSUME Timing, Calm PROVE Spec => []LiveOwnerKeepsLease
<1>1. Init => IInv /\ Timely
  BY InitIInv DEF Init, Timely, LiveOwnerKeepsLease, Fresh, Planned, Unplanned, Idle, Owns
<1>2. IInv /\ Timely /\ [Next]_vars => IInv' /\ Timely'
  BY NextIInv, NextIsTimely
<1>3. Timely => LiveOwnerKeepsLease
  BY DEF Timely
<1>4. QED
  BY <1>1, <1>2, <1>3, PTL DEF Spec
=============================================================================
