----------------------------- MODULE DreamOutbox -----------------------------
(***************************************************************************)
(* The post-capture outbox of app/workers/dream_processing.py: durable job *)
(* rows that several workers claim under a lease, keep alive with a        *)
(* heartbeat, run under a stage timeout and settle by a compare-and-swap   *)
(* on the lease token; the operator's retry of failed stages               *)
(* (facade.retry_dream_processing) and the source ingest that closes a     *)
(* gdocs job of an entry it finds in the document                          *)
(* (ingest._mark_google_doc_presence).                                     *)
(*                                                                         *)
(* Every database transaction is one action.  What a worker does between   *)
(* two of its transactions is a state of its own, so a crash, a pause, a   *)
(* takeover or a second operator fits between any two of them.             *)
(***************************************************************************)
EXTENDS JobRow, FiniteSets

CONSTANTS
  Jobs,               \* the rows of the table
  GoogleJobs,         \* those whose stage is gdocs and that an ingest may close
  Workers,            \* claim loops: supervisor turns, arq workers, processes
  Operators,          \* concurrent callers of retry_dream_processing
  HeartbeatInterval,  \* LEASE_HEARTBEAT_INTERVAL, in ticks
  StageTimeout,       \* PROCESSING_STAGE_TIMEOUT, in ticks
  MaxRetries,         \* bound: calls of retry_dream_processing in a behaviour
  Punctual,           \* TRUE: timers fire on the tick; FALSE: a process may be
                      \* paused for any time before its next step
  NoJob               \* not a job

ASSUME JobAssumption == GoogleJobs \subseteq Jobs /\ NoJob \notin Jobs
ASSUME TimerAssumption ==
  /\ HeartbeatInterval \in Nat /\ StageTimeout \in Nat /\ MaxRetries \in Nat
  /\ Punctual \in BOOLEAN

VARIABLES
  row,      \* [Jobs -> Rows], the table
  run,      \* [Workers -> Runs], what each worker is doing
  issued,   \* lease tokens handed out so far; uuid4 as the next number
  done,     \* jobs whose stage work has reached its store at least once
  plan,     \* [Operators -> SUBSET Jobs], failed rows an operator has read
  retries   \* calls of retry_dream_processing so far

vars == <<row, run, issued, done, plan, retries>>

Busy == {"claimed", "working"}
Runs == [pc : {"idle", "claimed", "working", "ok", "error"},
         job : Jobs \cup {NoJob}, token : Nat, attempt : 0..MaxAttempts,
         elapsed : 0..StageTimeout, since : 0..HeartbeatInterval,
         beating : BOOLEAN]

Idle == [pc |-> "idle", job |-> NoJob, token |-> NoToken, attempt |-> 0,
         elapsed |-> 0, since |-> 0, beating |-> FALSE]

TypeOK ==
  /\ row \in [Jobs -> Rows]
  /\ run \in [Workers -> Runs]
  /\ \A w \in Workers : run[w].pc # "idle" => run[w].job \in Jobs
  /\ issued \in Nat
  /\ done \subseteq Jobs
  /\ plan \in [Operators -> SUBSET Jobs]
  /\ retries \in 0..MaxRetries

Init ==
  /\ row = [j \in Jobs |-> NewRow]
  /\ run = [w \in Workers |-> Idle]
  /\ issued = 0
  /\ done = {}
  /\ plan = [o \in Operators |-> {}]
  /\ retries = 0

Owns(w) == run[w].pc # "idle" /\ HeldBy(row[run[w].job], run[w].token)

-----------------------------------------------------------------------------
(* Claiming: one transaction that first fails the exhausted stale rows of  *)
(* its scope and then leases at most one eligible row.                     *)

\* process_dream_job looks at one id, process_pending_dream_jobs at them all.
Scopes == {Jobs} \cup {{j} : j \in Jobs}

Swept(S) == [j \in Jobs |-> IF j \in S /\ Exhausted(row[j])
                            THEN Closed(row[j], "failed") ELSE row[j]]

Lease(w, S, j) ==
  /\ Eligible(row[j])
  /\ row' = [Swept(S) EXCEPT ![j] = Claimed(@, issued + 1)]
  /\ run' = [run EXCEPT ![w] =
               [Idle EXCEPT !.pc = "claimed", !.job = j, !.token = issued + 1,
                            !.attempt = row[j].attempts + 1, !.beating = TRUE]]
  /\ issued' = issued + 1

NothingToLease(S) ==
  /\ \A j \in S : ~Eligible(row[j])
  /\ row' = Swept(S)
  /\ row' # row
  /\ UNCHANGED <<run, issued>>

Claim(w) ==
  /\ run[w].pc = "idle"
  /\ \E S \in Scopes : NothingToLease(S) \/ \E j \in S : Lease(w, S, j)
  /\ UNCHANGED <<done, plan, retries>>

-----------------------------------------------------------------------------
(* Running a claimed stage.                                                *)

Outcome(w, pc) == run' = [run EXCEPT ![w].pc = pc, ![w].beating = FALSE]

\* process_dream_processing_job checks the lease once, before the stage starts.
CheckLease(w) ==
  /\ run[w].pc = "claimed"
  /\ IF Owns(w) THEN run' = [run EXCEPT ![w].pc = "working"]
                ELSE Outcome(w, "error")
  /\ UNCHANGED <<row, issued, done, plan, retries>>

StageReturns(w) ==
  /\ run[w].pc = "working"
  /\ Outcome(w, "ok")
  /\ done' = done \cup {run[w].job}
  /\ UNCHANGED <<row, issued, plan, retries>>

StageErrorSwallowed(w) ==                                \* mutant of StageRaises
  /\ run[w].pc \in Busy
  /\ Outcome(w, "ok")
  /\ UNCHANGED <<row, issued, done, plan, retries>>
\* An exception, before or after the stage's own commit.
StageRaises(w) ==
  /\ run[w].pc \in Busy
  /\ Outcome(w, "error")
  /\ done' \in {done, done \cup (IF run[w].pc = "working" THEN {run[w].job} ELSE {})}
  /\ UNCHANGED <<row, issued, plan, retries>>

\* asyncio.wait_for cancels the stage; its last commit may already be durable.
TimeOut(w) ==
  /\ run[w].elapsed = StageTimeout
  /\ StageRaises(w)

\* _lease_heartbeat stops at the first renewal that fails or finds the lease gone;
\* the stage runs on.
Heartbeat(w) ==
  /\ run[w].pc \in Busy /\ run[w].beating /\ run[w].since = HeartbeatInterval
  /\ \/ /\ Owns(w)
        /\ row' = [row EXCEPT ![run[w].job] = Renewed(@)]
        /\ run' = [run EXCEPT ![w].since = 0]
     \/ /\ row' = row
        /\ run' = [run EXCEPT ![w].beating = FALSE]
  /\ UNCHANGED <<issued, done, plan, retries>>

\* _mark_succeeded / _mark_failed_attempt: the final compare-and-swap.
SettledRow(w) ==
  LET j == run[w].job
  IN  IF run[w].pc = "ok" THEN Closed(row[j], "succeeded")
                          ELSE FailedAttempt(row[j], run[w].attempt)
Settle(w) ==
  /\ run[w].pc \in {"ok", "error"}
  /\ row' = IF Owns(w) THEN [row EXCEPT ![run[w].job] = SettledRow(w)] ELSE row
  /\ run' = [run EXCEPT ![w] = Idle]
  /\ UNCHANGED <<issued, done, plan, retries>>

\* The process dies, the task is cancelled (CancelledError is not an Exception),
\* or the settling transaction fails: the row stays as it is.
Abandon(w) ==
  /\ run[w].pc # "idle"
  /\ run' = [run EXCEPT ![w] = Idle]
  /\ UNCHANGED <<row, issued, done, plan, retries>>

-----------------------------------------------------------------------------
(* The operator and the source ingest.                                     *)

ReadAny(o) ==                                             \* mutant of ReadFailed
  /\ plan[o] = {} /\ retries < MaxRetries
  /\ \E S \in SUBSET Jobs : S # {} /\ plan' = [plan EXCEPT ![o] = S]
  /\ retries' = retries + 1
  /\ UNCHANGED <<row, run, issued, done>>
ReadFailed(o) ==
  /\ plan[o] = {} /\ retries < MaxRetries
  /\ \E S \in SUBSET Jobs :
       LET failed == {j \in S : row[j].status = "failed"}
       IN  failed # {} /\ plan' = [plan EXCEPT ![o] = failed]
  /\ retries' = retries + 1
  /\ UNCHANGED <<row, run, issued, done>>

\* The UPDATE is by primary key: nothing compares the status that was read.
WriteRetry(o) ==
  /\ plan[o] # {}
  /\ row' = [j \in Jobs |-> IF j \in plan[o] THEN Rearmed(row[j]) ELSE row[j]]
  /\ plan' = [plan EXCEPT ![o] = {}]
  /\ UNCHANGED <<run, issued, done, retries>>

\* The ingest found the dream's entry in the document.
MarkPresence(j) ==
  /\ j \in GoogleJobs
  /\ row' = [row EXCEPT ![j] = Closed(@, "succeeded")]
  /\ done' = done \cup {j}
  /\ UNCHANGED <<run, issued, plan, retries>>

-----------------------------------------------------------------------------
(* Time.                                                                   *)

\* A worker whose next step is due: a timer has expired, or it is between two
\* awaits that wait for nothing.
Due(w) ==
  \/ run[w].pc \in {"ok", "error"}
  \/ run[w].pc \in Busy /\ run[w].elapsed = StageTimeout
  \/ run[w].pc \in Busy /\ run[w].beating /\ run[w].since = HeartbeatInterval

Older(r) ==
  [r EXCEPT !.elapsed = IF r.pc \in Busy /\ @ < StageTimeout THEN @ + 1 ELSE @,
            !.since   = IF r.pc \in Busy /\ @ < HeartbeatInterval THEN @ + 1 ELSE @]

Tick ==
  /\ Punctual => \A w \in Workers : ~Due(w)
  /\ row' = [j \in Jobs |-> Aged(row[j])]
  /\ run' = [w \in Workers |-> Older(run[w])]
  /\ UNCHANGED <<issued, done, plan, retries>>

-----------------------------------------------------------------------------
WorkerStep(w) ==
  \/ Claim(w) \/ CheckLease(w) \/ StageReturns(w) \/ StageRaises(w)
  \/ TimeOut(w) \/ Heartbeat(w) \/ Settle(w) \/ Abandon(w)

OperatorStep(o) == ReadFailed(o) \/ WriteRetry(o)

Next ==
  \/ \E w \in Workers : WorkerStep(w)
  \/ \E o \in Operators : OperatorStep(o)
  \/ \E j \in GoogleJobs : MarkPresence(j)
  \/ Tick

Spec == Init /\ [][Next]_vars

\* The loops of dream_supervisor.py and of the arq worker keep running, asyncio
\* timers fire, and a settled outcome is written.  Nothing obliges a stage to
\* return, an operator to retry or an ingest to find an entry.
Fairness ==
  /\ WF_vars(Tick)
  /\ \A w \in Workers :
       /\ WF_vars(Claim(w)) /\ WF_vars(CheckLease(w)) /\ WF_vars(TimeOut(w))
       /\ WF_vars(Heartbeat(w)) /\ WF_vars(Settle(w))

FairSpec == Spec /\ Fairness

-----------------------------------------------------------------------------
(* Properties.                                                             *)

\* Fencing.  However leases expire, at most one worker can still change a row:
\* no two live claims pass the "status running and same lock_token" test of
\* _renew_lease, _mark_succeeded and _mark_failed_attempt for the same row.
OneOwner ==
  \A w, v \in Workers : Owns(w) /\ Owns(v) /\ run[w].job = run[v].job => w = v

\* _mark_failed_attempt decides between failed and retryable from the attempt
\* count its claim carried in memory; for a worker that still owns the row that
\* count is the row's own, whatever other claims and retries happened meanwhile.
OwnerKnowsAttempt ==
  \A w \in Workers : Owns(w) => run[w].attempt = row[run[w].job].attempts

\* A row says succeeded only after its stage (or the source document) really
\* holds the result: crashes, timeouts and takeovers never turn an unfinished
\* stage into a success.
NoFalseSuccess == \A j \in Jobs : row[j].status = "succeeded" => j \in done

\* Nothing is stranded: a row that waits to be claimed has budget left, so the
\* claim query can find it, and only a spent budget makes a row failed.
NothingStranded ==
  \A j \in Jobs : /\ Waiting(row[j]) => row[j].attempts < MaxAttempts
                  /\ row[j].status = "failed" => row[j].attempts = MaxAttempts

\* While timers are punctual, a worker that is alive is never robbed of its
\* lease, even when its heartbeats fail: the stage timeout ends the stage before
\* the lease can grow stale (PROCESSING_STAGE_TIMEOUT < STALE_JOB_AFTER).  Only an
\* ingest that finds the work done in the document closes a row under its worker.
LiveOwnerKeepsLease ==
  \A w \in Workers : run[w].pc # "idle" => Owns(w) \/ row[run[w].job].status = "succeeded"

\* What the outbox promises its users (LeasedWork), read off the rows.
Phase(r) == CASE Waiting(r)             -> "open"
              [] r.status = "running"   -> "held"
              [] r.status = "succeeded" -> "done"
              [] r.status = "failed"    -> "dead"

Promise == INSTANCE LeasedWork WITH
  Work    <- Jobs,
  phase   <- [j \in Jobs |-> Phase(row[j])],
  holder  <- [j \in Jobs |-> IF row[j].status = "running" THEN row[j].token ELSE 0],
  tickets <- issued

\* With one operator at a time and no ingest, the outbox implements leased work:
\* every takeover carries a new ticket, only held jobs settle, succeeded jobs are
\* final and failed ones are only ever reopened.
ImplementsLeasedWork == Promise!Spec

\* Every job reaches succeeded or failed, whatever crashes, hangs and lost
\* heartbeats come between: a stranded lease is reclaimed or swept, and the
\* attempt budget ends the retries.
EventuallySettled == \A j \in Jobs : []<>Terminal(row[j])
=============================================================================
