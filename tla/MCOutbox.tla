------------------------------ MODULE MCOutbox ------------------------------
(* The outbox in one run: workers of DreamOutbox that may pause, crash and    *)
(* take over at any time (crowd: the cfg's constants), punctual ones under    *)
(* the real ratios of the timers (Clock), and the loops of one process that   *)
(* drive the queues (Supervisor), with jobs to enrich or documents to sync.   *)
EXTENDS DreamOutbox, Supervisor

VARIABLES
  clockRow, clockRun, clockIssued, clockDone, clockPlan, clockRetries,
  part   \* which instance this behaviour is of

Clock == INSTANCE DreamOutbox WITH
  row <- clockRow, run <- clockRun, issued <- clockIssued, done <- clockDone,
  plan <- clockPlan, retries <- clockRetries,
  GoogleJobs <- Jobs, MaxRetries <- 0, Punctual <- TRUE,
  MaxAttempts <- 5, StaleAfter <- 10, BaseDelay <- 1, MaxDelay <- 60,
  HeartbeatInterval <- 3, StageTimeout <- 8

clockVars == <<clockRow, clockRun, clockIssued, clockDone, clockPlan, clockRetries>>
mcvars    == <<vars, clockVars, loopVars, part>>

\* One process without an enqueuer and one without captures, since what happens in one
\* queue does not depend on the other.
PartsInit ==
  /\ part \in {"crowd", "clock", "enriching", "syncing"}
  /\ Init /\ Clock!Init /\ LoopsInit
  /\ sync.at = IF part = "syncing" THEN "top" ELSE "ended"

Enriching == LoopsNext /\ voice'.tasks = 0
Syncing == LoopsNext /\ \A j \in OutboxJobs : progress'[j] = "none"

PartsNext ==
  /\ \/ part = "crowd"     /\ Next       /\ UNCHANGED <<clockVars, loopVars>>
     \/ part = "clock"     /\ Clock!Next /\ UNCHANGED <<vars, loopVars>>
     \/ part = "enriching" /\ Enriching  /\ UNCHANGED <<vars, clockVars>>
     \/ part = "syncing"   /\ Syncing    /\ UNCHANGED <<vars, clockVars>>
  /\ UNCHANGED part

\* The fairness of DreamOutbox, in the behaviours of the crowd.
CrowdFairness ==
  /\ WF_vars(part = "crowd" /\ Tick)
  /\ \A w \in Workers :
       /\ WF_vars(part = "crowd" /\ Claim(w)) /\ WF_vars(part = "crowd" /\ CheckLease(w))
       /\ WF_vars(part = "crowd" /\ TimeOut(w)) /\ WF_vars(part = "crowd" /\ Heartbeat(w))
       /\ WF_vars(part = "crowd" /\ Settle(w))

PartsSpec == PartsInit /\ [][PartsNext]_mcvars /\ CrowdFairness

-----------------------------------------------------------------------------
(* OneOwner, NoFalseSuccess and ImplementsLeasedWork of DreamOutbox are about *)
(* the crowd, SleepsOnlyWhenDrained and ClosedMeansQuiet of Supervisor about   *)
(* the loops.                                                                 *)

\* The timeouts fit one another.  While timers are punctual no live worker is robbed of
\* its lease (PROCESSING_STAGE_TIMEOUT and LEASE_HEARTBEAT_INTERVAL against
\* STALE_JOB_AFTER), and with an ingest beside them rows are still fenced and truthful;
\* and the limits of the parts of a shutdown fit into its own (bot.py).
TimeoutsFit ==
  /\ part = "clock" =>
       Clock!LiveOwnerKeepsLease /\ Clock!OneOwner /\ Clock!NoFalseSuccess
  /\ ShutdownFits

\* Every job reaches succeeded or failed (the loops of dream_supervisor.py).
CrowdSettles == part = "crowd" => EventuallySettled
=============================================================================
