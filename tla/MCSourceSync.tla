---------------------------- MODULE MCSourceSync -----------------------------
(* The connected documents (Sources, with the cfg's constants), and two        *)
(* instances of SourceSync: manual jobs under two workers (the cfg's           *)
(* constants, too), and the poll process with edits and failing Redis commands *)
(* (Poll).                                                                    *)
EXTENDS Sources, SourceSync

CONSTANT Poller   \* the auto-sync process

\* No clock: SourceSync lets leases and delays end at any time.
ASSUME ClocklessAssumption == StaleAfter = 0 /\ MaxDelay = 0

VARIABLE part   \* which instance this behaviour is of

Poll == INSTANCE SourceSync WITH
          Jobs <- {}, Workers <- {}, Pollers <- {Poller}, MaxEdits <- 3,
          MaxCrashes <- 2, Refusals <- FALSE, RedisFailures <- TRUE

mcvars == <<sourceVars, vars, part>>

PartsInit ==
  /\ SourcesInit
  /\ \/ part \in {"sources", "manual"} /\ Init
     \/ part = "poll" /\ Poll!Init
PartsNext ==
  /\ \/ part = "sources" /\ SourcesNext /\ UNCHANGED vars
     \/ part = "manual" /\ Next /\ UNCHANGED sourceVars
     \/ part = "poll" /\ Poll!Next /\ UNCHANGED sourceVars
  /\ UNCHANGED part

\* The fairness of each instance, in its own behaviours.
ManualFairness ==
  /\ \A w \in Workers :
       /\ WF_vars(part = "manual" /\ WorkerStep(w))
       /\ WF_vars(part = "manual" /\ IngestStep(w))
       /\ SF_vars(part = "manual" /\ StoreSnapshot(w))
  /\ \A j \in Jobs : WF_vars(part = "manual" /\ LeaseExpires(j))
PollFairness ==
  /\ WF_vars(part = "poll" /\ Poll!PollStep(Poller))
  /\ WF_vars(part = "poll" /\ Poll!IngestStep(Poller))
  /\ SF_vars(part = "poll" /\ Poll!StoreSnapshot(Poller))
  /\ WF_vars(part = "poll" /\ Poll!RunningGrowsOld)

PartsSpec == PartsInit /\ [][PartsNext]_mcvars /\ ManualFairness /\ PollFairness

-----------------------------------------------------------------------------
(* SourcesAgree is that of Sources, RecordsStand and JobsSettle those of     *)
(* SourceSync, of which the poll has no jobs and the jobs have no poll.      *)

\* With the poll loop alone, every edit reaches the archive in the end.
EventuallyFresh == part = "poll" => StaysFresh
=============================================================================
