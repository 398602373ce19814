--------------------------- MODULE MCVoicePipeline ---------------------------
(* Two voice messages side by side, of which a behaviour takes one: a reply   *)
(* of several chunks and updates that nothing divides (the cfg's constants),  *)
(* and a reply of one chunk when the supervisor may run between the two       *)
(* transactions of an update, as it may in the code (Split).                  *)
EXTENDS VoicePipeline

VARIABLES
  row1, file1, act1, sent1, sends1, told1, interrupts1,   \* of Split
  split   \* which instance this behaviour is of

Split == INSTANCE VoicePipeline WITH
  Chunks <- 1, MaxInterrupts <- 1, LateIngress <- TRUE,
  row <- row1, file <- file1, act <- act1, sent <- sent1, sends <- sends1,
  told <- told1, interrupts <- interrupts1

splitVars == <<row1, file1, act1, sent1, sends1, told1, interrupts1>>
mcvars    == <<vars, splitVars, split>>

BothInit == split \in BOOLEAN /\ Init /\ Split!Init
BothNext ==
  /\ \/ ~split /\ Next /\ UNCHANGED splitVars
     \/ split /\ Split!Next /\ UNCHANGED vars
  /\ UNCHANGED split

\* The fairness of Split, in its own behaviours; the other one is checked for safety.
SplitFairness ==
  /\ \A w \in Workers :
       WF_splitVars(split /\ Split!Step(w)) /\ SF_splitVars(split /\ Split!Download(w))
  /\ WF_splitVars(split /\ Split!LeaseLapses) /\ WF_splitVars(split /\ Split!RowAges)
  /\ WF_splitVars(split /\ Split!FileAges) /\ WF_splitVars(split /\ Split!CleanupMedia)
  /\ WF_splitVars(split /\ Split!CleanupOrphan)
BothSpec == BothInit /\ [][BothNext]_mcvars /\ SplitFairness

-----------------------------------------------------------------------------
(* OneReply, DeliveredWhole, RepeatsExplained and TranscribedOnce are those of *)
(* VoicePipeline, without interruptions between the transactions of an update. *)

\* Every received voice message is answered in the end, and its raw audio does not
\* outlive it: the sweeps get the file.
SplitEnds == split => Split!EventuallyAnswered /\ Split!AudioGone
=============================================================================
