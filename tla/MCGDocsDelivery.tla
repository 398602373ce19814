--------------------------- MODULE MCGDocsDelivery ---------------------------
(* Two instances of GDocsDelivery in one run.  The cfg's: two workers and a  *)
(* user, a prompt server, and retry delays in a real proportion to the life  *)
(* of a receipt.  Late: one worker, a user who retries twice, and a server   *)
(* that may apply what the client gave up on, to a document of its own.      *)
EXTENDS GDocsDelivery

VARIABLES
  lateDoc,
  late      \* which instance this behaviour is of

Late == INSTANCE GDocsDelivery WITH
  MaxAttempts <- 2, StaleAfter <- 1, BaseDelay <- 1, MaxDelay <- 1,
  JobSlots <- {1}, UserSlots <- {2}, ReceiptStale <- 2, CallLife <- 1,
  LateDelivery <- TRUE, MaxEdits <- 1, MaxClaims <- 2, doc <- lateDoc

mcvars == <<vars, lateDoc, late>>

BothInit ==
  \/ late = FALSE /\ Init /\ lateDoc = doc
  \/ late = TRUE  /\ Late!Init /\ doc = lateDoc
BothNext ==
  /\ \/ ~late /\ Next /\ UNCHANGED lateDoc
     \/ late /\ Late!Next /\ UNCHANGED doc
  /\ UNCHANGED late
BothSpec == BothInit /\ [][BothNext]_mcvars
=============================================================================
