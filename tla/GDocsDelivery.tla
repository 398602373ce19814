---------------------------- MODULE GDocsDelivery ----------------------------
(***************************************************************************)
(* Delivery of one dream to one Google document.  The durable gdocs stage  *)
(* and the user's "retry the write" command both run                       *)
(* facade.write_dream_to_google_doc: claim the unique receipt row, run the *)
(* blocking Google client in a thread, finalize the receipt by a           *)
(* compare-and-swap.  The source ingest reads the same document and closes *)
(* the receipt and the job of an entry it finds there.                     *)
(*                                                                         *)
(* A slot is one invocation and the thread it started: cancelling the      *)
(* coroutine leaves the thread running, so a slot can be live with nobody  *)
(* waiting for it.  The claim token is the slot that drew it: a slot is    *)
(* only used again once its invocation and its thread are over.            *)
(***************************************************************************)
EXTENDS JobRow, FiniteSets

CONSTANTS
  JobSlots,      \* invocations by the gdocs stage of the outbox
  UserSlots,     \* invocations by retry_write_to_google_doc
  ReceiptStale,  \* WRITE_RECEIPT_STALE_AFTER, in ticks
  CallLife,      \* longest time from a claim to the end of its last API request
                 \* (GOOGLE_API_TIMEOUT_SECONDS for each of them)
  LateDelivery,  \* TRUE: the server may apply a request the client gave up on
  MaxEdits,      \* bound: human edits of the document in a behaviour
  MaxClaims      \* bound: claims of the receipt by users

ASSUME SlotAssumption ==
  JobSlots \cup UserSlots \subseteq Nat \ {0} /\ JobSlots \cap UserSlots = {}
ASSUME LifeAssumption ==
  /\ ReceiptStale \in Nat /\ CallLife \in Nat /\ LateDelivery \in BOOLEAN
  /\ MaxEdits \in Nat /\ MaxClaims \in Nat
\* The bounded transport ends every call before its receipt can be taken over.
ASSUME BoundedTransport == CallLife <= ReceiptStale

Slots == JobSlots \cup UserSlots

VARIABLES
  receipt,  \* the dream_write_statuses row
  job,      \* the dream_processing_jobs row of the gdocs stage
  slot,     \* [Slots -> Invocations]
  doc,      \* the document: entries written by the app, its marker, a human's entry
  wire,     \* requests the client gave up on and the server still holds
  reader,   \* the ingest: idle, or what it fetched
  landed,   \* the dream has been in the document at some time
  waited,   \* attempts of the job that only found somebody else's fresh claim
  edits,    \* human edits so far
  claims    \* claims by users so far

vars == <<receipt, job, slot, doc, wire, reader, landed, waited, edits, claims>>

Calling == {"get", "update"}
Live    == {"claimed"} \cup Calling
Invocations ==
  [pc : {"idle", "leased", "returned", "raised", "ok", "notok"} \cup Live,
   life : 0..CallLife, awaited : BOOLEAN]
Receipts == [status : {"none", "pending", "succeeded", "failed"},
             token : {0} \cup Slots, age : 0..(ReceiptStale + 1)]

TypeOK ==
  /\ receipt \in Receipts
  /\ job \in Rows
  /\ slot \in [Slots -> Invocations]
  /\ doc \in [copies : Nat, marker : BOOLEAN, hand : BOOLEAN]
  /\ wire \in Nat
  /\ reader \in {"idle", "found", "absent"}
  /\ landed \in BOOLEAN
  /\ waited \in Nat
  /\ edits \in 0..MaxEdits /\ claims \in 0..MaxClaims

Free == [pc |-> "idle", life |-> 0, awaited |-> FALSE]

Init ==
  /\ receipt = [status |-> "none", token |-> 0, age |-> 0]
  /\ job = NewRow
  /\ slot = [s \in Slots |-> Free]
  /\ doc = [copies |-> 0, marker |-> FALSE, hand |-> FALSE]
  /\ wire = 0 /\ reader = "idle" /\ landed = FALSE
  /\ waited = 0 /\ edits = 0 /\ claims = 0

document == <<doc, wire, landed, edits>>

-----------------------------------------------------------------------------
(* Claiming the receipt.                                                   *)

\* The outbox leases the job (DreamOutbox has the whole protocol).
LeaseJob(s) ==
  /\ s \in JobSlots /\ slot[s].pc = "idle" /\ Eligible(job)
  /\ job' = Claimed(job, s)
  /\ slot' = [slot EXCEPT ![s] = [pc |-> "leased", life |-> 0, awaited |-> TRUE]]
  /\ UNCHANGED <<receipt, document, reader, waited, claims>>

Claimable ==
  \/ receipt.status \in {"none", "failed"}
  \/ receipt.status = "pending" /\ receipt.age > ReceiptStale

MayStart(s) == \/ s \in JobSlots /\ slot[s].pc = "leased"
               \/ s \in UserSlots /\ slot[s].pc = "idle"

\* A user's invocation ends where a job's goes on to settle its row.
Ends(s, pc) == IF s \in JobSlots THEN [Free EXCEPT !.pc = pc] ELSE Free

\* INSERT ... ON CONFLICT DO UPDATE ... WHERE under the lock of the dream row.
ClaimReceipt(s) ==
  /\ MayStart(s) /\ Claimable
  /\ s \in UserSlots => claims < MaxClaims
  /\ claims' = IF s \in UserSlots THEN claims + 1 ELSE claims
  /\ receipt' = [status |-> "pending", token |-> s, age |-> 0]
  /\ slot' = [slot EXCEPT ![s] = [pc |-> "claimed", life |-> 0, awaited |-> TRUE]]
  /\ UNCHANGED <<job, document, reader, waited>>

\* The receipt has succeeded, or another writer owns a fresh claim: write nothing.
LeaveReceipt(s) ==
  /\ MayStart(s) /\ ~Claimable
  /\ slot' = [slot EXCEPT ![s] =
                Ends(s, IF receipt.status = "succeeded" THEN "ok" ELSE "notok")]
  /\ waited' = IF s \in JobSlots /\ receipt.status = "pending" THEN waited + 1 ELSE waited
  /\ UNCHANGED <<receipt, job, document, reader, claims>>

-----------------------------------------------------------------------------
(* The thread: GDocsClient.append_dream_entry.                             *)

\* asyncio.to_thread starts the client.
StartCall(s) ==
  /\ slot[s].pc = "claimed"
  /\ slot' = [slot EXCEPT ![s].pc = "get"]
  /\ UNCHANGED <<receipt, job, document, reader, waited, claims>>

\* What the thread hands back is dropped when nobody awaits it.
Back(s, pc) ==
  slot' = [slot EXCEPT ![s] = IF @.awaited THEN [@ EXCEPT !.pc = pc] ELSE Free]

MarkerIgnored(s) ==                                       \* mutant of ReadDocument
  /\ slot[s].pc = "get"
  /\ slot' = [slot EXCEPT ![s].pc = "update"]
  /\ UNCHANGED <<receipt, job, document, reader, waited, claims>>
\* documents.get: the named range says that the entry was already written.
ReadDocument(s) ==
  /\ slot[s].pc = "get"
  /\ IF doc.marker THEN Back(s, "returned")
                   ELSE slot' = [slot EXCEPT ![s].pc = "update"]
  /\ UNCHANGED <<receipt, job, document, reader, waited, claims>>

Appended == [doc EXCEPT !.copies = @ + 1, !.marker = TRUE]

\* batchUpdate: the text and its named range in one request, with no required
\* revision.  The response may be lost.
BatchUpdate(s) ==
  /\ slot[s].pc = "update"
  /\ doc' = Appended /\ landed' = TRUE
  /\ Back(s, "returned") \/ Back(s, "raised")
  /\ UNCHANGED <<receipt, job, wire, edits, reader, waited, claims>>

\* An HTTP error, or the transport's timeout; the server may still hold the request.
CallFails(s) ==
  /\ slot[s].pc \in Calling
  /\ Back(s, "raised")
  /\ wire' \in {wire} \cup (IF LateDelivery /\ slot[s].pc = "update" THEN {wire + 1} ELSE {})
  /\ UNCHANGED <<receipt, job, doc, landed, edits, reader, waited, claims>>

LateApply ==
  /\ wire > 0
  /\ wire' = wire - 1
  /\ doc' = Appended /\ landed' = TRUE
  /\ UNCHANGED <<receipt, job, slot, edits, reader, waited, claims>>

-----------------------------------------------------------------------------
(* Finalizing.                                                             *)

\* _mark_dream_write_status: nothing happens unless the claim is still ours.
Finalized(s, status) ==
  IF receipt.status = "pending" /\ receipt.token = s
  THEN [status |-> status, token |-> 0, age |-> 0] ELSE receipt

SuccessOnError(s) ==                                      \* mutant of Failure
  /\ slot[s].pc = "raised"
  /\ receipt' = Finalized(s, "succeeded")
  /\ slot' = [slot EXCEPT ![s] = Ends(s, "ok")]
  /\ UNCHANGED <<job, document, reader, waited, claims>>

\* The result of the compare-and-swap is not looked at: the write is reported done.
Success(s) ==
  /\ slot[s].pc = "returned"
  /\ receipt' = Finalized(s, "succeeded")
  /\ slot' = [slot EXCEPT ![s] = Ends(s, "ok")]
  /\ UNCHANGED <<job, document, reader, waited, claims>>

\* An exception, also one of the success update itself, is recorded as failed;
\* when that update fails too the receipt stays pending.
Failure(s) ==
  /\ slot[s].pc \in {"returned", "raised"}
  /\ receipt' \in {Finalized(s, "failed"), receipt}
  /\ slot' = [slot EXCEPT ![s] = Ends(s, "notok")]
  /\ UNCHANGED <<job, document, reader, waited, claims>>

\* The outbox settles the row by its own compare-and-swap.
SettleJob(s) ==
  /\ s \in JobSlots /\ slot[s].pc \in {"ok", "notok"}
  /\ job' = IF ~HeldBy(job, s) THEN job
            ELSE IF slot[s].pc = "ok" THEN Closed(job, "succeeded")
            ELSE FailedAttempt(job, job.attempts)
  /\ slot' = [slot EXCEPT ![s] = Free]
  /\ UNCHANGED <<receipt, document, reader, waited, claims>>

\* The stage timeout or a cancelled task: CancelledError passes both handlers, the
\* receipt stays pending and a running call goes on unobserved.
Cancel(s) ==
  /\ slot[s].awaited
  /\ LET thread == IF slot[s].pc \in Calling THEN [slot[s] EXCEPT !.awaited = FALSE] ELSE Free
     IN  slot' = [slot EXCEPT ![s] = thread]
  /\ job' = IF s \in JobSlots /\ HeldBy(job, s)
            THEN FailedAttempt(job, job.attempts) ELSE job
  /\ UNCHANGED <<receipt, document, reader, waited, claims>>

\* The process dies, and its thread with it; the request may be on its way.
Crash(s) ==
  /\ slot[s].pc # "idle"
  /\ slot' = [slot EXCEPT ![s] = Free]
  /\ wire' \in {wire} \cup (IF LateDelivery /\ slot[s].pc = "update" THEN {wire + 1} ELSE {})
  /\ UNCHANGED <<receipt, job, doc, landed, edits, reader, waited, claims>>

-----------------------------------------------------------------------------
(* The source ingest and the human.                                        *)

FetchDocument ==
  /\ reader = "idle"
  /\ reader' = IF doc.copies > 0 \/ doc.hand THEN "found" ELSE "absent"
  /\ UNCHANGED <<receipt, job, slot, document, waited, claims>>

Reconcilable ==
  /\ reader = "found"
  /\ receipt.status = "pending" => receipt.age > ReceiptStale

\* _mark_google_doc_presence; a fresh claim is a conflict that rolls the ingest back.
StoreEntries ==
  /\ reader # "idle"
  /\ reader' = "idle"
  /\ IF Reconcilable
     THEN /\ receipt' = [status |-> "succeeded", token |-> 0, age |-> 0]
          /\ job' = Closed(job, "succeeded")
     ELSE UNCHANGED <<receipt, job>>
  /\ UNCHANGED <<slot, document, waited, claims>>

\* The document is human-edited: the entry is pasted by hand, or removed together
\* with its named range.
HumanEdit ==
  /\ edits < MaxEdits /\ edits' = edits + 1
  /\ \/ doc' = [doc EXCEPT !.hand = TRUE] /\ landed' = TRUE
     \/ doc' = [copies |-> 0, marker |-> FALSE, hand |-> FALSE] /\ landed' = landed
  /\ UNCHANGED <<receipt, job, slot, wire, reader, waited, claims>>

-----------------------------------------------------------------------------
(* Time.  The heartbeat keeps the lease of a job whose stage is awaited.   *)

Beating == \E s \in JobSlots : HeldBy(job, s) /\ slot[s].awaited

Tick ==
  /\ \A s \in Slots : slot[s].pc \in Live => slot[s].life < CallLife
  /\ receipt' = [receipt EXCEPT !.age = IF receipt.status = "pending" /\ @ <= ReceiptStale
                                        THEN @ + 1 ELSE @]
  /\ job' = IF Beating THEN Renewed(Aged(job)) ELSE Aged(job)
  /\ slot' = [s \in Slots |-> IF slot[s].pc \in Live
                              THEN [slot[s] EXCEPT !.life = @ + 1] ELSE slot[s]]
  /\ UNCHANGED <<document, reader, waited, claims>>

Step(s) ==
  \/ LeaseJob(s) \/ ClaimReceipt(s) \/ LeaveReceipt(s)
  \/ StartCall(s) \/ ReadDocument(s) \/ BatchUpdate(s) \/ CallFails(s)
  \/ Success(s) \/ Failure(s) \/ SettleJob(s) \/ Cancel(s) \/ Crash(s)

Next ==
  \/ \E s \in Slots : Step(s)
  \/ LateApply \/ FetchDocument \/ StoreEntries \/ HumanEdit \/ Tick

Spec == Init /\ [][Next]_vars

-----------------------------------------------------------------------------
(* Properties.                                                             *)

\* "Write a dream entry once" (append_dream_entry): however invocations are
\* cancelled, crash, time out, lose responses and are retried, the app never
\* leaves two copies of the dream in the document.
InsertedOnce == doc.copies <= 1

\* A call that can still write owns the receipt, and its claim is too fresh for a
\* retry to take over or an ingest to close: a cancelled stage's thread included.
LiveCallOwnsReceipt ==
  \A s \in Slots : slot[s].pc \in Live =>
    receipt.status = "pending" /\ receipt.token = s /\ receipt.age <= ReceiptStale

\* The user is told that the dream is in the document, and the job is closed, only
\* if it really has been there: written by the app, or found by the ingest.
NoFalseDelivery == receipt.status = "succeeded" \/ job.status = "succeeded" => landed

\* One lost claim never uses up the job: the retry delays add up to more than
\* WRITE_RECEIPT_STALE_AFTER, so not every attempt can be spent waiting for it.
BudgetOutlastsClaim == waited < MaxAttempts

\* Nothing is appended once the receipt is closed: an entry found by the ingest
\* while its delivery was pending is not written a second time.
AppendClaimed == doc'.copies > doc.copies => receipt.status = "pending"
AppendsUnderClaim == [][AppendClaimed]_vars

\* A delivered dream stays delivered: neither a retry nor a late finalization
\* reopens a receipt that succeeded.
DeliveryIsFinal == receipt.status = "succeeded" => receipt'.status = "succeeded"

\* The receipt can be relied on.  What it or the job reports as delivered has been in
\* the document, and stays reported; and a prompt server adds no copy behind a receipt
\* that an ingest has closed (a late one may, when the client gave up on the request).
ReceiptStands ==
  [][NoFalseDelivery' /\ DeliveryIsFinal /\ (~LateDelivery => AppendClaimed)]_vars
=============================================================================
