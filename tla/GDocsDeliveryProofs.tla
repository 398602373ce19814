------------------------- MODULE GDocsDeliveryProofs -------------------------
(***************************************************************************)
(* Proofs about GDocsDelivery for any number of concurrent invocations, any *)
(* attempt budget and any clock settings under which the bounded transport  *)
(* ends a call before its claim can be taken over.                          *)
(***************************************************************************)
EXTENDS GDocsDelivery, JobRowProofs

-----------------------------------------------------------------------------
(* The inductive invariant.                                                *)

\* A live invocation's claim is exactly as old as the invocation.
Claims ==
  \A s \in Slots : slot[s].pc \in Live =>
    receipt.status = "pending" /\ receipt.token = s /\ receipt.age = slot[s].life

\* While no request outlives its client, the named range tells whether the app's
\* entry is there, and a call about to write has seen that it is not.
Marked ==
  ~LateDelivery =>
    /\ wire = 0
    /\ doc.copies = IF doc.marker THEN 1 ELSE 0
    /\ \A s \in Slots : slot[s].pc = "update" => ~doc.marker

IInv == TypeOK /\ Claims /\ Marked

-----------------------------------------------------------------------------
(* Generic preservation facts.                                             *)

LEMMA InvocationTypes ==
  /\ Free \in Invocations
  /\ \A s \in Slots, pc \in {"ok", "notok"} : Ends(s, pc) \in Invocations
  /\ \A s, pc : Ends(s, pc).pc \in {"idle", pc}
<1>1. 0 \in 0..CallLife
  BY LifeAssumption
<1>2. Free \in Invocations
  BY <1>1 DEF Free, Invocations
<1>3. \A pc \in {"ok", "notok"} : [Free EXCEPT !.pc = pc] \in Invocations
  BY <1>1 DEF Free, Invocations
<1>4. QED
  BY <1>2, <1>3 DEF Ends, Free

\* A step of one slot that makes no slot live keeps Claims if it keeps the receipt.
LEMMA ClaimsKept ==
  ASSUME IInv, NEW s \in Slots, NEW i, slot' = [slot EXCEPT ![s] = i],
         i.pc \in Live => slot[s].pc \in Live /\ i.life = slot[s].life,
         receipt' = receipt
  PROVE  Claims'
  BY DEF IInv, TypeOK, Claims

\* A slot whose invocation is not live may change the receipt only if no slot is.
LEMMA ClaimsVacuous ==
  ASSUME IInv, NEW s \in Slots, NEW i, slot' = [slot EXCEPT ![s] = i],
         i.pc \notin Live, \A t \in Slots \ {s} : slot[t].pc \notin Live
  PROVE  Claims'
  BY DEF IInv, TypeOK, Claims

LEMMA MarkedKept ==
  ASSUME IInv, NEW s \in Slots, NEW i, slot' = [slot EXCEPT ![s] = i],
         i.pc = "update" => slot[s].pc = "update",
         doc' = doc, ~LateDelivery => wire' = wire
  PROVE  Marked'
  BY DEF IInv, TypeOK, Marked

\* Only the owner's token is on a live call's receipt.
LEMMA OnlyOwnerIsLive ==
  ASSUME IInv, NEW s \in Slots, receipt.token = s
  PROVE  \A t \in Slots \ {s} : slot[t].pc \notin Live
  BY DEF IInv, Claims

LEMMA ClaimableIsQuiet ==
  ASSUME IInv, Claimable \/ receipt.status # "pending" \/ receipt.age > ReceiptStale
  PROVE  \A t \in Slots : slot[t].pc \notin Live
<1>1. \A t \in Slots : slot[t].pc \in Live =>
        receipt.status = "pending" /\ receipt.age = slot[t].life /\ slot[t].life \in 0..CallLife
  BY DEF IInv, TypeOK, Claims, Invocations
<1>2. \A n \in 0..CallLife : ~(n > ReceiptStale)
  BY BoundedTransport, LifeAssumption
<1>3. QED
  BY <1>1, <1>2 DEF Claimable

LEMMA BackType ==
  ASSUME IInv, NEW s \in Slots, NEW pc \in {"returned", "raised"}, Back(s, pc)
  PROVE  \E i \in Invocations : i.pc \in {"idle", pc} /\ slot' = [slot EXCEPT ![s] = i]
<1> DEFINE i == IF slot[s].awaited THEN [slot[s] EXCEPT !.pc = pc] ELSE Free
<1>1. slot[s] \in Invocations
  BY DEF IInv, TypeOK
<1>2. i \in Invocations /\ i.pc \in {"idle", pc}
  BY <1>1, InvocationTypes DEF Invocations, Free
<1>3. slot' = [slot EXCEPT ![s] = i]
  BY DEF Back
<1>4. QED
  BY <1>2, <1>3

-----------------------------------------------------------------------------
(* Every action preserves the invariant.                                   *)

LEMMA InitIInv == Init => IInv
<1> SUFFICES ASSUME Init PROVE IInv
  OBVIOUS
<1>1. TypeOK
  <2>1. receipt \in Receipts
    BY LifeAssumption DEF Init, Receipts
  <2>2. slot \in [Slots -> Invocations]
    BY InvocationTypes DEF Init
  <2>3. doc \in [copies : Nat, marker : BOOLEAN, hand : BOOLEAN]
    BY DEF Init
  <2>4. landed \in BOOLEAN /\ reader \in {"idle", "found", "absent"}
    BY Zenon DEF Init
  <2>5. wire \in Nat /\ waited \in Nat /\ edits \in 0..MaxEdits /\ claims \in 0..MaxClaims
    BY LifeAssumption DEF Init
  <2>6. job \in Rows
    BY NewRowType DEF Init
  <2>7. QED
    BY <2>1, <2>2, <2>3, <2>4, <2>5, <2>6 DEF TypeOK
<1>2. Claims /\ Marked
  BY DEF Init, Claims, Marked, Free, Live, Calling
<1>3. QED
  BY <1>1, <1>2 DEF IInv

LEMMA LeaseJobIInv ==
  ASSUME IInv, NEW s \in Slots, LeaseJob(s)
  PROVE  IInv'
<1> DEFINE i == [pc |-> "leased", life |-> 0, awaited |-> TRUE]
<1>1. i \in Invocations /\ i.pc = "leased" /\ slot' = [slot EXCEPT ![s] = i]
  BY LifeAssumption DEF LeaseJob, Invocations
<1>2. job' \in Rows
  BY ClaimedType, SlotAssumption DEF LeaseJob, IInv, TypeOK, Eligible
<1> HIDE DEF i
<1>3. TypeOK'
  BY <1>1, <1>2 DEF LeaseJob, document, IInv, TypeOK
<1>4. Claims'
  BY <1>1, ClaimsKept DEF LeaseJob, Live, Calling
<1>5. Marked'
  BY <1>1, MarkedKept DEF LeaseJob, document
<1>6. QED
  BY <1>3, <1>4, <1>5 DEF IInv

LEMMA ClaimReceiptIInv ==
  ASSUME IInv, NEW s \in Slots, ClaimReceipt(s)
  PROVE  IInv'
<1> DEFINE i == [pc |-> "claimed", life |-> 0, awaited |-> TRUE]
<1>1. i \in Invocations /\ i.pc = "claimed" /\ i.life = 0 /\ slot' = [slot EXCEPT ![s] = i]
  BY LifeAssumption DEF ClaimReceipt, Invocations, Live
<1>2. receipt' = [status |-> "pending", token |-> s, age |-> 0] /\ receipt' \in Receipts
  BY LifeAssumption DEF ClaimReceipt, Receipts
<1>3. claims' \in 0..MaxClaims
  BY LifeAssumption DEF ClaimReceipt, IInv, TypeOK
<1> HIDE DEF i
<1>4. TypeOK'
  <2>1. UNCHANGED <<job, doc, wire, landed, edits, reader, waited>>
    BY DEF ClaimReceipt, document
  <2>2. QED
    BY <1>1, <1>2, <1>3, <2>1 DEF IInv, TypeOK
<1>5. \A t \in Slots : slot[t].pc \notin Live
  BY ClaimableIsQuiet DEF ClaimReceipt
<1>6. Claims'
  BY <1>1, <1>2, <1>5 DEF Claims, IInv, TypeOK
<1>7. Marked'
  BY <1>1, MarkedKept DEF ClaimReceipt, document
<1>8. QED
  BY <1>4, <1>6, <1>7 DEF IInv

LEMMA LeaveReceiptIInv ==
  ASSUME IInv, NEW s \in Slots, LeaveReceipt(s)
  PROVE  IInv'
<1> DEFINE pc == IF receipt.status = "succeeded" THEN "ok" ELSE "notok"
           i == Ends(s, pc)
<1>1. i \in Invocations /\ i.pc \in {"idle", pc} /\ slot' = [slot EXCEPT ![s] = i]
  BY InvocationTypes DEF LeaveReceipt
<1>2. waited' \in Nat
  BY DEF LeaveReceipt, IInv, TypeOK
<1>3. TypeOK'
  <2> HIDE DEF i
  <2> QED
    BY <1>1, <1>2 DEF LeaveReceipt, document, IInv, TypeOK
<1>4. i.pc \notin Live /\ i.pc # "update"
  BY <1>1 DEF Live, Calling
<1> HIDE DEF i
<1>5. Claims'
  BY <1>1, <1>4, ClaimsKept DEF LeaveReceipt
<1>6. Marked'
  BY <1>1, <1>4, MarkedKept DEF LeaveReceipt, document
<1>7. QED
  BY <1>3, <1>5, <1>6 DEF IInv

LEMMA StartCallIInv ==
  ASSUME IInv, NEW s \in Slots, StartCall(s)
  PROVE  IInv'
<1> DEFINE i == [slot[s] EXCEPT !.pc = "get"]
<1>1. slot[s] \in Invocations
  BY DEF IInv, TypeOK
<1>2. i \in Invocations /\ i.pc = "get" /\ i.life = slot[s].life
  BY <1>1 DEF Invocations, Live, Calling
<1>3. slot' = [slot EXCEPT ![s] = i] /\ slot[s].pc \in Live
  BY DEF StartCall, Live
<1> HIDE DEF i
<1>4. TypeOK'
  BY <1>2, <1>3 DEF StartCall, document, IInv, TypeOK
<1>5. Claims'
  BY <1>2, <1>3, ClaimsKept DEF StartCall
<1>6. Marked'
  BY <1>2, <1>3, MarkedKept DEF StartCall, document
<1>7. QED
  BY <1>4, <1>5, <1>6 DEF IInv

LEMMA ReadDocumentIInv ==
  ASSUME IInv, NEW s \in Slots, ReadDocument(s)
  PROVE  IInv'
<1>1. slot[s] \in Invocations
  BY DEF IInv, TypeOK
<1>2. CASE doc.marker
  <2>1. PICK i \in Invocations : i.pc \in {"idle", "returned"} /\ slot' = [slot EXCEPT ![s] = i]
    BY <1>2, BackType DEF ReadDocument
  <2>2. TypeOK'
    BY <2>1 DEF ReadDocument, document, IInv, TypeOK
  <2>3. Claims'
    BY <2>1, ClaimsKept DEF ReadDocument, Live, Calling
  <2>4. Marked'
    BY <2>1, MarkedKept DEF ReadDocument, document
  <2>5. QED
    BY <2>2, <2>3, <2>4 DEF IInv
<1>3. CASE ~doc.marker
  <2> DEFINE i == [slot[s] EXCEPT !.pc = "update"]
  <2>1. i \in Invocations /\ i.pc = "update" /\ i.life = slot[s].life
    BY <1>1 DEF Invocations, Live, Calling
  <2>2. slot' = [slot EXCEPT ![s] = i] /\ slot[s].pc \in Live
    BY <1>3 DEF ReadDocument, Live, Calling
  <2> HIDE DEF i
  <2>3. TypeOK'
    BY <2>1, <2>2 DEF ReadDocument, document, IInv, TypeOK
  <2>4. Claims'
    BY <2>1, <2>2, ClaimsKept DEF ReadDocument
  <2>5. Marked'
    BY <1>3, <2>1, <2>2 DEF ReadDocument, document, IInv, TypeOK, Marked
  <2>6. QED
    BY <2>3, <2>4, <2>5 DEF IInv
<1>4. QED
  BY <1>2, <1>3

LEMMA AppendedType ==
  ASSUME IInv
  PROVE  /\ Appended \in [copies : Nat, marker : BOOLEAN, hand : BOOLEAN]
         /\ Appended.marker /\ Appended.copies = doc.copies + 1
<1>1. doc \in [copies : Nat, marker : BOOLEAN, hand : BOOLEAN]
  BY DEF IInv, TypeOK
<1>2. doc.copies + 1 \in Nat
  BY <1>1
<1>3. Appended \in [copies : Nat, marker : BOOLEAN, hand : BOOLEAN]
  BY <1>1, <1>2, Zenon DEF Appended
<1>4. Appended.marker
  BY <1>1, Zenon DEF Appended
<1>5. QED
  BY <1>1, <1>3, <1>4, SMT DEF Appended

LEMMA BatchUpdateIInv ==
  ASSUME IInv, NEW s \in Slots, BatchUpdate(s)
  PROVE  IInv'
<1>1. PICK i \in Invocations :
        i.pc \in {"idle", "returned", "raised"} /\ slot' = [slot EXCEPT ![s] = i]
  BY BackType DEF BatchUpdate
<1>2. doc' = Appended /\ landed' = TRUE /\ slot[s].pc = "update"
  BY DEF BatchUpdate
<1>3. TypeOK'
  BY <1>1, <1>2, AppendedType DEF BatchUpdate, IInv, TypeOK
<1>4. Claims'
  BY <1>1, ClaimsKept DEF BatchUpdate, Live, Calling
<1>5. \A t \in Slots \ {s} : slot[t].pc # "update"
  BY <1>2 DEF IInv, Claims, Live, Calling
<1>6. ~LateDelivery => doc.copies = 0 /\ wire' = 0
  BY <1>2 DEF IInv, Marked, BatchUpdate
<1>7. Marked'
  BY <1>1, <1>2, <1>5, <1>6, AppendedType DEF Marked, IInv, TypeOK
<1>8. QED
  BY <1>3, <1>4, <1>7 DEF IInv

LEMMA CallFailsIInv ==
  ASSUME IInv, NEW s \in Slots, CallFails(s)
  PROVE  IInv'
<1>1. PICK i \in Invocations : i.pc \in {"idle", "raised"} /\ slot' = [slot EXCEPT ![s] = i]
  BY BackType DEF CallFails
<1>2. wire' \in Nat /\ (~LateDelivery => wire' = wire)
  BY DEF CallFails, IInv, TypeOK
<1>3. TypeOK'
  BY <1>1, <1>2 DEF CallFails, IInv, TypeOK
<1>4. Claims'
  BY <1>1, ClaimsKept DEF CallFails, Live, Calling
<1>5. Marked'
  BY <1>1, <1>2, MarkedKept DEF CallFails
<1>6. QED
  BY <1>3, <1>4, <1>5 DEF IInv

\* A slot that finishes: its claim, if any, goes with it.
LEMMA FinalizedKeepsClaims ==
  ASSUME IInv, NEW s \in Slots, NEW i, slot' = [slot EXCEPT ![s] = i],
         i.pc \notin Live, receipt' = receipt \/ receipt.token = s
  PROVE  Claims'
<1>1. CASE receipt' = receipt
  BY <1>1, ClaimsKept
<1>2. CASE receipt.token = s
  <2>1. \A t \in Slots \ {s} : slot[t].pc \notin Live
    BY <1>2, OnlyOwnerIsLive
  <2>2. QED
    BY <2>1, ClaimsVacuous
<1>3. QED
  BY <1>1, <1>2

LEMMA FinalizedType ==
  ASSUME IInv, NEW s \in Slots, NEW status \in {"succeeded", "failed"}
  PROVE  Finalized(s, status) \in Receipts
<1>1. [status |-> status, token |-> 0, age |-> 0] \in Receipts
  BY LifeAssumption DEF Receipts
<1>2. QED
  BY <1>1 DEF Finalized, IInv, TypeOK

LEMMA FinishIInv ==
  ASSUME IInv, NEW s \in Slots, Success(s) \/ Failure(s)
  PROVE  IInv'
<1>1. PICK status \in {"succeeded", "failed"}, pc \in {"ok", "notok"} :
        /\ receipt' \in {Finalized(s, status), receipt}
        /\ slot' = [slot EXCEPT ![s] = Ends(s, pc)]
  BY DEF Success, Failure
<1> DEFINE i == Ends(s, pc)
<1>2. i \in Invocations /\ i.pc \notin Live /\ i.pc # "update"
  BY InvocationTypes DEF Live, Calling
<1>3. slot' = [slot EXCEPT ![s] = i]
  BY <1>1
<1> HIDE DEF i
<1>4. UNCHANGED <<job, doc, wire, landed, edits, reader, waited, claims>>
  BY DEF Success, Failure, document
<1>5. receipt' \in Receipts
  BY <1>1, FinalizedType DEF IInv, TypeOK
<1>6. TypeOK'
  BY <1>3, <1>2, <1>4, <1>5 DEF IInv, TypeOK
<1>7. Claims'
  <2>1. receipt' = receipt \/ receipt.token = s
    BY <1>1 DEF Finalized
  <2>2. QED
    BY <2>1, <1>3, <1>2, FinalizedKeepsClaims
<1>8. Marked'
  BY <1>3, <1>2, <1>4, MarkedKept
<1>9. QED
  BY <1>6, <1>7, <1>8 DEF IInv

LEMMA AttemptsBounded ==
  ASSUME IInv
  PROVE  FailedAttempt(job, job.attempts) \in Rows
<1>1. job \in Rows /\ job.attempts \in 0..MaxAttempts
  BY DEF IInv, TypeOK, Rows
<1>2. QED
  BY <1>1, FailedAttemptType

LEMMA SettleJobIInv ==
  ASSUME IInv, NEW s \in Slots, SettleJob(s)
  PROVE  IInv'
<1>1. slot' = [slot EXCEPT ![s] = Free] /\ Free \in Invocations
  BY InvocationTypes DEF SettleJob
<1>2. UNCHANGED <<receipt, doc, wire, landed, edits, reader, waited, claims>>
  BY DEF SettleJob, document
<1>3. job' \in Rows
  <2>1. Closed(job, "succeeded") \in Rows
    BY ClosedType DEF IInv, TypeOK, Statuses
  <2>2. QED
    BY <2>1, AttemptsBounded DEF SettleJob, IInv, TypeOK
<1>4. TypeOK'
  BY <1>1, <1>2, <1>3 DEF IInv, TypeOK
<1>5. Claims'
  BY <1>1, <1>2, ClaimsKept DEF Free, Live, Calling
<1>6. Marked'
  BY <1>1, <1>2, MarkedKept DEF Free
<1>7. QED
  BY <1>4, <1>5, <1>6 DEF IInv

LEMMA CancelIInv ==
  ASSUME IInv, NEW s \in Slots, Cancel(s)
  PROVE  IInv'
<1> DEFINE i == IF slot[s].pc \in Calling THEN [slot[s] EXCEPT !.awaited = FALSE] ELSE Free
<1>1. slot[s] \in Invocations
  BY DEF IInv, TypeOK
<1>2. [slot[s] EXCEPT !.awaited = FALSE] \in Invocations
  BY <1>1 DEF Invocations
<1>3. /\ i \in Invocations
      /\ i.pc \in Live => slot[s].pc \in Live /\ i.life = slot[s].life
      /\ i.pc = "update" => slot[s].pc = "update"
  BY <1>1, <1>2, InvocationTypes DEF Invocations, Free, Live, Calling
<1>4. slot' = [slot EXCEPT ![s] = i]
  BY DEF Cancel
<1>5. UNCHANGED <<receipt, doc, wire, landed, edits, reader, waited, claims>>
  BY DEF Cancel, document
<1>6. job' \in Rows
  BY AttemptsBounded DEF Cancel, IInv, TypeOK
<1> HIDE DEF i
<1>7. TypeOK'
  BY <1>3, <1>4, <1>5, <1>6 DEF IInv, TypeOK
<1>8. Claims'
  BY <1>3, <1>4, <1>5, ClaimsKept
<1>9. Marked'
  BY <1>3, <1>4, <1>5, MarkedKept
<1>10. QED
  BY <1>7, <1>8, <1>9 DEF IInv

LEMMA CrashIInv ==
  ASSUME IInv, NEW s \in Slots, Crash(s)
  PROVE  IInv'
<1>1. slot' = [slot EXCEPT ![s] = Free] /\ Free \in Invocations
  BY InvocationTypes DEF Crash
<1>2. UNCHANGED <<receipt, job, doc, landed, edits, reader, waited, claims>>
  BY DEF Crash
<1>3. wire' \in Nat /\ (~LateDelivery => wire' = wire)
  BY DEF Crash, IInv, TypeOK
<1>4. TypeOK'
  BY <1>1, <1>2, <1>3 DEF IInv, TypeOK
<1>5. Claims'
  BY <1>1, <1>2, ClaimsKept DEF Free, Live, Calling
<1>6. Marked'
  BY <1>1, <1>2, <1>3, MarkedKept DEF Free
<1>7. QED
  BY <1>4, <1>5, <1>6 DEF IInv

LEMMA LateApplyIInv ==
  ASSUME IInv, LateApply
  PROVE  IInv'
<1>1. UNCHANGED <<receipt, job, slot, edits, reader, waited, claims>>
  BY DEF LateApply
<1>2. doc' = Appended /\ landed' = TRUE /\ wire' \in Nat /\ wire # 0
  BY DEF LateApply, IInv, TypeOK
<1>3. TypeOK'
  BY <1>1, <1>2, AppendedType DEF IInv, TypeOK
<1>4. Claims'
  BY <1>1 DEF IInv, Claims
<1>5. Marked'
  BY <1>2, LifeAssumption DEF IInv, Marked
<1>6. QED
  BY <1>3, <1>4, <1>5 DEF IInv

LEMMA IngestIInv ==
  ASSUME IInv, FetchDocument \/ StoreEntries
  PROVE  IInv'
<1>1. UNCHANGED <<slot, doc, wire, landed, edits, waited, claims>>
  BY DEF FetchDocument, StoreEntries, document
<1>2. reader' \in {"idle", "found", "absent"}
  BY DEF FetchDocument, StoreEntries
<1>3. \/ UNCHANGED <<receipt, job>>
      \/ /\ Reconcilable
         /\ receipt' = [status |-> "succeeded", token |-> 0, age |-> 0]
         /\ job' = Closed(job, "succeeded")
  BY DEF FetchDocument, StoreEntries
<1>4. receipt' \in Receipts /\ job' \in Rows
  <2>1. [status |-> "succeeded", token |-> 0, age |-> 0] \in Receipts
    BY LifeAssumption DEF Receipts
  <2>2. Closed(job, "succeeded") \in Rows
    BY ClosedType DEF IInv, TypeOK, Statuses
  <2>3. QED
    BY <1>3, <2>1, <2>2 DEF IInv, TypeOK
<1>5. TypeOK'
  BY <1>1, <1>2, <1>4 DEF IInv, TypeOK
<1>6. Claims'
  <2>1. CASE UNCHANGED <<receipt, job>>
    BY <1>1, <2>1 DEF IInv, Claims
  <2>2. CASE Reconcilable
    BY <1>1, <2>2, ClaimableIsQuiet DEF Reconcilable, Claims
  <2>3. QED
    BY <1>3, <2>1, <2>2
<1>7. Marked'
  BY <1>1 DEF IInv, Marked
<1>8. QED
  BY <1>5, <1>6, <1>7 DEF IInv

LEMMA HumanEditIInv ==
  ASSUME IInv, HumanEdit
  PROVE  IInv'
<1>1. UNCHANGED <<receipt, job, slot, wire, reader, waited, claims>>
  BY DEF HumanEdit
<1>2. edits' \in 0..MaxEdits
  BY LifeAssumption DEF HumanEdit, IInv, TypeOK
<1>3. landed' \in BOOLEAN
  BY Zenon DEF HumanEdit, IInv, TypeOK
<1>4. /\ doc' \in [copies : Nat, marker : BOOLEAN, hand : BOOLEAN]
      /\ \/ doc'.copies = doc.copies /\ doc'.marker = doc.marker
         \/ doc'.copies = 0 /\ doc'.marker = FALSE
  <2>1. doc \in [copies : Nat, marker : BOOLEAN, hand : BOOLEAN]
    BY DEF IInv, TypeOK
  <2>2. CASE doc' = [doc EXCEPT !.hand = TRUE]
    <3>1. doc' \in [copies : Nat, marker : BOOLEAN, hand : BOOLEAN]
      BY <2>1, <2>2, Zenon
    <3>2. doc'.copies = doc.copies /\ doc'.marker = doc.marker
      BY <2>1, <2>2
    <3>3. QED
      BY <3>1, <3>2
  <2>3. CASE doc' = [copies |-> 0, marker |-> FALSE, hand |-> FALSE]
    BY <2>3
  <2>4. QED
    BY <2>2, <2>3 DEF HumanEdit
<1>5. TypeOK'
  BY <1>1, <1>2, <1>3, <1>4 DEF IInv, TypeOK
<1>6. Claims'
  BY <1>1 DEF IInv, Claims
<1>7. Marked'
  BY <1>1, <1>4 DEF IInv, Marked
<1>8. QED
  BY <1>5, <1>6, <1>7 DEF IInv

LEMMA TickIInv ==
  ASSUME IInv, Tick
  PROVE  IInv'
<1>1. UNCHANGED <<doc, wire, landed, edits, reader, waited, claims>>
  BY DEF Tick, document
<1>2. receipt \in Receipts /\ slot \in [Slots -> Invocations] /\ job \in Rows
  BY DEF IInv, TypeOK
<1>3. /\ receipt' \in Receipts
      /\ receipt'.status = receipt.status /\ receipt'.token = receipt.token
      /\ receipt.status = "pending" /\ receipt.age <= ReceiptStale
           => receipt'.age = receipt.age + 1
  BY <1>2, LifeAssumption DEF Tick, Receipts
<1>4. job' \in Rows
  BY <1>2, AgedType, RenewedType DEF Tick
<1>5. ASSUME NEW s \in Slots
      PROVE  /\ slot'[s] \in Invocations /\ slot'[s].pc = slot[s].pc
             /\ slot[s].pc \in Live => /\ slot'[s].life = slot[s].life + 1
                                      /\ slot[s].life < CallLife
  <2>1. slot'[s] = IF slot[s].pc \in Live
                   THEN [slot[s] EXCEPT !.life = @ + 1] ELSE slot[s]
    BY DEF Tick
  <2>2. slot[s].pc \in Live => slot[s].life < CallLife
    BY DEF Tick
  <2>3. slot[s] \in Invocations
    BY <1>2
  <2>4. QED
    BY <2>1, <2>2, <2>3, LifeAssumption DEF Invocations
<1>6. slot' \in [Slots -> Invocations]
  BY <1>5 DEF Tick
<1>7. TypeOK'
  BY <1>1, <1>3, <1>4, <1>6 DEF IInv, TypeOK
<1>8. Claims'
  <2> SUFFICES ASSUME NEW s \in Slots, slot'[s].pc \in Live
               PROVE  /\ receipt'.status = "pending" /\ receipt'.token = s
                      /\ receipt'.age = slot'[s].life
    BY DEF Claims
  <2>1. /\ slot[s].pc \in Live /\ slot'[s].life = slot[s].life + 1
        /\ slot[s].life < CallLife /\ slot[s].life \in Nat
    BY <1>2, <1>5 DEF Invocations
  <2>2. receipt.status = "pending" /\ receipt.token = s /\ receipt.age = slot[s].life
    BY <2>1 DEF IInv, Claims
  <2>3. receipt.age <= ReceiptStale
    BY <2>1, <2>2, BoundedTransport, LifeAssumption
  <2>4. QED
    BY <1>3, <2>1, <2>2, <2>3
<1>9. Marked'
  BY <1>1, <1>5 DEF IInv, Marked
<1>10. QED
  BY <1>7, <1>8, <1>9 DEF IInv

LEMMA NextIInv == IInv /\ [Next]_vars => IInv'
<1> SUFFICES ASSUME IInv, [Next]_vars PROVE IInv'
  OBVIOUS
<1>1. CASE UNCHANGED vars
  BY <1>1 DEF vars, IInv, TypeOK, Claims, Marked
<1>2. ASSUME NEW s \in Slots, Step(s) PROVE IInv'
  BY <1>2, LeaseJobIInv, ClaimReceiptIInv, LeaveReceiptIInv, StartCallIInv, ReadDocumentIInv,
     BatchUpdateIInv, CallFailsIInv, FinishIInv, SettleJobIInv, CancelIInv, CrashIInv DEF Step
<1>3. QED
  BY <1>1, <1>2, LateApplyIInv, IngestIInv, HumanEditIInv, TickIInv DEF Next

THEOREM Inductive == Spec => []IInv
<1>1. Init => IInv
  BY InitIInv
<1>2. IInv /\ [Next]_vars => IInv'
  BY NextIInv
<1>3. QED
  BY <1>1, <1>2, PTL DEF Spec

-----------------------------------------------------------------------------
(* The theorems.                                                           *)

\* Every state of the delivery is well typed: no attempt budget, clock or claim
\* leaves its range, however the invocations are interleaved.
THEOREM TypeCorrect == Spec => []TypeOK
<1>1. IInv => TypeOK
  BY DEF IInv
<1>2. QED
  BY <1>1, Inductive, PTL

\* The thread of an invocation, awaited or abandoned, writes to the document only
\* under a claim that nobody can take over: write_dream_to_google_doc needs no
\* more than WRITE_RECEIPT_STALE_AFTER to outlast the bounded transport.
THEOREM CallsAreFenced == Spec => []LiveCallOwnsReceipt
<1>1. IInv => LiveCallOwnsReceipt
  <2> SUFFICES ASSUME IInv, NEW s \in Slots, slot[s].pc \in Live
               PROVE  /\ receipt.status = "pending" /\ receipt.token = s
                      /\ receipt.age <= ReceiptStale
    BY DEF LiveCallOwnsReceipt
  <2>1. receipt.status = "pending" /\ receipt.token = s /\ receipt.age = slot[s].life
    BY DEF IInv, Claims
  <2>2. slot[s].life \in 0..CallLife
    BY DEF IInv, TypeOK, Invocations
  <2>3. QED
    BY <2>1, <2>2, BoundedTransport, LifeAssumption
<1>2. QED
  BY <1>1, Inductive, PTL

\* append_dream_entry writes a dream once: if the server never applies a request
\* after its client gave up on it, the document never holds two copies.
THEOREM WrittenOnce ==
  ASSUME LateDelivery = FALSE
  PROVE  Spec => []InsertedOnce
<1>1. IInv => InsertedOnce
  BY DEF IInv, Marked, InsertedOnce
<1>2. QED
  BY <1>1, Inductive, PTL

\* Only a batchUpdate appends, and its call owns the receipt.
LEMMA NextClaimed ==
  ASSUME LateDelivery = FALSE, IInv, [Next]_vars, doc'.copies > doc.copies
  PROVE  receipt.status = "pending"
<1>1. doc \in [copies : Nat, marker : BOOLEAN, hand : BOOLEAN] /\ wire = 0
  BY DEF IInv, TypeOK, Marked
<1>2. doc' # doc
  BY <1>1
<1>3. ~HumanEdit /\ ~LateApply
  BY <1>1 DEF HumanEdit, LateApply
<1>4. PICK s \in Slots : BatchUpdate(s)
  BY <1>2, <1>3 DEF Next, Step, LeaseJob, ClaimReceipt, LeaveReceipt, StartCall, ReadDocument,
     CallFails, Success, Failure, SettleJob, Cancel, Crash, FetchDocument, StoreEntries,
     Tick, document, vars
<1>5. slot[s].pc \in Live
  BY <1>4 DEF BatchUpdate, Live, Calling
<1>6. QED
  BY <1>5 DEF IInv, Claims

\* Nothing is appended behind a closed receipt: a step that adds a copy is the
\* batchUpdate of the invocation whose claim is still pending.
THEOREM AppendsOnlyUnderClaim ==
  ASSUME LateDelivery = FALSE
  PROVE  Spec => AppendsUnderClaim
<1>1. IInv /\ [Next]_vars => [AppendClaimed]_vars
  BY NextClaimed DEF AppendClaimed
<1>2. QED
  BY <1>1, Inductive, PTL DEF Spec, AppendsUnderClaim

-----------------------------------------------------------------------------
(* What is reported as delivered has been in the document.                   *)

\* Before the dream has been in the document nothing and nobody says that it was.
Blank ==
  /\ doc.copies = 0 /\ ~doc.marker /\ ~doc.hand
  /\ reader # "found"
  /\ \A s \in Slots : slot[s].pc \notin {"returned", "ok"}
  /\ receipt.status # "succeeded" /\ job.status # "succeeded"

Evident == ~landed => Blank

\* A step of one slot, while the dream has not been in the document.
LEMMA SlotBlank ==
  ASSUME IInv, Blank, NEW s \in Slots, NEW i, slot' = [slot EXCEPT ![s] = i],
         i.pc \notin {"returned", "ok"}
  PROVE  \A t \in Slots : slot'[t].pc \notin {"returned", "ok"}
  BY DEF IInv, TypeOK, Blank

LEMMA StepBlank ==
  ASSUME IInv, Blank, NEW s \in Slots, Step(s), ~landed'
  PROVE  Blank'
<1>1. UNCHANGED <<doc, reader>>
  BY DEF Step, LeaseJob, ClaimReceipt, LeaveReceipt, StartCall, ReadDocument, BatchUpdate,
         CallFails, Success, Failure, SettleJob, Cancel, Crash, document
<1>2. \A t \in Slots : slot'[t].pc \notin {"returned", "ok"}
  <2>1. CASE LeaseJob(s) \/ ClaimReceipt(s)
    BY <2>1, SlotBlank DEF LeaseJob, ClaimReceipt
  <2>2. CASE LeaveReceipt(s)
    <3>1. slot' = [slot EXCEPT ![s] = Ends(s, "notok")]
      BY <2>2 DEF LeaveReceipt, Blank
    <3>2. QED
      BY <3>1, InvocationTypes, SlotBlank
  <2>3. CASE StartCall(s) \/ ReadDocument(s)
    <3>1. PICK pc \in {"get", "update"} : slot' = [slot EXCEPT ![s].pc = pc]
      BY <2>3 DEF StartCall, ReadDocument, Blank
    <3>2. QED
      BY <3>1 DEF IInv, TypeOK, Blank, Invocations
  <2>4. CASE CallFails(s)
    <3>1. PICK i \in Invocations : i.pc \in {"idle", "raised"} /\ slot' = [slot EXCEPT ![s] = i]
      BY <2>4, BackType DEF CallFails
    <3>2. QED
      BY <3>1, SlotBlank
  <2>5. CASE Failure(s)
    <3>1. slot' = [slot EXCEPT ![s] = Ends(s, "notok")]
      BY <2>5 DEF Failure
    <3>2. QED
      BY <3>1, InvocationTypes, SlotBlank
  <2>6. CASE SettleJob(s) \/ Crash(s)
    BY <2>6, SlotBlank DEF SettleJob, Crash, Free
  <2>7. CASE Cancel(s)
    <3> DEFINE i == IF slot[s].pc \in Calling THEN [slot[s] EXCEPT !.awaited = FALSE] ELSE Free
    <3>1. slot' = [slot EXCEPT ![s] = i]
      BY <2>7 DEF Cancel
    <3>2. i.pc \in {"idle", slot[s].pc}
      BY DEF IInv, TypeOK, Invocations, Free
    <3> HIDE DEF i
    <3>3. QED
      BY <3>1, <3>2, SlotBlank DEF Blank
  <2>8. CASE BatchUpdate(s) \/ Success(s)
    BY <2>8 DEF BatchUpdate, Success, Blank
  <2>9. QED
    BY <2>1, <2>2, <2>3, <2>4, <2>5, <2>6, <2>7, <2>8 DEF Step
<1>3. receipt'.status # "succeeded"
  BY DEF Step, LeaseJob, ClaimReceipt, LeaveReceipt, StartCall, ReadDocument, BatchUpdate,
         CallFails, Success, Failure, Finalized, SettleJob, Cancel, Crash, Blank
<1>4. job'.status # "succeeded"
  <2>1. Claimed(job, s).status # "succeeded" /\ FailedAttempt(job, job.attempts).status # "succeeded"
    <3>1. job \in Rows /\ job.attempts \in 0..MaxAttempts
      BY DEF IInv, TypeOK, Rows
    <3>2. QED
      BY <3>1, FailedAttemptType DEF Claimed, Rows
  <2>2. job' \in {job, Claimed(job, s), FailedAttempt(job, job.attempts)}
    BY DEF Step, LeaseJob, ClaimReceipt, LeaveReceipt, StartCall, ReadDocument, BatchUpdate,
           CallFails, Success, Failure, SettleJob, Cancel, Crash, Blank
  <2>3. QED
    BY <2>1, <2>2 DEF Blank
<1>5. QED
  BY <1>1, <1>2, <1>3, <1>4 DEF Blank

LEMMA OthersBlank ==
  ASSUME IInv, Blank, FetchDocument \/ StoreEntries \/ HumanEdit \/ Tick, ~landed'
  PROVE  Blank'
<1>1. CASE FetchDocument \/ StoreEntries
  BY <1>1 DEF FetchDocument, StoreEntries, Reconcilable, Blank, document
<1>2. CASE HumanEdit
  BY <1>2 DEF HumanEdit, Blank
<1>3. CASE Tick
  <2>1. UNCHANGED <<doc, reader>> /\ receipt'.status = receipt.status
    BY <1>3 DEF Tick, document, IInv, TypeOK, Receipts
  <2>2. job'.status = job.status
    BY <1>3, AgedType, RenewedType DEF Tick, IInv, TypeOK
  <2>3. \A s \in Slots : slot'[s].pc = slot[s].pc
    BY <1>3 DEF Tick, IInv, TypeOK, Invocations
  <2>4. QED
    BY <2>1, <2>2, <2>3 DEF Blank
<1>4. QED
  BY <1>1, <1>2, <1>3

LEMMA NextEvident == IInv /\ Evident /\ [Next]_vars => Evident'
<1> SUFFICES ASSUME IInv, Evident, [Next]_vars, ~landed' PROVE Blank'
  BY DEF Evident
<1>1. CASE UNCHANGED vars
  BY <1>1 DEF vars, Evident, Blank
<1>2. CASE Next
  <2>1. ~landed /\ ~LateApply
    BY <1>2 DEF Next, Step, LeaseJob, ClaimReceipt, LeaveReceipt, StartCall, ReadDocument,
       BatchUpdate, CallFails, LateApply, Success, Failure, SettleJob, Cancel, Crash,
       FetchDocument, StoreEntries, HumanEdit, Tick, document
  <2>2. QED
    BY <1>2, <2>1, StepBlank, OthersBlank DEF Next, Evident
<1>3. QED
  BY <1>1, <1>2

\* No step reopens a receipt that succeeded: to claim it is refused, a finalization
\* needs it pending, and an ingest only closes it again.
LEMMA NextFinal == IInv /\ [Next]_vars => DeliveryIsFinal
<1> SUFFICES ASSUME IInv, [Next]_vars, receipt.status = "succeeded"
             PROVE  receipt'.status = "succeeded"
  BY DEF DeliveryIsFinal
<1>1. CASE UNCHANGED vars
  BY <1>1 DEF vars
<1>2. CASE \E s \in Slots : Step(s)
  BY <1>2 DEF Step, LeaseJob, ClaimReceipt, Claimable, LeaveReceipt, StartCall, ReadDocument,
     BatchUpdate, CallFails, Success, Failure, Finalized, SettleJob, Cancel, Crash
<1>3. CASE LateApply \/ FetchDocument \/ StoreEntries \/ HumanEdit
  BY <1>3 DEF LateApply, FetchDocument, StoreEntries, HumanEdit
<1>4. CASE Tick
  BY <1>4 DEF Tick, IInv, TypeOK, Receipts
<1>5. QED
  BY <1>1, <1>2, <1>3, <1>4 DEF Next

\* The receipt can be relied on, however invocations are cancelled, crash and are
\* retried, whatever humans do to the document and whatever the server applies late.
THEOREM Reliable == Spec => ReceiptStands
<1> DEFINE Stands == NoFalseDelivery' /\ DeliveryIsFinal /\ (~LateDelivery => AppendClaimed)
<1>1. Init => Evident
  BY DEF Init, Evident, Blank, NewRow, Free
<1>2. IInv /\ Evident /\ [Next]_vars => Evident' /\ [Stands]_vars
  <2> SUFFICES ASSUME IInv, Evident, [Next]_vars PROVE Evident' /\ Stands
    OBVIOUS
  <2>1. Evident'
    BY NextEvident
  <2>2. NoFalseDelivery'
    BY <2>1 DEF Evident, Blank, NoFalseDelivery
  <2>3. ~LateDelivery => AppendClaimed
    BY NextClaimed, LifeAssumption DEF AppendClaimed
  <2>4. QED
    BY <2>1, <2>2, <2>3, NextFinal
<1>3. QED
  BY <1>1, <1>2, Inductive, PTL DEF Spec, ReceiptStands

-----------------------------------------------------------------------------
(* The attempts of a job outlast one claim that was never finalized.        *)

\* What attempt n puts between itself and the next one: its retry delay, or the
\* lease of a worker that died on it.
Lull(n) == IF RetryDelay(n) <= Unlocked THEN RetryDelay(n) ELSE Unlocked

\* sum[n] is what n attempts put between them.
Sums(sum) ==
  /\ sum \in [0..MaxAttempts -> Nat]
  /\ sum[0] = 0
  /\ \A n \in 1..MaxAttempts : sum[n] = sum[n - 1] + Lull(n)

\* The delays before the last attempt add up to more than WRITE_RECEIPT_STALE_AFTER.
DelaysOutlastClaim ==
  \E sum \in [0..MaxAttempts -> Nat] : Sums(sum) /\ sum[MaxAttempts - 1] > ReceiptStale

Leased == \E s \in JobSlots : slot[s].pc = "leased"

\* One invocation at a time has leased the job and not yet looked at the receipt.
LeaseHeld ==
  /\ \A s \in JobSlots : slot[s].pc = "leased" =>
       slot[s].awaited /\ ((HeldBy(job, s) /\ job.age = 0) \/ job.status = "succeeded")
  /\ \A s, t \in JobSlots : slot[s].pc = "leased" /\ slot[t].pc = "leased" => s = t

Counted == IF Leased THEN waited + 1 <= job.attempts ELSE waited <= job.attempts

\* Every attempt so far only found somebody else's claim.
OnlyWaits == IF Leased THEN job.attempts = waited + 1 ELSE job.attempts = waited

Unclaimed == claims = 0 /\ OnlyWaits => waited = 0 /\ receipt.status # "pending"

\* While they did, the claim has grown as old as the time put between them.
Paced(sum) ==
  OnlyWaits /\ receipt.status = "pending" /\ receipt.age <= ReceiptStale =>
    IF Leased THEN receipt.age >= sum[waited]
    ELSE /\ waited > 0 => receipt.age >= sum[waited - 1]
         /\ Waiting(job) => receipt.age + job.wait >= sum[waited]
         /\ job.status = "running" => receipt.age + (Unlocked - job.age) >= sum[waited]

Pace(sum) == LeaseHeld /\ Counted /\ Unclaimed /\ Paced(sum) /\ BudgetOutlastsClaim

\* A step of a slot that leases nothing and had leased nothing.
LEMMA SameLeases ==
  ASSUME IInv, NEW s \in Slots, NEW i, slot' = [slot EXCEPT ![s] = i],
         i.pc # "leased", ~(s \in JobSlots /\ slot[s].pc = "leased")
  PROVE  /\ \A t \in JobSlots : slot'[t].pc = "leased" <=> slot[t].pc = "leased"
         /\ \A t \in JobSlots : slot[t].pc = "leased" => slot'[t] = slot[t]
         /\ Leased' <=> Leased
<1>1. \A t \in JobSlots : slot'[t] = IF t = s THEN i ELSE slot[t]
  BY DEF IInv, TypeOK, Slots
<1>2. QED
  BY <1>1 DEF Leased

LEMMA QuietPace ==
  ASSUME IInv, NEW CONSTANT sum, Pace(sum),
         NEW s \in Slots, NEW i, slot' = [slot EXCEPT ![s] = i],
         i.pc # "leased", ~(s \in JobSlots /\ slot[s].pc = "leased"),
         UNCHANGED <<job, waited, claims>>,
         receipt' = receipt \/ receipt'.status # "pending"
  PROVE  Pace(sum)'
<1>1. /\ \A t \in JobSlots : slot'[t].pc = "leased" <=> slot[t].pc = "leased"
      /\ \A t \in JobSlots : slot[t].pc = "leased" => slot'[t] = slot[t]
      /\ Leased' <=> Leased
  BY SameLeases
<1>2. LeaseHeld'
  BY <1>1 DEF Pace, LeaseHeld, HeldBy
<1>3. (OnlyWaits' <=> OnlyWaits) /\ Counted' /\ BudgetOutlastsClaim'
  BY <1>1 DEF Pace, OnlyWaits, Counted, BudgetOutlastsClaim
<1>4. Unclaimed' /\ Paced(sum)'
  BY <1>1, <1>3 DEF Pace, Unclaimed, Paced, Waiting
<1>5. QED
  BY <1>2, <1>3, <1>4 DEF Pace

\* The leased attempt ends and was not spent on waiting.
LEMMA SpentPace ==
  ASSUME IInv, NEW CONSTANT sum, Pace(sum), IInv',
         NEW s \in JobSlots, NEW i, slot' = [slot EXCEPT ![s] = i],
         slot[s].pc = "leased", i.pc # "leased",
         job'.attempts = job.attempts, waited' = waited
  PROVE  Pace(sum)'
<1>1. \A t \in JobSlots : slot'[t].pc # "leased"
  BY DEF IInv, TypeOK, Slots, Pace, LeaseHeld
<1>2. Leased /\ ~Leased'
  BY <1>1 DEF Leased
<1>3. waited + 1 <= job.attempts /\ waited \in Nat /\ job.attempts \in Nat
  BY <1>2 DEF Pace, Counted, IInv, TypeOK, Rows
<1>4. waited <= job.attempts /\ job.attempts # waited
  BY <1>3
<1>5. Counted' /\ ~OnlyWaits'
  BY <1>2, <1>4 DEF Counted, OnlyWaits
<1>6. QED
  BY <1>1, <1>5 DEF Pace, LeaseHeld, Unclaimed, Paced, BudgetOutlastsClaim

LEMMA LeaseJobPace ==
  ASSUME IInv, NEW CONSTANT sum, Sums(sum), Pace(sum), NEW s \in Slots, LeaseJob(s)
  PROVE  Pace(sum)'
<1> DEFINE i == [pc |-> "leased", life |-> 0, awaited |-> TRUE]
<1>1. /\ s \in JobSlots /\ slot[s].pc = "idle" /\ Eligible(job) /\ job' = Claimed(job, s)
      /\ slot' = [slot EXCEPT ![s] = i] /\ i.pc = "leased" /\ i.awaited
      /\ UNCHANGED <<receipt, waited, claims>>
  BY DEF LeaseJob
<1> HIDE DEF i
<1>2. job \in Rows /\ waited \in Nat /\ job.age \in 0..Unlocked
  BY DEF IInv, TypeOK, Rows
<1>3. \A t \in JobSlots : slot[t].pc # "leased"
  BY <1>1, ClockAssumption DEF Pace, LeaseHeld, HeldBy, Eligible, Waiting, Stale
<1>4. /\ \A t \in JobSlots : slot'[t].pc = "leased" <=> t = s
      /\ slot'[s] = i
  BY <1>1, <1>3 DEF IInv, TypeOK, Slots
<1>5. ~Leased /\ Leased'
  BY <1>1, <1>3, <1>4 DEF Leased
<1>6. /\ job'.status = "running" /\ job'.token = s /\ job'.attempts = job.attempts + 1
      /\ job'.age = 0
  BY <1>1, <1>2 DEF Claimed, Rows
<1>7. LeaseHeld'
  BY <1>1, <1>4, <1>6 DEF LeaseHeld, HeldBy
<1>8. job.attempts \in Nat
  BY <1>2 DEF Rows
<1>9. Counted' /\ (OnlyWaits' <=> OnlyWaits)
  BY <1>1, <1>2, <1>5, <1>6, <1>8 DEF Pace, Counted, OnlyWaits
<1>10. Unclaimed' /\ BudgetOutlastsClaim'
  BY <1>1, <1>9 DEF Pace, Unclaimed, BudgetOutlastsClaim
<1>11. Paced(sum)'
  <2> SUFFICES ASSUME OnlyWaits, receipt.status = "pending", receipt.age <= ReceiptStale
               PROVE  receipt.age >= sum[waited]
    BY <1>1, <1>5, <1>9 DEF Paced
  <2>1. /\ Waiting(job) => receipt.age + job.wait >= sum[waited]
        /\ job.status = "running" => receipt.age + (Unlocked - job.age) >= sum[waited]
    BY <1>5 DEF Pace, Paced
  <2>2. receipt.age \in Nat
    BY DEF IInv, TypeOK, Receipts
  <2>3. sum[waited] \in Nat
    BY <1>2, BudgetAssumption DEF Pace, BudgetOutlastsClaim, Sums
  <2>4. CASE Waiting(job) /\ job.wait = 0
    BY <2>1, <2>2, <2>3, <2>4
  <2>5. CASE Stale(job)
    <3>1. job.age = Unlocked /\ job.status = "running"
      BY <1>2, <2>5, ClockAssumption DEF Stale, Unlocked
    <3>2. Unlocked \in Nat
      BY UnlockedNat
    <3>3. QED
      BY <2>1, <2>2, <2>3, <3>1, <3>2
  <2>6. QED
    BY <1>1, <2>4, <2>5 DEF Eligible
<1>12. QED
  BY <1>7, <1>9, <1>10, <1>11 DEF Pace

\* A job finds another writer's fresh claim: the claim is at least as old as the
\* time the earlier attempts put between them, so it was not the last attempt.
LEMMA WaitPace ==
  ASSUME IInv, NEW CONSTANT sum, Sums(sum), sum[MaxAttempts - 1] > ReceiptStale, Pace(sum),
         NEW s \in JobSlots, NEW i, slot' = [slot EXCEPT ![s] = i],
         slot[s].pc = "leased", i.pc # "leased",
         receipt.status = "pending", receipt.age <= ReceiptStale,
         waited' = waited + 1, UNCHANGED <<receipt, job, claims>>
  PROVE  Pace(sum)'
<1>1. \A t \in JobSlots : slot'[t].pc # "leased"
  BY DEF IInv, TypeOK, Slots, Pace, LeaseHeld
<1>2. Leased /\ ~Leased'
  BY <1>1 DEF Leased
<1>3. /\ job \in Rows /\ waited \in Nat /\ job.age \in 0..Unlocked /\ receipt.age \in Nat
      /\ job.attempts \in Nat
  BY DEF IInv, TypeOK, Rows, Receipts
<1>4. waited < MaxAttempts /\ waited + 1 <= job.attempts /\ waited + 1 \in 1..MaxAttempts
  BY <1>2, <1>3, BudgetAssumption DEF Pace, BudgetOutlastsClaim, Counted
<1>5. Counted' /\ (OnlyWaits' <=> OnlyWaits)
  BY <1>2, <1>3, <1>4 DEF Counted, OnlyWaits
<1>6. LeaseHeld'
  BY <1>1 DEF LeaseHeld
<1>7. CASE ~OnlyWaits
  <2>1. job.attempts \in 0..MaxAttempts /\ job.attempts # waited + 1
    BY <1>2, <1>3, <1>7 DEF OnlyWaits, Rows
  <2>2. waited + 1 < MaxAttempts
    BY <1>3, <1>4, <2>1, BudgetAssumption
  <2>3. QED
    BY <1>5, <1>6, <1>7, <2>2 DEF Pace, Unclaimed, Paced, BudgetOutlastsClaim
<1>8. CASE OnlyWaits
  <2>1. receipt.age >= sum[waited] /\ claims # 0
    BY <1>2, <1>8 DEF Pace, Paced, Unclaimed
  <2>2. /\ sum[waited] \in Nat /\ sum[waited + 1] = sum[waited] + Lull(waited + 1)
        /\ Lull(waited + 1) <= Unlocked /\ Lull(waited + 1) \in Nat
    <3>1. sum[waited] \in Nat
      BY <1>3, <1>4, BudgetAssumption DEF Sums
    <3>2. sum[waited + 1] = sum[(waited + 1) - 1] + Lull(waited + 1)
      BY <1>4 DEF Sums
    <3>3. (waited + 1) - 1 = waited
      BY <1>3
    <3>4. RetryDelay(waited + 1) \in Nat /\ Unlocked \in Nat
      BY RetryDelayType, UnlockedNat
    <3>5. Lull(waited + 1) <= Unlocked /\ Lull(waited + 1) \in Nat
      BY <3>4 DEF Lull
    <3>6. QED
      BY <3>1, <3>2, <3>3, <3>5
  <2>3. waited + 1 < MaxAttempts
    <3> SUFFICES ASSUME waited + 1 = MaxAttempts PROVE FALSE
      BY <1>4, BudgetAssumption
    <3>1. waited = MaxAttempts - 1
      BY <1>3, BudgetAssumption
    <3>2. QED
      BY <1>3, <2>1, <2>2, <3>1, LifeAssumption
  <2>4. ~Waiting(job) /\ (job.status = "running" => job.age = 0)
    BY DEF Pace, LeaseHeld, HeldBy, Waiting
  <2>5. Unlocked - 0 = Unlocked /\ Unlocked \in Nat /\ (waited + 1) - 1 = waited
    BY UnlockedNat, <1>3
  <2>6. receipt.age + Unlocked >= sum[waited + 1]
    BY <1>3, <2>1, <2>2, <2>5
  <2>7. Paced(sum)'
    BY <1>2, <1>5, <2>1, <2>4, <2>5, <2>6 DEF Paced, Waiting
  <2>8. Unclaimed' /\ BudgetOutlastsClaim'
    BY <2>1, <2>3 DEF Unclaimed, BudgetOutlastsClaim
  <2>9. QED
    BY <1>5, <1>6, <2>7, <2>8 DEF Pace
<1>9. QED
  BY <1>7, <1>8

\* The one claim of a user, which no attempt has waited for yet.
LEMMA UserClaimPace ==
  ASSUME IInv, NEW CONSTANT sum, Sums(sum), MaxClaims <= 1, Pace(sum),
         NEW s \in UserSlots, ClaimReceipt(s)
  PROVE  Pace(sum)'
<1> DEFINE i == [pc |-> "claimed", life |-> 0, awaited |-> TRUE]
<1>1. /\ slot' = [slot EXCEPT ![s] = i] /\ i.pc # "leased" /\ claims < MaxClaims
      /\ claims' = claims + 1 /\ receipt' = [status |-> "pending", token |-> s, age |-> 0]
      /\ UNCHANGED <<job, waited>>
  BY DEF ClaimReceipt
<1>2. s \notin JobSlots /\ s \in Slots
  BY SlotAssumption DEF Slots
<1> HIDE DEF i
<1>3. /\ \A t \in JobSlots : slot'[t].pc = "leased" <=> slot[t].pc = "leased"
      /\ \A t \in JobSlots : slot[t].pc = "leased" => slot'[t] = slot[t]
      /\ Leased' <=> Leased
  BY <1>1, <1>2, SameLeases
<1>4. claims = 0 /\ claims' = 1
  BY <1>1, LifeAssumption DEF IInv, TypeOK
<1>5. LeaseHeld'
  BY <1>1, <1>3 DEF Pace, LeaseHeld, HeldBy
<1>6. (OnlyWaits' <=> OnlyWaits) /\ Counted' /\ BudgetOutlastsClaim' /\ Unclaimed'
  BY <1>1, <1>3, <1>4 DEF Pace, OnlyWaits, Counted, BudgetOutlastsClaim, Unclaimed
<1>7. Paced(sum)'
  <2> SUFFICES ASSUME OnlyWaits PROVE Paced(sum)'
    BY <1>6 DEF Paced
  <2>1. waited = 0
    BY <1>4 DEF Pace, Unclaimed
  <2>2. waited' = 0 /\ receipt'.age = 0 /\ sum[0] = 0 /\ job' = job
    BY <1>1, <2>1 DEF Sums
  <2>3. job.wait \in Nat /\ Unlocked - job.age \in Nat
    BY UnlockedNat, ClockAssumption DEF IInv, TypeOK, Rows
  <2>4. QED
    BY <2>2, <2>3 DEF Paced
<1>8. QED
  BY <1>5, <1>6, <1>7 DEF Pace

\* An attempt that waited is settled as failed: its retry delay is put in front of
\* the next one.
LEMMA FailPace ==
  ASSUME IInv, NEW CONSTANT sum, Sums(sum), Pace(sum),
         NEW s \in JobSlots, HeldBy(job, s),
         NEW i, slot' = [slot EXCEPT ![s] = i], i.pc # "leased", slot[s].pc # "leased",
         job' = FailedAttempt(job, job.attempts), UNCHANGED <<receipt, waited, claims>>
  PROVE  Pace(sum)'
<1>1. s \in Slots /\ job \in Rows /\ job.attempts \in 0..MaxAttempts /\ waited \in Nat
  BY DEF Slots, IInv, TypeOK, Rows
<1>2. \A t \in JobSlots : slot[t].pc # "leased"
  BY DEF Pace, LeaseHeld, HeldBy
<1>3. /\ \A t \in JobSlots : slot'[t].pc # "leased"
      /\ ~Leased /\ ~Leased'
  BY <1>1, <1>2, SameLeases DEF Leased
<1>4. /\ job'.attempts = job.attempts
      /\ job'.status \in {"failed", "retryable"}
      /\ job'.wait = RetryDelay(job.attempts)
  <2>1. job'.attempts = job.attempts /\ job'.status \in {"failed", "retryable"} /\ job' \in Rows
    BY <1>1, FailedAttemptType
  <2> DEFINE st == IF job.attempts >= MaxAttempts THEN "failed" ELSE "retryable"
  <2>2. job' = [Closed(job, st) EXCEPT !.wait = RetryDelay(job.attempts)]
    BY DEF FailedAttempt
  <2>3. Closed(job, st) \in Rows
    BY <1>1, ClosedType DEF Statuses
  <2> HIDE DEF st
  <2>4. job'.wait = RetryDelay(job.attempts)
    BY <2>2, <2>3 DEF Rows
  <2>5. QED
    BY <2>1, <2>4
<1>5. LeaseHeld' /\ BudgetOutlastsClaim'
  BY <1>3 DEF Pace, LeaseHeld, BudgetOutlastsClaim
<1>6. (OnlyWaits' <=> OnlyWaits) /\ Counted' /\ Unclaimed'
  BY <1>3, <1>4 DEF Pace, OnlyWaits, Counted, Unclaimed
<1>7. Paced(sum)'
  <2> SUFFICES ASSUME OnlyWaits, receipt.status = "pending", receipt.age <= ReceiptStale
               PROVE  /\ waited > 0 => receipt.age >= sum[waited - 1]
                      /\ receipt.age + RetryDelay(job.attempts) >= sum[waited]
    BY <1>3, <1>4, <1>6 DEF Paced, Waiting
  <2>1. waited > 0 => receipt.age >= sum[waited - 1]
    BY <1>3 DEF Pace, Paced
  <2>2. /\ job.attempts = waited /\ receipt.age \in Nat /\ RetryDelay(waited) \in Nat
        /\ waited < MaxAttempts
    BY <1>3, RetryDelayType DEF OnlyWaits, IInv, TypeOK, Receipts, Pace, BudgetOutlastsClaim
  <2>3. CASE waited = 0
    BY <2>2, <2>3 DEF Sums
  <2>4. CASE waited > 0
    <3>1. waited \in 1..MaxAttempts /\ waited - 1 \in 0..MaxAttempts
      BY <1>1, <2>2, <2>4, BudgetAssumption
    <3>2. sum[waited] = sum[waited - 1] + Lull(waited) /\ sum[waited - 1] \in Nat
      BY <3>1 DEF Sums
    <3>3. Lull(waited) <= RetryDelay(waited) /\ Lull(waited) \in Nat
      BY <2>2, UnlockedNat DEF Lull
    <3>4. QED
      BY <2>1, <2>2, <2>4, <3>2, <3>3
  <2>5. QED
    BY <1>1, <2>1, <2>3, <2>4
<1>8. QED
  BY <1>5, <1>6, <1>7 DEF Pace

\* The row is closed by the worker that holds it, or by an ingest that closes the
\* receipt as well.
LEMMA ClosePace ==
  ASSUME IInv, NEW CONSTANT sum, Pace(sum), job' = Closed(job, "succeeded"),
         UNCHANGED <<waited, claims>>,
         \/ receipt' = receipt /\ ~Leased
         \/ receipt'.status = "succeeded",
         Leased' <=> Leased,
         \A t \in JobSlots : slot'[t].pc = "leased" => slot'[t] = slot[t]
  PROVE  Pace(sum)'
<1>1. job'.status = "succeeded" /\ job'.attempts = job.attempts
  BY ClosedType DEF IInv, TypeOK, Statuses
<1>2. LeaseHeld'
  BY <1>1 DEF Pace, LeaseHeld
<1>3. (OnlyWaits' <=> OnlyWaits) /\ Counted' /\ BudgetOutlastsClaim'
  BY <1>1 DEF Pace, OnlyWaits, Counted, BudgetOutlastsClaim
<1>4. Unclaimed'
  BY <1>3 DEF Pace, Unclaimed
<1>5. Paced(sum)'
  BY <1>1, <1>3 DEF Pace, Paced, Waiting
<1>6. QED
  BY <1>2, <1>3, <1>4, <1>5 DEF Pace

LEMMA StepPace ==
  ASSUME IInv, NEW CONSTANT sum, Sums(sum), sum[MaxAttempts - 1] > ReceiptStale,
         MaxClaims <= 1, Pace(sum), IInv', NEW s \in Slots, Step(s)
  PROVE  Pace(sum)'
<1>1. slot[s] \in Invocations /\ slot \in [Slots -> Invocations]
  BY DEF IInv, TypeOK
<1>2. CASE LeaseJob(s)
  BY <1>2, LeaseJobPace
<1>3. CASE ClaimReceipt(s)
  <2>1. CASE s \in UserSlots
    BY <1>3, <2>1, UserClaimPace
  <2>2. CASE s \notin UserSlots
    <3> DEFINE i == [pc |-> "claimed", life |-> 0, awaited |-> TRUE]
    <3>1. /\ s \in JobSlots /\ slot[s].pc = "leased" /\ i.pc # "leased"
          /\ slot' = [slot EXCEPT ![s] = i] /\ UNCHANGED <<job, waited>>
      BY <1>3, <2>2 DEF ClaimReceipt, MayStart
    <3> HIDE DEF i
    <3>2. QED
      BY <3>1, SpentPace
  <2>3. QED
    BY <2>1, <2>2
<1>4. CASE LeaveReceipt(s)
  <2> DEFINE i == Ends(s, IF receipt.status = "succeeded" THEN "ok" ELSE "notok")
  <2>1. /\ slot' = [slot EXCEPT ![s] = i] /\ i.pc # "leased" /\ MayStart(s)
        /\ UNCHANGED <<receipt, job, claims>> /\ ~Claimable
        /\ waited' = IF s \in JobSlots /\ receipt.status = "pending" THEN waited + 1 ELSE waited
    BY <1>4, InvocationTypes DEF LeaveReceipt
  <2> HIDE DEF i
  <2>2. CASE s \notin JobSlots
    BY <2>1, <2>2, QuietPace
  <2>3. CASE s \in JobSlots /\ receipt.status # "pending"
    <3>1. slot[s].pc = "leased"
      BY <2>1, <2>3, SlotAssumption DEF MayStart
    <3>2. QED
      BY <2>1, <2>3, <3>1, SpentPace
  <2>4. CASE s \in JobSlots /\ receipt.status = "pending"
    <3>1. slot[s].pc = "leased"
      BY <2>1, <2>4, SlotAssumption DEF MayStart
    <3>2. receipt.age <= ReceiptStale
      BY <2>1, <2>4, LifeAssumption DEF Claimable, IInv, TypeOK, Receipts
    <3>3. QED
      BY <2>1, <2>4, <3>1, <3>2, WaitPace
  <2>5. QED
    BY <2>2, <2>3, <2>4
<1>5. CASE StartCall(s) \/ ReadDocument(s) \/ BatchUpdate(s) \/ CallFails(s)
  <2>1. /\ slot[s].pc # "leased"
        /\ \E i : slot' = [slot EXCEPT ![s] = i] /\ i.pc # "leased"
        /\ UNCHANGED <<job, waited, claims, receipt>>
    <3>1. CASE StartCall(s)
      <4> DEFINE i == [slot[s] EXCEPT !.pc = "get"]
      <4>1. slot' = [slot EXCEPT ![s] = i] /\ i.pc = "get" /\ slot[s].pc = "claimed"
        BY <1>1, <3>1 DEF StartCall, Invocations
      <4> HIDE DEF i
      <4>2. QED
        BY <3>1, <4>1 DEF StartCall
    <3>2. CASE ReadDocument(s) /\ ~doc.marker
      <4> DEFINE i == [slot[s] EXCEPT !.pc = "update"]
      <4>1. slot' = [slot EXCEPT ![s] = i] /\ i.pc = "update" /\ slot[s].pc = "get"
        BY <1>1, <3>2 DEF ReadDocument, Invocations
      <4> HIDE DEF i
      <4>2. QED
        BY <3>2, <4>1 DEF ReadDocument
    <3>3. CASE \/ (ReadDocument(s) /\ doc.marker) \/ BatchUpdate(s) \/ CallFails(s)
      <4>1. slot[s].pc \in Calling /\ UNCHANGED <<job, waited, claims, receipt>>
        BY <3>3 DEF ReadDocument, BatchUpdate, CallFails, Calling
      <4>2. Back(s, "returned") \/ Back(s, "raised")
        BY <3>3 DEF ReadDocument, BatchUpdate, CallFails
      <4>3. \E i \in Invocations : i.pc \in {"idle", "returned", "raised"}
                                   /\ slot' = [slot EXCEPT ![s] = i]
        BY <4>2, BackType
      <4>4. QED
        BY <4>1, <4>3 DEF Calling
    <3>4. QED
      BY <1>5, <3>1, <3>2, <3>3
  <2>2. QED
    BY <2>1, QuietPace
<1>6. CASE Success(s) \/ Failure(s)
  <2>1. PICK pc \in {"ok", "notok"} : slot' = [slot EXCEPT ![s] = Ends(s, pc)]
    BY <1>6 DEF Success, Failure
  <2>2. slot[s].pc # "leased" /\ UNCHANGED <<job, waited, claims>>
    BY <1>6 DEF Success, Failure
  <2>3. receipt' = receipt \/ receipt'.status # "pending"
    BY <1>6 DEF Success, Failure, Finalized
  <2>4. Ends(s, pc).pc # "leased"
    BY InvocationTypes
  <2>5. QED
    BY <2>1, <2>2, <2>3, <2>4, QuietPace
<1>7. CASE SettleJob(s)
  <2>1. /\ slot' = [slot EXCEPT ![s] = Free] /\ Free.pc # "leased" /\ slot[s].pc # "leased"
        /\ s \in JobSlots /\ UNCHANGED <<receipt, waited, claims>>
    BY <1>7 DEF SettleJob, Free
  <2>2. CASE ~HeldBy(job, s)
    <3>1. job' = job
      BY <1>7, <2>2 DEF SettleJob
    <3>2. QED
      BY <2>1, <3>1, QuietPace
  <2>3. CASE HeldBy(job, s) /\ slot[s].pc = "ok"
    <3>1. job' = Closed(job, "succeeded")
      BY <1>7, <2>3 DEF SettleJob
    <3>2. /\ Leased' <=> Leased
          /\ \A t \in JobSlots : slot'[t].pc = "leased" => slot'[t] = slot[t]
      BY <2>1, SameLeases
    <3>3. ~Leased
      BY <2>1, <2>3 DEF Leased, Pace, LeaseHeld, HeldBy
    <3>4. QED
      BY <2>1, <3>1, <3>2, <3>3, ClosePace
  <2>4. CASE HeldBy(job, s) /\ slot[s].pc = "notok"
    <3>1. job' = FailedAttempt(job, job.attempts)
      BY <1>7, <2>4 DEF SettleJob
    <3>2. QED
      BY <2>1, <2>4, <3>1, FailPace
  <2>5. QED
    BY <1>7, <2>2, <2>3, <2>4 DEF SettleJob
<1>8. CASE Cancel(s)
  <2> DEFINE i == IF slot[s].pc \in Calling THEN [slot[s] EXCEPT !.awaited = FALSE] ELSE Free
  <2>1. slot' = [slot EXCEPT ![s] = i] /\ UNCHANGED <<receipt, waited, claims>>
    BY <1>8 DEF Cancel
  <2>2. i.pc # "leased"
    BY <1>1 DEF Invocations, Calling, Free
  <2>3. job' = IF s \in JobSlots /\ HeldBy(job, s)
               THEN FailedAttempt(job, job.attempts) ELSE job
    BY <1>8 DEF Cancel
  <2> HIDE DEF i
  <2>4. CASE s \in JobSlots /\ slot[s].pc = "leased"
    <3>1. job.attempts \in 0..MaxAttempts /\ job \in Rows
      BY DEF IInv, TypeOK, Rows
    <3>2. job'.attempts = job.attempts
      BY <2>3, <3>1, FailedAttemptType
    <3>3. QED
      BY <2>1, <2>2, <2>4, <3>2, SpentPace
  <2>5. CASE s \in JobSlots /\ slot[s].pc # "leased" /\ HeldBy(job, s)
    BY <2>1, <2>2, <2>3, <2>5, FailPace
  <2>6. CASE ~(s \in JobSlots /\ slot[s].pc = "leased") /\ ~(s \in JobSlots /\ HeldBy(job, s))
    BY <2>1, <2>2, <2>3, <2>6, QuietPace
  <2>7. QED
    BY <2>4, <2>5, <2>6
<1>9. CASE Crash(s)
  <2>1. /\ slot' = [slot EXCEPT ![s] = Free] /\ Free.pc # "leased"
        /\ UNCHANGED <<receipt, job, waited, claims>>
    BY <1>9 DEF Crash, Free
  <2>2. CASE s \in JobSlots /\ slot[s].pc = "leased"
    BY <2>1, <2>2, SpentPace
  <2>3. CASE ~(s \in JobSlots /\ slot[s].pc = "leased")
    BY <2>1, <2>3, QuietPace
  <2>4. QED
    BY <2>2, <2>3
<1>10. QED
  BY <1>2, <1>3, <1>4, <1>5, <1>6, <1>7, <1>8, <1>9 DEF Step

LEMMA SamePace ==
  ASSUME NEW CONSTANT sum, Pace(sum), UNCHANGED <<receipt, job, slot, waited, claims>>
  PROVE  Pace(sum)'
  BY DEF Pace, LeaseHeld, Counted, Unclaimed, Paced, BudgetOutlastsClaim, OnlyWaits, Leased,
         HeldBy, Waiting

\* Time that passes makes the claim older as fast as it brings the next attempt.
LEMMA TickPace ==
  ASSUME IInv, NEW CONSTANT sum, Sums(sum), Pace(sum), Tick
  PROVE  Pace(sum)'
<1>1. /\ receipt \in Receipts /\ slot \in [Slots -> Invocations] /\ job \in Rows
      /\ waited \in Nat /\ receipt.age \in Nat
  BY DEF IInv, TypeOK, Receipts
<1>2. UNCHANGED <<waited, claims>>
  BY DEF Tick
<1>3. \A t \in Slots : slot'[t].pc = slot[t].pc /\ slot'[t].awaited = slot[t].awaited
  BY <1>1 DEF Tick, Invocations
<1>4. /\ receipt'.status = receipt.status
      /\ receipt.status = "pending" /\ receipt'.age <= ReceiptStale
           => receipt'.age = receipt.age + 1 /\ receipt.age <= ReceiptStale
  BY <1>1, LifeAssumption DEF Tick, Receipts
<1>5. /\ job'.status = job.status /\ job'.token = job.token /\ job'.attempts = job.attempts
      /\ job'.wait >= job.wait - 1 /\ job'.wait \in Nat
      /\ job'.age <= job.age + 1 /\ job'.age \in 0..Unlocked
      /\ Beating => job'.age = 0
  <2>1. job.age \in 0..Unlocked /\ job.wait \in Nat /\ Unlocked \in Nat
    BY <1>1, UnlockedNat, ClockAssumption DEF Rows
  <2>2. /\ Aged(job) \in Rows /\ Aged(job).status = job.status
        /\ Aged(job).token = job.token /\ Aged(job).attempts = job.attempts
    BY <1>1, AgedType
  <2>3. /\ Aged(job).age = IF job.age < Unlocked THEN job.age + 1 ELSE job.age
        /\ Aged(job).wait = IF job.wait > 0 THEN job.wait - 1 ELSE job.wait
    BY <1>1 DEF Aged, Rows
  <2>4. CASE Beating
    <3>1. job' = Renewed(Aged(job))
      BY <2>4 DEF Tick
    <3>2. /\ job'.status = job.status /\ job'.token = job.token
          /\ job'.attempts = job.attempts
      BY <2>2, <3>1, RenewedType
    <3>3. job'.age = 0 /\ job'.wait = Aged(job).wait
      BY <2>2, <3>1 DEF Renewed, Rows
    <3>4. QED
      BY <2>1, <2>3, <3>2, <3>3
  <2>5. CASE ~Beating
    <3>1. job' = Aged(job)
      BY <2>5 DEF Tick
    <3>2. QED
      BY <2>1, <2>2, <2>3, <2>5, <3>1
  <2>6. QED
    BY <2>4, <2>5
<1>6. Leased' <=> Leased
  BY <1>3 DEF Leased, Slots
<1>7. LeaseHeld'
  <2>1. \A t \in JobSlots : slot'[t].pc = "leased" =>
          slot[t].pc = "leased" /\ slot'[t].awaited
          /\ ((HeldBy(job, t) /\ slot[t].awaited) \/ job.status = "succeeded")
    BY <1>3 DEF Pace, LeaseHeld, Slots
  <2>2. \A t \in JobSlots : HeldBy(job, t) /\ slot[t].awaited
                              => (HeldBy(job, t))' /\ job'.age = 0
    BY <1>5 DEF Beating, HeldBy
  <2>3. \A s, t \in JobSlots : slot'[s].pc = "leased" /\ slot'[t].pc = "leased" => s = t
    BY <1>3 DEF Pace, LeaseHeld, Slots
  <2>4. job.status = "succeeded" => job'.status = "succeeded"
    BY <1>5
  <2>5. QED
    BY <2>1, <2>2, <2>3, <2>4 DEF LeaseHeld
<1>8. (OnlyWaits' <=> OnlyWaits) /\ Counted' /\ BudgetOutlastsClaim'
  BY <1>2, <1>5, <1>6 DEF Pace, OnlyWaits, Counted, BudgetOutlastsClaim
<1>9. Unclaimed'
  BY <1>2, <1>4, <1>8 DEF Pace, Unclaimed
<1>10. Paced(sum)'
  <2> SUFFICES ASSUME OnlyWaits, receipt.status = "pending", receipt'.age <= ReceiptStale
               PROVE  IF Leased THEN receipt'.age >= sum[waited]
                      ELSE /\ waited > 0 => receipt'.age >= sum[waited - 1]
                           /\ Waiting(job) => receipt'.age + job'.wait >= sum[waited]
                           /\ job.status = "running" =>
                                receipt'.age + (Unlocked - job'.age) >= sum[waited]
    BY <1>2, <1>4, <1>5, <1>6, <1>8 DEF Paced, Waiting
  <2>1. receipt'.age = receipt.age + 1 /\ receipt.age <= ReceiptStale
    BY <1>4
  <2>2. IF Leased THEN receipt.age >= sum[waited]
        ELSE /\ waited > 0 => receipt.age >= sum[waited - 1]
             /\ Waiting(job) => receipt.age + job.wait >= sum[waited]
             /\ job.status = "running" => receipt.age + (Unlocked - job.age) >= sum[waited]
    BY <2>1 DEF Pace, Paced
  <2>3. /\ sum[waited] \in Nat
        /\ waited > 0 => sum[waited - 1] \in Nat
    BY <1>1, BudgetAssumption DEF Pace, BudgetOutlastsClaim, Sums
  <2>4. job.age \in 0..Unlocked /\ job.wait \in Nat /\ Unlocked \in Nat
    BY <1>1, UnlockedNat, ClockAssumption DEF Rows
  <2>5. /\ job'.wait \in Nat /\ job'.wait >= job.wait - 1
        /\ job'.age \in 0..Unlocked /\ job'.age <= job.age + 1
    BY <1>5
  <2>6. \A n \in Nat : receipt.age + job.wait >= n => receipt'.age + job'.wait >= n
    BY <1>1, <2>1, <2>4, <2>5
  <2>7. \A n \in Nat : receipt.age + (Unlocked - job.age) >= n
                     => receipt'.age + (Unlocked - job'.age) >= n
    BY <1>1, <2>1, <2>4, <2>5
  <2>8. \A n \in Nat : receipt.age >= n => receipt'.age >= n
    BY <1>1, <2>1
  <2>9. QED
    BY <2>2, <2>3, <2>6, <2>7, <2>8
<1>11. QED
  BY <1>7, <1>8, <1>9, <1>10 DEF Pace

LEMMA NextPace ==
  ASSUME NEW CONSTANT sum, Sums(sum), sum[MaxAttempts - 1] > ReceiptStale, MaxClaims <= 1,
         IInv, Pace(sum), [Next]_vars
  PROVE  Pace(sum)'
<1>1. IInv'
  BY NextIInv
<1>2. CASE UNCHANGED vars
  BY <1>2, SamePace DEF vars
<1>3. ASSUME NEW s \in Slots, Step(s) PROVE Pace(sum)'
  BY <1>1, <1>3, StepPace
<1>4. CASE LateApply \/ FetchDocument \/ HumanEdit
  BY <1>4, SamePace DEF LateApply, FetchDocument, HumanEdit
<1>5. CASE StoreEntries
  <2>1. CASE Reconcilable
    <3>1. /\ job' = Closed(job, "succeeded") /\ receipt'.status = "succeeded"
          /\ UNCHANGED <<slot, waited, claims>>
      BY <1>5, <2>1 DEF StoreEntries
    <3>2. Leased' <=> Leased
      BY <3>1 DEF Leased
    <3>3. QED
      BY <3>1, <3>2, ClosePace
  <2>2. CASE ~Reconcilable
    BY <1>5, <2>2, SamePace DEF StoreEntries
  <2>3. QED
    BY <2>1, <2>2
<1>6. CASE Tick
  BY <1>6, TickPace
<1>7. QED
  BY <1>2, <1>3, <1>4, <1>5, <1>6 DEF Next

LEMMA InitPace ==
  ASSUME NEW CONSTANT sum, Sums(sum), Init
  PROVE  Pace(sum)
<1>1. /\ \A s \in JobSlots : slot[s].pc = "idle"
      /\ waited = 0 /\ job.attempts = 0 /\ receipt.status = "none"
  BY DEF Init, Free, Slots, NewRow
<1>2. QED
  BY <1>1, BudgetAssumption DEF Pace, LeaseHeld, Counted, Unclaimed, Paced, BudgetOutlastsClaim,
     OnlyWaits, Leased

\* A claim that nobody finalizes does not use up the job: where the retry delays
\* before the last attempt add up to more than WRITE_RECEIPT_STALE_AFTER, an attempt
\* is left to take the claim over, whatever crashes, cancellations, expired leases
\* and edits come in between.
THEOREM BudgetLasts ==
  ASSUME MaxClaims <= 1, DelaysOutlastClaim
  PROVE  Spec => []BudgetOutlastsClaim
<1> PICK sum \in [0..MaxAttempts -> Nat] : Sums(sum) /\ sum[MaxAttempts - 1] > ReceiptStale
  BY DEF DelaysOutlastClaim
<1>1. Init => Pace(sum)
  BY InitPace
<1>2. IInv /\ Pace(sum) /\ [Next]_vars => Pace(sum)'
  BY NextPace
<1>3. Pace(sum) => BudgetOutlastsClaim
  BY DEF Pace
<1>4. QED
  BY <1>1, <1>2, <1>3, Inductive, PTL DEF Spec

=============================================================================
