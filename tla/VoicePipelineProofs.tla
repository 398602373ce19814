------------------------- MODULE VoicePipelineProofs -------------------------
(***************************************************************************)
(* Proofs about VoicePipeline, for any number of workers, any length of a reply, *)
(* any attempt budget and any number of interruptions, and about Dialogue, which *)
(* says what the next command after such a reply acts on.                     *)
(***************************************************************************)
EXTENDS VoicePipeline, Dialogue, FiniteSetTheorems, TLAPS

-----------------------------------------------------------------------------
(* The inductive invariant.                                                *)

Statuses == Recoverable \cup {"absent", "delivered"}
Staged   == {"reply_pending", "delivered"}

\* A worker that has decided to send chunks, and one that may still stage a reply.
Telling == {"send", "sending", "sent", "progress", "delivered"}
Before  == {"download", "storepath", "ack", "begin", "processing", "whisper",
            "whisperfail", "storetext", "answer", "answering", "stage"}

\* What a worker that does i knows of the row r, which it may own, and of the
\* chunks S that were sent.
Fits(i, own, r, S) ==
  /\ i.pc \in Telling \cup {"stage"} => i.reply \in Replies
  /\ i.pc \in {"sending", "sent", "progress"} => i.chunk \in 1..Chunks
  /\ i.pc \in Telling => \A c \in 1..Chunks : c < i.chunk => c \in S
  /\ i.pc \in {"sent", "progress"} => i.chunk \in S
  /\ i.pc = "delivered" => S = 1..Chunks
  /\ own /\ i.pc \in {"processing", "whisper", "storetext"} => ~r.text
  /\ own /\ i.pc \in {"unlink", "deliver"} => r.status = "reply_pending"
  /\ ~LateIngress /\ own /\ i.pc \in Before => r.status \notin Staged
  /\ ~LateIngress /\ i.pc \in Telling => r.status \in Staged
  /\ ~LateIngress /\ i.pc \in Telling /\ r.status = "reply_pending" => i.reply = r.reply

\* What the row says of the chunks S and the replies T that were sent.
RowFits(r, S, T) ==
  /\ \A c \in 1..Chunks : c <= r.cursor => c \in S
  /\ r.status = "delivered" => S = 1..Chunks
  /\ r.status \in {"absent", "delivered"} => r.owner = Nobody
  /\ r.status = "reply_pending" => r.reply \in Replies
  /\ ~LateIngress /\ T # {} => r.status \in Staged
  /\ ~LateIngress /\ r.status = "reply_pending" => T \subseteq {r.reply}

WorkersFit == \A w \in Workers : Fits(act[w], Owned(w), row, sent)

\* All that is sent, by whomever, is one reply.
Agreed ==
  ~LateIngress =>
    /\ OneReply
    /\ \A w \in Workers : act[w].pc \in Telling => told \subseteq {act[w].reply}
    /\ \A w, v \in Workers :
         act[w].pc \in Telling /\ act[v].pc \in Telling => act[w].reply = act[v].reply

\* Between the two transactions of an update nobody else holds the row.
Quiet ==
  ~LateIngress =>
    /\ \A w \in Workers : act[w].pc = "ingress" =>
         row.status = "received" /\ \A v \in Workers : ~Owned(v)
    /\ \A w, v \in Workers : act[w].pc = "ingress" /\ act[v].pc = "ingress" => w = v

IInv == TypeOK /\ WorkersFit /\ RowFits(row, sent, told) /\ Agreed /\ Quiet

-----------------------------------------------------------------------------
(* How a worker moves.                                                     *)

Moves(w, i) == act' = [act EXCEPT ![w] = i]

LEMMA NothingType == Nothing \in Doings /\ Nothing.pc = "idle"
<1>1. 1 \in 1..(Chunks + 1)
  BY VoiceAssumption
<1>2. QED
  BY <1>1 DEF Nothing, Doings, Steps

LEMMA GotoMoves ==
  ASSUME TypeOK, NEW w \in Workers, NEW pc \in Steps, Goto(w, pc)
  PROVE  \E i \in Doings : /\ Moves(w, i)
                           /\ i.pc = pc /\ i.reply = act[w].reply /\ i.chunk = act[w].chunk
<1> DEFINE i == [act[w] EXCEPT !.pc = pc]
<1>1. act[w] \in Doings
  BY DEF TypeOK
<1>2. i \in Doings
  BY <1>1, Zenon DEF Doings
<1>3. i.pc = pc /\ i.reply = act[w].reply /\ i.chunk = act[w].chunk
  BY <1>1 DEF Doings
<1>4. Moves(w, i)
  BY DEF Goto, Moves
<1>5. QED
  BY <1>2, <1>3, <1>4

LEMMA ReplyMoves ==
  ASSUME TypeOK, NEW w \in Workers, NEW reply \in Replies,
         act' = [act EXCEPT ![w].pc = "stage", ![w].reply = reply]
  PROVE  \E i \in Doings : Moves(w, i) /\ i.pc = "stage" /\ i.reply = reply
<1> DEFINE i == [act[w] EXCEPT !.pc = "stage", !.reply = reply]
<1>1. act[w] \in Doings /\ "stage" \in Steps
  BY DEF TypeOK, Steps
<1>2. i \in Doings
  BY <1>1, Zenon DEF Doings
<1>3. i.pc = "stage" /\ i.reply = reply
  BY <1>1 DEF Doings
<1>4. Moves(w, i)
  BY DEF Moves
<1>5. QED
  BY <1>2, <1>3, <1>4

LEMMA ChunkMoves ==
  ASSUME TypeOK, NEW w \in Workers, NEW reply \in Replies, NEW c \in 1..(Chunks + 1),
         act' = [act EXCEPT ![w].pc = "send", ![w].chunk = c, ![w].reply = reply]
  PROVE  \E i \in Doings : Moves(w, i) /\ i.pc = "send" /\ i.reply = reply /\ i.chunk = c
<1> DEFINE i == [act[w] EXCEPT !.pc = "send", !.chunk = c, !.reply = reply]
<1>1. act[w] \in Doings /\ "send" \in Steps
  BY DEF TypeOK, Steps
<1>2. i \in Doings
  BY <1>1, Zenon DEF Doings
<1>3. i.pc = "send" /\ i.reply = reply /\ i.chunk = c
  BY <1>1 DEF Doings
<1>4. Moves(w, i)
  BY DEF Moves
<1>5. QED
  BY <1>2, <1>3, <1>4

LEMMA StopMoves ==
  ASSUME NEW w \in Workers, Stop(w)
  PROVE  Moves(w, Nothing)
  BY DEF Stop, Moves

LEMMA GiveUpMoves ==
  ASSUME TypeOK, NEW w \in Workers, GiveUp(w)
  PROVE  \E i \in Doings : Moves(w, i) /\ i.pc \in {"idle", "release"}
<1>1. CASE act[w].ingress
  BY <1>1, StopMoves, NothingType DEF GiveUp
<1>2. CASE ~act[w].ingress
  <2>1. "release" \in Steps
    BY DEF Steps
  <2>2. Goto(w, "release")
    BY <1>2 DEF GiveUp
  <2>3. QED
    BY <2>1, <2>2, GotoMoves
<1>3. QED
  BY <1>1, <1>2

-----------------------------------------------------------------------------
(* Kinds of steps.                                                         *)

\* A step that changes neither the row nor what was sent.
Elsewhere ==
  /\ UNCHANGED <<row, sent, sends, told>>
  /\ file' \in {"none", "young", "old"} /\ interrupts' \in 0..MaxInterrupts

LEMMA MoveKeeps ==
  ASSUME IInv, NEW w \in Workers, NEW i \in Doings, Moves(w, i), Elsewhere,
         Fits(i, Owned(w), row, sent), i.pc # "ingress",
         i.pc \in Telling =>
           \/ act[w].pc \in Telling /\ i.reply = act[w].reply
           \/ row.status = "reply_pending"
  PROVE  IInv'
<1>1. /\ act' \in [Workers -> Doings] /\ act'[w] = i
      /\ \A v \in Workers \ {w} : act'[v] = act[v]
  BY DEF Moves, IInv, TypeOK
<1>2. TypeOK'
  BY <1>1 DEF Elsewhere, IInv, TypeOK
<1>3. \A v \in Workers : Owned(v)' = Owned(v)
  BY DEF Elsewhere, Owned
<1>4. WorkersFit'
  BY <1>1, <1>3 DEF Elsewhere, IInv, WorkersFit, Fits
<1>5. RowFits(row, sent, told)'
  BY DEF Elsewhere, IInv, RowFits
<1>6. Agreed'
  <2> SUFFICES ASSUME ~LateIngress
               PROVE  /\ OneReply'
                      /\ \A u \in Workers : act'[u].pc \in Telling => told' \subseteq {act'[u].reply}
                      /\ \A u, v \in Workers :
                           act'[u].pc \in Telling /\ act'[v].pc \in Telling
                             => act'[u].reply = act'[v].reply
    BY DEF Agreed
  <2>1. OneReply' /\ told' = told
    BY DEF Elsewhere, IInv, Agreed, OneReply
  <2>2. i.pc \in Telling => told \subseteq {i.reply}
    BY DEF IInv, Agreed, RowFits, Fits
  <2>3. \A v \in Workers \ {w} :
          i.pc \in Telling /\ act[v].pc \in Telling => act[v].reply = i.reply
    BY DEF IInv, Agreed, WorkersFit, Fits
  <2>4. QED
    BY <1>1, <2>1, <2>2, <2>3 DEF IInv, Agreed
<1>7. Quiet'
  BY <1>1, <1>3 DEF Elsewhere, IInv, Quiet
<1>8. QED
  BY <1>2, <1>4, <1>5, <1>6, <1>7 DEF IInv

\* A worker that stops, or is about to give its lease back, keeps everything.
LEMMA LeaveKeeps ==
  ASSUME IInv, NEW w \in Workers, NEW i \in Doings, Moves(w, i), Elsewhere,
         i.pc \in {"idle", "release", "run", "sendfail"}
  PROVE  IInv'
<1>1. Fits(i, Owned(w), row, sent) /\ i.pc # "ingress" /\ i.pc \notin Telling
  BY DEF Fits, Telling, Before
<1>2. QED
  BY <1>1, MoveKeeps

\* A step that only weakens leases and transcripts, and stops workers.
LEMMA FadeKeeps ==
  ASSUME IInv, act' \in [Workers -> Doings],
         \A v \in Workers : act'[v] = act[v] \/ act'[v].pc = "idle",
         row' \in Rows, row'.status = row.status, row'.reply = row.reply,
         row'.cursor = row.cursor, row'.owner \in {row.owner, Nobody},
         row'.live => row.live, row'.text => row.text,
         UNCHANGED <<sent, sends, told>>,
         file' \in {"none", "young", "old"}, interrupts' \in 0..MaxInterrupts
  PROVE  IInv'
<1>1. TypeOK'
  BY DEF IInv, TypeOK
<1>2. \A v \in Workers : Owned(v)' => Owned(v)
  BY VoiceAssumption DEF Owned
<1>3. WorkersFit'
  <2> SUFFICES ASSUME NEW v \in Workers PROVE Fits(act'[v], Owned(v)', row', sent)
    BY DEF WorkersFit
  <2>1. CASE act'[v] = act[v]
    BY <2>1, <1>2 DEF IInv, WorkersFit, Fits
  <2>2. CASE act'[v].pc = "idle"
    BY <2>2 DEF Fits, Telling, Before
  <2>3. QED
    BY <2>1, <2>2
<1>4. RowFits(row, sent, told)'
  BY DEF IInv, RowFits
<1>5. Agreed'
  BY DEF IInv, Agreed, OneReply, Telling
<1>6. Quiet'
  BY <1>2 DEF IInv, Quiet
<1>7. QED
  BY <1>1, <1>3, <1>4, <1>5, <1>6 DEF IInv

\* A step of the worker that owns the row.  It may set the row's reply only as long
\* as nothing was staged.
LEMMA OwnerKeeps ==
  ASSUME IInv, NEW w \in Workers, NEW i \in Doings, Moves(w, i), Owned(w),
         row' \in Rows, row'.owner \in {w, Nobody},
         UNCHANGED <<file, sent, sends, told, interrupts>>,
         RowFits(row', sent, told), Fits(i, Owned(w)', row', sent), i.pc # "ingress",
         i.pc \in Telling => act[w].pc \in Telling /\ i.reply = act[w].reply,
         \/ LateIngress
         \/ row'.status = row.status /\ row'.reply = row.reply
         \/ row.status \notin Staged
         \/ row'.status = "delivered"
  PROVE  IInv'
<1>1. /\ act' \in [Workers -> Doings] /\ act'[w] = i
      /\ \A v \in Workers \ {w} : act'[v] = act[v]
  BY DEF Moves, IInv, TypeOK
<1>2. TypeOK'
  BY <1>1 DEF IInv, TypeOK
<1>3. \A v \in Workers \ {w} : ~Owned(v) /\ ~Owned(v)'
  BY VoiceAssumption DEF Owned
<1>4. WorkersFit'
  <2> SUFFICES ASSUME NEW v \in Workers PROVE Fits(act'[v], Owned(v)', row', sent)
    BY DEF WorkersFit
  <2>1. CASE v = w
    BY <2>1, <1>1
  <2>2. CASE v # w
    <3>1. Fits(act[v], FALSE, row, sent) /\ act'[v] = act[v] /\ ~Owned(v)'
      BY <2>2, <1>1, <1>3 DEF IInv, WorkersFit, Fits
    <3>2. QED
      BY <3>1 DEF Fits, Staged
  <2>3. QED
    BY <2>1, <2>2
<1>5. Agreed'
  BY <1>1 DEF IInv, Agreed, OneReply
<1>6. Quiet'
  BY <1>1 DEF IInv, Quiet
<1>7. QED
  BY <1>2, <1>4, <1>5, <1>6 DEF IInv

-----------------------------------------------------------------------------
(* What the updates of the row return.                                     *)

LEMMA RowFields ==
  ASSUME TypeOK
  PROVE  /\ row \in Rows /\ row.failures \in Nat /\ row.cursor \in 0..Chunks
         /\ row.path \in BOOLEAN /\ row.text \in BOOLEAN /\ row.live \in BOOLEAN
  BY DEF TypeOK, Rows

LEMMA LeasedType ==
  ASSUME TypeOK, NEW w \in Workers
  PROVE  /\ Leased(w) \in Rows
         /\ Leased(w).owner = w /\ Leased(w).status = row.status
         /\ Leased(w).reply = row.reply /\ Leased(w).cursor = row.cursor
         /\ Leased(w).text = row.text
<1>1. Leased(w) \in Rows
  BY RowFields, Zenon DEF Leased, Rows
<1>2. QED
  BY <1>1, RowFields, SMT DEF Leased, Rows

LEMMA FreedType ==
  ASSUME NEW r \in Rows
  PROVE  /\ Freed(r) \in Rows
         /\ Freed(r).owner = Nobody /\ Freed(r).status = r.status
         /\ Freed(r).reply = r.reply /\ Freed(r).cursor = r.cursor
         /\ Freed(r).text = r.text /\ ~Freed(r).live
<1>1. Freed(r) \in Rows
  BY Zenon DEF Freed, Rows
<1>2. /\ Freed(r).owner = Nobody /\ Freed(r).status = r.status
      /\ Freed(r).reply = r.reply /\ Freed(r).cursor = r.cursor
  BY SMT DEF Freed, Rows
<1>3. Freed(r).text = r.text /\ ~Freed(r).live
  BY Zenon DEF Freed, Rows
<1>4. QED
  BY <1>1, <1>2, <1>3

LEMMA SetType ==
  ASSUME TypeOK, NEW s \in Statuses
  PROVE  /\ Set(s) \in Rows
         /\ Set(s).status = s /\ Set(s).owner = row.owner /\ Set(s).reply = row.reply
         /\ Set(s).cursor = row.cursor /\ Set(s).text = row.text
<1>1. Set(s) \in Rows
  BY RowFields, Zenon DEF Set, Rows, Statuses
<1>2. QED
  BY <1>1, RowFields, SMT DEF Set, Rows

\* The status of a field that is set on top.
LEMMA PathType ==
  ASSUME NEW r \in Rows
  PROVE  /\ [r EXCEPT !.path = TRUE] \in Rows
         /\ [r EXCEPT !.path = TRUE].status = r.status
         /\ [r EXCEPT !.path = TRUE].owner = r.owner
         /\ [r EXCEPT !.path = TRUE].reply = r.reply
         /\ [r EXCEPT !.path = TRUE].cursor = r.cursor
         /\ [r EXCEPT !.path = TRUE].text = r.text
<1>1. [r EXCEPT !.path = TRUE] \in Rows
  BY Zenon DEF Rows
<1>2. QED
  BY <1>1, SMT DEF Rows

LEMMA TextType ==
  ASSUME NEW r \in Rows
  PROVE  /\ [r EXCEPT !.text = TRUE] \in Rows
         /\ [r EXCEPT !.text = TRUE].status = r.status
         /\ [r EXCEPT !.text = TRUE].owner = r.owner
         /\ [r EXCEPT !.text = TRUE].reply = r.reply
         /\ [r EXCEPT !.text = TRUE].cursor = r.cursor
<1>1. [r EXCEPT !.text = TRUE] \in Rows
  BY Zenon DEF Rows
<1>2. QED
  BY <1>1, SMT DEF Rows

LEMMA StagedType ==
  ASSUME NEW r \in Rows, NEW reply \in Replies \cup {"none"}
  PROVE  /\ [r EXCEPT !.reply = reply, !.cursor = 0] \in Rows
         /\ [r EXCEPT !.reply = reply, !.cursor = 0].status = r.status
         /\ [r EXCEPT !.reply = reply, !.cursor = 0].owner = r.owner
         /\ [r EXCEPT !.reply = reply, !.cursor = 0].reply = reply
         /\ [r EXCEPT !.reply = reply, !.cursor = 0].cursor = 0
         /\ [r EXCEPT !.reply = reply, !.cursor = 0].text = r.text
<1>1. 0 \in 0..Chunks
  BY VoiceAssumption
<1>2. [r EXCEPT !.reply = reply, !.cursor = 0] \in Rows
  BY <1>1, Zenon DEF Rows
<1>3. QED
  BY <1>2, SMT DEF Rows

LEMMA StatusType ==
  ASSUME NEW r \in Rows, NEW s \in Statuses
  PROVE  /\ [r EXCEPT !.status = s] \in Rows
         /\ [r EXCEPT !.status = s].status = s
         /\ [r EXCEPT !.status = s].owner = r.owner
         /\ [r EXCEPT !.status = s].reply = r.reply
         /\ [r EXCEPT !.status = s].cursor = r.cursor
         /\ [r EXCEPT !.status = s].text = r.text
         /\ [r EXCEPT !.status = s].live = r.live
<1>1. [r EXCEPT !.status = s] \in Rows
  BY Zenon DEF Rows, Statuses
<1>2. [r EXCEPT !.status = s].live = r.live
  BY Zenon DEF Rows
<1>3. QED
  BY <1>1, <1>2, SMT DEF Rows

LEMMA CountedType ==
  ASSUME TypeOK
  PROVE  LET counted == [row EXCEPT !.failures = @ + 1, !.old = FALSE]
         IN  /\ counted \in Rows
             /\ counted.status = row.status /\ counted.owner = row.owner
             /\ counted.reply = row.reply /\ counted.cursor = row.cursor
             /\ counted.text = row.text
<1> DEFINE n == row.failures + 1
           counted == [row EXCEPT !.failures = n, !.old = FALSE]
<1>1. n \in Nat
  BY RowFields
<1>2. counted \in Rows
  <2> HIDE DEF n
  <2> QED
    BY <1>1, RowFields, Zenon DEF Rows
<1>3. /\ counted.status = row.status /\ counted.owner = row.owner
      /\ counted.reply = row.reply /\ counted.cursor = row.cursor
      /\ counted.text = row.text
  BY RowFields DEF Rows
<1>4. counted = [row EXCEPT !.failures = @ + 1, !.old = FALSE]
  OBVIOUS
<1>5. QED
  BY <1>2, <1>3, <1>4

LEMMA CursorType ==
  ASSUME TypeOK, NEW c \in 0..Chunks
  PROVE  /\ [row EXCEPT !.old = FALSE, !.cursor = c] \in Rows
         /\ [row EXCEPT !.old = FALSE, !.cursor = c].status = row.status
         /\ [row EXCEPT !.old = FALSE, !.cursor = c].owner = row.owner
         /\ [row EXCEPT !.old = FALSE, !.cursor = c].reply = row.reply
         /\ [row EXCEPT !.old = FALSE, !.cursor = c].cursor = c
         /\ [row EXCEPT !.old = FALSE, !.cursor = c].text = row.text
<1>1. [row EXCEPT !.old = FALSE, !.cursor = c] \in Rows
  BY RowFields, Zenon DEF Rows
<1>2. QED
  BY <1>1, RowFields, SMT DEF Rows

-----------------------------------------------------------------------------
(* Every action preserves the invariant.                                   *)

LEMMA InitIInv == Init => IInv
<1> SUFFICES ASSUME Init PROVE IInv
  OBVIOUS
<1>1. NoRow \in Rows
  <2>1. 0 \in Nat /\ 0 \in 0..Chunks
    BY VoiceAssumption
  <2>2. QED
    BY <2>1, Zenon DEF NoRow, Rows
<1>2. TypeOK
  BY <1>1, NothingType, VoiceAssumption DEF Init, TypeOK
<1>3. \A w \in Workers : act[w].pc = "idle"
  BY NothingType DEF Init
<1>4. WorkersFit /\ Agreed /\ Quiet
  BY <1>3 DEF Init, WorkersFit, Fits, Agreed, Quiet, OneReply, Telling, Before
<1>5. RowFits(row, sent, told)
  BY VoiceAssumption DEF Init, RowFits, NoRow
<1>6. QED
  BY <1>2, <1>4, <1>5 DEF IInv

LEMMA StepNames ==
  /\ {"idle", "ingress", "run", "release", "sendfail"} \cup Before \cup Telling \subseteq Steps
  /\ {"unlink", "deliver"} \subseteq Steps
  BY DEF Steps, Before, Telling

\* A worker that goes on to a step about which the invariant says nothing.
LEMMA WalkKeeps ==
  ASSUME IInv, NEW w \in Workers, Elsewhere,
         NEW pc \in {"release", "run", "sendfail"}, Goto(w, pc)
  PROVE  IInv'
<1>1. PICK i \in Doings : Moves(w, i) /\ i.pc = pc
  BY GotoMoves, StepNames DEF IInv
<1>2. QED
  BY <1>1, LeaveKeeps

LEMMA AbandonKeeps ==
  ASSUME IInv, NEW w \in Workers, Elsewhere, GiveUp(w) \/ Stop(w)
  PROVE  IInv'
<1>1. PICK i \in Doings : Moves(w, i) /\ i.pc \in {"idle", "release"}
  BY GiveUpMoves, StopMoves, NothingType DEF IInv
<1>2. QED
  BY <1>1, LeaveKeeps

\* A worker that prepares what it may stage later.
LEMMA PrepareKeeps ==
  ASSUME IInv, NEW w \in Workers, Elsewhere, NEW pc \in Before \ {"stage"}, Goto(w, pc),
         Owned(w) /\ pc \in {"processing", "whisper", "storetext"} => ~row.text,
         ~LateIngress /\ Owned(w) => row.status \notin Staged
  PROVE  IInv'
<1>1. PICK i \in Doings : Moves(w, i) /\ i.pc = pc
  BY GotoMoves, StepNames DEF IInv
<1>2. i.pc # "ingress" /\ i.pc \notin Telling
  BY <1>1 DEF Before, Telling
<1>3. Fits(i, Owned(w), row, sent)
  BY <1>1, <1>2 DEF Fits, Before
<1>4. QED
  BY <1>1, <1>2, <1>3, MoveKeeps

\* A worker that has a reply to stage.
LEMMA ReplyKeeps ==
  ASSUME IInv, NEW w \in Workers, Elsewhere, NEW reply \in Replies,
         act' = [act EXCEPT ![w].pc = "stage", ![w].reply = reply],
         ~LateIngress /\ Owned(w) => row.status \notin Staged
  PROVE  IInv'
<1>1. PICK i \in Doings : Moves(w, i) /\ i.pc = "stage" /\ i.reply = reply
  BY ReplyMoves DEF IInv
<1>2. i.pc # "ingress" /\ i.pc \notin Telling
  BY <1>1 DEF Telling
<1>3. Fits(i, Owned(w), row, sent)
  BY <1>1, <1>2 DEF Fits
<1>4. QED
  BY <1>1, <1>2, <1>3, MoveKeeps

LEMMA ElsewhereIf ==
  ASSUME IInv, UNCHANGED <<row, sent, sends, told>>,
         file' \in {file, "young", "none"}, interrupts' = interrupts
  PROVE  Elsewhere
  BY DEF Elsewhere, IInv, TypeOK

LEMMA Interrupted ==
  ASSUME IInv, interrupts < MaxInterrupts, interrupts' = interrupts + 1
  PROVE  interrupts' \in 0..MaxInterrupts
  BY VoiceAssumption DEF IInv, TypeOK

LEMMA KnownToPrepare ==
  ASSUME IInv, NEW w \in Workers, act[w].pc \in Before
  PROVE  ~LateIngress /\ Owned(w) => row.status \notin Staged
  BY DEF IInv, WorkersFit, Fits

LEMMA RunIInv == ASSUME IInv, NEW w \in Workers, Run(w) PROVE IInv'
<1>1. Elsewhere
  BY ElsewhereIf DEF Run
<1>2. CASE ~Owned(w)
  BY <1>1, <1>2, WalkKeeps DEF Run
<1>3. CASE Owned(w) /\ row.status = "reply_pending"
  <2>1. PICK i \in Doings : Moves(w, i) /\ i.pc = "deliver"
    BY <1>3, GotoMoves, StepNames DEF Run, RunFrom, IInv
  <2>2. Fits(i, Owned(w), row, sent) /\ i.pc # "ingress" /\ i.pc \notin Telling
    BY <1>3, <2>1 DEF Fits, Before, Telling
  <2>3. QED
    BY <1>1, <2>1, <2>2, MoveKeeps
<1>4. CASE Owned(w) /\ row.status # "reply_pending"
  <2>1. row.status \notin Staged
    BY <1>4, VoiceAssumption DEF IInv, RowFits, Owned, Staged
  <2>2. CASE RunFrom(w) = "download"
    BY <1>1, <1>4, <2>1, <2>2, PrepareKeeps DEF Run, Before
  <2>3. CASE RunFrom(w) = "begin"
    BY <1>1, <1>4, <2>1, <2>3, PrepareKeeps DEF Run, Before
  <2>4. QED
    BY <1>4, <2>2, <2>3 DEF RunFrom
<1>5. QED
  BY <1>2, <1>3, <1>4

LEMMA BeginIInv == ASSUME IInv, NEW w \in Workers, Begin(w) PROVE IInv'
<1>1. Elsewhere
  BY ElsewhereIf DEF Begin
<1>2. ~LateIngress /\ Owned(w) => row.status \notin Staged
  BY KnownToPrepare DEF Begin, Before
<1>3. CASE ~Owned(w) /\ Goto(w, "release")
  BY <1>1, <1>3, WalkKeeps
<1>4. CASE act' = [act EXCEPT ![w].pc = "stage", ![w].reply = "untranscribed"]
  BY <1>1, <1>2, <1>4, ReplyKeeps DEF Replies
<1>5. CASE Goto(w, IF row.text THEN "answer" ELSE "processing")
  <2>1. CASE row.text
    BY <1>1, <1>2, <1>5, <2>1, PrepareKeeps DEF Before
  <2>2. CASE ~row.text
    BY <1>1, <1>2, <1>5, <2>2, PrepareKeeps DEF Before
  <2>3. QED
    BY <2>1, <2>2
<1>6. QED
  BY <1>3, <1>4, <1>5 DEF Begin

LEMMA DownloadIInv == ASSUME IInv, NEW w \in Workers, Download(w) PROVE IInv'
<1>1. Elsewhere
  BY ElsewhereIf DEF Download
<1>2. ~LateIngress /\ Owned(w) => row.status \notin Staged
  BY KnownToPrepare DEF Download, Before
<1>3. QED
  BY <1>1, <1>2, PrepareKeeps DEF Download, Before

LEMMA DownloadFailsIInv == ASSUME IInv, NEW w \in Workers, DownloadFails(w) PROVE IInv'
<1>1. Elsewhere
  BY ElsewhereIf DEF DownloadFails
<1>2. ~LateIngress /\ Owned(w) => row.status \notin Staged
  BY KnownToPrepare DEF DownloadFails, Before
<1>3. CASE act[w].ingress
  BY <1>1, <1>2, <1>3, ReplyKeeps DEF DownloadFails, Replies
<1>4. CASE ~act[w].ingress
  BY <1>1, <1>4, WalkKeeps DEF DownloadFails
<1>5. QED
  BY <1>3, <1>4

LEMMA PathFailsIInv == ASSUME IInv, NEW w \in Workers, PathFails(w) PROVE IInv'
<1>1. interrupts' \in 0..MaxInterrupts
  BY Interrupted DEF PathFails, IInv, TypeOK
<1>2. Elsewhere
  BY <1>1 DEF PathFails, Elsewhere
<1>3. QED
  BY <1>2, AbandonKeeps DEF PathFails

LEMMA TranscribeIInv == ASSUME IInv, NEW w \in Workers, Transcribe(w) PROVE IInv'
<1>1. Elsewhere
  BY ElsewhereIf DEF Transcribe
<1>2. /\ ~LateIngress /\ Owned(w) => row.status \notin Staged
      /\ Owned(w) => ~row.text
  BY KnownToPrepare DEF Transcribe, Before, IInv, WorkersFit, Fits
<1>3. CASE Goto(w, "storetext")
  BY <1>1, <1>2, <1>3, PrepareKeeps DEF Before
<1>4. CASE Goto(w, "whisperfail")
  BY <1>1, <1>2, <1>4, PrepareKeeps DEF Before
<1>5. QED
  BY <1>3, <1>4 DEF Transcribe

LEMMA AnswerIInv == ASSUME IInv, NEW w \in Workers, Answer(w) PROVE IInv'
<1>1. Elsewhere
  BY ElsewhereIf DEF Answer
<1>2. ~LateIngress /\ Owned(w) => row.status \notin Staged
  BY KnownToPrepare DEF Answer, Before
<1>3. PICK reply \in Replies : act' = [act EXCEPT ![w].pc = "stage", ![w].reply = reply]
  BY DEF Answer, Replies
<1>4. QED
  BY <1>1, <1>2, <1>3, ReplyKeeps

LEMMA UnlinkIInv == ASSUME IInv, NEW w \in Workers, Unlink(w) PROVE IInv'
<1>1. Elsewhere
  BY ElsewhereIf DEF Unlink
<1>2. PICK i \in Doings : Moves(w, i) /\ i.pc = "deliver"
  BY GotoMoves, StepNames DEF Unlink, IInv
<1>3. Fits(i, Owned(w), row, sent) /\ i.pc # "ingress" /\ i.pc \notin Telling
  BY <1>2 DEF Unlink, IInv, WorkersFit, Fits, Before, Telling
<1>4. QED
  BY <1>1, <1>2, <1>3, MoveKeeps

LEMMA DeliverIInv == ASSUME IInv, NEW w \in Workers, Deliver(w) PROVE IInv'
<1>1. Elsewhere
  BY ElsewhereIf DEF Deliver
<1>2. CASE ~Owned(w)
  BY <1>1, <1>2, AbandonKeeps DEF Deliver
<1>3. CASE Owned(w)
  <2>1. row.status = "reply_pending" /\ row.reply \in Replies
    BY <1>3 DEF Deliver, IInv, WorkersFit, Fits, RowFits
  <2>2. row.cursor + 1 \in 1..(Chunks + 1)
    BY RowFields, VoiceAssumption DEF IInv
  <2> DEFINE c == row.cursor + 1
             reply == row.reply
  <2>3. PICK i \in Doings : Moves(w, i) /\ i.pc = "send" /\ i.reply = reply /\ i.chunk = c
    <3>1. act' = [act EXCEPT ![w].pc = "send", ![w].chunk = c, ![w].reply = reply]
      BY <1>3 DEF Deliver
    <3>2. c \in 1..(Chunks + 1) /\ reply \in Replies /\ TypeOK
      BY <2>1, <2>2 DEF IInv
    <3> HIDE DEF c, reply
    <3>3. QED
      BY ZenonT(60), <3>1, <3>2, ChunkMoves
  <2>4. \A n \in 1..Chunks : n < i.chunk => n \in sent
    BY <2>3, RowFields DEF IInv, RowFits
  <2>5. Fits(i, Owned(w), row, sent)
    BY <2>1, <2>3, <2>4 DEF Fits, Before, Staged
  <2>6. QED
    BY <1>1, <2>1, <2>3, <2>5, MoveKeeps
<1>4. QED
  BY <1>2, <1>3

LEMMA SendIInv == ASSUME IInv, NEW w \in Workers, Send(w) PROVE IInv'
<1>1. Elsewhere
  BY ElsewhereIf DEF Send
<1>2. act[w] \in Doings /\ act[w].chunk \in 1..(Chunks + 1) /\ Chunks \in Nat
  BY VoiceAssumption DEF IInv, TypeOK, Doings
<1>3. Fits(act[w], Owned(w), row, sent) /\ act[w].pc = "send" /\ act[w].pc \in Telling
  BY DEF Send, IInv, WorkersFit, Telling
<1>4. CASE act[w].chunk > Chunks
  <2>1. PICK i \in Doings : /\ Moves(w, i) /\ i.pc = "delivered"
                            /\ i.reply = act[w].reply /\ i.chunk = act[w].chunk
    BY <1>4, GotoMoves, StepNames DEF Send, IInv, Telling
  <2>2. sent = 1..Chunks
    <3>1. \A c \in 1..Chunks : c < act[w].chunk => c \in sent
      BY <1>3 DEF Fits
    <3>2. \A c \in 1..Chunks : c < act[w].chunk
      BY <1>2, <1>4
    <3>3. sent \subseteq 1..Chunks
      BY DEF IInv, TypeOK
    <3>4. QED
      BY <3>1, <3>2, <3>3
  <2>3. Fits(i, Owned(w), row, sent)
    BY <1>3, <2>1, <2>2 DEF Fits, Before, Telling
  <2>4. QED
    BY <1>1, <1>3, <2>1, <2>3, MoveKeeps
<1>5. CASE ~(act[w].chunk > Chunks) /\ Owned(w)
  <2>1. PICK i \in Doings : /\ Moves(w, i) /\ i.pc = "sending"
                            /\ i.reply = act[w].reply /\ i.chunk = act[w].chunk
    BY <1>5, GotoMoves, StepNames DEF Send, IInv, Telling
  <2>2. i.chunk \in 1..Chunks
    BY <1>2, <1>5, <2>1
  <2>3. Fits(i, Owned(w), row, sent)
    BY <1>3, <2>1, <2>2 DEF Fits, Before, Telling
  <2>4. QED
    BY <1>1, <1>3, <2>1, <2>3, MoveKeeps
<1>6. CASE ~(act[w].chunk > Chunks) /\ ~Owned(w)
  BY <1>1, <1>6, AbandonKeeps DEF Send
<1>7. QED
  BY <1>4, <1>5, <1>6

LEMMA AcknowledgedIInv == ASSUME IInv, NEW w \in Workers, Acknowledged(w) PROVE IInv'
<1>1. Elsewhere
  BY ElsewhereIf DEF Acknowledged
<1>2. Fits(act[w], Owned(w), row, sent) /\ act[w].pc = "sent" /\ act[w].pc \in Telling
  BY DEF Acknowledged, IInv, WorkersFit, Telling
<1>3. PICK i \in Doings : /\ Moves(w, i) /\ i.pc = "progress"
                          /\ i.reply = act[w].reply /\ i.chunk = act[w].chunk
  BY GotoMoves, StepNames DEF Acknowledged, IInv, Telling
<1>4. Fits(i, Owned(w), row, sent)
  BY <1>2, <1>3 DEF Fits, Before, Telling
<1>5. QED
  BY <1>1, <1>2, <1>3, <1>4, MoveKeeps

LEMMA SendFailsIInv == ASSUME IInv, NEW w \in Workers, SendFails(w) PROVE IInv'
<1>1. interrupts' \in 0..MaxInterrupts
  BY Interrupted DEF SendFails
<1>2. Elsewhere
  BY <1>1 DEF SendFails, Elsewhere, IInv, TypeOK
<1>3. QED
  BY <1>2, WalkKeeps DEF SendFails

LEMMA NoticeLossIInv == ASSUME IInv, NEW w \in Workers, NoticeLoss(w) PROVE IInv'
<1>1. Elsewhere
  BY ElsewhereIf DEF NoticeLoss
<1>2. QED
  BY <1>1, AbandonKeeps DEF NoticeLoss

LEMMA CrashIInv == ASSUME IInv, NEW w \in Workers, Crash(w) PROVE IInv'
<1>1. interrupts' \in 0..MaxInterrupts
  BY Interrupted DEF Crash
<1>2. Elsewhere
  BY <1>1 DEF Crash, Elsewhere, IInv, TypeOK
<1>3. QED
  BY <1>2, AbandonKeeps DEF Crash

LEMMA HeartbeatFailsIInv == ASSUME IInv, NEW w \in Workers, HeartbeatFails(w) PROVE IInv'
<1> DEFINE i == [act[w] EXCEPT !.lost = TRUE]
<1>1. interrupts' \in 0..MaxInterrupts
  BY Interrupted DEF HeartbeatFails
<1>2. Elsewhere
  BY <1>1 DEF HeartbeatFails, Elsewhere, IInv, TypeOK
<1>3. act[w] \in Doings /\ Moves(w, i)
  BY DEF HeartbeatFails, Moves, IInv, TypeOK
<1>4. i \in Doings
  BY <1>3, Zenon DEF Doings
<1>5. i.pc = act[w].pc /\ i.reply = act[w].reply /\ i.chunk = act[w].chunk
  BY <1>3 DEF Doings
<1>6. i.pc # "ingress" /\ Fits(act[w], Owned(w), row, sent)
  BY <1>5 DEF HeartbeatFails, IInv, WorkersFit
<1> HIDE DEF i
<1>7. Fits(i, Owned(w), row, sent)
  BY <1>5, <1>6 DEF Fits
<1>8. QED
  BY <1>2, <1>3, <1>4, <1>5, <1>6, <1>7, MoveKeeps

-----------------------------------------------------------------------------
(* Steps of the owner before a reply is staged.                            *)

LEMMA PreparedKeeps ==
  ASSUME IInv, NEW w \in Workers, NEW i \in Doings, Moves(w, i), Owned(w),
         act[w].pc \in Before, row' \in Rows, row'.owner \in {w, Nobody},
         row'.status \notin Staged \cup {"absent"}, row'.cursor = row.cursor,
         UNCHANGED <<file, sent, sends, told, interrupts>>,
         i.pc \in Before \cup {"run", "release"},
         i.pc = "stage" => i.reply \in Replies,
         i.pc \in {"processing", "whisper", "storetext"} => ~row'.text
  PROVE  IInv'
<1>1. ~LateIngress => row.status \notin Staged
  BY KnownToPrepare
<1>2. RowFits(row', sent, told)
  BY <1>1 DEF RowFits, IInv, Staged
<1>3. i.pc \notin Telling /\ i.pc # "ingress" /\ i.pc \notin {"unlink", "deliver"}
  BY DEF Before, Telling
<1>4. Fits(i, Owned(w)', row', sent)
  BY <1>3 DEF Fits, Telling
<1>5. LateIngress \/ row.status \notin Staged
  BY <1>1
<1>6. QED
  BY <1>2, <1>3, <1>4, <1>5, OwnerKeeps

LEMMA IngressMoves ==
  ASSUME TypeOK, NEW w \in Workers, NEW pc \in Steps, NEW b \in BOOLEAN,
         act' = [act EXCEPT ![w].pc = pc, ![w].ingress = b]
  PROVE  \E i \in Doings : Moves(w, i) /\ i.pc = pc
<1> DEFINE i == [act[w] EXCEPT !.pc = pc, !.ingress = b]
<1>1. act[w] \in Doings
  BY DEF TypeOK
<1>2. i \in Doings
  BY <1>1, Zenon DEF Doings
<1>3. i.pc = pc
  BY <1>1 DEF Doings
<1>4. Moves(w, i)
  BY DEF Moves
<1>5. QED
  BY <1>2, <1>3, <1>4

LEMMA StorePathIInv == ASSUME IInv, NEW w \in Workers, StorePath(w) PROVE IInv'
<1> DEFINE r == [Set("downloaded") EXCEPT !.path = TRUE]
<1>1. r \in Rows /\ r.status = "downloaded" /\ r.owner = row.owner /\ r.cursor = row.cursor
  BY SetType, PathType DEF IInv, Statuses, Recoverable
<1>2. row' = r /\ Owned(w) /\ act[w].pc \in Before /\ row.owner = w
  BY DEF StorePath, Before, Owned
<1>3. PICK i \in Doings : Moves(w, i) /\ i.pc \in {"ack", "begin"}
  BY GotoMoves, StepNames DEF StorePath, IInv, Before
<1> HIDE DEF r
<1>4. row'.status \notin Staged \cup {"absent"} /\ i.pc \in Before \ {"stage", "processing", "whisper", "storetext"}
  BY <1>1, <1>2, <1>3 DEF Staged, Before
<1>5. QED
  BY <1>1, <1>2, <1>3, <1>4, PreparedKeeps DEF StorePath

LEMMA AcknowledgeIInv == ASSUME IInv, NEW w \in Workers, Acknowledge(w) PROVE IInv'
<1> DEFINE r == Set("processing")
<1>1. r \in Rows /\ r.status = "processing" /\ r.owner = row.owner /\ r.cursor = row.cursor
  BY SetType DEF IInv, Statuses, Recoverable
<1>2. row' = r /\ Owned(w) /\ act[w].pc \in Before /\ row.owner = w
  BY DEF Acknowledge, Before, Owned
<1>3. PICK i \in Doings : Moves(w, i) /\ i.pc = "run"
  BY IngressMoves, StepNames DEF Acknowledge, IInv
<1> HIDE DEF r
<1>4. row'.status \notin Staged \cup {"absent"}
  BY <1>1, <1>2 DEF Staged
<1>5. QED
  BY <1>1, <1>2, <1>3, <1>4, PreparedKeeps DEF Acknowledge

LEMMA StartTranscriptionIInv ==
  ASSUME IInv, NEW w \in Workers, StartTranscription(w) PROVE IInv'
<1> DEFINE r == Set("processing")
<1>1. CASE ~Owned(w)
  BY <1>1, ElsewhereIf, AbandonKeeps DEF StartTranscription, Fenced
<1>2. CASE Owned(w)
  <2>1. /\ r \in Rows /\ r.status = "processing" /\ r.owner = row.owner
        /\ r.cursor = row.cursor /\ r.text = row.text
    BY SetType DEF IInv, Statuses, Recoverable
  <2>2. row' = r /\ act[w].pc \in Before /\ row.owner = w /\ ~row.text
    BY <1>2 DEF StartTranscription, Fenced, Before, Owned, IInv, WorkersFit, Fits
  <2>3. PICK i \in Doings : Moves(w, i) /\ i.pc = "whisper"
    BY <1>2, GotoMoves, StepNames DEF StartTranscription, Fenced, IInv, Before
  <2> HIDE DEF r
  <2>4. row'.status \notin Staged \cup {"absent"} /\ i.pc \in Before
    BY <2>1, <2>2, <2>3 DEF Staged, Before
  <2>5. QED
    BY <1>2, <2>1, <2>2, <2>3, <2>4, PreparedKeeps DEF StartTranscription
<1>3. QED
  BY <1>1, <1>2

LEMMA StoreTextIInv == ASSUME IInv, NEW w \in Workers, StoreText(w) PROVE IInv'
<1> DEFINE r == [Set("transcribed") EXCEPT !.text = TRUE]
<1>1. CASE ~Owned(w)
  BY <1>1, ElsewhereIf, AbandonKeeps DEF StoreText, Fenced
<1>2. CASE Owned(w)
  <2>1. r \in Rows /\ r.status = "transcribed" /\ r.owner = row.owner /\ r.cursor = row.cursor
    BY SetType, TextType DEF IInv, Statuses, Recoverable
  <2>2. row' = r /\ act[w].pc \in Before /\ row.owner = w
    BY <1>2 DEF StoreText, Fenced, Before, Owned
  <2>3. PICK i \in Doings : Moves(w, i) /\ i.pc = "answer"
    BY <1>2, GotoMoves, StepNames DEF StoreText, Fenced, IInv, Before
  <2> HIDE DEF r
  <2>4. row'.status \notin Staged \cup {"absent"} /\ i.pc \in Before
    BY <2>1, <2>2, <2>3 DEF Staged, Before
  <2>5. QED
    BY <1>2, <2>1, <2>2, <2>3, <2>4, PreparedKeeps DEF StoreText
<1>3. QED
  BY <1>1, <1>2

LEMMA StartAnswerIInv == ASSUME IInv, NEW w \in Workers, StartAnswer(w) PROVE IInv'
<1> DEFINE r == Set("processing")
<1>1. CASE ~Owned(w)
  BY <1>1, ElsewhereIf, AbandonKeeps DEF StartAnswer, Fenced
<1>2. CASE Owned(w)
  <2>1. r \in Rows /\ r.status = "processing" /\ r.owner = row.owner /\ r.cursor = row.cursor
    BY SetType DEF IInv, Statuses, Recoverable
  <2>2. row' = r /\ act[w].pc \in Before /\ row.owner = w
    BY <1>2 DEF StartAnswer, Fenced, Before, Owned
  <2>3. PICK i \in Doings : Moves(w, i) /\ i.pc = "answering"
    BY <1>2, GotoMoves, StepNames DEF StartAnswer, Fenced, IInv, Before
  <2> HIDE DEF r
  <2>4. row'.status \notin Staged \cup {"absent"} /\ i.pc \in Before
    BY <2>1, <2>2, <2>3 DEF Staged, Before
  <2>5. QED
    BY <1>2, <2>1, <2>2, <2>3, <2>4, PreparedKeeps DEF StartAnswer
<1>3. QED
  BY <1>1, <1>2

LEMMA RecordFailureIInv == ASSUME IInv, NEW w \in Workers, RecordFailure(w) PROVE IInv'
<1> DEFINE counted == [row EXCEPT !.failures = @ + 1, !.old = FALSE]
           failed  == [counted EXCEPT !.status = "transcription_failed"]
           retried == [Freed(counted) EXCEPT !.status = "transcription_retryable"]
<1>1. /\ counted \in Rows /\ counted.owner = row.owner /\ counted.cursor = row.cursor
  BY CountedType DEF IInv
<1>2. act[w].pc \in Before /\ (Owned(w) => row.owner = w)
  BY DEF RecordFailure, Before, Owned
<1>3. CASE Owned(w) /\ counted.failures >= MaxAttempts
  <2>1. row' = failed /\ act' = [act EXCEPT ![w].pc = "stage", ![w].reply = "untranscribed"]
    BY <1>3 DEF RecordFailure
  <2> HIDE DEF counted
  <2>2. /\ failed \in Rows /\ failed.status = "transcription_failed"
        /\ failed.owner = row.owner /\ failed.cursor = row.cursor
    BY <1>1, StatusType DEF Statuses, Recoverable
  <2>3. PICK i \in Doings : Moves(w, i) /\ i.pc = "stage" /\ i.reply = "untranscribed"
    BY <2>1, ReplyMoves DEF IInv, Replies
  <2> HIDE DEF failed
  <2>4. row'.status \notin Staged \cup {"absent"} /\ i.pc \in Before /\ i.reply \in Replies
    BY <2>1, <2>2, <2>3 DEF Staged, Before, Replies
  <2>5. QED
    BY <1>2, <1>3, <2>1, <2>2, <2>3, <2>4, PreparedKeeps DEF RecordFailure
<1>4. CASE Owned(w) /\ ~(counted.failures >= MaxAttempts)
  <2>1. row' = retried /\ Goto(w, "release")
    BY <1>4 DEF RecordFailure, Fenced
  <2> HIDE DEF counted
  <2>2. /\ retried \in Rows /\ retried.status = "transcription_retryable"
        /\ retried.owner = Nobody /\ retried.cursor = row.cursor
    <3> DEFINE freed == Freed(counted)
    <3>1. freed \in Rows /\ freed.owner = Nobody /\ freed.cursor = row.cursor
      BY <1>1, FreedType
    <3>2. "transcription_retryable" \in Statuses
      BY DEF Statuses, Recoverable
    <3> HIDE DEF freed
    <3>3. LET r == [freed EXCEPT !.status = "transcription_retryable"]
          IN  /\ r \in Rows /\ r.status = "transcription_retryable"
              /\ r.owner = Nobody /\ r.cursor = row.cursor
      BY <3>1, <3>2, StatusType
    <3>4. QED
      BY <3>3 DEF freed
  <2>3. PICK i \in Doings : Moves(w, i) /\ i.pc = "release"
    BY <2>1, GotoMoves, StepNames DEF IInv
  <2> HIDE DEF retried
  <2>4. row'.status \notin Staged \cup {"absent"}
    BY <2>1, <2>2 DEF Staged
  <2>5. QED
    BY <1>2, <1>4, <2>1, <2>2, <2>3, <2>4, PreparedKeeps DEF RecordFailure
<1>5. CASE ~Owned(w)
  BY <1>5, ElsewhereIf, AbandonKeeps DEF RecordFailure, Fenced
<1>6. QED
  BY <1>3, <1>4, <1>5

-----------------------------------------------------------------------------
(* Steps of the owner that stage, deliver and close a reply.               *)

LEMMA StageIInv == ASSUME IInv, NEW w \in Workers, Stage(w) PROVE IInv'
<1> DEFINE r == [Set("reply_pending") EXCEPT !.reply = act[w].reply, !.cursor = 0]
<1>1. CASE ~Owned(w)
  BY <1>1, ElsewhereIf, AbandonKeeps DEF Stage, Fenced
<1>2. CASE Owned(w)
  <2>1. act[w].pc \in Before /\ act[w].reply \in Replies
    BY DEF Stage, Before, IInv, WorkersFit, Fits
  <2>2. ~LateIngress => row.status \notin Staged /\ told = {}
    BY <1>2, <2>1, KnownToPrepare DEF IInv, RowFits
  <2>3. /\ r \in Rows /\ r.status = "reply_pending" /\ r.owner = row.owner
        /\ r.reply = act[w].reply /\ r.cursor = 0
    <3> DEFINE q == Set("reply_pending")
    <3>1. q \in Rows /\ q.status = "reply_pending" /\ q.owner = row.owner
      BY SetType DEF IInv, Statuses, Recoverable
    <3> HIDE DEF q
    <3>2. LET p == [q EXCEPT !.reply = act[w].reply, !.cursor = 0]
          IN  /\ p \in Rows /\ p.status = "reply_pending" /\ p.owner = row.owner
              /\ p.reply = act[w].reply /\ p.cursor = 0
      BY <2>1, <3>1, StagedType
    <3>3. QED
      BY <3>2 DEF q
  <2>4. row' = r /\ Goto(w, "unlink") /\ row.owner = w
    BY <1>2 DEF Stage, Fenced, Owned
  <2>5. PICK i \in Doings : Moves(w, i) /\ i.pc = "unlink"
    BY <2>4, GotoMoves, StepNames DEF IInv
  <2> HIDE DEF r
  <2>6. RowFits(row', sent, told)
    BY <2>1, <2>2, <2>3, <2>4 DEF RowFits, Staged
  <2>7. i.pc \notin Telling /\ i.pc # "ingress"
    BY <2>5 DEF Telling
  <2>8. Fits(i, Owned(w)', row', sent)
    BY <2>3, <2>4, <2>5 DEF Fits, Telling, Before
  <2>9. QED
    BY <1>2, <2>2, <2>3, <2>4, <2>5, <2>6, <2>7, <2>8, OwnerKeeps DEF Stage
<1>3. QED
  BY <1>1, <1>2

LEMMA StoreProgressIInv == ASSUME IInv, NEW w \in Workers, StoreProgress(w) PROVE IInv'
<1> DEFINE n == act[w].chunk
           c == IF row.cursor < n THEN n ELSE row.cursor
           r == [row EXCEPT !.old = FALSE, !.cursor = c]
           i == [act[w] EXCEPT !.pc = "send", !.chunk = n + 1]
<1>1. CASE ~Owned(w)
  BY <1>1, ElsewhereIf, AbandonKeeps DEF StoreProgress
<1>2. CASE Owned(w)
  <2>1. /\ Fits(act[w], Owned(w), row, sent) /\ act[w].pc = "progress"
        /\ act[w] \in Doings /\ row.owner = w
    BY <1>2 DEF StoreProgress, IInv, WorkersFit, TypeOK, Owned
  <2>2. n \in 1..Chunks /\ n \in sent /\ \A m \in 1..Chunks : m < n => m \in sent
    BY <2>1 DEF Fits, Telling
  <2>3. /\ Chunks \in Nat /\ row.cursor \in 0..Chunks
        /\ \A m \in 1..Chunks : m <= row.cursor => m \in sent
    BY VoiceAssumption, RowFields DEF IInv, RowFits
  <2>4. row' = [row EXCEPT !.old = FALSE, !.cursor = IF @ < n THEN n ELSE @]
    BY <1>2 DEF StoreProgress
  <2>5. row' = r
    BY <2>4, RowFields DEF IInv, Rows
  <2>6. act' = [act EXCEPT ![w].pc = "send", ![w].chunk = @ + 1]
    BY <1>2 DEF StoreProgress
  <2>7. Moves(w, i)
    BY <2>1, <2>6 DEF Moves, IInv, TypeOK
  <2>8. /\ n + 1 \in 1..(Chunks + 1) /\ c \in 0..Chunks
        /\ \A m \in 1..Chunks : m < n + 1 => m \in sent
        /\ \A m \in 1..Chunks : m <= c => m \in sent
    BY <2>2, <2>3
  <2>9. /\ r \in Rows /\ r.status = row.status /\ r.owner = row.owner
        /\ r.reply = row.reply /\ r.cursor = c
    <3> HIDE DEF c
    <3>1. QED
      BY <2>8, CursorType DEF IInv
  <2>10. i \in Doings /\ i.pc = "send" /\ i.chunk = n + 1 /\ i.reply = act[w].reply
    <3> DEFINE m == n + 1
    <3>1. m \in 1..(Chunks + 1) /\ "send" \in Steps
      BY <2>8 DEF Steps
    <3> HIDE DEF m, n
    <3>2. i \in Doings
      BY <2>1, <3>1, Zenon DEF Doings, m
    <3>3. i.pc = "send" /\ i.chunk = n + 1 /\ i.reply = act[w].reply
      BY <2>1 DEF Doings
    <3>4. QED
      BY <3>2, <3>3
  <2> HIDE DEF c, r, i
  <2>11. RowFits(row', sent, told)
    BY <2>5, <2>8, <2>9 DEF RowFits, IInv
  <2>12. i.pc \in Telling /\ act[w].pc \in Telling /\ i.pc # "ingress"
    BY <2>1, <2>10 DEF Telling
  <2>13. Fits(i, Owned(w)', row', sent)
    BY <2>1, <2>5, <2>8, <2>9, <2>10, <2>12 DEF Fits, Before
  <2>14. QED
    BY <1>2, <2>1, <2>5, <2>7, <2>9, <2>10, <2>11, <2>12, <2>13, OwnerKeeps DEF StoreProgress
<1>3. QED
  BY <1>1, <1>2

LEMMA RecordSendFailureIInv ==
  ASSUME IInv, NEW w \in Workers, RecordSendFailure(w) PROVE IInv'
<1>1. CASE ~Owned(w)
  BY <1>1, ElsewhereIf, AbandonKeeps DEF RecordSendFailure
<1>2. CASE Owned(w)
  <2> DEFINE r == Freed(row)
  <2>1. /\ r \in Rows /\ r.owner = Nobody /\ r.status = row.status
        /\ r.reply = row.reply /\ r.cursor = row.cursor
    BY FreedType, RowFields DEF IInv
  <2>2. row' = r
    BY <1>2 DEF RecordSendFailure
  <2>3. PICK i \in Doings : Moves(w, i) /\ i.pc \in {"idle", "release"}
    BY GiveUpMoves DEF RecordSendFailure, IInv
  <2> HIDE DEF r
  <2>4. RowFits(row', sent, told)
    BY <2>1, <2>2 DEF RowFits, IInv
  <2>5. Fits(i, Owned(w)', row', sent) /\ i.pc # "ingress" /\ i.pc \notin Telling
    BY <2>3 DEF Fits, Before, Telling
  <2>6. QED
    BY <1>2, <2>1, <2>2, <2>3, <2>4, <2>5, OwnerKeeps DEF RecordSendFailure
<1>3. QED
  BY <1>1, <1>2

LEMMA MarkDeliveredIInv == ASSUME IInv, NEW w \in Workers, MarkDelivered(w) PROVE IInv'
<1>1. CASE ~Owned(w)
  BY <1>1, ElsewhereIf, AbandonKeeps DEF MarkDelivered
<1>2. CASE Owned(w)
  <2> DEFINE q == Freed(row)
             p == [q EXCEPT !.status = "delivered"]
             r == [p EXCEPT !.reply = "none", !.cursor = 0]
  <2>1. row' = [q EXCEPT !.status = "delivered", !.reply = "none", !.cursor = 0]
    BY <1>2 DEF MarkDelivered
  <2>2. q \in Rows /\ q.owner = Nobody
    BY FreedType, RowFields DEF IInv
  <2> HIDE DEF q
  <2>3. p \in Rows /\ p.owner = Nobody /\ p.status = "delivered"
    BY <2>2, StatusType DEF Statuses
  <2>4. row' = r
    BY <2>1, <2>2 DEF Rows
  <2> HIDE DEF p
  <2>5. r \in Rows /\ r.owner = Nobody /\ r.status = "delivered" /\ r.cursor = 0
    BY <2>3, StagedType
  <2> HIDE DEF r
  <2>6. sent = 1..Chunks
    BY DEF MarkDelivered, IInv, WorkersFit, Fits
  <2>7. PICK i \in Doings : Moves(w, i) /\ i.pc \in {"idle", "release"}
    BY GiveUpMoves DEF MarkDelivered, IInv
  <2>8. RowFits(row', sent, told)
    BY <2>4, <2>5, <2>6 DEF RowFits, Staged
  <2>9. Fits(i, Owned(w)', row', sent) /\ i.pc # "ingress" /\ i.pc \notin Telling
    BY <2>7 DEF Fits, Before, Telling
  <2>10. QED
    BY <1>2, <2>4, <2>5, <2>7, <2>8, <2>9, OwnerKeeps DEF MarkDelivered
<1>3. QED
  BY <1>1, <1>2

LEMMA ArrivesIInv == ASSUME IInv, NEW w \in Workers, Arrives(w) PROVE IInv'
<1>1. /\ act[w].pc = "sending" /\ act[w].pc \in Telling /\ act[w] \in Doings
      /\ Fits(act[w], Owned(w), row, sent)
      /\ UNCHANGED <<row, file, interrupts>>
      /\ sent' = sent \cup {act[w].chunk} /\ told' = told \cup {act[w].reply}
  BY DEF Arrives, IInv, WorkersFit, TypeOK, Telling
<1>2. PICK i \in Doings : /\ Moves(w, i) /\ i.pc = "sent"
                          /\ i.reply = act[w].reply /\ i.chunk = act[w].chunk
  BY GotoMoves, StepNames DEF Arrives, IInv, Telling
<1>3. /\ act' \in [Workers -> Doings] /\ act'[w] = i
      /\ \A v \in Workers \ {w} : act'[v] = act[v]
  BY <1>2 DEF Moves, IInv, TypeOK
<1>4. act[w].chunk \in 1..Chunks /\ act[w].reply \in Replies
  BY <1>1 DEF Fits
<1>5. sent' \subseteq 1..Chunks /\ sent \subseteq sent' /\ (sent = 1..Chunks => sent' = 1..Chunks)
  BY <1>1, <1>4 DEF IInv, TypeOK
<1>6. TypeOK'
  BY <1>1, <1>3, <1>4, <1>5 DEF Arrives, IInv, TypeOK
<1>7. \A v \in Workers : Owned(v)' = Owned(v)
  BY <1>1 DEF Owned
<1>8. WorkersFit'
  <2> SUFFICES ASSUME NEW v \in Workers PROVE Fits(act'[v], Owned(v)', row', sent')
    BY DEF WorkersFit
  <2>1. CASE v = w
    <3>1. act'[v] = i /\ Owned(v)' = Owned(w) /\ row' = row
      BY <1>1, <1>3, <1>7, <2>1
    <3>2. i.pc \in Telling /\ i.pc \notin Before
      BY <1>2 DEF Telling, Before
    <3>3. Fits(i, Owned(w), row, sent')
      BY <1>1, <1>2, <1>4, <1>5, <3>2 DEF Fits
    <3>4. QED
      BY <3>1, <3>3
  <2>2. CASE v # w
    <3>1. act'[v] = act[v] /\ Owned(v)' = Owned(v) /\ row' = row
      BY <1>1, <1>3, <1>7, <2>2
    <3>2. Fits(act[v], Owned(v), row, sent)
      BY DEF IInv, WorkersFit
    <3>3. Fits(act[v], Owned(v), row, sent')
      BY <1>5, <3>2 DEF Fits
    <3>4. QED
      BY <3>1, <3>3
  <2>3. QED
    BY <2>1, <2>2
<1>9. RowFits(row, sent, told)'
  BY <1>1, <1>5 DEF IInv, RowFits, Fits
<1>10. Agreed'
  <2> SUFFICES ASSUME ~LateIngress
               PROVE  /\ OneReply'
                      /\ \A u \in Workers : act'[u].pc \in Telling => told' \subseteq {act'[u].reply}
                      /\ \A u, v \in Workers :
                           act'[u].pc \in Telling /\ act'[v].pc \in Telling
                             => act'[u].reply = act'[v].reply
    BY DEF Agreed
  <2>1. told' \subseteq {act[w].reply}
    BY <1>1 DEF IInv, Agreed
  <2>2. \A v \in Workers : act'[v].pc \in Telling => act'[v].reply = act[w].reply
    BY <1>1, <1>2, <1>3 DEF IInv, Agreed
  <2>3. QED
    BY <2>1, <2>2 DEF OneReply
<1>11. Quiet'
  BY <1>1, <1>2, <1>3, <1>7 DEF IInv, Quiet
<1>12. QED
  BY <1>6, <1>8, <1>9, <1>10, <1>11 DEF IInv

-----------------------------------------------------------------------------
(* Claims and arriving updates.                                            *)

LEMMA LeaseKeeps ==
  ASSUME IInv, NEW w \in Workers, NEW i \in Doings, Moves(w, i), Claimable,
         row' = Leased(w), UNCHANGED <<file, sent, sends, told, interrupts>>,
         i.pc \in {"run", "download"},
         ~LateIngress => \A v \in Workers \ {w} : act[v].pc # "ingress",
         ~LateIngress /\ i.pc = "download" => row.status = "received"
  PROVE  IInv'
<1> DEFINE r == Leased(w)
<1>1. /\ r \in Rows /\ r.owner = w /\ r.status = row.status /\ r.reply = row.reply
      /\ r.cursor = row.cursor /\ row' = r
  BY LeasedType DEF IInv
<1> HIDE DEF r
<1>2. /\ act' \in [Workers -> Doings] /\ act'[w] = i
      /\ \A v \in Workers \ {w} : act'[v] = act[v]
  BY DEF Moves, IInv, TypeOK
<1>3. TypeOK'
  BY <1>1, <1>2 DEF IInv, TypeOK
<1>4. i.pc \notin Telling /\ i.pc # "ingress"
  BY DEF Telling
<1>5. WorkersFit'
  <2> SUFFICES ASSUME NEW v \in Workers PROVE Fits(act'[v], Owned(v)', row', sent')
    BY DEF WorkersFit
  <2>1. CASE v = w
    BY <1>1, <1>2, <1>4, <2>1 DEF Fits, Before, Staged
  <2>2. CASE v # w
    <3>1. ~Owned(v)' /\ act'[v] = act[v]
      BY <1>1, <1>2, <2>2 DEF Owned
    <3>2. Fits(act[v], Owned(v), row, sent)
      BY DEF IInv, WorkersFit
    <3>3. QED
      BY <1>1, <3>1, <3>2 DEF Fits
  <2>3. QED
    BY <2>1, <2>2
<1>6. RowFits(row, sent, told)'
  BY <1>1 DEF IInv, RowFits, Claimable, Recoverable
<1>7. Agreed'
  BY <1>2, <1>4 DEF IInv, Agreed, OneReply
<1>8. Quiet'
  BY <1>2, <1>4 DEF Quiet
<1>9. QED
  BY <1>3, <1>5, <1>6, <1>7, <1>8 DEF IInv

LEMMA ClaimIInv == ASSUME IInv, NEW w \in Workers, Claim(w) PROVE IInv'
<1>1. PICK i \in Doings : Moves(w, i) /\ i.pc = "run"
  BY GotoMoves, StepNames DEF Claim, IInv
<1>2. QED
  BY <1>1, LeaseKeeps DEF Claim, Undivided

LEMMA IngressClaimIInv == ASSUME IInv, NEW w \in Workers, IngressClaim(w) PROVE IInv'
<1>1. CASE Claimable
  <2>1. PICK i \in Doings : Moves(w, i) /\ i.pc = "download"
    BY <1>1, GotoMoves, StepNames DEF IngressClaim, IInv, Before
  <2>2. ~LateIngress =>
          row.status = "received" /\ \A v \in Workers \ {w} : act[v].pc # "ingress"
    BY DEF IngressClaim, IInv, Quiet
  <2>3. QED
    BY <1>1, <2>1, <2>2, LeaseKeeps DEF IngressClaim
<1>2. CASE ~Claimable
  BY <1>2, ElsewhereIf, AbandonKeeps DEF IngressClaim
<1>3. QED
  BY <1>1, <1>2

LEMMA ReceiveIInv == ASSUME IInv, NEW w \in Workers, Receive(w) PROVE IInv'
<1>1. PICK i \in Doings : Moves(w, i) /\ i.pc = "ingress"
  BY IngressMoves, StepNames DEF Receive, IInv
<1>2. /\ act' \in [Workers -> Doings] /\ act'[w] = i
      /\ \A v \in Workers \ {w} : act'[v] = act[v]
  BY <1>1 DEF Moves, IInv, TypeOK
<1>3. /\ row' \in Rows /\ row'.status = "received" /\ row'.owner = row.owner
      /\ row'.live = row.live /\ row'.cursor = row.cursor /\ row'.text = row.text
  <2>1. CASE row' = [row EXCEPT !.status = "received"]
    BY <2>1, RowFields, StatusType DEF IInv, Statuses, Recoverable
  <2>2. CASE row' = row /\ row.status = "received"
    BY <2>2, RowFields DEF IInv
  <2>3. QED
    BY <2>1, <2>2 DEF Receive
<1>4. row.status \in {"absent", "received"} /\ UNCHANGED <<file, sent, sends, told, interrupts>>
  BY DEF Receive
<1>5. \A v \in Workers : Owned(v)' = Owned(v)
  BY <1>3 DEF Owned
<1>6. ~LateIngress => \A v \in Workers : ~Owned(v) /\ act[v].pc # "ingress"
  <2>1. ~LateIngress => \A v \in Workers : act[v].pc # "ingress"
    BY DEF Receive, Undivided
  <2>2. CASE row.status = "absent"
    BY <2>1, <2>2, VoiceAssumption DEF IInv, RowFits, Owned
  <2>3. CASE row.status # "absent"
    BY <2>1, <2>3, VoiceAssumption DEF Receive, Claimable, Owned
  <2>4. QED
    BY <2>2, <2>3
<1>7. /\ i.pc \notin Telling \cup Before
      /\ i.pc \notin {"unlink", "deliver", "processing", "whisper", "storetext"}
  BY <1>1 DEF Telling, Before
<1>8. ~LateIngress => told = {} /\ \A v \in Workers : act[v].pc \notin Telling
  BY <1>4 DEF IInv, RowFits, WorkersFit, Fits, Staged
<1>9. TypeOK'
  BY <1>2, <1>3, <1>4 DEF IInv, TypeOK
<1>10. WorkersFit'
  <2> SUFFICES ASSUME NEW v \in Workers PROVE Fits(act'[v], Owned(v)', row', sent')
    BY DEF WorkersFit
  <2>1. CASE v = w
    BY <1>2, <1>7, <2>1 DEF Fits, Telling, Before
  <2>2. CASE v # w
    <3>1. act'[v] = act[v] /\ Owned(v)' = Owned(v) /\ sent' = sent
      BY <1>2, <1>4, <1>5, <2>2
    <3>2. Fits(act[v], Owned(v), row, sent)
      BY DEF IInv, WorkersFit
    <3>3. Fits(act[v], Owned(v), row', sent)
      BY <1>3, <1>4, <1>6, <1>8, <3>2 DEF Fits, Staged
    <3>4. QED
      BY <3>1, <3>3
  <2>3. QED
    BY <2>1, <2>2
<1>11. RowFits(row, sent, told)'
  BY <1>3, <1>4, <1>8 DEF IInv, RowFits
<1>12. Agreed'
  BY <1>2, <1>4, <1>7, <1>8 DEF Agreed, OneReply
<1>13. Quiet'
  BY <1>2, <1>3, <1>5, <1>6 DEF Quiet
<1>14. QED
  BY <1>9, <1>10, <1>11, <1>12, <1>13 DEF IInv

-----------------------------------------------------------------------------
(* What time and the sweeps take away.                                     *)

LEMMA ReleaseIInv == ASSUME IInv, NEW w \in Workers, Release(w) PROVE IInv'
<1> DEFINE r == Freed(row)
<1>1. /\ r \in Rows /\ r.owner = Nobody /\ r.status = row.status
      /\ r.reply = row.reply /\ r.cursor = row.cursor /\ r.text = row.text /\ ~r.live
  BY FreedType, RowFields DEF IInv
<1>2. row' \in {r, row} /\ UNCHANGED <<file, sent, sends, told, interrupts>>
  BY DEF Release
<1>3. Moves(w, Nothing)
  BY StopMoves DEF Release
<1>4. act' \in [Workers -> Doings] /\ \A v \in Workers : act'[v] = act[v] \/ act'[v].pc = "idle"
  BY <1>3, NothingType DEF Moves, IInv, TypeOK
<1> HIDE DEF r
<1>5. /\ row' \in Rows /\ row'.status = row.status /\ row'.reply = row.reply
      /\ row'.cursor = row.cursor /\ row'.owner \in {row.owner, Nobody}
      /\ (row'.live => row.live) /\ (row'.text => row.text)
  BY <1>1, <1>2, RowFields DEF IInv
<1>6. file' \in {"none", "young", "old"} /\ interrupts' \in 0..MaxInterrupts
  BY <1>2 DEF IInv, TypeOK
<1>7. QED
  BY <1>2, <1>4, <1>5, <1>6, FadeKeeps

\* A step that no worker takes part in and that only clears flags of the row, or
\* sets the one that tells its age.
Faded ==
  {row, [row EXCEPT !.live = FALSE], [row EXCEPT !.old = TRUE],
   [row EXCEPT !.path = FALSE], [row EXCEPT !.text = FALSE]}

LEMMA FadedKeeps ==
  ASSUME IInv, row' \in Faded, UNCHANGED <<act, sent, sends, told>>,
         file' \in {"none", "young", "old"}, interrupts' \in 0..MaxInterrupts
  PROVE  IInv'
<1>1. row' \in Rows
  BY RowFields, Zenon DEF IInv, Faded, Rows
<1>2. /\ row'.status = row.status /\ row'.reply = row.reply
      /\ row'.cursor = row.cursor /\ row'.owner = row.owner
  BY RowFields DEF IInv, Faded, Rows
<1>3. (row'.live => row.live) /\ (row'.text => row.text)
  BY RowFields, Zenon DEF IInv, Faded, Rows
<1>4. act' \in [Workers -> Doings]
  BY DEF IInv, TypeOK
<1>5. QED
  BY <1>1, <1>2, <1>3, <1>4, FadeKeeps

LEMMA LeaseExpiresIInv == ASSUME IInv, LeaseExpires PROVE IInv'
<1>1. interrupts' \in 0..MaxInterrupts
  BY Interrupted DEF LeaseExpires
<1>2. row' \in Faded /\ file' \in {"none", "young", "old"}
  BY DEF LeaseExpires, Faded, IInv, TypeOK
<1>3. QED
  BY <1>1, <1>2, FadedKeeps DEF LeaseExpires

LEMMA TimePassesIInv == ASSUME IInv, LeaseLapses \/ RowAges \/ FileAges PROVE IInv'
<1>1. row' \in Faded
  BY DEF LeaseLapses, RowAges, FileAges, Faded
<1>2. /\ file' \in {"none", "young", "old"} /\ interrupts' \in 0..MaxInterrupts
      /\ UNCHANGED <<act, sent, sends, told>>
  BY DEF LeaseLapses, RowAges, FileAges, IInv, TypeOK
<1>3. QED
  BY <1>1, <1>2, FadedKeeps

LEMMA SweepIInv == ASSUME IInv, Sweep PROVE IInv'
<1>1. row' \in Faded
  BY DEF Sweep, CleanupMedia, CleanupOrphan, PurgeText, Faded
<1>2. /\ file' \in {"none", "young", "old"} /\ interrupts' \in 0..MaxInterrupts
      /\ UNCHANGED <<act, sent, sends, told>>
  BY DEF Sweep, CleanupMedia, CleanupOrphan, PurgeText, IInv, TypeOK
<1>3. QED
  BY <1>1, <1>2, FadedKeeps

-----------------------------------------------------------------------------
(* The theorems.                                                           *)

LEMMA StepIInv == ASSUME IInv, NEW w \in Workers, Step(w) PROVE IInv'
<1>1. CASE Ingress(w)
  BY <1>1, ReceiveIInv, IngressClaimIInv, StorePathIInv, AcknowledgeIInv, PathFailsIInv
     DEF Ingress
<1>2. CASE Claim(w) \/ Run(w) \/ NoticeLoss(w) \/ Release(w)
  BY <1>2, ClaimIInv, RunIInv, NoticeLossIInv, ReleaseIInv
<1>3. CASE Voice(w)
  BY <1>3, BeginIInv, StartTranscriptionIInv, RecordFailureIInv, StoreTextIInv, StartAnswerIInv
     DEF Voice
<1>4. CASE Outcome(w)
  BY <1>4, DownloadIInv, DownloadFailsIInv, TranscribeIInv, AnswerIInv DEF Outcome
<1>5. CASE Delivery(w)
  BY <1>5, StageIInv, UnlinkIInv, DeliverIInv, SendIInv, ArrivesIInv, AcknowledgedIInv,
     StoreProgressIInv, RecordSendFailureIInv, MarkDeliveredIInv DEF Delivery
<1>6. QED
  BY <1>1, <1>2, <1>3, <1>4, <1>5 DEF Step

LEMMA NextIInv == IInv /\ [Next]_vars => IInv'
<1> SUFFICES ASSUME IInv, [Next]_vars PROVE IInv'
  OBVIOUS
<1>1. CASE \E w \in Workers : Step(w) \/ HeartbeatFails(w) \/ SendFails(w) \/ Crash(w)
  BY <1>1, StepIInv, HeartbeatFailsIInv, SendFailsIInv, CrashIInv
<1>2. CASE LeaseExpires \/ LeaseLapses \/ RowAges \/ FileAges \/ Sweep
  BY <1>2, LeaseExpiresIInv, TimePassesIInv, SweepIInv
<1>3. CASE UNCHANGED vars
  BY <1>3 DEF vars, IInv, TypeOK, WorkersFit, RowFits, Agreed, OneReply, Quiet, Owned
<1>4. QED
  BY <1>1, <1>2, <1>3 DEF Next

\* The inductive invariant holds in every reachable state.
THEOREM Invariance == Spec => []IInv
BY InitIInv, NextIInv, PTL DEF Spec

\* Every reachable state has its type: in particular a cursor never points beyond
\* the last chunk of a reply.
THEOREM TypeCorrect == Spec => []TypeOK
<1>1. IInv => TypeOK
  BY DEF IInv
<1>2. QED
  BY <1>1, Invariance, PTL

\* A message is marked delivered only when every chunk of its reply was sent, for
\* any number of workers and with the transactions of an update divided or not.
THEOREM Complete == Spec => []DeliveredWhole
<1>1. IInv => DeliveredWhole
  BY DEF IInv, RowFits, DeliveredWhole
<1>2. QED
  BY <1>1, Invariance, PTL

\* As long as the two transactions of an update are not divided, the user is sent
\* chunks of one reply only.
THEOREM SingleReply ==
  ASSUME ~LateIngress
  PROVE  Spec => []OneReply
<1>1. IInv => OneReply
  BY DEF IInv, Agreed
<1>2. QED
  BY <1>1, Invariance, PTL

LEMMA DeliveredStays ==
  ASSUME IInv, [Next]_vars, row.status = "delivered"
  PROVE  row'.status = "delivered"
<1>1. \A w \in Workers : ~Owned(w)
  BY VoiceAssumption DEF IInv, RowFits, Owned
<1>2. row.status \notin Recoverable \cup {"absent", "received"}
  BY DEF Recoverable
<1>3. CASE row' = row
  BY <1>3
<1>4. ASSUME NEW w \in Workers, Step(w) PROVE row'.status = "delivered"
  <2>1. CASE Ingress(w) \/ Claim(w) \/ Run(w)
    BY <1>1, <1>2, <1>3, <2>1
       DEF Ingress, Receive, IngressClaim, StorePath, Acknowledge, PathFails, Claim, Run, Claimable
  <2>2. CASE Voice(w)
    BY <1>1, <1>3, <2>2
       DEF Voice, Begin, StartTranscription, RecordFailure, StoreText, StartAnswer, Fenced
  <2>3. CASE Outcome(w) \/ NoticeLoss(w)
    BY <1>3, <2>3 DEF Outcome, Download, DownloadFails, Transcribe, Answer, NoticeLoss
  <2>4. CASE Delivery(w)
    BY <1>1, <1>3, <2>4
       DEF Delivery, Stage, Unlink, Deliver, Send, Arrives, Acknowledged, StoreProgress,
           RecordSendFailure, MarkDelivered, Fenced
  <2>5. CASE Release(w)
    <3>1. Freed(row).status = row.status
      BY RowFields, FreedType DEF IInv
    <3>2. row' \in {row, Freed(row)}
      BY <2>5 DEF Release
    <3>3. QED
      BY <3>1, <3>2
  <2>6. QED
    BY <1>4, <2>1, <2>2, <2>3, <2>4, <2>5 DEF Step
<1>5. CASE \E w \in Workers : HeartbeatFails(w) \/ SendFails(w) \/ Crash(w)
  BY <1>3, <1>5 DEF HeartbeatFails, SendFails, Crash
<1>6. CASE LeaseExpires \/ LeaseLapses \/ RowAges \/ FileAges \/ Sweep
  <2>1. row' \in Faded
    BY <1>6 DEF LeaseExpires, LeaseLapses, RowAges, FileAges, Sweep, CleanupMedia,
                CleanupOrphan, PurgeText, Faded
  <2>2. QED
    BY <2>1, RowFields DEF Faded, IInv, Rows
<1>7. QED
  BY <1>3, <1>4, <1>5, <1>6 DEF Next, vars

\* No late worker, repeated update or sweep revives a delivered message.
THEOREM DeliveredForGood == Spec => DeliveryIsFinal
<1>1. IInv /\ [Next]_vars => [row.status = "delivered" => row'.status = "delivered"]_vars
  BY DeliveredStays
<1>2. QED
  BY <1>1, Invariance, PTL DEF Spec, DeliveryIsFinal

LEMMA OnlyStartTranscribes ==
  ASSUME IInv, NEW w \in Workers, Step(w), NEW v \in Workers,
         act[v].pc # "whisper", act'[v].pc = "whisper"
  PROVE  v = w /\ StartTranscription(w)
<1>1. act \in [Workers -> Doings] /\ \A u \in Workers : act[u] \in Doings
  BY DEF IInv, TypeOK
<1>2. ASSUME NEW pc, pc # "whisper", Goto(w, pc) PROVE FALSE
  BY <1>1, <1>2 DEF Goto, Doings
<1>3. ~Stop(w)
  BY <1>1, NothingType DEF Stop
<1>4. ~GiveUp(w)
  BY <1>2, <1>3 DEF GiveUp
<1>5. ASSUME NEW reply, act' = [act EXCEPT ![w].pc = "stage", ![w].reply = reply] PROVE FALSE
  BY <1>1, <1>5 DEF Doings
<1>6. ~Ingress(w)
  <2>1. ~Receive(w) /\ ~Acknowledge(w)
    BY <1>1 DEF Receive, Acknowledge, Doings
  <2>2. QED
    BY <1>2, <1>3, <1>4, <2>1 DEF Ingress, IngressClaim, StorePath, PathFails
<1>7. ~Claim(w) /\ ~Run(w) /\ ~NoticeLoss(w) /\ ~Release(w)
  BY <1>2, <1>3, <1>4 DEF Claim, Run, RunFrom, NoticeLoss, Release
<1>8. ~Outcome(w)
  BY <1>2, <1>5 DEF Outcome, Download, DownloadFails, Transcribe, Answer
<1>9. ~Delivery(w)
  <2>1. ~Deliver(w)
    BY <1>1, <1>4 DEF Deliver, Doings
  <2>2. ~StoreProgress(w)
    BY <1>1, <1>4 DEF StoreProgress, Doings
  <2>3. QED
    BY <1>2, <1>4, <2>1, <2>2
       DEF Delivery, Stage, Fenced, Unlink, Send, Arrives, Acknowledged, RecordSendFailure,
           MarkDelivered
<1>10. Voice(w)
  BY <1>6, <1>7, <1>8, <1>9 DEF Step
<1>11. ~Begin(w) /\ ~RecordFailure(w) /\ ~StoreText(w) /\ ~StartAnswer(w)
  BY <1>2, <1>4, <1>5 DEF Begin, RecordFailure, StoreText, StartAnswer, Fenced
<1>12. StartTranscription(w)
  BY <1>10, <1>11 DEF Voice
<1>13. v = w
  BY <1>1, <1>12 DEF StartTranscription, Fenced, Goto, GiveUp, Stop
<1>14. QED
  BY <1>12, <1>13

LEMMA TranscribesOnce ==
  ASSUME IInv, [Next]_vars, NEW v \in Workers,
         act[v].pc # "whisper", act'[v].pc = "whisper"
  PROVE  ~row.text
<1>1. act \in [Workers -> Doings] /\ \A u \in Workers : act[u] \in Doings
  BY DEF IInv, TypeOK
<1>2. ASSUME NEW w \in Workers, Step(w) PROVE ~row.text
  <2>1. v = w /\ StartTranscription(w)
    BY <1>2, OnlyStartTranscribes
  <2>2. CASE Owned(w)
    BY <2>1, <2>2 DEF StartTranscription, IInv, WorkersFit, Fits
  <2>3. CASE ~Owned(w)
    BY <1>1, <2>1, <2>3, NothingType DEF StartTranscription, Fenced, GiveUp, Goto, Stop, Doings
  <2>4. QED
    BY <2>2, <2>3
<1>3. ASSUME NEW w \in Workers, HeartbeatFails(w) \/ SendFails(w) \/ Crash(w) PROVE FALSE
  <2>1. ~HeartbeatFails(w)
    BY <1>1 DEF HeartbeatFails, Doings
  <2>2. ~SendFails(w) /\ ~Crash(w)
    BY <1>1, NothingType DEF SendFails, Crash, Goto, Stop, Doings
  <2>3. QED
    BY <1>3, <2>1, <2>2
<1>4. act' # act
  OBVIOUS
<1>5. ~(LeaseExpires \/ LeaseLapses \/ RowAges \/ FileAges \/ Sweep)
  BY <1>4 DEF LeaseExpires, LeaseLapses, RowAges, FileAges, Sweep, CleanupMedia,
              CleanupOrphan, PurgeText
<1>6. QED
  BY <1>2, <1>3, <1>4, <1>5 DEF Next, vars

\* Whoever starts a transcription still owns the row and has no transcript yet: a
\* committed transcript is never paid for again.
THEOREM CommittedTranscript == Spec => TranscribedOnce
<1>1. IInv /\ [Next]_vars
        => [\A w \in Workers : act[w].pc # "whisper" /\ act'[w].pc = "whisper" => ~row.text]_vars
  BY TranscribesOnce
<1>2. QED
  BY <1>1, Invariance, PTL DEF Spec, TranscribedOnce
-----------------------------------------------------------------------------
(* Repeated chunks.  Every message beyond the first of its chunk is paid for   *)
(* by an interruption, and one that is still to come has been paid already.   *)

Sending  == {"sending", "sent", "progress"}
Chunking == Sending \cup {"send"}

\* A worker that sends whatever the row says by now ...
Loose == {w \in Workers : act[w].pc = "sending" /\ (~Owned(w) \/ act[w].lost)}

\* ... and the next chunk of the row, sent already, of which nobody moves the cursor on.
Recording(w) == act[w].pc \in {"sent", "progress"} /\ Owned(w) /\ ~act[w].lost
Overdue == /\ row.status = "reply_pending" /\ row.cursor + 1 \in sent
           /\ \A w \in Workers : ~Recording(w)
Again == IF Overdue THEN 1 ELSE 0

Balanced ==
  /\ IsFiniteSet(Loose)
  /\ sends + Cardinality(Loose) + Again <= Cardinality(sent) + interrupts

\* Nobody is more than one chunk ahead of the cursor.
Cursored ==
  /\ sent # {} => told # {}
  /\ row.status = "reply_pending" => \A c \in sent : c <= row.cursor + 1
  /\ \A w \in Workers : act[w].pc \in Chunking =>
       /\ row.status = "reply_pending" => act[w].chunk <= row.cursor + 1
       /\ Owned(w) => act[w].chunk = row.cursor + 1

Counted == Balanced /\ Cursored

LEMMA CountTypes ==
  ASSUME IInv
  PROVE  /\ IsFiniteSet(sent) /\ Cardinality(sent) \in Nat
         /\ sends \in Nat /\ interrupts \in Nat /\ Again \in {0, 1}
         /\ row.cursor \in Nat /\ \A w \in Workers : act[w] \in Doings /\ act[w].chunk \in Nat
<1>1. IsFiniteSet(1..Chunks) /\ sent \subseteq 1..Chunks
  BY FS_Interval, VoiceAssumption DEF IInv, TypeOK
<1>2. IsFiniteSet(sent) /\ Cardinality(sent) \in Nat
  BY <1>1, FS_Subset, FS_CardinalityType
<1>3. QED
  BY <1>2, VoiceAssumption DEF IInv, TypeOK, Again, Rows, Doings

\* A step after which no more is owed than before.
LEMMA BalanceKept ==
  ASSUME IInv, Balanced, UNCHANGED <<sent, sends>>, interrupts' \in Nat,
         interrupts <= interrupts', Loose' \subseteq Loose, Overdue' => Overdue
  PROVE  Balanced'
<1>1. /\ IsFiniteSet(Loose') /\ Cardinality(Loose) \in Nat /\ Cardinality(Loose') \in Nat
      /\ Cardinality(Loose') <= Cardinality(Loose)
  BY FS_Subset, FS_CardinalityType DEF Balanced
<1>2. Again' <= Again /\ Again' \in {0, 1} /\ Again \in {0, 1}
  BY DEF Again
<1>3. QED
  BY <1>1, <1>2, CountTypes DEF Balanced

\* An interruption pays for one message.
LEMMA BalancePaid ==
  ASSUME IInv, Balanced, UNCHANGED <<sent, sends>>, interrupts' = interrupts + 1,
         NEW w, Loose' \subseteq Loose \cup {w},
         Loose' \subseteq Loose \/ (Overdue' => Overdue)
  PROVE  Balanced'
<1>1. /\ IsFiniteSet(Loose \cup {w}) /\ Cardinality(Loose) \in Nat
      /\ Cardinality(Loose \cup {w}) \in Nat
      /\ Cardinality(Loose \cup {w}) <= Cardinality(Loose) + 1
  BY FS_AddElement, FS_CardinalityType DEF Balanced
<1>2. /\ IsFiniteSet(Loose') /\ Cardinality(Loose') \in Nat
      /\ Cardinality(Loose') <= Cardinality(Loose \cup {w})
  BY <1>1, FS_Subset, FS_CardinalityType
<1>3. Again' \in {0, 1} /\ Again \in {0, 1}
  BY DEF Again
<1>4. CASE Loose' \subseteq Loose
  <2>1. Cardinality(Loose') <= Cardinality(Loose)
    BY <1>4, FS_Subset DEF Balanced
  <2>2. QED
    BY <1>1, <1>2, <1>3, <2>1, CountTypes DEF Balanced
<1>5. CASE Overdue' => Overdue
  <2>1. Again' <= Again
    BY <1>5 DEF Again
  <2>2. QED
    BY <1>1, <1>2, <1>3, <2>1, CountTypes DEF Balanced
<1>6. QED
  BY <1>4, <1>5

-----------------------------------------------------------------------------
(* Steps of one worker.                                                     *)

\* How the others see a step of w that sends nothing.
Gentle(w) ==
  /\ UNCHANGED <<sent, sends, told>>
  /\ \A v \in Workers \ {w} : act'[v] = act[v] /\ (Owned(v)' <=> Owned(v))
  /\ row'.status = "reply_pending" =>
       \/ row.status \notin Staged
       \/ row.status = "reply_pending" /\ row'.cursor = row.cursor
  /\ row'.cursor = row.cursor \/ Owned(w)

LEMMA OffKeeps ==
  ASSUME ~LateIngress, IInv, Counted, NEW w \in Workers, Gentle(w),
         act[w].pc \notin Sending, act'[w].pc \notin Chunking,
         interrupts' \in Nat, interrupts <= interrupts'
  PROVE  Counted'
<1>1. row.status \notin Staged => sent = {} /\ \A v \in Workers : act[v].pc \notin Chunking
  BY DEF IInv, WorkersFit, Fits, RowFits, Counted, Cursored, Chunking, Sending, Telling
<1>2. \A v \in Workers \ {w} : Owned(v) => ~Owned(w)
  BY DEF Owned
<1>3. Cursored'
  BY <1>1, <1>2 DEF Counted, Cursored, Gentle
<1>4. Loose' \subseteq Loose
  BY DEF Loose, Gentle, Chunking, Sending
<1>5. Overdue' => Overdue
  BY <1>1 DEF Overdue, Recording, Gentle, Sending
<1>6. Balanced'
  BY <1>4, <1>5, BalanceKept DEF Gentle, Counted
<1>7. QED
  BY <1>3, <1>6 DEF Counted

\* Whose lease a step may end or grant.
LEMMA OthersLease ==
  ASSUME NEW w \in Workers,
         \/ row'.owner = row.owner /\ row'.live = row.live
         \/ row.owner = w /\ row'.owner \in {w, Nobody}
         \/ Claimable /\ row'.owner = w
  PROVE  \A v \in Workers \ {w} : Owned(v)' <=> Owned(v)
  BY VoiceAssumption DEF Owned, Claimable

LEMMA GotoLands ==
  ASSUME IInv, NEW w \in Workers, NEW pc, Goto(w, pc)
  PROVE  /\ act'[w].pc = pc /\ act'[w].chunk = act[w].chunk /\ act'[w].lost = act[w].lost
         /\ \A v \in Workers \ {w} : act'[v] = act[v]
  BY DEF Goto, IInv, TypeOK, Doings

LEMMA GiveUpLands ==
  ASSUME IInv, NEW w \in Workers, GiveUp(w) \/ Stop(w)
  PROVE  /\ act'[w].pc \in {"idle", "release"}
         /\ \A v \in Workers \ {w} : act'[v] = act[v]
<1>1. Stop(w) => /\ act'[w].pc = "idle" /\ \A v \in Workers \ {w} : act'[v] = act[v]
  BY NothingType DEF Stop, IInv, TypeOK
<1>2. QED
  BY <1>1, GotoLands DEF GiveUp

\* Steps that leave the row alone.
LEMMA RowAloneCounted ==
  ASSUME ~LateIngress, IInv, Counted, NEW w \in Workers,
         Run(w) \/ Begin(w) \/ Outcome(w) \/ Unlink(w) \/ PathFails(w)
  PROVE  Counted'
<1>1. UNCHANGED <<row, sent, sends, told>> /\ act[w].pc \notin Sending
  BY DEF Run, Begin, Outcome, Download, DownloadFails, Transcribe, Answer, Unlink, PathFails, Sending
<1>2. interrupts' \in {interrupts, interrupts + 1}
  BY DEF Run, Begin, Outcome, Download, DownloadFails, Transcribe, Answer, Unlink, PathFails
<1>3. act'[w].pc \notin Chunking /\ \A v \in Workers \ {w} : act'[v] = act[v]
  <2>1. ASSUME NEW pc \in {"release", "deliver", "download", "begin", "answer", "processing",
                           "storepath", "storetext", "whisperfail"}, Goto(w, pc)
        PROVE  act'[w].pc \notin Chunking /\ \A v \in Workers \ {w} : act'[v] = act[v]
    BY <2>1, GotoLands DEF Chunking, Sending
  <2>2. ASSUME NEW reply, act' = [act EXCEPT ![w].pc = "stage", ![w].reply = reply]
        PROVE  act'[w].pc \notin Chunking /\ \A v \in Workers \ {w} : act'[v] = act[v]
    BY <2>2 DEF IInv, TypeOK, Doings, Chunking, Sending
  <2>3. CASE Run(w)
    BY <2>1, <2>3 DEF Run, RunFrom
  <2>4. CASE Begin(w)
    BY <2>1, <2>2, <2>4 DEF Begin
  <2>5. CASE Outcome(w)
    BY <2>1, <2>2, <2>5 DEF Outcome, Download, DownloadFails, Transcribe, Answer
  <2>6. CASE Unlink(w)
    BY <2>1, <2>6 DEF Unlink
  <2>7. CASE PathFails(w)
    BY <2>7, GiveUpLands DEF PathFails, Chunking, Sending
  <2>8. QED
    BY <2>3, <2>4, <2>5, <2>6, <2>7
<1>4. Gentle(w)
  BY <1>1, <1>3 DEF Gentle, Owned
<1>5. QED
  BY <1>1, <1>2, <1>3, <1>4, OffKeeps, CountTypes

\* What a step that writes the row, and sends nothing, leaves of it.
Writes(w) ==
  /\ \/ row'.owner = row.owner /\ row'.live = row.live
     \/ row.owner = w /\ row'.owner \in {w, Nobody}
     \/ Claimable /\ row'.owner = w
  /\ row'.status = "reply_pending" =>
       \/ row.status \notin Staged
       \/ row.status = "reply_pending" /\ row'.cursor = row.cursor
  /\ row'.cursor = row.cursor \/ Owned(w)

LEMMA WritesCounted ==
  ASSUME ~LateIngress, IInv, Counted, NEW w \in Workers, Writes(w),
         UNCHANGED <<sent, sends, told, interrupts>>,
         act[w].pc \notin Sending, act'[w].pc \notin Chunking,
         \A v \in Workers \ {w} : act'[v] = act[v]
  PROVE  Counted'
<1>1. Gentle(w)
  BY OthersLease DEF Gentle, Writes
<1>2. QED
  BY <1>1, OffKeeps, CountTypes

\* The update handler, the claim and the release.
LEMMA LeaseCounted ==
  ASSUME ~LateIngress, IInv, Counted, NEW w \in Workers,
         Receive(w) \/ IngressClaim(w) \/ StorePath(w) \/ Acknowledge(w) \/ Claim(w) \/ Release(w)
  PROVE  Counted'
<1>1. UNCHANGED <<sent, sends, told, interrupts>> /\ act[w].pc \notin Sending
  BY DEF Receive, IngressClaim, StorePath, Acknowledge, Claim, Release, Sending
<1>2. act'[w].pc \notin Chunking /\ \A v \in Workers \ {w} : act'[v] = act[v]
  <2>1. CASE Receive(w) \/ Acknowledge(w)
    BY <2>1 DEF Receive, Acknowledge, IInv, TypeOK, Doings, Chunking, Sending
  <2>2. CASE IngressClaim(w) \/ Release(w)
    BY <2>2, GotoLands, GiveUpLands DEF IngressClaim, Release, Chunking, Sending
  <2>3. CASE StorePath(w)
    <3>1. PICK pc \in {"ack", "begin"} : Goto(w, pc)
      BY <2>3 DEF StorePath
    <3>2. QED
      BY <3>1, GotoLands DEF Chunking, Sending
  <2>4. CASE Claim(w)
    BY <2>4, GotoLands DEF Claim, Chunking, Sending
  <2>5. QED
    BY <2>1, <2>2, <2>3, <2>4
<1>3. row \in Rows
  BY DEF IInv, TypeOK
<1>4. Writes(w)
  <2>1. CASE Receive(w) \/ Acknowledge(w) \/ StorePath(w)
    BY <1>3, <2>1 DEF Receive, Acknowledge, StorePath, Set, Writes, Rows
  <2>2. CASE IngressClaim(w) \/ Claim(w)
    BY <1>3, <2>2, LeasedType, RowFields DEF IngressClaim, Claim, Writes, Claimable, IInv
  <2>3. CASE Release(w)
    BY <1>3, <2>3, FreedType DEF Release, Writes
  <2>4. QED
    BY <2>1, <2>2, <2>3
<1>5. QED
  BY <1>1, <1>2, <1>4, WritesCounted

\* What is written under the lease: the fences of the voice service.
LEMMA FencedCounted ==
  ASSUME ~LateIngress, IInv, Counted, NEW w \in Workers,
         StartTranscription(w) \/ RecordFailure(w) \/ StoreText(w) \/ StartAnswer(w)
           \/ Stage(w) \/ RecordSendFailure(w) \/ MarkDelivered(w)
  PROVE  Counted'
<1>1. UNCHANGED <<sent, sends, told, interrupts>> /\ act[w].pc \notin Sending
  BY DEF StartTranscription, RecordFailure, StoreText, StartAnswer, Stage, RecordSendFailure,
         MarkDelivered, Sending
<1>2. act'[w].pc \notin Chunking /\ \A v \in Workers \ {w} : act'[v] = act[v]
  <2>1. ASSUME NEW pc \in {"whisper", "release", "answer", "answering", "unlink"},
               Goto(w, pc) \/ GiveUp(w)
        PROVE  act'[w].pc \notin Chunking /\ \A v \in Workers \ {w} : act'[v] = act[v]
    BY <2>1, GotoLands, GiveUpLands DEF Chunking, Sending
  <2>2. CASE act' = [act EXCEPT ![w].pc = "stage", ![w].reply = "untranscribed"]
    BY <2>2 DEF IInv, TypeOK, Doings, Chunking, Sending
  <2>3. QED
    BY <2>1, <2>2 DEF StartTranscription, RecordFailure, StoreText, StartAnswer, Stage,
       RecordSendFailure, MarkDelivered, Fenced
<1>3. row \in Rows
  BY DEF IInv, TypeOK
<1>4. CASE row' = row
  <2>1. Writes(w)
    BY <1>4 DEF Writes, Staged
  <2>2. QED
    BY <1>1, <1>2, <2>1, WritesCounted
<1>5. CASE Owned(w)
  <2>1. row.owner = w /\ Owned(w)
    BY <1>5 DEF Owned
  <2>2. act[w].pc \in Before => row.status \notin Staged
    BY <1>5, KnownToPrepare
  <2>3. Writes(w)
    <3>1. CASE StartTranscription(w) \/ StoreText(w) \/ StartAnswer(w)
      <4>1. /\ row'.status \in {"processing", "transcribed"} /\ row'.owner = row.owner
            /\ row'.cursor = row.cursor
        BY <1>3, <1>5, <3>1 DEF StartTranscription, StoreText, StartAnswer, Fenced, Set, Rows
      <4>2. QED
        BY <2>1, <4>1 DEF Writes
    <3>2. CASE RecordFailure(w)
      <4>1. /\ row'.status \in {"transcription_failed", "transcription_retryable"}
            /\ row'.owner \in {w, Nobody} /\ row'.cursor = row.cursor
        BY <1>3, <1>5, <2>1, <3>2 DEF RecordFailure, Fenced, Freed, Rows
      <4>2. QED
        BY <2>1, <4>1 DEF Writes
    <3>3. CASE Stage(w)
      <4> DEFINE q == Set("reply_pending")
      <4>1. q \in Rows /\ q.owner = row.owner
        BY SetType DEF IInv, Statuses, Recoverable
      <4>2. row' = [q EXCEPT !.reply = act[w].reply, !.cursor = 0]
        BY <1>5, <3>3 DEF Stage, Fenced
      <4>3. row.status \notin Staged
        BY <2>2, <3>3 DEF Stage, Before
      <4> HIDE DEF q
      <4>4. row'.owner = row.owner
        BY <4>1, <4>2 DEF Rows
      <4>5. row.owner = w /\ row'.owner \in {w, Nobody}
        BY <2>1, <4>4
      <4>6. QED
        BY <2>1, <4>3, <4>5, Zenon DEF Writes
    <3>4. CASE RecordSendFailure(w)
      BY <1>3, <1>5, <2>1, <3>4, FreedType DEF RecordSendFailure, Writes, Staged
    <3>5. CASE MarkDelivered(w)
      <4>1. row'.status = "delivered" /\ row'.owner = Nobody
        BY <1>3, <1>5, <3>5, FreedType DEF MarkDelivered, Rows
      <4>2. QED
        BY <2>1, <4>1 DEF Writes
    <3>6. QED
      BY <3>1, <3>2, <3>3, <3>4, <3>5
  <2>4. QED
    BY <1>1, <1>2, <2>3, WritesCounted
<1>6. QED
  BY <1>4, <1>5 DEF StartTranscription, RecordFailure, StoreText, StartAnswer, Stage,
     RecordSendFailure, MarkDelivered, Fenced

-----------------------------------------------------------------------------
(* Sending.                                                                 *)

\* A step that changes neither the row nor what was sent: the others are as loose
\* and as busy recording as before.
LEMMA OthersAlike ==
  ASSUME NEW w \in Workers, row' = row, sent' = sent,
         \A v \in Workers \ {w} : act'[v] = act[v],
         Recording(w) => Recording(w)'
  PROVE  /\ Loose' \subseteq Loose \cup {w}
         /\ Overdue' => Overdue
  BY DEF Loose, Overdue, Recording, Owned

\* A worker that goes on to a chunk, or to the next one.
LEMMA WalkCursored ==
  ASSUME IInv, Cursored, NEW w \in Workers, UNCHANGED <<row, sent, told>>,
         \A v \in Workers \ {w} : act'[v] = act[v],
         act'[w].pc \in Chunking =>
           \/ act[w].pc \in Chunking /\ act'[w].chunk = act[w].chunk
           \/ act'[w].chunk = row.cursor + 1
  PROVE  Cursored'
<1>1. \A v \in Workers : Owned(v)' = Owned(v)
  BY DEF Owned
<1>2. ASSUME NEW v \in Workers, act'[v].pc \in Chunking
      PROVE  /\ row.status = "reply_pending" => act'[v].chunk <= row.cursor + 1
             /\ Owned(v) => act'[v].chunk = row.cursor + 1
  BY <1>2, CountTypes DEF Cursored
<1>3. QED
  BY <1>1, <1>2 DEF Cursored

LEMMA DeliverCounted ==
  ASSUME ~LateIngress, IInv, Counted, NEW w \in Workers, Deliver(w)
  PROVE  Counted'
<1>1. UNCHANGED <<row, sent, sends, told, interrupts>> /\ ~Recording(w)
  BY DEF Deliver, Recording
<1>2. /\ \A v \in Workers \ {w} : act'[v] = act[v]
      /\ \/ act'[w].pc = "send" /\ act'[w].chunk = row.cursor + 1
         \/ act'[w].pc \in {"idle", "release"}
  <2>1. CASE Owned(w)
    BY <2>1 DEF Deliver, IInv, TypeOK, Doings
  <2>2. CASE ~Owned(w)
    BY <2>2, GiveUpLands DEF Deliver
  <2>3. QED
    BY <2>1, <2>2
<1>3. Cursored'
  BY <1>1, <1>2, WalkCursored DEF Counted, Chunking, Sending
<1>4. Loose' \subseteq Loose /\ (Overdue' => Overdue)
  BY <1>1, <1>2, OthersAlike DEF Loose
<1>5. QED
  BY <1>1, <1>3, <1>4, BalanceKept, CountTypes DEF Counted

LEMMA SendCounted ==
  ASSUME ~LateIngress, IInv, Counted, NEW w \in Workers, Send(w) \/ Acknowledged(w)
  PROVE  Counted'
<1>1. UNCHANGED <<row, sent, sends, told, interrupts>> /\ act[w].pc \in Chunking /\ ~act[w].lost
  BY DEF Send, Acknowledged, Unaware, Chunking, Sending
<1>2. /\ \A v \in Workers \ {w} : act'[v] = act[v]
      /\ \/ /\ act'[w].chunk = act[w].chunk /\ ~act'[w].lost
            /\ \/ act[w].pc = "send" /\ act'[w].pc = "sending" /\ Owned(w)
               \/ act[w].pc = "send" /\ act'[w].pc = "delivered"
               \/ act[w].pc = "sent" /\ act'[w].pc = "progress"
         \/ act[w].pc = "send" /\ act'[w].pc \in {"idle", "release"}
  BY <1>1, GotoLands, GiveUpLands DEF Send, Acknowledged
<1>3. Cursored'
  BY <1>1, <1>2, WalkCursored DEF Counted, Chunking, Sending
<1>4. Owned(w)' = Owned(w)
  BY <1>1 DEF Owned
<1>5. Loose' \subseteq Loose /\ (Overdue' => Overdue)
  <2>1. w \notin Loose'
    BY <1>2, <1>4 DEF Loose
  <2>2. Recording(w) => Recording(w)'
    BY <1>1, <1>2, <1>4 DEF Recording
  <2>3. QED
    BY <1>1, <1>2, <2>1, <2>2, OthersAlike
<1>6. QED
  BY <1>1, <1>3, <1>5, BalanceKept, CountTypes DEF Counted

\* A worker that stops without an interruption knew of one, or was not sending.
LEMMA NoticeLossCounted ==
  ASSUME ~LateIngress, IInv, Counted, NEW w \in Workers, NoticeLoss(w)
  PROVE  Counted'
<1>1. UNCHANGED <<row, sent, sends, told, interrupts>> /\ ~Recording(w)
  BY DEF NoticeLoss, Recording
<1>2. act'[w].pc \in {"idle", "release"} /\ \A v \in Workers \ {w} : act'[v] = act[v]
  BY GiveUpLands DEF NoticeLoss
<1>3. Cursored'
  BY <1>1, <1>2, WalkCursored DEF Counted, Chunking, Sending
<1>4. Loose' \subseteq Loose /\ (Overdue' => Overdue)
  BY <1>1, <1>2, OthersAlike DEF Loose
<1>5. QED
  BY <1>1, <1>3, <1>4, BalanceKept, CountTypes DEF Counted

LEMMA InterruptCounted ==
  ASSUME ~LateIngress, IInv, Counted, NEW w \in Workers,
         HeartbeatFails(w) \/ SendFails(w) \/ Crash(w)
  PROVE  Counted'
<1>1. UNCHANGED <<row, sent, sends, told>> /\ interrupts' = interrupts + 1
  BY DEF HeartbeatFails, SendFails, Crash
<1>2. /\ \A v \in Workers \ {w} : act'[v] = act[v]
      /\ \/ act'[w].pc = act[w].pc /\ act'[w].chunk = act[w].chunk
         \/ act'[w].pc \in {"idle", "sendfail"}
  BY GotoLands, NothingType DEF HeartbeatFails, SendFails, Crash, Stop, IInv, TypeOK, Doings
<1>3. Cursored'
  BY <1>1, <1>2, WalkCursored DEF Counted, Chunking, Sending
<1>4. Loose' \subseteq Loose \cup {w}
  BY <1>1, <1>2 DEF Loose, Owned
<1>5. Loose' \subseteq Loose \/ (Overdue' => Overdue)
  <2>1. CASE act[w].pc = "sending"
    BY <1>1, <1>2, <2>1, OthersAlike DEF Recording
  <2>2. CASE act[w].pc # "sending"
    BY <1>2, <1>4, <2>2 DEF Loose
  <2>3. QED
    BY <2>1, <2>2
<1>6. QED
  BY <1>1, <1>3, <1>4, <1>5, BalancePaid DEF Counted

LEMMA StoreProgressCounted ==
  ASSUME ~LateIngress, IInv, Counted, NEW w \in Workers, StoreProgress(w)
  PROVE  Counted'
<1> DEFINE r == [row EXCEPT !.old = FALSE,
                   !.cursor = IF row.cursor < act[w].chunk THEN act[w].chunk ELSE row.cursor]
<1>1. UNCHANGED <<sent, sends, told, interrupts>> /\ act[w].pc = "progress"
  BY DEF StoreProgress
<1>2. CASE ~Owned(w)
  <2>1. row' = row /\ ~Recording(w)
    BY <1>2 DEF StoreProgress, Recording
  <2>2. act'[w].pc \in {"idle", "release"} /\ \A v \in Workers \ {w} : act'[v] = act[v]
    BY <1>2, GiveUpLands DEF StoreProgress
  <2>3. Cursored'
    BY <1>1, <2>1, <2>2, WalkCursored DEF Counted, Chunking, Sending
  <2>4. Loose' \subseteq Loose /\ (Overdue' => Overdue)
    BY <1>1, <2>1, <2>2, OthersAlike DEF Loose
  <2>5. QED
    BY <1>1, <2>3, <2>4, BalanceKept, CountTypes DEF Counted
<1>3. CASE Owned(w)
  <2>1. act[w].chunk = row.cursor + 1 /\ row.cursor \in Nat
    BY <1>1, <1>3, CountTypes DEF Counted, Cursored, Chunking, Sending
  <2>2. row' = r
    BY <1>3 DEF StoreProgress
  <2>3. /\ row'.cursor = row.cursor + 1 /\ row'.status = row.status
        /\ row'.owner = row.owner /\ row'.live = row.live
    BY <2>1, <2>2 DEF IInv, TypeOK, Rows
  <2>4. /\ act'[w].pc = "send" /\ act'[w].chunk = act[w].chunk + 1
        /\ \A v \in Workers \ {w} : act'[v] = act[v]
    BY <1>3 DEF StoreProgress, IInv, TypeOK, Doings
  <2>5. \A v \in Workers : Owned(v)' = Owned(v)
    BY <2>3 DEF Owned
  <2>6. \A v \in Workers \ {w} : ~Owned(v)
    BY <1>3 DEF Owned
  <2>7. row.status = "reply_pending"
    BY <1>1, <1>3, VoiceAssumption
       DEF IInv, RowFits, WorkersFit, Fits, Telling, Staged, Owned
  <2>8. \A c \in sent : c \in Nat /\ c <= row.cursor + 1
    BY <2>7 DEF Counted, Cursored, IInv, TypeOK
  <2>9. Cursored'
    <3>1. \A c \in sent : c <= row.cursor + 2
      BY <2>1, <2>8
    <3>2. \A v \in Workers \ {w} : act[v].pc \in Chunking =>
            act[v].chunk \in Nat /\ act[v].chunk <= row.cursor + 2
      BY <2>1, <2>7, CountTypes DEF Counted, Cursored
    <3>3. sent # {} => told # {}
      BY DEF Counted, Cursored
    <3>4. row'.cursor + 1 = row.cursor + 2 /\ act'[w].chunk = row.cursor + 2
      BY <2>1, <2>3, <2>4
    <3>5. QED
      BY <1>1, <2>1, <2>4, <2>5, <2>6, <3>1, <3>2, <3>3, <3>4 DEF Cursored
  <2>10. ~Overdue'
    BY <1>1, <2>1, <2>3, <2>8 DEF Overdue
  <2>11. Loose' \subseteq Loose
    BY <2>4, <2>5 DEF Loose
  <2>12. QED
    BY <1>1, <2>9, <2>10, <2>11, BalanceKept, CountTypes DEF Counted
<1>4. QED
  BY <1>2, <1>3

\* The message arrives: a first one, or one that has been paid for.
LEMMA ArrivesCounted ==
  ASSUME ~LateIngress, IInv, Counted, NEW w \in Workers, Arrives(w)
  PROVE  Counted'
<1> DEFINE c == act[w].chunk
<1>1. /\ act[w].pc = "sending" /\ sent' = sent \cup {c} /\ sends' = sends + 1
      /\ told' # {} /\ row' = row /\ interrupts' = interrupts
  BY DEF Arrives
<1>2. /\ act'[w].pc = "sent" /\ act'[w].chunk = c /\ act'[w].lost = act[w].lost
      /\ \A v \in Workers \ {w} : act'[v] = act[v]
  BY GotoLands DEF Arrives
<1>3. \A v \in Workers : Owned(v)' = Owned(v)
  BY <1>1 DEF Owned
<1>4. row.status = "reply_pending" => c <= row.cursor + 1
  BY <1>1 DEF Counted, Cursored, Chunking, Sending
<1>5. c \in Nat /\ row.cursor \in Nat /\ c \in 1..Chunks
  BY <1>1, CountTypes DEF IInv, WorkersFit, Fits
<1>6. row.status \in Staged
  BY <1>1 DEF IInv, WorkersFit, Fits, Telling
<1>7. c \notin sent => row.status = "reply_pending" /\ c = row.cursor + 1
  <2>1. row.status = "delivered" => c \in sent
    BY <1>5 DEF IInv, RowFits
  <2>2. c <= row.cursor => c \in sent
    BY <1>5 DEF IInv, RowFits
  <2>3. QED
    BY <1>4, <1>5, <1>6, <2>1, <2>2 DEF Staged
<1>8. Cursored'
  BY <1>1, <1>2, <1>3, <1>4 DEF Counted, Cursored, Chunking, Sending
<1>9. /\ Loose' = Loose \ {w}
      /\ IsFiniteSet(Loose) /\ IsFiniteSet(Loose') /\ Cardinality(Loose) \in Nat
      /\ Cardinality(Loose') = IF w \in Loose THEN Cardinality(Loose) - 1 ELSE Cardinality(Loose)
  <2>1. Loose' = Loose \ {w}
    BY <1>1, <1>2, <1>3 DEF Loose
  <2>2. QED
    BY <2>1, FS_RemoveElement, FS_CardinalityType DEF Counted, Balanced
<1>10. Cardinality(sent') = IF c \in sent THEN Cardinality(sent) ELSE Cardinality(sent) + 1
  BY <1>1, FS_AddElement, CountTypes
<1>11. Again \in {0, 1} /\ Again' \in {0, 1}
  BY DEF Again
<1>12. w \in Loose <=> ~Owned(w) \/ act[w].lost
  BY <1>1 DEF Loose
\* One that is not loose will move the cursor on itself.
<1>13. CASE w \notin Loose
  <2>1. Recording(w)'
    BY <1>2, <1>3, <1>12, <1>13 DEF Recording
  <2>2. Again' = 0
    BY <2>1 DEF Again, Overdue
  <2>3. c \in sent => Again = 1
    <3> SUFFICES ASSUME c \in sent PROVE Overdue
      BY DEF Again
    <3>1. Owned(w)
      BY <1>12, <1>13
    <3>2. row.status = "reply_pending" /\ c = row.cursor + 1
      BY <1>1, <1>6, <3>1, VoiceAssumption
         DEF Counted, Cursored, Chunking, Sending, IInv, RowFits, Staged, Owned
    <3>3. \A v \in Workers : ~Recording(v)
      BY <1>1, <3>1 DEF Recording, Owned
    <3>4. QED
      BY <3>2, <3>3 DEF Overdue
  <2>4. QED
    BY <1>1, <1>8, <1>9, <1>10, <1>11, <1>13, <2>2, <2>3, CountTypes DEF Counted, Balanced
<1>14. CASE w \in Loose
  <2>1. c \in sent => (Overdue' => Overdue)
    <3> SUFFICES ASSUME c \in sent, Overdue' PROVE Overdue
      OBVIOUS
    <3>1. sent' = sent
      BY <1>1
    <3>2. \A v \in Workers : ~Recording(v)
      BY <1>1, <1>2, <1>3 DEF Overdue, Recording
    <3>3. QED
      BY <1>1, <3>1, <3>2 DEF Overdue
  <2>2. c \in sent => Again' <= Again
    BY <1>11, <2>1 DEF Again
  <2>3. c \notin sent => Again = 0
    BY <1>7 DEF Again, Overdue
  <2>4. QED
    BY <1>1, <1>8, <1>9, <1>10, <1>11, <1>14, <2>2, <2>3, CountTypes DEF Counted, Balanced
<1>15. QED
  BY <1>13, <1>14

LEMMA TimeCounted ==
  ASSUME ~LateIngress, IInv, Counted, LeaseExpires \/ LeaseLapses \/ RowAges \/ FileAges \/ Sweep
  PROVE  Counted'
<1>1. UNCHANGED <<act, sent, sends, told>>
  BY DEF LeaseExpires, LeaseLapses, RowAges, FileAges, Sweep, CleanupMedia, CleanupOrphan, PurgeText
<1>2. row'.status = row.status /\ row'.cursor = row.cursor /\ row'.owner = row.owner
  BY DEF LeaseExpires, LeaseLapses, RowAges, FileAges, Sweep, CleanupMedia, CleanupOrphan,
         PurgeText, IInv, TypeOK, Rows
<1>3. \A v \in Workers : Owned(v)' => Owned(v)
  BY <1>2 DEF LeaseExpires, LeaseLapses, RowAges, FileAges, Sweep, CleanupMedia, CleanupOrphan,
         PurgeText, Owned, IInv, TypeOK, Rows
<1>4. Cursored'
  BY <1>1, <1>2, <1>3 DEF Counted, Cursored
<1>5. CASE LeaseExpires
  <2>1. interrupts' = interrupts + 1
    BY <1>5 DEF LeaseExpires
  <2>2. \A v \in Workers : Owned(v) => v = row.owner
    BY DEF Owned
  <2>3. Loose' \subseteq Loose \cup {row.owner}
    BY <1>1, <2>2 DEF Loose
  <2>4. Loose' \subseteq Loose \/ (Overdue' => Overdue)
    <3> SUFFICES ASSUME NEW v \in Loose', v \notin Loose PROVE Overdue' => Overdue
      OBVIOUS
    <3>1. v \in Workers /\ act[v].pc = "sending" /\ Owned(v)
      BY <1>1 DEF Loose
    <3>2. \A u \in Workers : ~Recording(u)
      BY <3>1 DEF Recording, Owned
    <3>3. QED
      BY <1>1, <1>2, <3>2 DEF Overdue
  <2>5. QED
    BY <1>1, <1>4, <2>1, <2>3, <2>4, BalancePaid DEF Counted
<1>6. CASE LeaseLapses \/ RowAges \/ FileAges \/ Sweep
  <2>1. interrupts' = interrupts
    BY <1>6 DEF LeaseLapses, RowAges, FileAges, Sweep, CleanupMedia, CleanupOrphan, PurgeText
  <2>2. \A v \in Workers : Owned(v) /\ act[v].pc \in Sending => Owned(v)'
    BY <1>2, <1>6 DEF LeaseLapses, InUse, RowAges, FileAges, Sweep, CleanupMedia, CleanupOrphan,
         PurgeText, Owned, IInv, TypeOK, Rows, Sending
  <2>3. Loose' \subseteq Loose
    BY <1>1, <2>2 DEF Loose, Sending
  <2>4. Overdue' => Overdue
    BY <1>1, <1>2, <2>2 DEF Overdue, Recording, Sending
  <2>5. QED
    BY <1>1, <1>4, <2>1, <2>3, <2>4, BalanceKept, CountTypes DEF Counted
<1>7. QED
  BY <1>5, <1>6

LEMMA NextCounted ==
  ASSUME ~LateIngress, IInv, Counted, [Next]_vars
  PROVE  Counted'
<1>1. ASSUME NEW w \in Workers, Step(w) PROVE Counted'
  BY <1>1, RowAloneCounted, LeaseCounted, FencedCounted, DeliverCounted, SendCounted,
     NoticeLossCounted, StoreProgressCounted, ArrivesCounted
     DEF Step, Ingress, Voice, Delivery, Outcome
<1>2. CASE UNCHANGED vars
  <2>1. UNCHANGED <<row, act, sent, sends, told, interrupts>>
    BY <1>2 DEF vars
  <2>2. Loose' = Loose /\ (Overdue' => Overdue) /\ Cursored'
    BY <2>1 DEF Loose, Overdue, Recording, Counted, Cursored, Owned
  <2>3. QED
    BY <2>1, <2>2, BalanceKept, CountTypes DEF Counted
<1>3. QED
  BY <1>1, <1>2, InterruptCounted, TimeCounted DEF Next

\* As long as the two transactions of an update are not divided, a chunk is sent again
\* only because something was interrupted: for any number of workers and of chunks, an
\* interruption costs at most one repeated message.
THEOREM RepeatsPaid ==
  ASSUME ~LateIngress
  PROVE  Spec => []RepeatsExplained
<1>1. Init => Counted
  <2> SUFFICES ASSUME Init PROVE Counted
    OBVIOUS
  <2>1. \A w \in Workers : act[w].pc = "idle"
    BY NothingType DEF Init
  <2>2. Loose = {} /\ ~Overdue
    BY <2>1 DEF Loose, Overdue, Init
  <2>3. Cursored
    BY <2>1 DEF Cursored, Init, Chunking, Sending
  <2>4. QED
    BY <2>2, <2>3, FS_EmptySet DEF Counted, Balanced, Init, Again
<1>2. IInv /\ Counted /\ [Next]_vars => Counted'
  BY NextCounted
<1>3. IInv /\ Counted => RepeatsExplained
  BY CountTypes, FS_CardinalityType DEF Counted, Balanced, RepeatsExplained
<1>4. QED
  BY <1>1, <1>2, <1>3, Invariance, PTL DEF Spec

-----------------------------------------------------------------------------
(* Dialogue, for any archive, any requests and any number of attempts: the    *)
(* inductive invariant.                                                     *)

Places == {"idle", "load", "fetch", "copy", "look", "act", "send", "stage", "store", "deliver",
           "progress", "publish", "remember", "keep", "keep card", "unstage", "mark"}
Asking == {"load", "fetch", "copy", "look", "act"}

Kinds      == {"list", "card", "plain"}
ReplyRows  == [kind : Kinds, dreams : Seq(Nat), by : {"text", "voice"}, on : Nat, sent : BOOLEAN]
LaneStates == [at : Places, ask : Asks, list : Nat, card : BOOLEAN]
VoiceRows  == [ask : VoiceAsks, owner : Nat, reply : Nat, sent : BOOLEAN, done : BOOLEAN]
Numbers    == 0..Len(replies)

RepliesOK == replies \in Seq(ReplyRows) /\ \A r \in DOMAIN replies : replies[r].on \in Numbers
ListsIn ==
  /\ mem \in Numbers /\ stored \in Numbers /\ staged \in Numbers
  /\ cards \in [{"mem", "redis"} -> SUBSET (1..Len(replies))]
LanesIn ==
  /\ lane \in [Lanes -> LaneStates]
  /\ \A l \in Lanes : lane[l].at \in Asking => lane[l].ask.do # "chat"
EventIn == event \in VoiceRows /\ event.reply \in Numbers
RestIn ==
  /\ captured \in Seq(Nat) /\ noted \subseteq [replied : Nat, dream : Nat] /\ turns \in Nat
  /\ redisUp \in BOOLEAN /\ restarts \in Nat /\ outages \in Nat /\ lapses \in Nat

DialogueTypeOK == RepliesOK /\ ListsIn /\ LanesIn /\ EventIn /\ RestIn

\* The same dreams were shown as those of r; what r was built on is no voice reply; the
\* voice reply that is stored has been sent.
WasShown(r)  == \E s \in Shown : Digest(s) = Digest(r)
TextBased(r) == replies[r].on # 0 => replies[replies[r].on].by = "text"
Delivered    == event.reply # 0 /\ replies[event.reply].sent

\* What a lane knows of its list.  The holder of the lease answers only while no reply
\* is stored, and then no voice reply has been shown.
LaneOK(l, at, list) ==
  /\ list \in Numbers
  /\ at \in {"copy", "send", "stage", "store", "remember", "keep", "keep card"} => list # 0
  /\ at \in {"copy", "remember", "keep", "keep card"} => WasShown(list)
  /\ at = "deliver" => event.reply # 0
  /\ at \in {"progress", "publish"} => Delivered
  /\ l # 0 /\ l = event.owner /\ event.reply # 0
       => at \notin {"load", "fetch", "copy", "act", "stage", "store"}
  /\ list # 0 /\ at \notin {"stage", "store", "send"} /\ replies[list].by = "voice" => event.reply # 0
  /\ l # 0 /\ l = event.owner /\ at \in {"stage", "store"} => TextBased(list)
  /\ l = 0 /\ at = "send" => replies[list].by = "text"

LanesOK == \A l \in Lanes : LaneOK(l, lane[l].at, lane[l].list)

EventOK ==
  /\ event.sent => Delivered
  /\ event.reply # 0 => TextBased(event.reply)
  /\ \A r \in Shown : replies[r].by = "voice" => r = event.reply

Known(r) == WasShown(r) /\ (replies[r].by = "voice" => event.reply # 0)
Current  == ({mem, stored} \ {0}) \cup cards["mem"] \cup cards["redis"]
ListsOK  == \A r \in Current : Known(r)

DialogueInv == DialogueTypeOK /\ LanesOK /\ EventOK /\ ListsOK

-----------------------------------------------------------------------------
(* Replies are only added, and sent.                                        *)

Grows ==
  /\ RepliesOK' /\ DOMAIN replies \subseteq DOMAIN replies'
  /\ \A r \in DOMAIN replies :
       /\ replies'[r].kind = replies[r].kind /\ replies'[r].dreams = replies[r].dreams
       /\ replies'[r].by = replies[r].by /\ replies'[r].on = replies[r].on
       /\ replies[r].sent => replies'[r].sent

\* The stored reply stays, and the lease may pass to l only.
Advances(l) ==
  /\ EventIn'
  /\ event.reply # 0 => event'.reply = event.reply
  /\ (event'.owner = event.owner /\ event'.reply = event.reply) \/ event'.owner = l

LEMMA RepliesNumbered ==
  ASSUME RepliesOK
  PROVE  /\ Len(replies) \in Nat /\ DOMAIN replies = 1..Len(replies)
         /\ \A r \in DOMAIN replies : replies[r] \in ReplyRows
         /\ DOMAIN replies = Numbers \ {0}
PROOF
<1>1. Len(replies) \in Nat /\ DOMAIN replies = 1..Len(replies)
      /\ \A r \in DOMAIN replies : replies[r] \in ReplyRows
  BY DEF RepliesOK
<1>2. 1..Len(replies) = (0..Len(replies)) \ {0}
  BY <1>1
<1> QED
  BY <1>1, <1>2 DEF Numbers

LEMMA RowOfReply ==
  ASSUME NEW x \in ReplyRows
  PROVE  /\ x.kind \in Kinds /\ x.dreams \in Seq(Nat) /\ x.by \in {"text", "voice"}
         /\ x.on \in Nat /\ x.sent \in BOOLEAN
PROOF BY DEF ReplyRows

LEMMA NumbersGrow ==
  ASSUME RepliesOK, Grows
  PROVE  Numbers \subseteq Numbers' /\ 1..Len(replies) \subseteq (1..Len(replies))'
PROOF
<1>1. RepliesOK'
  BY DEF Grows
<1>2. Len(replies') \in Nat /\ DOMAIN replies' = 1..Len(replies')
  BY <1>1 DEF RepliesOK
<1>3. Len(replies) \in Nat /\ DOMAIN replies = 1..Len(replies)
  BY RepliesNumbered
<1>4. Len(replies) <= Len(replies')
  <2>1. CASE Len(replies) = 0
    BY <2>1, <1>2
  <2>2. CASE Len(replies) # 0
    <3>1. Len(replies) \in DOMAIN replies
      BY <2>2, <1>3
    <3>2. Len(replies) \in 1..Len(replies')
      BY <3>1, <1>2 DEF Grows
    <3> QED
      BY <3>2, <1>2, <1>3
  <2> QED
    BY <2>1, <2>2
<1> QED
  BY <1>2, <1>3, <1>4 DEF Numbers

LEMMA ShownStays ==
  ASSUME RepliesOK, Grows, NEW r \in DOMAIN replies, WasShown(r)
  PROVE  WasShown(r)'
PROOF
<1>1. PICK s \in DOMAIN replies : replies[s].sent /\ Digest(s) = Digest(r)
  BY DEF WasShown, Shown
<1>2. s \in DOMAIN replies' /\ replies'[s].sent
  BY <1>1 DEF Grows
<1>3. replies'[s].kind = replies[s].kind /\ replies'[s].dreams = replies[s].dreams
  BY <1>1 DEF Grows
<1>4. replies'[r].kind = replies[r].kind /\ replies'[r].dreams = replies[r].dreams
  BY DEF Grows
<1> QED
  BY <1>1, <1>2, <1>3, <1>4 DEF WasShown, Shown, Digest

LEMMA BasedStays ==
  ASSUME RepliesOK, Grows, NEW r \in DOMAIN replies, TextBased(r)
  PROVE  TextBased(r)'
PROOF
<1>1. replies'[r].on = replies[r].on
  BY DEF Grows
<1>2. CASE replies[r].on # 0
  <2>1. replies[r].on \in DOMAIN replies
    BY <1>2, RepliesNumbered DEF RepliesOK
  <2>2. replies'[replies[r].on].by = replies[replies[r].on].by
    BY <2>1 DEF Grows
  <2> QED
    BY <1>1, <1>2, <2>2 DEF TextBased
<1> QED
  BY <1>1, <1>2 DEF TextBased

LEMMA SentStays ==
  ASSUME RepliesOK, EventIn, Grows, NEW l, Advances(l), Delivered
  PROVE  Delivered'
PROOF
<1>1. event.reply \in DOMAIN replies
  BY RepliesNumbered DEF Delivered, EventIn
<1>2. event'.reply = event.reply
  BY DEF Advances, Delivered
<1>3. replies'[event.reply].sent
  BY <1>1 DEF Delivered, Grows
<1> QED
  BY <1>2, <1>3 DEF Delivered

\* What another lane knows stays true.
LEMMA OthersKeep ==
  ASSUME RepliesOK, EventIn, NEW l, Grows, Advances(l), NEW m, m # l,
         NEW at, NEW list, LaneOK(m, at, list)
  PROVE  LaneOK(m, at, list)'
PROOF
<1>1. list \in Numbers /\ list \in Numbers'
  BY NumbersGrow DEF LaneOK
<1>2. list # 0 => list \in DOMAIN replies
  BY <1>1, RepliesNumbered
<1>3. list # 0 => replies'[list].by = replies[list].by
  BY <1>2 DEF Grows
<1>4. event.reply # 0 => event'.reply # 0
  BY DEF Advances
<1>5. m = event'.owner => event'.owner = event.owner /\ event'.reply = event.reply
  BY DEF Advances
<1>6. Delivered => Delivered'
  BY SentStays
<1>7. list # 0 /\ WasShown(list) => WasShown(list)'
  BY <1>2, ShownStays
<1>8. list # 0 /\ TextBased(list) => TextBased(list)'
  BY <1>2, BasedStays
<1> QED
  BY <1>1, <1>3, <1>4, <1>5, <1>6, <1>7, <1>8 DEF LaneOK

LEMMA KnownStays ==
  ASSUME RepliesOK, EventIn, NEW l, Grows, Advances(l), NEW r \in DOMAIN replies, Known(r)
  PROVE  Known(r)'
PROOF
<1>1. WasShown(r)'
  BY ShownStays DEF Known
<1>2. replies'[r].by = replies[r].by
  BY DEF Grows
<1>3. event.reply # 0 => event'.reply # 0
  BY DEF Advances
<1> QED
  BY <1>1, <1>2, <1>3 DEF Known

-----------------------------------------------------------------------------
(* One lane moves.                                                          *)

Moved(l, at, list) ==
  /\ lane' \in [Lanes -> LaneStates] /\ lane'[l].at = at /\ lane'[l].list = list
  /\ at \in Asking => lane'[l].ask.do # "chat"
  /\ \A m \in Lanes \ {l} : lane'[m] = lane[m]

LEMMA LanePut ==
  ASSUME LanesIn, NEW l \in Lanes, NEW x \in LaneStates, lane' = [lane EXCEPT ![l] = x],
         x.at \in Asking => x.ask.do # "chat"
  PROVE  Moved(l, x.at, x.list)
PROOF BY DEF Moved, LanesIn

LEMMA LaneFields ==
  ASSUME NEW x \in LaneStates
  PROVE  /\ x.at \in Places /\ x.ask \in Asks /\ x.list \in Nat /\ x.card \in BOOLEAN
         /\ x = [at |-> x.at, ask |-> x.ask, list |-> x.list, card |-> x.card]
PROOF BY DEF LaneStates

LEMMA LaneMade ==
  ASSUME NEW at \in Places, NEW ask \in Asks, NEW list \in Nat, NEW card \in BOOLEAN
  PROVE  [at |-> at, ask |-> ask, list |-> list, card |-> card] \in LaneStates
PROOF BY DEF LaneStates

LEMMA FieldPut ==
  ASSUME NEW x \in LaneStates, NEW at \in Places, NEW ask \in Asks, NEW list \in Nat,
         NEW card \in BOOLEAN
  PROVE  /\ [x EXCEPT !.at = at] = [at |-> at, ask |-> x.ask, list |-> x.list, card |-> x.card]
         /\ [x EXCEPT !.ask = ask] = [at |-> x.at, ask |-> ask, list |-> x.list, card |-> x.card]
         /\ [x EXCEPT !.list = list] = [at |-> x.at, ask |-> x.ask, list |-> list, card |-> x.card]
         /\ [x EXCEPT !.card = card] = [at |-> x.at, ask |-> x.ask, list |-> x.list, card |-> card]
PROOF BY DEF LaneStates

LEMMA NoAsk == [do |-> "chat", dreams |-> <<>>, n |-> 0] \in Asks
PROOF
<1>1. <<>> \in Seq(Nat)
  OBVIOUS
<1> QED
  BY <1>1 DEF Asks

LEMMA IdleLane == Idle \in LaneStates /\ Idle.at = "idle" /\ Idle.list = 0 /\ ~Idle.card
PROOF BY NoAsk, LaneMade DEF Idle, Places

\* A lane goes on with another list or another card, or only to another place.
LEMMA LaneGoes ==
  ASSUME LanesIn, NEW l \in Lanes, NEW at \in Places, NEW list \in Nat, NEW card \in BOOLEAN,
         at \in Asking => lane[l].at \in Asking,
         lane' = [lane EXCEPT ![l] = [at |-> at, ask |-> lane[l].ask, list |-> list, card |-> card]]
  PROVE  Moved(l, at, list)
PROOF
<1>1. lane[l] \in LaneStates
  BY DEF LanesIn
<1> DEFINE x == [at |-> at, ask |-> lane[l].ask, list |-> list, card |-> card]
<1>2. x \in LaneStates
  BY <1>1, LaneFields, LaneMade
<1>3. x.at \in Asking => x.ask.do # "chat"
  BY DEF LanesIn
<1> QED
  BY <1>2, <1>3, LanePut

LEMMA GoesMoves ==
  ASSUME LanesIn, NEW l \in Lanes, NEW at \in Places, Goes(l, at),
         at \in Asking => lane[l].at \in Asking
  PROVE  Moved(l, at, lane[l].list)
PROOF
<1>1. lane[l] \in LaneStates
  BY DEF LanesIn
<1>2. [lane[l] EXCEPT !.at = at]
        = [at |-> at, ask |-> lane[l].ask, list |-> lane[l].list, card |-> lane[l].card]
  BY <1>1 DEF LaneStates
<1>3. lane' = [lane EXCEPT ![l] = [lane[l] EXCEPT !.at = at]]
  BY DEF Goes
<1>4. lane' = [lane EXCEPT ![l] = [at |-> at, ask |-> lane[l].ask, list |-> lane[l].list,
                                   card |-> lane[l].card]]
  BY <1>2, <1>3
<1> QED
  BY <1>1, <1>4, LaneFields, LaneGoes

LEMMA ListMoves ==
  ASSUME LanesIn, NEW l \in Lanes, NEW at \in Places, NEW list \in Nat,
         lane' = [lane EXCEPT ![l].list = list, ![l].at = at],
         at \in Asking => lane[l].at \in Asking
  PROVE  Moved(l, at, list)
PROOF
<1>1. lane[l] \in LaneStates /\ lane \in [Lanes -> LaneStates]
  BY DEF LanesIn
<1> DEFINE x == [at |-> lane[l].at, ask |-> lane[l].ask, list |-> list, card |-> lane[l].card]
<1>2. [[lane[l] EXCEPT !.list = list] EXCEPT !.at = at]
        = [at |-> at, ask |-> lane[l].ask, list |-> list, card |-> lane[l].card]
  <2>1. [lane[l] EXCEPT !.list = list] = x /\ x \in LaneStates
    BY <1>1, FieldPut, LaneFields, LaneMade
  <2>2. [x EXCEPT !.at = at] = [at |-> at, ask |-> x.ask, list |-> x.list, card |-> x.card]
    BY <2>1, FieldPut
  <2> QED
    BY <2>1, <2>2
<1>3. lane' = [lane EXCEPT ![l] = [[lane[l] EXCEPT !.list = list] EXCEPT !.at = at]]
  BY <1>1
<1>4. lane' = [lane EXCEPT ![l] = [at |-> at, ask |-> lane[l].ask, list |-> list,
                                   card |-> lane[l].card]]
  BY <1>2, <1>3
<1> QED
  BY <1>1, <1>4, LaneFields, LaneGoes

LEMMA CardMoves ==
  ASSUME LanesIn, NEW l \in Lanes, NEW at \in Places, at \notin Asking,
         lane' = [lane EXCEPT ![l].at = at, ![l].card = TRUE]
  PROVE  Moved(l, at, lane[l].list)
PROOF
<1>1. lane[l] \in LaneStates /\ lane \in [Lanes -> LaneStates]
  BY DEF LanesIn
<1> DEFINE x == [at |-> at, ask |-> lane[l].ask, list |-> lane[l].list, card |-> lane[l].card]
<1>2. [[lane[l] EXCEPT !.at = at] EXCEPT !.card = TRUE]
        = [at |-> at, ask |-> lane[l].ask, list |-> lane[l].list, card |-> TRUE]
  <2>1. [lane[l] EXCEPT !.at = at] = x /\ x \in LaneStates
    BY <1>1, FieldPut, LaneFields, LaneMade
  <2> HIDE DEF x
  <2>2. [x EXCEPT !.card = TRUE] = [at |-> x.at, ask |-> x.ask, list |-> x.list, card |-> TRUE]
    <3>1. x.at \in Places /\ x.ask \in Asks /\ x.list \in Nat /\ TRUE \in BOOLEAN
      BY <2>1, LaneFields
    <3> QED
      BY <2>1, <3>1, FieldPut, Zenon
  <2> USE DEF x
  <2> QED
    BY <2>1, <2>2
<1>3. lane' = [lane EXCEPT ![l] = [[lane[l] EXCEPT !.at = at] EXCEPT !.card = TRUE]]
  BY <1>1
<1>4. lane' = [lane EXCEPT ![l] = [at |-> at, ask |-> lane[l].ask, list |-> lane[l].list,
                                   card |-> TRUE]]
  BY <1>2, <1>3
<1> QED
  BY <1>1, <1>4, LaneFields, LaneGoes

LEMMA EndsMoves ==
  ASSUME LanesIn, NEW l \in Lanes, Ends(l)
  PROVE  Moved(l, "idle", 0)
PROOF BY IdleLane, LanePut DEF Ends, Asking

\* A request is taken up.
LEMMA AskMoves ==
  ASSUME LanesIn, NEW l \in Lanes, NEW at \in Places, NEW ask \in Asks,
         at \in Asking => ask.do # "chat",
         lane' = [lane EXCEPT ![l] = [Idle EXCEPT !.ask = ask, !.at = at]]
  PROVE  Moved(l, at, 0)
PROOF
<1> DEFINE x == [at |-> at, ask |-> ask, list |-> 0, card |-> FALSE]
<1> DEFINE y == [at |-> "idle", ask |-> ask, list |-> 0, card |-> FALSE]
<1>1. [Idle EXCEPT !.ask = ask, !.at = at] = x
  <2>1. [Idle EXCEPT !.ask = ask]
          = [at |-> Idle.at, ask |-> ask, list |-> Idle.list, card |-> Idle.card]
    BY IdleLane, FieldPut
  <2>2. [Idle EXCEPT !.ask = ask] = y
    BY <2>1 DEF Idle
  <2>3. y \in LaneStates
    BY LaneMade DEF Places
  <2>4. [y EXCEPT !.at = at] = [at |-> at, ask |-> y.ask, list |-> y.list, card |-> y.card]
    BY <2>3, FieldPut
  <2> QED
    BY <2>2, <2>4
<1>2. x \in LaneStates
  BY LaneMade
<1> QED
  BY <1>1, <1>2, LanePut

-----------------------------------------------------------------------------
(* What a step keeps, in parts.                                             *)

LEMMA SameReplies ==
  ASSUME RepliesOK, replies' = replies
  PROVE  /\ Grows /\ Shown' = Shown /\ Numbers' = Numbers
         /\ \A r : WasShown(r)' = WasShown(r) /\ TextBased(r)' = TextBased(r)
PROOF
<1>1. RepliesOK'
  BY DEF RepliesOK, Numbers
<1> QED
  BY <1>1 DEF Grows, Shown, Numbers, WasShown, TextBased, Digest

LEMMA SameEvent ==
  ASSUME RepliesOK, Grows, EventIn, event' = event, NEW l
  PROVE  Advances(l)
PROOF
<1>1. EventIn'
  BY NumbersGrow DEF EventIn
<1> QED
  BY <1>1 DEF Advances

LEMMA LanesKeep ==
  ASSUME RepliesOK, LanesIn, EventIn, LanesOK, NEW l \in Lanes, NEW at, NEW list,
         Moved(l, at, list), LaneOK(l, at, list)', Grows, Advances(l)
  PROVE  LanesIn' /\ LanesOK'
PROOF
<1>1. lane' \in [Lanes -> LaneStates]
  BY DEF Moved
<1>2. ASSUME NEW m \in Lanes
      PROVE  /\ lane'[m].at \in Asking => lane'[m].ask.do # "chat"
             /\ LaneOK(m, lane[m].at, lane[m].list)'
  <2>1. CASE m = l
    BY <2>1 DEF Moved
  <2>2. CASE m # l
    <3>1. lane'[m] = lane[m]
      BY <2>2 DEF Moved
    <3>2. LaneOK(m, lane[m].at, lane[m].list)
      BY DEF LanesOK
    <3> DEFINE t == lane[m].at
               s == lane[m].list
    <3>3. LaneOK(m, t, s)
      BY <3>2
    <3> HIDE DEF t, s
    <3>4. \A u, v : LaneOK(m, u, v) => LaneOK(m, u, v)'
      BY <2>2, OthersKeep
    <3>5. LaneOK(m, lane[m].at, lane[m].list)'
      BY <3>1, <3>2, <3>4
    <3> QED
      BY <3>1, <3>5 DEF LanesIn
  <2> QED
    BY <2>1, <2>2
<1>3. LanesIn'
  BY <1>1, <1>2 DEF LanesIn, Lanes
<1>4. LanesOK'
  BY <1>2 DEF LanesOK, Lanes
<1> QED
  BY <1>3, <1>4

LEMMA EventKeeps ==
  ASSUME RepliesOK, EventIn, EventOK, Grows, NEW l, Advances(l),
         event'.reply = event.reply, event'.sent => Delivered',
         \A r \in Shown' : r \in Shown \/ replies'[r].by = "text" \/ r = event.reply
  PROVE  EventOK'
PROOF
<1>1. event.reply # 0 => event.reply \in DOMAIN replies
  BY RepliesNumbered DEF EventIn
<1>2. event'.reply # 0 => TextBased(event.reply)'
  BY <1>1, BasedStays DEF EventOK
<1>3. ASSUME NEW r \in Shown', replies'[r].by = "voice" PROVE r = event'.reply
  <2>1. CASE r \in Shown
    <3>1. r \in DOMAIN replies
      BY <2>1 DEF Shown
    <3>2. replies[r].by = "voice"
      BY <1>3, <3>1 DEF Grows
    <3> QED
      BY <2>1, <3>2 DEF EventOK
  <2> QED
    BY <1>3, <2>1
<1>4. (event.reply # 0 => TextBased(event.reply))'
  BY <1>2
<1> QED
  BY <1>3, <1>4 DEF EventOK

LEMMA ListsKeep ==
  ASSUME RepliesOK, ListsIn, EventIn, ListsOK, Grows, NEW l, Advances(l),
         NEW x, x = 0 \/ (x \in DOMAIN replies /\ Known(x)), Current' \subseteq Current \cup ({x} \ {0})
  PROVE  ListsOK'
PROOF
<1>1. Current \subseteq DOMAIN replies
  BY RepliesNumbered DEF Current, ListsIn
<1>2. ASSUME NEW r \in Current' PROVE Known(r)'
  <2>1. r \in DOMAIN replies /\ Known(r)
    BY <1>1 DEF ListsOK
  <2> QED
    BY <2>1, KnownStays
<1> QED
  BY <1>2 DEF ListsOK

LEMMA ListsInStay ==
  ASSUME RepliesOK, ListsIn, Grows, UNCHANGED <<copies, staged>>
  PROVE  ListsIn' /\ Current' = Current
PROOF
<1>1. Numbers \subseteq Numbers' /\ 1..Len(replies) \subseteq (1..Len(replies))'
  BY NumbersGrow
<1>2. Current' = Current
  BY DEF copies, Current
<1> QED
  BY <1>1, <1>2 DEF ListsIn, copies

\* A step that neither writes a reply nor the voice row.
LEMMA QuietStep ==
  ASSUME DialogueInv, UNCHANGED <<replies, event>>, NEW l \in Lanes, NEW at, NEW list,
         Moved(l, at, list), LaneOK(l, at, list), ListsIn', RestIn',
         NEW x, x = 0 \/ (x \in DOMAIN replies /\ Known(x)), Current' \subseteq Current \cup ({x} \ {0})
  PROVE  DialogueInv'
PROOF
<1>1. RepliesOK /\ ListsIn /\ LanesIn /\ EventIn /\ RestIn /\ LanesOK /\ EventOK /\ ListsOK
  BY DEF DialogueInv, DialogueTypeOK
<1>2. Grows /\ Shown' = Shown /\ Numbers' = Numbers
  BY <1>1, SameReplies
<1>3. RepliesOK'
  BY <1>2 DEF Grows
<1>4. Advances(l)
  BY <1>1, <1>2, SameEvent
<1>5. EventIn'
  BY <1>4 DEF Advances
<1>6. WasShown(list)' = WasShown(list) /\ TextBased(list)' = TextBased(list)
  BY <1>1, SameReplies
<1>7. Delivered' = Delivered
  BY DEF Delivered
<1>8. LaneOK(l, at, list)'
  BY <1>2, <1>6, <1>7 DEF LaneOK
<1>9. LanesIn' /\ LanesOK'
  BY <1>1, <1>2, <1>4, <1>8, LanesKeep
<1>10. event'.sent => Delivered'
  BY <1>1, <1>7 DEF EventOK
<1>11. EventOK'
  BY <1>1, <1>2, <1>4, <1>10, EventKeeps
<1>12. ListsOK'
  BY <1>1, <1>2, <1>4, ListsKeep
<1> QED
  BY <1>3, <1>5, <1>9, <1>11, <1>12 DEF DialogueInv, DialogueTypeOK

\* The same when no list changes its place.
LEMMA LaneOnlyStep ==
  ASSUME DialogueInv, UNCHANGED <<replies, copies, staged, event>>, RestIn',
         NEW l \in Lanes, NEW at, NEW list, Moved(l, at, list), LaneOK(l, at, list)
  PROVE  DialogueInv'
PROOF
<1>1. RepliesOK /\ ListsIn
  BY DEF DialogueInv, DialogueTypeOK
<1>2. Grows
  BY <1>1, SameReplies
<1>3. ListsIn' /\ Current' = Current
  BY <1>1, <1>2, ListsInStay
<1> QED
  BY <1>3, QuietStep

LEMMA RestStays == ASSUME RestIn, UNCHANGED <<captured, noted, turns, world>> PROVE RestIn'
PROOF BY DEF RestIn, world

LEMMA Known0 == ASSUME DialogueInv, NEW r \in Current PROVE r \in DOMAIN replies /\ Known(r)
PROOF
<1>1. RepliesOK /\ ListsIn /\ ListsOK
  BY DEF DialogueInv, DialogueTypeOK
<1> QED
  BY <1>1, RepliesNumbered DEF Current, ListsIn, ListsOK

LEMMA LanesZero == 0 \in Lanes /\ Attempts \subseteq Lanes /\ \A a \in Attempts : a # 0 /\ a \in Nat
PROOF BY DialogueAssumption DEF Lanes

\* The lane a step is about.
LEMMA LaneFacts ==
  ASSUME DialogueInv, NEW l \in Lanes
  PROVE  /\ lane[l].at \in Places /\ lane[l].ask \in Asks /\ lane[l].list \in Numbers
         /\ lane[l].list \in Nat /\ lane[l].card \in BOOLEAN
         /\ LaneOK(l, lane[l].at, lane[l].list)
         /\ lane[l].at \in Asking => lane[l].ask.do # "chat"
PROOF
<1>1. LanesIn /\ LanesOK
  BY DEF DialogueInv, DialogueTypeOK
<1>2. lane[l] \in LaneStates
  BY <1>1 DEF LanesIn
<1> QED
  BY <1>1, <1>2, LaneFields DEF LanesOK, LanesIn, LaneOK

-----------------------------------------------------------------------------
(* Every action keeps the invariant.                                        *)

LEMMA TextArrivesKeeps ==
  ASSUME DialogueInv, NEW ask \in TextAsks, TextArrives(ask)
  PROVE  DialogueInv'
PROOF
<1> DEFINE at == CASE ask.do \in {"press", "save", "tell"} -> "act"
                   [] ask.do = "reply note" -> "look"
                   [] OTHER -> "load"
<1>1. LanesIn /\ RestIn /\ 0 \in Lanes
  BY LanesZero DEF DialogueInv, DialogueTypeOK
<1>2. ask \in Asks /\ ask.do # "chat"
  BY DialogueAssumption
<1>3. at \in Places /\ at \in {"act", "look", "load"}
  BY DEF Places
<1>4. lane' = [lane EXCEPT ![0] = [Idle EXCEPT !.ask = ask, !.at = at]]
  BY DEF TextArrives
<1> HIDE DEF at
<1>5. Moved(0, at, 0)
  BY <1>1, <1>2, <1>3, <1>4, AskMoves
<1>6. 0 \in Numbers
  BY RepliesNumbered DEF Numbers, DialogueInv, DialogueTypeOK
<1>7. LaneOK(0, at, 0)
  BY <1>3, <1>6 DEF LaneOK
<1>8. RestIn'
  BY <1>1 DEF TextArrives, RestIn, world
<1> QED
  BY <1>1, <1>5, <1>7, <1>8, LaneOnlyStep DEF TextArrives

LEMMA LoadKeeps == ASSUME DialogueInv, NEW l \in Lanes, Load(l) PROVE DialogueInv'
PROOF
<1>1. LanesIn /\ ListsIn /\ EventIn /\ RestIn /\ RestIn'
  BY RestStays DEF DialogueInv, DialogueTypeOK, Load
<1>2. mem \in Numbers /\ mem \in Nat
  BY <1>1, RepliesNumbered DEF ListsIn, Numbers, DialogueInv, DialogueTypeOK
<1> DEFINE at == IF mem = 0 THEN "fetch" ELSE "act"
<1>3. Moved(l, at, mem)
  BY <1>1, <1>2, ListMoves DEF Load, Places, Asking
<1>4. mem # 0 => Known(mem)
  BY Known0 DEF Current
<1>5. LaneOK(l, "load", lane[l].list)
  BY LaneFacts DEF Load
<1>6. LaneOK(l, at, mem)
  BY <1>2, <1>4, <1>5 DEF LaneOK, Known
<1> QED
  BY <1>1, <1>3, <1>6, LaneOnlyStep DEF Load

LEMMA FetchListKeeps == ASSUME DialogueInv, NEW l \in Lanes, FetchList(l) PROVE DialogueInv'
PROOF
<1>1. LanesIn /\ ListsIn /\ EventIn /\ RestIn /\ RestIn'
  BY RestStays DEF DialogueInv, DialogueTypeOK, FetchList
<1> DEFINE found == IF redisUp THEN stored ELSE 0
           at    == IF found = 0 THEN "act" ELSE "copy"
<1>2. found \in Numbers /\ found \in Nat
  BY <1>1, RepliesNumbered DEF ListsIn, Numbers, DialogueInv, DialogueTypeOK
<1>3. found # 0 => Known(found)
  BY Known0 DEF Current
<1>4. lane' = [lane EXCEPT ![l].list = found, ![l].at = at] /\ lane[l].at = "fetch"
  BY DEF FetchList
<1>5. at \in {"act", "copy"} /\ (at = "copy" => found # 0)
  OBVIOUS
<1> HIDE DEF found, at
<1>6. Moved(l, at, found)
  BY <1>1, <1>2, <1>4, <1>5, ListMoves DEF Places, Asking
<1>7. LaneOK(l, "fetch", lane[l].list)
  BY <1>4, LaneFacts
<1>8. LaneOK(l, at, found)
  BY <1>2, <1>3, <1>5, <1>7 DEF LaneOK, Known
<1> QED
  BY <1>1, <1>6, <1>8, LaneOnlyStep DEF FetchList

LEMMA CopyKeeps == ASSUME DialogueInv, NEW l \in Lanes, Copy(l) PROVE DialogueInv'
PROOF
<1>1. LanesIn /\ ListsIn /\ RestIn' /\ RepliesOK
  BY RestStays DEF DialogueInv, DialogueTypeOK, Copy
<1>2. Moved(l, "act", lane[l].list)
  BY <1>1, GoesMoves DEF Copy, Places, Asking
<1>3. LaneOK(l, "copy", lane[l].list)
  BY LaneFacts DEF Copy
<1>4. LaneOK(l, "act", lane[l].list)
  BY <1>3 DEF LaneOK
<1>5. lane[l].list \in DOMAIN replies /\ Known(lane[l].list)
  BY <1>1, <1>3, RepliesNumbered DEF LaneOK, Known
<1>6. ListsIn'
  BY <1>1, <1>3 DEF Copy, ListsIn, LaneOK, Numbers
<1>7. Current' \subseteq Current \cup ({lane[l].list} \ {0})
  BY DEF Copy, Current
<1> QED
  BY <1>1, <1>2, <1>4, <1>5, <1>6, <1>7, QuietStep DEF Copy

LEMMA LookKeeps == ASSUME DialogueInv, Look PROVE DialogueInv'
PROOF
<1> DEFINE r == lane[0].ask.n
           found == r \in cards["mem"] \/ (redisUp /\ r \in cards["redis"])
           list == IF found THEN r ELSE 0
<1>1. LanesIn /\ ListsIn /\ RestIn' /\ RepliesOK /\ 0 \in Lanes
  BY RestStays, LanesZero DEF DialogueInv, DialogueTypeOK, Look
<1>2. found => r \in DOMAIN replies /\ Known(r)
  BY Known0 DEF Current
<1>3. list \in Numbers /\ list \in Nat
  BY <1>1, <1>2, RepliesNumbered DEF Numbers
<1>4. list = 0 \/ (list \in DOMAIN replies /\ Known(list))
  BY <1>2
<1>5. lane[0].at = "look" /\ lane' = [lane EXCEPT ![0].list = list, ![0].at = "act"]
  BY DEF Look
<1>6. ListsIn'
  <2>1. cards' \in [{"mem", "redis"} -> SUBSET (1..Len(replies))]
    <3>1. CASE found
      BY <3>1, <1>1, <1>2, RepliesNumbered DEF Look, ListsIn
    <3>2. CASE ~found
      BY <3>2, <1>1 DEF Look, ListsIn
    <3> QED
      BY <3>1, <3>2
  <2> QED
    BY <2>1, <1>1 DEF Look, ListsIn, Numbers
<1>7. Current' \subseteq Current \cup ({list} \ {0})
  <2>1. CASE found
    <3>1. r # 0
      BY <2>1, <1>1, <1>2, RepliesNumbered
    <3> QED
      BY <2>1, <3>1, <1>1 DEF Look, Current, ListsIn
  <2>2. CASE ~found
    BY <2>2 DEF Look, Current
  <2> QED
    BY <2>1, <2>2
<1> HIDE DEF list
<1>8. Moved(0, "act", list)
  BY <1>1, <1>3, <1>5, ListMoves DEF Places, Asking
<1>9. LaneOK(0, "act", list)
  BY <1>3, <1>4 DEF LaneOK, Known
<1> QED
  BY <1>1, <1>4, <1>6, <1>7, <1>8, <1>9, QuietStep DEF Look

LEMMA StageSelectionKeeps ==
  ASSUME DialogueInv, NEW a \in Attempts, StageSelection(a)
  PROVE  DialogueInv'
PROOF
<1>1. LanesIn /\ ListsIn /\ RestIn' /\ RepliesOK /\ a \in Lanes
  BY RestStays, LanesZero DEF DialogueInv, DialogueTypeOK, StageSelection
<1>2. Moved(a, "store", lane[a].list)
  BY <1>1, GoesMoves DEF StageSelection, Places, Asking
<1>3. LaneOK(a, "stage", lane[a].list)
  BY <1>1, LaneFacts DEF StageSelection
<1>4. LaneOK(a, "store", lane[a].list)
  BY <1>3 DEF LaneOK
<1>5. ListsIn' /\ Current' = Current
  BY <1>1, <1>3 DEF StageSelection, copies, ListsIn, LaneOK, Numbers, Current
<1> QED
  BY <1>1, <1>2, <1>4, <1>5, QuietStep DEF StageSelection

LEMMA UnstageKeeps ==
  ASSUME DialogueInv, NEW a \in Attempts, Unstage(a)
  PROVE  DialogueInv'
PROOF
<1>1. LanesIn /\ ListsIn /\ RestIn' /\ RepliesOK /\ a \in Lanes
  BY RestStays, LanesZero DEF DialogueInv, DialogueTypeOK, Unstage
<1>2. Moved(a, "mark", lane[a].list)
  BY <1>1, GoesMoves DEF Unstage, Places, Asking
<1>3. LaneOK(a, "unstage", lane[a].list)
  BY <1>1, LaneFacts DEF Unstage
<1>4. LaneOK(a, "mark", lane[a].list)
  BY <1>3 DEF LaneOK
<1>5. ListsIn' /\ Current' = Current
  BY <1>1, RepliesNumbered DEF Unstage, copies, ListsIn, Numbers, Current
<1> QED
  BY <1>1, <1>2, <1>4, <1>5, QuietStep DEF Unstage

LEMMA IdleOK == ASSUME DialogueInv, NEW l PROVE LaneOK(l, "idle", 0)
PROOF BY RepliesNumbered DEF DialogueInv, DialogueTypeOK, LaneOK, Numbers

LEMMA StopsKeeps == ASSUME DialogueInv, NEW a \in Attempts, Stops(a) PROVE DialogueInv'
PROOF
<1>1. LanesIn /\ RestIn' /\ a \in Lanes
  BY RestStays, LanesZero DEF DialogueInv, DialogueTypeOK, Stops
<1>2. Moved(a, "idle", 0)
  BY <1>1, EndsMoves DEF Stops
<1> QED
  BY <1>1, <1>2, IdleOK, LaneOnlyStep DEF Stops

\* What is published has the dreams of the reply that was delivered.
LEMMA PublishKeeps == ASSUME DialogueInv, NEW a \in Attempts, Publish(a) PROVE DialogueInv'
PROOF
<1>1. LanesIn /\ ListsIn /\ EventIn /\ RestIn' /\ RepliesOK /\ a \in Lanes
  BY RestStays, LanesZero DEF DialogueInv, DialogueTypeOK, Publish
<1> DEFINE list == IF redisUp THEN StagedFor(event.reply) ELSE 0
           at   == IF list = 0 THEN "mark" ELSE "remember"
<1>2. Delivered
  BY <1>1, LaneFacts DEF Publish, LaneOK
<1>3. list \in Numbers /\ list \in Nat
  BY <1>1, RepliesNumbered DEF ListsIn, StagedFor, Numbers
<1>4. list # 0 => WasShown(list)
  <2>1. event.reply \in Shown
    BY <1>1, <1>2, RepliesNumbered DEF Delivered, Shown, EventIn
  <2> QED
    BY <2>1 DEF StagedFor, WasShown
<1>5. lane' = [lane EXCEPT ![a].list = list, ![a].at = at] /\ lane[a].at = "publish"
  BY DEF Publish
<1>6. at \in {"mark", "remember"} /\ (at = "remember" => list # 0)
  OBVIOUS
<1> HIDE DEF list, at
<1>7. Moved(a, at, list)
  BY <1>1, <1>3, <1>5, <1>6, ListMoves DEF Places, Asking
<1>8. LaneOK(a, at, list)
  BY <1>2, <1>3, <1>4, <1>6 DEF LaneOK, Delivered
<1> QED
  BY <1>1, <1>7, <1>8, LaneOnlyStep DEF Publish

\* The last step of remembering: the message of the list.
LEMMA CardRemembered ==
  ASSUME LanesIn, ListsIn, RepliesOK, NEW l \in Lanes, NEW list \in DOMAIN replies, RememberCard(l, list)
  PROVE  /\ \/ Moved(l, "keep card", lane[l].list)
            \/ Moved(l, "idle", lane[l].list) /\ l = 0
            \/ Moved(l, "unstage", lane[l].list) /\ l # 0
         /\ cards' \in [{"mem", "redis"} -> SUBSET (1..Len(replies))]
         /\ cards'["mem"] \subseteq cards["mem"] \cup {list} /\ cards'["redis"] = cards["redis"]
PROOF
<1>1. list \in 1..Len(replies)
  BY RepliesNumbered
<1>2. CASE lane[l].card
  <2>1. cards' = [cards EXCEPT !["mem"] = @ \cup {list}] /\ Goes(l, "keep card")
    BY <1>2 DEF RememberCard
  <2>2. Moved(l, "keep card", lane[l].list)
    BY <2>1, GoesMoves DEF Places, Asking
  <2> QED
    BY <1>1, <2>1, <2>2 DEF ListsIn
<1>3. CASE ~lane[l].card
  <2>1. cards' = cards /\ Goes(l, After(l))
    BY <1>3 DEF RememberCard
  <2>2. Moved(l, After(l), lane[l].list)
    BY <2>1, GoesMoves DEF Places, Asking, After
  <2> QED
    BY <1>1, <2>1, <2>2 DEF ListsIn, After
<1> QED
  BY <1>2, <1>3

LEMMA RememberKeeps == ASSUME DialogueInv, NEW l \in Lanes, Remember(l) PROVE DialogueInv'
PROOF
<1> DEFINE list == lane[l].list
<1>1. LanesIn /\ ListsIn /\ RestIn' /\ RepliesOK
  BY RestStays DEF DialogueInv, DialogueTypeOK, Remember
<1>2. LaneOK(l, "remember", list)
  BY LaneFacts DEF Remember
<1>3. list \in DOMAIN replies /\ Known(list) /\ list \in Numbers /\ list # 0
  BY <1>1, <1>2, RepliesNumbered DEF LaneOK, Known
<1>4. LaneOK(l, "keep", list) /\ LaneOK(l, "keep card", list)
  BY <1>2 DEF LaneOK
<1>5. LaneOK(l, "unstage", list) /\ LaneOK(l, "idle", list)
  BY <1>2 DEF LaneOK
<1>6. CASE /\ replies[list].kind = "list"
           /\ mem' = list /\ Goes(l, "keep") /\ UNCHANGED cards
  <2>1. Moved(l, "keep", list)
    BY <1>1, <1>6, GoesMoves DEF Places, Asking
  <2>2. ListsIn' /\ Current' \subseteq Current \cup ({list} \ {0})
    BY <1>1, <1>3, <1>6 DEF Remember, ListsIn, Numbers, Current
  <2> QED
    BY <1>1, <1>3, <1>4, <2>1, <2>2, QuietStep DEF Remember
<1>7. CASE /\ replies[list].kind = "card"
           /\ RememberCard(l, list) /\ UNCHANGED mem
  <2>1. /\ \/ Moved(l, "keep card", list)
           \/ Moved(l, "idle", list) /\ l = 0
           \/ Moved(l, "unstage", list) /\ l # 0
        /\ cards' \in [{"mem", "redis"} -> SUBSET (1..Len(replies))]
        /\ cards'["mem"] \subseteq cards["mem"] \cup {list} /\ cards'["redis"] = cards["redis"]
    BY <1>1, <1>3, <1>7, CardRemembered
  <2>2. ListsIn' /\ Current' \subseteq Current \cup ({list} \ {0})
    BY <1>1, <1>3, <1>7, <2>1 DEF Remember, ListsIn, Numbers, Current
  <2>3. PICK at \in {"keep card", "idle", "unstage"} : Moved(l, at, list)
    BY <2>1
  <2>4. LaneOK(l, at, list)
    BY <1>4, <1>5
  <2> QED
    BY <1>1, <1>3, <2>2, <2>3, <2>4, QuietStep DEF Remember
<1>8. CASE Goes(l, After(l)) /\ UNCHANGED <<mem, cards>>
  <2>1. Moved(l, After(l), list)
    BY <1>1, <1>8, GoesMoves DEF Places, Asking, After
  <2>2. LaneOK(l, After(l), list)
    BY <1>5 DEF After
  <2>3. ListsIn' /\ Current' \subseteq Current \cup ({list} \ {0})
    BY <1>1, <1>8 DEF Remember, ListsIn, Numbers, Current
  <2> QED
    BY <1>1, <1>3, <2>1, <2>2, <2>3, QuietStep DEF Remember
<1> QED
  BY <1>6, <1>7, <1>8 DEF Remember

LEMMA KeepKeeps == ASSUME DialogueInv, NEW l \in Lanes, Keep(l) PROVE DialogueInv'
PROOF
<1> DEFINE list == lane[l].list
<1>1. LanesIn /\ ListsIn /\ RestIn' /\ RepliesOK
  BY RestStays DEF DialogueInv, DialogueTypeOK, Keep
<1>2. LaneOK(l, "keep", list)
  BY LaneFacts DEF Keep
<1>3. list \in DOMAIN replies /\ Known(list) /\ list \in Numbers /\ list # 0
  BY <1>1, <1>2, RepliesNumbered DEF LaneOK, Known
<1>4. \A at \in {"keep card", "unstage", "idle"} : LaneOK(l, at, list)
  BY <1>2 DEF LaneOK
<1>5. /\ \/ Moved(l, "keep card", list)
         \/ Moved(l, "idle", list) /\ l = 0
         \/ Moved(l, "unstage", list) /\ l # 0
      /\ cards' \in [{"mem", "redis"} -> SUBSET (1..Len(replies))]
      /\ cards'["mem"] \subseteq cards["mem"] \cup {list} /\ cards'["redis"] = cards["redis"]
  BY <1>1, <1>3, CardRemembered DEF Keep
<1>6. ListsIn' /\ Current' \subseteq Current \cup ({list} \ {0})
  BY <1>1, <1>3, <1>5 DEF Keep, ListsIn, Numbers, Current
<1>7. PICK at \in {"keep card", "idle", "unstage"} : Moved(l, at, list)
  BY <1>5
<1> QED
  BY <1>1, <1>3, <1>4, <1>6, <1>7, QuietStep DEF Keep

LEMMA KeepCardKeeps == ASSUME DialogueInv, NEW l \in Lanes, KeepCard(l) PROVE DialogueInv'
PROOF
<1> DEFINE list == lane[l].list
<1>1. LanesIn /\ ListsIn /\ RestIn' /\ RepliesOK
  BY RestStays DEF DialogueInv, DialogueTypeOK, KeepCard
<1>2. LaneOK(l, "keep card", list)
  BY LaneFacts DEF KeepCard
<1>3. list \in DOMAIN replies /\ Known(list) /\ list # 0 /\ list \in 1..Len(replies)
  BY <1>1, <1>2, RepliesNumbered DEF LaneOK, Known
<1>4. LaneOK(l, After(l), list)
  BY <1>2 DEF LaneOK, After
<1>5. Moved(l, After(l), list)
  BY <1>1, GoesMoves DEF KeepCard, Places, Asking, After
<1>6. /\ cards' \in [{"mem", "redis"} -> SUBSET (1..Len(replies))]
      /\ cards'["mem"] = cards["mem"] /\ cards'["redis"] \subseteq cards["redis"] \cup {list}
  BY <1>1, <1>3 DEF KeepCard, ListsIn
<1>7. ListsIn' /\ Current' \subseteq Current \cup ({list} \ {0})
  BY <1>1, <1>3, <1>6 DEF KeepCard, ListsIn, Numbers, Current
<1> QED
  BY <1>1, <1>3, <1>4, <1>5, <1>7, QuietStep DEF KeepCard

\* A step that moves one lane, with the replies and the voice row, and no list.
LEMMA RowStep ==
  ASSUME DialogueInv, Grows, NEW l \in Lanes, Advances(l), UNCHANGED <<copies, staged>>, RestIn',
         NEW at, NEW list, Moved(l, at, list), LaneOK(l, at, list)', EventOK'
  PROVE  DialogueInv'
PROOF
<1>1. RepliesOK /\ ListsIn /\ LanesIn /\ EventIn /\ LanesOK /\ ListsOK
  BY DEF DialogueInv, DialogueTypeOK
<1>2. RepliesOK' /\ EventIn'
  BY DEF Grows, Advances
<1>3. ListsIn' /\ Current' = Current
  BY <1>1, ListsInStay
<1>4. LanesIn' /\ LanesOK'
  BY <1>1, LanesKeep
<1>5. Current' \subseteq Current \cup ({0} \ {0})
  BY <1>3
<1>6. ListsOK'
  BY <1>1, <1>5, ListsKeep
<1> QED
  BY <1>2, <1>3, <1>4, <1>6 DEF DialogueInv, DialogueTypeOK

LEMMA SendingOne ==
  ASSUME RepliesOK, NEW r \in DOMAIN replies, replies' = [replies EXCEPT ![r].sent = TRUE]
  PROVE  /\ Grows /\ Numbers' = Numbers /\ replies'[r].sent /\ Shown' = Shown \cup {r}
         /\ replies'[r].by = replies[r].by
PROOF
<1>1. /\ Len(replies) \in Nat /\ DOMAIN replies = 1..Len(replies)
      /\ replies \in [1..Len(replies) -> ReplyRows]
  BY RepliesNumbered DEF RepliesOK
<1>2. [replies[r] EXCEPT !.sent = TRUE] \in ReplyRows
  BY <1>1 DEF ReplyRows
<1>3. replies' = [replies EXCEPT ![r] = [replies[r] EXCEPT !.sent = TRUE]]
  OBVIOUS
<1>4. replies' \in [1..Len(replies) -> ReplyRows]
  BY <1>1, <1>2, <1>3
<1>5. replies' \in Seq(ReplyRows) /\ DOMAIN replies' = DOMAIN replies
  BY <1>1, <1>4
<1>6. Len(replies') = Len(replies)
  BY <1>1, <1>5
<1>7. ASSUME NEW x \in DOMAIN replies
      PROVE  /\ replies'[x].kind = replies[x].kind /\ replies'[x].dreams = replies[x].dreams
             /\ replies'[x].by = replies[x].by /\ replies'[x].on = replies[x].on
             /\ x = r => replies'[x].sent
             /\ x # r => replies'[x] = replies[x]
  <2>1. CASE x = r
    <3>1. replies'[x] = [replies[r] EXCEPT !.sent = TRUE] /\ replies[r] \in ReplyRows
      BY <2>1, <1>1, <1>3
    <3> QED
      BY <2>1, <3>1 DEF ReplyRows
  <2>2. CASE x # r
    BY <2>2, <1>1, <1>3
  <2> QED
    BY <2>1, <2>2
<1>8. RepliesOK' /\ Numbers' = Numbers
  BY <1>5, <1>6, <1>7 DEF RepliesOK, Numbers
<1>9. \A x \in DOMAIN replies : replies[x].sent => replies'[x].sent
  BY <1>7
<1>10. Grows
  BY <1>5, <1>7, <1>8, <1>9 DEF Grows
<1>11. Shown' = Shown \cup {r}
  BY <1>5, <1>7 DEF Shown
<1> QED
  BY <1>7, <1>8, <1>10, <1>11

LEMMA TextSendsKeeps == ASSUME DialogueInv, TextSends PROVE DialogueInv'
PROOF
<1>0. PICK r : r = lane[0].list
  OBVIOUS
<1>1. LanesIn /\ EventIn /\ EventOK /\ RestIn' /\ RepliesOK /\ 0 \in Lanes /\ LaneOK(0, "send", r)
  BY <1>0, RestStays, LanesZero, LaneFacts DEF DialogueInv, DialogueTypeOK, TextSends
<1>2. r \in DOMAIN replies /\ r \in Numbers /\ replies[r].by = "text"
  BY <1>1, RepliesNumbered DEF LaneOK
<1>3. CASE replies' = [replies EXCEPT ![r].sent = TRUE] /\ (Goes(0, "remember") \/ Ends(0))
  <2>1. Grows /\ Numbers' = Numbers /\ replies'[r].sent /\ Shown' = Shown \cup {r}
        /\ replies'[r].by = "text"
    BY <1>1, <1>2, <1>3, SendingOne
  <2>2. Advances(0) /\ event' = event
    BY <1>1, <2>1, SameEvent DEF TextSends
  <2>3. Delivered => Delivered'
    BY <1>1, <2>1, <2>2, SentStays
  <2>4. EventOK'
    BY <1>1, <2>1, <2>2, <2>3, EventKeeps DEF EventOK
  <2>5. WasShown(r)'
    BY <2>1 DEF WasShown
  <2>6. LaneOK(0, "remember", r)' /\ LaneOK(0, "idle", 0)'
    BY <1>1, <1>2, <2>1, <2>5, RepliesNumbered DEF LaneOK, Numbers
  <2>7. Moved(0, "remember", r) \/ Moved(0, "idle", 0)
    BY <1>0, <1>1, <1>3, GoesMoves, EndsMoves DEF Places, Asking
  <2> QED
    BY <1>1, <2>1, <2>2, <2>4, <2>6, <2>7, RowStep DEF TextSends
<1>4. CASE Ends(0) /\ UNCHANGED replies
  <2>1. Moved(0, "idle", 0)
    BY <1>1, <1>4, EndsMoves
  <2> QED
    BY <1>1, <1>4, <2>1, IdleOK, LaneOnlyStep DEF TextSends
<1> QED
  BY <1>0, <1>3, <1>4 DEF TextSends

LEMMA VoiceSendsKeeps == ASSUME DialogueInv, NEW a \in Attempts, VoiceSends(a) PROVE DialogueInv'
PROOF
<1> DEFINE r == event.reply
<1>0. PICK s : s = lane[a].list
  OBVIOUS
<1>1. LanesIn /\ EventIn /\ EventOK /\ RestIn' /\ RepliesOK /\ a \in Lanes
  BY RestStays, LanesZero DEF DialogueInv, DialogueTypeOK, VoiceSends
<1>2. LaneOK(a, "deliver", lane[a].list)
  BY <1>1, LaneFacts DEF VoiceSends
<1>3. r \in DOMAIN replies
  BY <1>1, <1>2, RepliesNumbered DEF LaneOK, EventIn
<1>4. CASE event.owner # a /\ Ends(a) /\ UNCHANGED replies
  <2>1. Moved(a, "idle", 0)
    BY <1>1, <1>4, EndsMoves
  <2> QED
    BY <1>1, <1>4, <2>1, IdleOK, LaneOnlyStep DEF VoiceSends
<1>5. CASE event.sent /\ Goes(a, "publish") /\ UNCHANGED replies
  <2>1. Moved(a, "publish", lane[a].list)
    BY <1>1, <1>5, GoesMoves DEF Places, Asking
  <2>2. LaneOK(a, "publish", lane[a].list)
    BY <1>1, <1>2, <1>5 DEF LaneOK, EventOK
  <2> QED
    BY <1>1, <1>5, <2>1, <2>2, LaneOnlyStep DEF VoiceSends
<1>6. CASE replies' = [replies EXCEPT ![r].sent = TRUE] /\ Goes(a, "progress")
  <2>1. Grows /\ Numbers' = Numbers /\ replies'[r].sent /\ Shown' = Shown \cup {r}
    BY <1>1, <1>3, <1>6, SendingOne
  <2>2. Advances(a) /\ event' = event
    BY <1>1, <2>1, SameEvent DEF VoiceSends
  <2>3. Delivered'
    BY <1>1, <1>2, <2>1, <2>2 DEF Delivered, LaneOK
  <2>4. EventOK'
    BY <1>1, <2>1, <2>2, <2>3, EventKeeps DEF EventOK
  <2>5. Moved(a, "progress", s)
    BY <1>0, <1>1, <1>6, GoesMoves DEF Places, Asking
  <2>6. LaneOK(a, "progress", s)'
    BY <1>0, <1>2, <2>1, <2>2, <2>3 DEF LaneOK, Delivered
  <2> QED
    BY <1>1, <2>1, <2>2, <2>4, <2>5, <2>6, RowStep DEF VoiceSends
<1> QED
  BY <1>4, <1>5, <1>6 DEF VoiceSends

LEMMA VoiceRowMade ==
  ASSUME NEW e \in VoiceRows, NEW owner \in Nat, NEW reply \in Nat
  PROVE  /\ [e EXCEPT !.owner = owner]
              = [ask |-> e.ask, owner |-> owner, reply |-> e.reply, sent |-> e.sent, done |-> e.done]
         /\ [e EXCEPT !.reply = reply]
              = [ask |-> e.ask, owner |-> e.owner, reply |-> reply, sent |-> e.sent, done |-> e.done]
         /\ [e EXCEPT !.sent = TRUE]
              = [ask |-> e.ask, owner |-> e.owner, reply |-> e.reply, sent |-> TRUE, done |-> e.done]
         /\ \A d \in BOOLEAN : [e EXCEPT !.done = d]
              = [ask |-> e.ask, owner |-> e.owner, reply |-> e.reply, sent |-> e.sent, done |-> d]
PROOF
<1>1. [e EXCEPT !.owner = owner]
        = [ask |-> e.ask, owner |-> owner, reply |-> e.reply, sent |-> e.sent, done |-> e.done]
  BY DEF VoiceRows
<1>2. [e EXCEPT !.reply = reply]
        = [ask |-> e.ask, owner |-> e.owner, reply |-> reply, sent |-> e.sent, done |-> e.done]
  BY DEF VoiceRows
<1>3. [e EXCEPT !.sent = TRUE]
        = [ask |-> e.ask, owner |-> e.owner, reply |-> e.reply, sent |-> TRUE, done |-> e.done]
  <2>1. ASSUME NEW c \in BOOLEAN
        PROVE  [e EXCEPT !.sent = c]
                 = [ask |-> e.ask, owner |-> e.owner, reply |-> e.reply, sent |-> c, done |-> e.done]
    BY DEF VoiceRows
  <2>2. TRUE \in BOOLEAN
    OBVIOUS
  <2> QED
    BY <2>1, <2>2, Zenon
<1>4. ASSUME NEW d \in BOOLEAN
      PROVE  [e EXCEPT !.done = d]
               = [ask |-> e.ask, owner |-> e.owner, reply |-> e.reply, sent |-> e.sent, done |-> d]
  BY DEF VoiceRows
<1> QED
  BY <1>1, <1>2, <1>3, <1>4

LEMMA VoiceRowFields ==
  ASSUME NEW e \in VoiceRows
  PROVE  /\ e.ask \in VoiceAsks /\ e.owner \in Nat /\ e.reply \in Nat
         /\ e.sent \in BOOLEAN /\ e.done \in BOOLEAN
PROOF BY DEF VoiceRows

LEMMA VoiceClaimsKeeps == ASSUME DialogueInv, NEW a \in Attempts, VoiceClaims(a) PROVE DialogueInv'
PROOF
<1> DEFINE at == IF event.reply # 0 THEN "deliver" ELSE IF event.ask.do = "tell" THEN "act" ELSE "load"
<1>1. LanesIn /\ EventIn /\ EventOK /\ RepliesOK /\ RestIn' /\ a \in Lanes /\ a # 0 /\ a \in Nat
  BY RestStays, LanesZero DEF DialogueInv, DialogueTypeOK, VoiceClaims
<1>2. event \in VoiceRows /\ event.ask \in VoiceAsks
  BY <1>1, VoiceRowFields DEF EventIn
<1>3. event' = [ask |-> event.ask, owner |-> a, reply |-> event.reply, sent |-> event.sent,
                done |-> event.done]
  BY <1>1, <1>2, VoiceRowFields, VoiceRowMade DEF VoiceClaims
<1>4. event' \in VoiceRows /\ event'.owner = a /\ event'.reply = event.reply /\ event'.sent = event.sent
  BY <1>1, <1>2, <1>3, VoiceRowFields DEF VoiceRows
<1>5. Grows /\ Shown' = Shown /\ Numbers' = Numbers
  BY <1>1, SameReplies DEF VoiceClaims
<1>6. Advances(a)
  BY <1>1, <1>4, <1>5 DEF Advances, EventIn
<1>7. event'.sent => Delivered'
  BY <1>1, <1>4 DEF EventOK, Delivered, VoiceClaims
<1>8. EventOK'
  BY <1>1, <1>4, <1>5, <1>6, <1>7, EventKeeps
<1>9. event.ask \in Asks /\ event.ask.do # "chat"
  BY <1>2, DialogueAssumption
<1>10. PICK place \in {"deliver", "act", "load"} : place = at
  OBVIOUS
<1>11. lane' = [lane EXCEPT ![a] = [Idle EXCEPT !.ask = event.ask, !.at = place]]
  BY <1>10 DEF VoiceClaims
<1>12. place \in Places
  BY DEF Places
<1>13. Moved(a, place, 0)
  BY <1>1, <1>9, <1>11, <1>12, AskMoves
<1>14. LaneOK(a, place, 0)'
  BY <1>4, <1>5, <1>10, IdleOK DEF LaneOK
<1> QED
  BY <1>1, <1>5, <1>6, <1>8, <1>13, <1>14, RowStep DEF VoiceClaims

\* The reply is stored once, and before that none of the voice message has been shown.
LEMMA StoreReplyKeeps == ASSUME DialogueInv, NEW a \in Attempts, StoreReply(a) PROVE DialogueInv'
PROOF
<1>0. PICK s : s = lane[a].list
  OBVIOUS
<1>1. LanesIn /\ EventIn /\ EventOK /\ RepliesOK /\ RestIn' /\ a \in Lanes /\ a # 0
  BY RestStays, LanesZero DEF DialogueInv, DialogueTypeOK, StoreReply
<1>2. LaneOK(a, "store", s)
  BY <1>0, <1>1, LaneFacts DEF StoreReply
<1>3. CASE event.owner = a /\ event' = [event EXCEPT !.reply = s] /\ Goes(a, "deliver")
  <2>1. event.reply = 0 /\ s # 0 /\ s \in Numbers /\ TextBased(s)
    BY <1>1, <1>2, <1>3 DEF LaneOK
  <2>2. event \in VoiceRows /\ s \in Nat
    BY <1>1, <2>1, RepliesNumbered DEF EventIn, Numbers
  <2>3. event' = [ask |-> event.ask, owner |-> event.owner, reply |-> s, sent |-> event.sent,
                  done |-> event.done]
    BY <1>3, <2>2, VoiceRowFields, VoiceRowMade
  <2>4. event' \in VoiceRows /\ event'.owner = a /\ event'.reply = s /\ event'.sent = event.sent
    BY <1>3, <2>2, <2>3, VoiceRowFields DEF VoiceRows
  <2>5. Grows /\ Shown' = Shown /\ Numbers' = Numbers /\ TextBased(s)' = TextBased(s)
    BY <1>1, SameReplies DEF StoreReply
  <2>6. Advances(a)
    BY <2>1, <2>4, <2>5 DEF Advances, EventIn
  <2>7. ~event.sent
    BY <1>1, <2>1 DEF EventOK, Delivered
  <2>8. \A r \in Shown' : replies'[r].by # "voice"
    <3>1. ASSUME NEW r \in Shown PROVE replies[r].by # "voice"
      <4>1. r # 0
        BY <1>1, RepliesNumbered DEF Shown
      <4> QED
        BY <1>1, <2>1, <4>1 DEF EventOK
    <3> QED
      BY <2>5, <3>1 DEF StoreReply
  <2>9. (event.reply # 0 => TextBased(event.reply))'
    BY <2>1, <2>4 DEF StoreReply, TextBased
  <2>10. EventOK'
    BY <2>4, <2>7, <2>8, <2>9 DEF EventOK
  <2>11. Moved(a, "deliver", s)
    BY <1>0, <1>1, <1>3, GoesMoves DEF Places, Asking
  <2>12. LaneOK(a, "deliver", s)'
    BY <2>1, <2>4, <2>5 DEF LaneOK
  <2> QED
    BY <1>1, <2>5, <2>6, <2>10, <2>11, <2>12, RowStep DEF StoreReply
<1>4. CASE UNCHANGED event /\ Ends(a)
  <2>1. Moved(a, "idle", 0)
    BY <1>1, <1>4, EndsMoves
  <2> QED
    BY <1>1, <1>4, <2>1, IdleOK, LaneOnlyStep DEF StoreReply
<1> QED
  BY <1>0, <1>3, <1>4 DEF StoreReply

LEMMA ProgressKeeps == ASSUME DialogueInv, NEW a \in Attempts, Progress(a) PROVE DialogueInv'
PROOF
<1>0. PICK s : s = lane[a].list
  OBVIOUS
<1>1. LanesIn /\ EventIn /\ EventOK /\ RepliesOK /\ RestIn' /\ a \in Lanes
  BY RestStays, LanesZero DEF DialogueInv, DialogueTypeOK, Progress
<1>2. LaneOK(a, "progress", s)
  BY <1>0, <1>1, LaneFacts DEF Progress
<1>3. CASE event' = [event EXCEPT !.sent = TRUE]
           /\ lane' = [lane EXCEPT ![a].at = "publish", ![a].card = TRUE]
  <2>1. event \in VoiceRows
    BY <1>1 DEF EventIn
  <2>2. event' = [ask |-> event.ask, owner |-> event.owner, reply |-> event.reply, sent |-> TRUE,
                  done |-> event.done]
    BY <1>3, <2>1, VoiceRowFields, VoiceRowMade
  <2>3. event' \in VoiceRows /\ event'.owner = event.owner /\ event'.reply = event.reply
    BY <2>1, <2>2, VoiceRowFields DEF VoiceRows
  <2>4. Grows /\ Shown' = Shown /\ Numbers' = Numbers
    BY <1>1, SameReplies DEF Progress
  <2>5. Advances(a)
    BY <1>1, <2>3, <2>4 DEF Advances, EventIn
  <2>6. Delivered'
    BY <1>2, <2>3 DEF LaneOK, Delivered, Progress
  <2>7. EventOK'
    BY <1>1, <2>3, <2>4, <2>5, <2>6, EventKeeps
  <2>8. Moved(a, "publish", s)
    BY <1>0, <1>1, <1>3, CardMoves DEF Places, Asking
  <2>9. LaneOK(a, "publish", s)'
    BY <1>2, <2>3, <2>4, <2>6 DEF LaneOK, Delivered
  <2> QED
    BY <1>1, <2>4, <2>5, <2>7, <2>8, <2>9, RowStep DEF Progress
<1>4. CASE UNCHANGED event /\ Ends(a)
  <2>1. Moved(a, "idle", 0)
    BY <1>1, <1>4, EndsMoves
  <2> QED
    BY <1>1, <1>4, <2>1, IdleOK, LaneOnlyStep DEF Progress
<1> QED
  BY <1>3, <1>4 DEF Progress

LEMMA MarkKeeps == ASSUME DialogueInv, NEW a \in Attempts, Mark(a) PROVE DialogueInv'
PROOF
<1>1. LanesIn /\ EventIn /\ EventOK /\ RepliesOK /\ RestIn' /\ a \in Lanes
  BY RestStays, LanesZero DEF DialogueInv, DialogueTypeOK, Mark
<1>2. event \in VoiceRows
  BY <1>1 DEF EventIn
<1> DEFINE d == event.done \/ event.owner = a
<1>3. d \in BOOLEAN
  BY <1>2, VoiceRowFields
<1>4. event' = [event EXCEPT !.done = d]
  BY DEF Mark
<1> HIDE DEF d
<1>5. event' = [ask |-> event.ask, owner |-> event.owner, reply |-> event.reply, sent |-> event.sent,
                done |-> d]
  BY <1>2, <1>3, <1>4, VoiceRowFields, VoiceRowMade
<1>6. event' \in VoiceRows /\ event'.owner = event.owner /\ event'.reply = event.reply
      /\ event'.sent = event.sent
  BY <1>2, <1>3, <1>5, VoiceRowFields DEF VoiceRows
<1>7. Grows /\ Shown' = Shown /\ Numbers' = Numbers
  BY <1>1, SameReplies DEF Mark
<1>8. Advances(a)
  BY <1>1, <1>6, <1>7 DEF Advances, EventIn
<1>9. event'.sent => Delivered'
  BY <1>1, <1>6 DEF EventOK, Delivered, Mark
<1>10. EventOK'
  BY <1>1, <1>6, <1>7, <1>8, <1>9, EventKeeps
<1>11. Moved(a, "idle", 0)
  BY <1>1, EndsMoves DEF Mark
<1>12. LaneOK(a, "idle", 0)'
  BY <1>7, IdleOK DEF LaneOK
<1> QED
  BY <1>1, <1>7, <1>8, <1>10, <1>11, <1>12, RowStep DEF Mark

\* A reply is composed: the next one, not sent yet.
LEMMA Composing ==
  ASSUME RepliesOK, LanesIn, NEW l \in Lanes, lane[l].list \in Numbers,
         NEW kind \in Kinds, NEW dreams \in Seq(Nat), Compose(l, Reply(kind, dreams)),
         NEW n, n = Len(replies) + 1
  PROVE  /\ Grows /\ Shown' = Shown /\ n \in Numbers' /\ n # 0
         /\ replies'[n].by = (IF l = 0 THEN "text" ELSE "voice") /\ replies'[n].on = lane[l].list
         /\ Moved(l, IF l = 0 THEN "send" ELSE "stage", n)
PROOF
<1> DEFINE new == [kind |-> kind, dreams |-> dreams, by |-> IF l = 0 THEN "text" ELSE "voice",
                   on |-> lane[l].list, sent |-> FALSE]
           at  == IF l = 0 THEN "send" ELSE "stage"
<1>1. Len(replies) \in Nat /\ DOMAIN replies = 1..Len(replies) /\ replies \in Seq(ReplyRows)
  BY RepliesNumbered DEF RepliesOK
<1>2. new \in ReplyRows
  BY <1>1 DEF ReplyRows, Numbers
<1>3. replies' = Append(replies, new)
  BY DEF Compose, Reply
<1>4. new.on = lane[l].list /\ new.sent = FALSE /\ new.by = (IF l = 0 THEN "text" ELSE "voice")
  OBVIOUS
<1> HIDE DEF new
<1>5. replies' \in Seq(ReplyRows) /\ Len(replies') = n /\ DOMAIN replies' = 1..n
      /\ replies'[n] = new /\ \A r \in DOMAIN replies : replies'[r] = replies[r]
  BY <1>1, <1>2, <1>3
<1>6. Numbers' = 0..n /\ Numbers \subseteq 0..n
  BY <1>1, <1>5 DEF Numbers
<1>7. \A r \in 1..n : r = n \/ r \in DOMAIN replies
  BY <1>1
<1>8. RepliesOK'
  <2>1. \A r \in DOMAIN replies' : replies'[r].on \in Numbers'
    BY <1>4, <1>5, <1>6, <1>7 DEF RepliesOK
  <2> QED
    BY <1>5, <2>1 DEF RepliesOK
<1>9. DOMAIN replies \subseteq DOMAIN replies'
  BY <1>1, <1>5
<1>10. Grows
  BY <1>5, <1>8, <1>9 DEF Grows
<1>11. Shown' = Shown
  BY <1>4, <1>5, <1>7, <1>9 DEF Shown
<1>12. lane' = [lane EXCEPT ![l] = [Idle EXCEPT !.at = at, !.list = n, !.card = (l = 0)]]
  BY DEF Compose
<1>13. Moved(l, at, n)
  <2>1. PICK card \in BOOLEAN : card = (l = 0)
    OBVIOUS
  <2>2. PICK place \in Places : place = at
    BY DEF Places
  <2> DEFINE x == [at |-> place, ask |-> Idle.ask, list |-> 0, card |-> FALSE]
             y == [at |-> place, ask |-> Idle.ask, list |-> n, card |-> FALSE]
             z == [at |-> place, ask |-> Idle.ask, list |-> n, card |-> card]
  <2>3. Idle.ask \in Asks /\ Idle.list = 0 /\ Idle.card = FALSE /\ n \in Nat
    BY <1>1, IdleLane, LaneFields DEF Idle
  <2>4. x \in LaneStates /\ y \in LaneStates /\ z \in LaneStates
    <3>1. FALSE \in BOOLEAN /\ 0 \in Nat
      OBVIOUS
    <3> QED
      BY <2>3, <3>1, LaneMade, Zenon
  <2>5. [Idle EXCEPT !.at = place] = x
    BY <2>3, IdleLane, FieldPut
  <2>6. [x EXCEPT !.list = n] = y
    <3> HIDE DEF x
    <3>1. x.at \in Places /\ x.ask \in Asks /\ x.card \in BOOLEAN
      BY <2>4, LaneFields
    <3>2. [x EXCEPT !.list = n] = [at |-> x.at, ask |-> x.ask, list |-> n, card |-> x.card]
      BY <2>3, <2>4, <3>1, FieldPut, Zenon
    <3> USE DEF x
    <3> QED
      BY <3>2
  <2>7. [y EXCEPT !.card = card] = z
    <3> HIDE DEF y
    <3>1. y.at \in Places /\ y.ask \in Asks /\ y.list \in Nat
      BY <2>4, LaneFields
    <3>2. [y EXCEPT !.card = card] = [at |-> y.at, ask |-> y.ask, list |-> y.list, card |-> card]
      BY <2>4, <3>1, FieldPut, Zenon
    <3> USE DEF y
    <3> QED
      BY <3>2
  <2>8. [Idle EXCEPT !.at = place, !.list = n, !.card = card] = z
    BY <2>5, <2>6, <2>7
  <2>9. lane' = [lane EXCEPT ![l] = z]
    BY <1>12, <2>1, <2>2, <2>8
  <2>10. z.at = place /\ z.list = n /\ place \notin Asking
    BY <2>2 DEF Asking
  <2> HIDE DEF z
  <2> QED
    BY <2>2, <2>4, <2>9, <2>10, LanePut
<1> QED
  BY <1>1, <1>4, <1>5, <1>6, <1>10, <1>11, <1>13

LEMMA ComposeKeeps ==
  ASSUME DialogueInv, NEW l \in Lanes, lane[l].at = "act", NEW kind \in Kinds, NEW dreams \in Seq(Nat),
         Compose(l, Reply(kind, dreams)), UNCHANGED <<copies, staged, event>>, RestIn'
  PROVE  DialogueInv'
PROOF
<1>0. PICK n : n = Len(replies) + 1
  OBVIOUS
<1>1. LanesIn /\ EventIn /\ EventOK /\ RepliesOK
  BY DEF DialogueInv, DialogueTypeOK
<1>2. LaneOK(l, "act", lane[l].list) /\ lane[l].list \in Numbers
  BY LaneFacts
<1>3. /\ Grows /\ Shown' = Shown /\ n \in Numbers' /\ n # 0
      /\ replies'[n].by = (IF l = 0 THEN "text" ELSE "voice") /\ replies'[n].on = lane[l].list
      /\ Moved(l, IF l = 0 THEN "send" ELSE "stage", n)
  BY <1>0, <1>1, <1>2, Composing
<1>4. Advances(l) /\ event' = event
  BY <1>1, <1>3, SameEvent
<1>5. event'.sent => Delivered'
  BY <1>1, <1>3, <1>4, SentStays DEF EventOK
<1>6. EventOK'
  BY <1>1, <1>3, <1>4, <1>5, EventKeeps
<1>7. CASE l = 0
  <2>1. LaneOK(l, "send", n)'
    BY <1>3, <1>7 DEF LaneOK
  <2>2. Moved(l, "send", n)
    BY <1>3, <1>7
  <2> QED
    BY <1>3, <1>4, <1>6, <2>1, <2>2, RowStep
<1>8. CASE l # 0
  <2>1. ASSUME l = event.owner PROVE TextBased(n)' /\ event.reply = 0
    <3>1. event.reply = 0
      BY <1>2, <1>8, <2>1 DEF LaneOK
    <3>2. PICK s : s = lane[l].list
      OBVIOUS
    <3>3. CASE s # 0
      <4>1. s \in DOMAIN replies /\ replies[s].by # "voice"
        BY <1>1, <1>2, <3>1, <3>2, <3>3, RepliesNumbered DEF LaneOK
      <4>2. replies'[s].by = "text"
        BY <1>1, <1>3, <4>1, RepliesNumbered, RowOfReply DEF Grows
      <4> QED
        BY <1>3, <3>1, <3>2, <4>2 DEF TextBased
    <3>4. CASE s = 0
      BY <1>3, <3>1, <3>2, <3>4 DEF TextBased
    <3> QED
      BY <3>3, <3>4
  <2>2. LaneOK(l, "stage", n)'
    BY <1>3, <1>4, <1>8, <2>1 DEF LaneOK
  <2>3. Moved(l, "stage", n)
    BY <1>3, <1>8
  <2> QED
    BY <1>3, <1>4, <1>6, <2>2, <2>3, RowStep
<1> QED
  BY <1>7, <1>8

-----------------------------------------------------------------------------
(* What is answered has its dreams, and its kind.                           *)

Composed(x) == \E kind \in Kinds, dreams \in Seq(Nat) : x = Reply(kind, dreams)

LEMMA ReplyComposed ==
  ASSUME NEW kind \in {"list", "card", "plain"}, NEW dreams \in Seq(Nat)
  PROVE  Composed(Reply(kind, dreams))
PROOF BY DEF Composed, Kinds

LEMMA DreamsTyped ==
  ASSUME RepliesOK, NEW r \in Numbers
  PROVE  DreamsOf(r) \in Seq(Nat)
PROOF
<1>1. CASE r = 0
  BY <1>1 DEF DreamsOf
<1>2. CASE r # 0
  BY <1>2, RepliesNumbered, RowOfReply DEF DreamsOf
<1> QED
  BY <1>1, <1>2

LEMMA WithoutTyped ==
  ASSUME NEW s \in Seq(Nat), NEW n \in DOMAIN s
  PROVE  Without(s, n) \in Seq(Nat)
PROOF
<1>1. Len(s) \in Nat /\ n \in 1..Len(s) /\ Len(s) - 1 \in Nat
  OBVIOUS
<1>2. ASSUME NEW i \in 1..(Len(s) - 1) PROVE (IF i < n THEN s[i] ELSE s[i + 1]) \in Nat
  BY <1>1
<1>3. Without(s, n) \in [1..(Len(s) - 1) -> Nat]
  BY <1>2 DEF Without
<1> QED
  BY <1>1, <1>3

LEMMA AskFields ==
  ASSUME NEW ask \in Asks
  PROVE  /\ ask.dreams \in Seq(Nat) /\ ask.n \in Nat
         /\ ask.do \in {"chat", "find", "text", "press", "show", "remove", "keep", "open",
                        "analyse", "tell", "save", "note", "reply note"}
PROOF BY DEF Asks

LEMMA OneDream == ASSUME NEW n \in Nat PROVE <<n>> \in Seq(Nat)
PROOF OBVIOUS

LEMMA NoDreams == <<>> \in Seq(Nat)
PROOF OBVIOUS

LEMMA SelectedComposed ==
  ASSUME NEW ask \in Asks, ask.do \in {"show", "remove", "keep", "open"}, NEW s \in Seq(Nat)
  PROVE  Composed(Selected(ask, s))
PROOF
<1>1. CASE s = <<>> \/ (ask.do # "show" /\ ask.n \notin DOMAIN s)
  <2>1. <<>> \in Seq(Nat)
    OBVIOUS
  <2> QED
    BY <1>1, <2>1, ReplyComposed DEF Selected, Refusal
<1>2. CASE ~(s = <<>> \/ (ask.do # "show" /\ ask.n \notin DOMAIN s))
  <2>1. CASE ask.do = "show"
    BY <1>2, <2>1, ReplyComposed DEF Selected
  <2>2. CASE ask.do # "show"
    <3>1. ask.n \in DOMAIN s
      BY <1>2, <2>2
    <3>2. s[ask.n] \in Nat /\ Without(s, ask.n) \in Seq(Nat)
      BY <3>1, WithoutTyped
    <3>3. <<s[ask.n]>> \in Seq(Nat)
      BY <3>2, OneDream
    <3> QED
      BY <1>2, <2>2, <3>2, <3>3, ReplyComposed DEF Selected
  <2> QED
    BY <2>1, <2>2
<1> QED
  BY <1>1, <1>2

LEMMA AnswerComposed ==
  ASSUME RepliesOK, ListsIn, NEW list \in Numbers, NEW ask \in Asks,
         ask.do \notin {"chat", "tell", "save", "note", "reply note"}
  PROVE  Composed(AnswerTo(ask, list))
PROOF
<1>1. ask.dreams \in Seq(Nat) /\ ask.n \in Nat /\ <<ask.n>> \in Seq(Nat)
  BY AskFields, OneDream
<1>2. ask.do \in {"find", "text", "press", "show", "remove", "keep", "open", "analyse"}
  BY AskFields
<1>3. DreamsOf(list) \in Seq(Nat) /\ DreamsOf(mem) \in Seq(Nat) /\ <<>> \in Seq(Nat)
  <2>1. <<>> \in Seq(Nat)
    BY NoDreams
  <2>2. mem \in Numbers
    BY DEF ListsIn
  <2> QED
    BY <2>1, <2>2, DreamsTyped
<1>4. CASE ask.do = "find"
  BY <1>1, <1>4, ReplyComposed DEF AnswerTo
<1>5. CASE ask.do = "text"
  BY <1>1, <1>5, ReplyComposed DEF AnswerTo, FullText
<1>6. CASE ask.do = "press"
  BY <1>1, <1>6, ReplyComposed DEF AnswerTo, Pressed
<1>7. CASE ask.do = "analyse"
  <2>1. Composed(Analysed(list))
    <3>1. CASE list # 0 /\ DreamsOf(list) # <<>>
      BY <1>3, <3>1, ReplyComposed DEF Analysed
    <3>2. CASE list = 0 /\ DreamsOf(mem) # <<>>
      BY <1>3, <3>2, ReplyComposed DEF Analysed
    <3>3. CASE ~(list # 0 /\ DreamsOf(list) # <<>>) /\ ~(list = 0 /\ DreamsOf(mem) # <<>>)
      BY <1>3, <3>3, ReplyComposed DEF Analysed, Refusal
    <3> QED
      BY <3>1, <3>2, <3>3
  <2> QED
    BY <1>7, <2>1 DEF AnswerTo
<1>8. CASE ask.do \in {"show", "remove", "keep", "open"}
  <2>1. Composed(Selected(ask, DreamsOf(list)))
    BY <1>3, <1>8, SelectedComposed
  <2> QED
    BY <1>8, <2>1 DEF AnswerTo
<1> QED
  BY <1>2, <1>4, <1>5, <1>6, <1>7, <1>8

LEMMA ActKeeps == ASSUME DialogueInv, NEW l \in Lanes, Act(l) PROVE DialogueInv'
PROOF
<1>1. RepliesOK /\ ListsIn /\ RestIn'
  BY RestStays DEF DialogueInv, DialogueTypeOK, Act
<1>2. lane[l].ask \in Asks /\ lane[l].list \in Numbers /\ lane[l].at = "act" /\ lane[l].ask.do # "chat"
  BY LaneFacts DEF Act, Asking
<1>3. lane[l].ask.do \notin {"chat", "tell", "save", "note", "reply note"}
  BY <1>2 DEF Act
<1>4. Composed(AnswerTo(lane[l].ask, lane[l].list))
  BY <1>1, <1>2, <1>3, AnswerComposed
<1>5. PICK kind \in Kinds, dreams \in Seq(Nat) : AnswerTo(lane[l].ask, lane[l].list) = Reply(kind, dreams)
  BY <1>4 DEF Composed
<1>6. Compose(l, Reply(kind, dreams))
  BY <1>5 DEF Act
<1> QED
  BY <1>1, <1>2, <1>6, ComposeKeeps DEF Act

\* A capture has a key, and the dream of that key.
LEMMA CapturedKey ==
  ASSUME captured \in Seq(Nat), NEW key \in Nat
  PROVE  Captured(key) \in Seq(Nat) /\ \E i \in DOMAIN Captured(key) : Captured(key)[i] = key
PROOF
<1>1. CASE \E i \in DOMAIN captured : captured[i] = key
  BY <1>1 DEF Captured
<1>2. CASE ~\E i \in DOMAIN captured : captured[i] = key
  <2>1. Captured(key) = Append(captured, key)
    BY <1>2 DEF Captured
  <2>2. Append(captured, key) \in Seq(Nat) /\ Len(Append(captured, key)) = Len(captured) + 1
        /\ Append(captured, key)[Len(captured) + 1] = key
    OBVIOUS
  <2>3. Len(captured) + 1 \in DOMAIN Append(captured, key)
    BY <2>2
  <2> QED
    BY <2>1, <2>2, <2>3
<1> QED
  BY <1>1, <1>2

LEMMA CaptureKeeps == ASSUME DialogueInv, NEW l \in Lanes, Capture(l) PROVE DialogueInv'
PROOF
<1>1. RestIn
  BY DEF DialogueInv, DialogueTypeOK
<1>2. KeyOf(l) \in Nat /\ captured \in Seq(Nat)
  BY <1>1 DEF KeyOf, VoiceKey, RestIn
<1>3. captured' = Captured(KeyOf(l))
  BY DEF Capture
<1>4. captured' \in Seq(Nat) /\ \E i \in DOMAIN captured' : captured'[i] = KeyOf(l)
  BY <1>2, <1>3, CapturedKey
<1>5. PICK new \in DOMAIN captured' :
        new = CHOOSE i \in DOMAIN captured' : captured'[i] = KeyOf(l)
  BY <1>4
<1>6. Archive + new \in Nat
  <2>1. Archive \in Nat
    BY DialogueAssumption
  <2>2. new \in Nat
    BY <1>4
  <2> QED
    BY <2>1, <2>2
<1>7. <<Archive + new>> \in Seq(Nat)
  BY <1>6, OneDream
<1>8. Compose(l, Reply("list", <<Archive + new>>))
  BY <1>5 DEF Capture
<1>9. RestIn'
  BY <1>1, <1>4 DEF Capture, RestIn, world
<1>10. "list" \in Kinds
  BY DEF Kinds
<1> QED
  BY <1>7, <1>8, <1>9, <1>10, ComposeKeeps DEF Capture

LEMMA TargetTyped ==
  ASSUME RepliesOK, ListsIn, RestIn, NEW list \in Numbers
  PROVE  Target(list) \in Nat
PROOF
<1>1. DreamsOf(list) \in Seq(Nat) /\ DreamsOf(mem) \in Seq(Nat)
  BY DreamsTyped DEF ListsIn
<1>2. Newest \in Nat
  <2>1. Archive \in Nat /\ Len(captured) \in Nat
    <3>1. captured \in Seq(Nat)
      BY DEF RestIn
    <3>2. Archive \in Nat
      BY DialogueAssumption
    <3> QED
      BY <3>1, <3>2
  <2> QED
    BY <2>1 DEF Newest
<1>3. ASSUME NEW s \in Seq(Nat), Len(s) = 1 PROVE s[1] \in Nat
  BY <1>3
<1> QED
  BY <1>1, <1>2, <1>3 DEF Target

LEMMA AddNoteKeeps == ASSUME DialogueInv, NEW l \in Lanes, AddNote(l) PROVE DialogueInv'
PROOF
<1> DEFINE to == IF lane[l].ask.do = "note" THEN 0 ELSE lane[l].ask.n
<1>1. RepliesOK /\ ListsIn /\ LanesIn /\ RestIn
  BY DEF DialogueInv, DialogueTypeOK
<1>2. lane[l].ask \in Asks /\ lane[l].list \in Numbers /\ lane[l].at = "act"
  BY LaneFacts DEF AddNote
<1>3. to \in Nat /\ Target(lane[l].list) \in Nat
  BY <1>1, <1>2, AskFields, TargetTyped
<1>4. noted' \subseteq noted \cup {[replied |-> to, dream |-> Target(lane[l].list)]}
  BY DEF AddNote
<1> HIDE DEF to
<1>5. noted' \subseteq [replied : Nat, dream : Nat]
  BY <1>1, <1>3, <1>4 DEF RestIn
<1>6. RestIn'
  BY <1>1, <1>5 DEF AddNote, RestIn, world
<1>7. CASE l = 0
  <2>1. Moved(l, "idle", 0) /\ UNCHANGED replies
    BY <1>1, <1>7, EndsMoves DEF AddNote
  <2> QED
    BY <1>6, <2>1, IdleOK, LaneOnlyStep DEF AddNote
<1>8. CASE l # 0
  <2>1. Compose(l, Refusal)
    BY <1>8 DEF AddNote
  <2>2. Compose(l, Reply("plain", <<>>))
    BY <2>1 DEF Refusal
  <2>3. "plain" \in Kinds /\ <<>> \in Seq(Nat)
    BY DEF Kinds
  <2> QED
    BY <1>2, <1>6, <2>2, <2>3, ComposeKeeps DEF AddNote
<1> QED
  BY <1>7, <1>8

-----------------------------------------------------------------------------
(* The world.                                                               *)

\* Lists may be forgotten, lanes may be cut off, and nothing else happens to the replies
\* and the voice row.
LEMMA WorldKeeps ==
  ASSUME DialogueInv, UNCHANGED <<replies, event>>, RestIn', ListsIn', Current' \subseteq Current,
         lane' = lane \/ lane' = [l \in Lanes |-> Idle]
  PROVE  DialogueInv'
PROOF
<1>1. RepliesOK /\ ListsIn /\ LanesIn /\ EventIn /\ RestIn /\ LanesOK /\ EventOK /\ ListsOK
  BY DEF DialogueInv, DialogueTypeOK
<1>2. Grows /\ Shown' = Shown /\ Numbers' = Numbers
  BY <1>1, SameReplies
<1>3. \A r : WasShown(r)' = WasShown(r) /\ TextBased(r)' = TextBased(r)
  BY <1>1, SameReplies
<1>4. RepliesOK' /\ EventIn'
  BY <1>1, <1>2 DEF Grows, EventIn
<1>5. Advances(0)
  BY <1>1, <1>2, SameEvent
<1>6. LanesIn' /\ LanesOK'
  <2>1. \A l, at, list : LaneOK(l, at, list) => LaneOK(l, at, list)'
    <3> SUFFICES ASSUME NEW l, NEW at, NEW list, LaneOK(l, at, list) PROVE LaneOK(l, at, list)'
      OBVIOUS
    <3>1. WasShown(list)' = WasShown(list) /\ TextBased(list)' = TextBased(list)
      BY <1>3
    <3>2. Delivered' = Delivered
      BY DEF Delivered
    <3> QED
      BY <1>2, <3>1, <3>2 DEF LaneOK
  <2>2. CASE lane' = lane
    <3>1. \A l \in Lanes : LaneOK(l, lane[l].at, lane[l].list)'
      BY <1>1, <2>1, <2>2 DEF LanesOK
    <3>2. LanesIn'
      BY <1>1, <2>2 DEF LanesIn, Lanes
    <3> QED
      BY <3>1, <3>2 DEF LanesOK, Lanes
  <2>3. CASE lane' = [l \in Lanes |-> Idle]
    <3>1. \A l \in Lanes : lane'[l] = Idle
      BY <2>3
    <3>2. LanesIn'
      BY <2>3, <3>1, IdleLane DEF LanesIn, Lanes, Asking
    <3>3. ASSUME NEW l \in Lanes PROVE LaneOK(l, lane[l].at, lane[l].list)'
      <4>1. LaneOK(l, "idle", 0)'
        BY <2>1, IdleOK
      <4> QED
        BY <3>1, <4>1, IdleLane
    <3> QED
      BY <3>2, <3>3 DEF LanesOK, Lanes
  <2> QED
    BY <2>2, <2>3
<1>7. event'.sent => Delivered'
  BY <1>1 DEF EventOK, Delivered
<1>8. EventOK'
  BY <1>1, <1>2, <1>5, <1>7, EventKeeps
<1>9. Current' \subseteq Current \cup ({0} \ {0})
  OBVIOUS
<1>10. ListsOK'
  BY <1>1, <1>2, <1>5, <1>9, ListsKeep
<1> QED
  BY <1>4, <1>6, <1>8, <1>10 DEF DialogueInv, DialogueTypeOK

LEMMA RestartKeeps == ASSUME DialogueInv, Restart PROVE DialogueInv'
PROOF
<1>1. RepliesOK /\ ListsIn /\ RestIn
  BY DEF DialogueInv, DialogueTypeOK
<1>2. RestIn'
  BY <1>1 DEF Restart, RestIn
<1>3. ListsIn'
  BY <1>1, RepliesNumbered DEF Restart, ListsIn, Numbers
<1>4. Current' \subseteq Current
  BY <1>1 DEF Restart, ListsIn, Current
<1> QED
  BY <1>2, <1>3, <1>4, WorldKeeps DEF Restart

LEMMA RedisKeeps == ASSUME DialogueInv, RedisFails \/ RedisReturns PROVE DialogueInv'
PROOF
<1>1. RepliesOK /\ ListsIn /\ RestIn
  BY DEF DialogueInv, DialogueTypeOK
<1>2. RestIn' /\ UNCHANGED <<replies, event, lane, copies, staged>>
  <2>1. CASE RedisFails
    <3>1. outages' = outages + 1 /\ redisUp' = FALSE
          /\ UNCHANGED <<replies, copies, staged, lane, event, captured, noted, turns, restarts, lapses>>
      BY <2>1 DEF RedisFails
    <3>2. redisUp' \in BOOLEAN
      BY <3>1
    <3>3. outages' \in Nat
      BY <1>1, <3>1 DEF RestIn
    <3> QED
      BY <1>1, <3>1, <3>2, <3>3 DEF RestIn
  <2>2. CASE RedisReturns
    BY <1>1, <2>2 DEF RedisReturns, RestIn, copies
  <2> QED
    BY <2>1, <2>2
<1>3. ListsIn' /\ Current' = Current
  BY <1>1, <1>2, SameReplies, ListsInStay
<1> QED
  BY <1>2, <1>3, WorldKeeps

LEMMA LapseKeeps == ASSUME DialogueInv, NEW r \in DOMAIN replies, Lapse(r) PROVE DialogueInv'
PROOF
<1>1. RepliesOK /\ ListsIn /\ RestIn
  BY DEF DialogueInv, DialogueTypeOK
<1>2. RestIn' /\ UNCHANGED <<replies, event, lane>>
  BY <1>1 DEF Lapse, RestIn
<1>3. cards' \in [{"mem", "redis"} -> SUBSET (1..Len(replies))]
      /\ cards'["mem"] \subseteq cards["mem"] /\ cards'["redis"] \subseteq cards["redis"]
  BY <1>1 DEF Lapse, ListsIn
<1>4. ListsIn'
  BY <1>1, <1>2, <1>3, RepliesNumbered DEF Lapse, ListsIn, Numbers
<1>5. Current' \subseteq Current
  BY <1>3 DEF Lapse, Current
<1> QED
  BY <1>2, <1>4, <1>5, WorldKeeps

-----------------------------------------------------------------------------
LEMMA DialogueInitInv == DialogueInit => DialogueInv
PROOF
<1> SUFFICES ASSUME DialogueInit PROVE DialogueInv
  OBVIOUS
<1> DEFINE first == [kind |-> "list", dreams |-> First, by |-> "text", on |-> 0, sent |-> TRUE]
<1>1. First \in Seq(Nat)
  BY DialogueAssumption
<1>2. first \in ReplyRows
  BY <1>1 DEF ReplyRows, Kinds
<1>3. replies = <<first>>
  BY DEF DialogueInit
<1>4. first.by = "text" /\ first.on = 0 /\ first.sent
  OBVIOUS
<1> HIDE DEF first
<1>5. replies \in Seq(ReplyRows) /\ Len(replies) = 1 /\ DOMAIN replies = {1} /\ replies[1] = first
  BY <1>2, <1>3
<1>6. Numbers = {0, 1} /\ 1..Len(replies) = {1}
  BY <1>5 DEF Numbers
<1>7. RepliesOK
  BY <1>4, <1>5, <1>6 DEF RepliesOK
<1>8. ListsIn
  BY <1>6 DEF DialogueInit, ListsIn
<1>9. lane \in [Lanes -> LaneStates] /\ \A l \in Lanes : lane[l] = Idle
  BY IdleLane DEF DialogueInit
<1>10. LanesIn
  BY <1>9, IdleLane DEF LanesIn, Asking
<1>11. PICK ask \in VoiceAsks :
         event = [ask |-> ask, owner |-> 0, reply |-> 0, sent |-> FALSE, done |-> FALSE]
  BY DEF DialogueInit
<1>12. event \in VoiceRows /\ event.reply = 0 /\ event.sent = FALSE
  BY <1>11 DEF VoiceRows
<1>13. EventIn
  BY <1>6, <1>12 DEF EventIn
<1>14. RestIn
  <2>1. captured = <<>> /\ noted = {} /\ turns = 0 /\ redisUp = TRUE /\ restarts = 0 /\ outages = 0
        /\ lapses = 0
    BY DEF DialogueInit
  <2>2. captured \in Seq(Nat)
    BY <2>1, NoDreams
  <2> QED
    BY <2>1, <2>2 DEF RestIn
<1>15. LanesOK
  <2>1. \A l : LaneOK(l, "idle", 0)
    BY <1>6 DEF LaneOK
  <2> QED
    BY <1>9, <2>1, IdleLane DEF LanesOK
<1>16. Shown = {1}
  BY <1>4, <1>5 DEF Shown
<1>17. EventOK
  BY <1>4, <1>5, <1>12, <1>16 DEF EventOK
<1>18. Current = {1}
  BY DEF DialogueInit, Current
<1>19. ListsOK
  BY <1>4, <1>5, <1>16, <1>18 DEF ListsOK, Known, WasShown
<1> QED
  BY <1>7, <1>8, <1>10, <1>13, <1>14, <1>15, <1>17, <1>19 DEF DialogueInv, DialogueTypeOK

LEMMA LaneStepKeeps == ASSUME DialogueInv, NEW l \in Lanes, LaneStep(l) PROVE DialogueInv'
PROOF
<1>1. CASE Load(l) BY <1>1, LoadKeeps
<1>2. CASE FetchList(l) BY <1>2, FetchListKeeps
<1>3. CASE Copy(l) BY <1>3, CopyKeeps
<1>4. CASE Act(l) BY <1>4, ActKeeps
<1>5. CASE Capture(l) BY <1>5, CaptureKeeps
<1>6. CASE AddNote(l) BY <1>6, AddNoteKeeps
<1>7. CASE Remember(l) BY <1>7, RememberKeeps
<1>8. CASE Keep(l) BY <1>8, KeepKeeps
<1>9. CASE KeepCard(l) BY <1>9, KeepCardKeeps
<1> QED
  BY <1>1, <1>2, <1>3, <1>4, <1>5, <1>6, <1>7, <1>8, <1>9 DEF LaneStep

LEMMA DialogueNextInv == DialogueInv /\ [DialogueNext]_dialogueVars => DialogueInv'
PROOF
<1> SUFFICES ASSUME DialogueInv, [DialogueNext]_dialogueVars PROVE DialogueInv'
  OBVIOUS
<1>1. ASSUME NEW ask \in TextAsks, TextArrives(ask) PROVE DialogueInv'
  BY <1>1, TextArrivesKeeps
<1>2. ASSUME NEW l \in Lanes, LaneStep(l) PROVE DialogueInv'
  BY <1>2, LaneStepKeeps
<1>3. ASSUME NEW a \in Attempts,
             \/ VoiceClaims(a) \/ StageSelection(a) \/ StoreReply(a) \/ VoiceSends(a) \/ Progress(a)
             \/ Publish(a) \/ Unstage(a) \/ Mark(a) \/ Stops(a)
      PROVE  DialogueInv'
  BY <1>3, VoiceClaimsKeeps, StageSelectionKeeps, StoreReplyKeeps, VoiceSendsKeeps, ProgressKeeps,
     PublishKeeps, UnstageKeeps, MarkKeeps, StopsKeeps
<1>4. ASSUME NEW r \in DOMAIN replies, Lapse(r) PROVE DialogueInv'
  BY <1>4, LapseKeeps
<1>5. CASE Look \/ TextSends
  BY <1>5, LookKeeps, TextSendsKeeps
<1>6. CASE Restart \/ RedisFails \/ RedisReturns
  BY <1>6, RestartKeeps, RedisKeeps
<1>7. CASE UNCHANGED dialogueVars
  <2>1. RepliesOK /\ ListsIn /\ RestIn
    BY DEF DialogueInv, DialogueTypeOK
  <2>2. RestIn' /\ UNCHANGED <<replies, event, lane, copies, staged>>
    BY <1>7, <2>1 DEF RestIn, dialogueVars, world
  <2>3. ListsIn' /\ Current' = Current
    BY <2>1, <2>2, SameReplies, ListsInStay
  <2> QED
    BY <2>2, <2>3, WorldKeeps
<1> QED
  BY <1>1, <1>2, <1>3, <1>4, <1>5, <1>6, <1>7 DEF DialogueNext

\* The invariant holds in every state.
THEOREM DialogueInvariance == DialogueSpec => []DialogueInv
PROOF
<1>1. DialogueInit => DialogueInv
  BY DialogueInitInv
<1>2. DialogueInv /\ [DialogueNext]_dialogueVars => DialogueInv'
  BY DialogueNextInv
<1> QED
  BY <1>1, <1>2, PTL DEF DialogueSpec

\* Replies, lists, lanes and the voice row are what they should be, and every number of
\* a list is that of a reply.
THEOREM DialogueTypeCorrect == DialogueSpec => []DialogueTypeOK
PROOF
<1>1. DialogueInv => DialogueTypeOK
  BY DEF DialogueInv
<1> QED
  BY <1>1, DialogueInvariance, PTL

\* What the next command acts on has been shown to the user as it is, whatever the
\* updates and the attempts at a voice message do between them (session.py, chat.py).
THEOREM ListsWereShown == DialogueSpec => []SelectionWasShown
PROOF
<1>1. DialogueInv => SelectionWasShown
  BY DEF DialogueInv, ListsOK, Current, Known, WasShown, SelectionWasShown
<1> QED
  BY <1>1, DialogueInvariance, PTL

\* A spoken command is not applied to the list that it made itself (transcribe.py).
THEOREM SpokenOnce == DialogueSpec => []VoiceCommandOnce
PROOF
<1>1. DialogueInv => VoiceCommandOnce
  <2> SUFFICES ASSUME DialogueInv, NEW r \in Shown, replies[r].by = "voice", replies[r].on # 0
               PROVE  replies[replies[r].on].by = "text"
    BY DEF VoiceCommandOnce
  <2>1. RepliesOK /\ EventOK
    BY DEF DialogueInv, DialogueTypeOK
  <2>2. r = event.reply /\ r # 0
    BY <2>1, RepliesNumbered DEF EventOK, Shown
  <2> QED
    BY <2>1, <2>2 DEF EventOK, TextBased
<1> QED
  BY <1>1, DialogueInvariance, PTL

=============================================================================
