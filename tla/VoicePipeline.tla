---------------------------- MODULE VoicePipeline ----------------------------
(***************************************************************************)
(* One Telegram voice message from its update to the delivered reply.      *)
(* The row of voice_media_events is receipt and job at once; the bot's     *)
(* update handler, the recovery cycles of any number of bot processes and  *)
(* the retention sweeps share it, and the audio file, whose path is fixed  *)
(* by the event.  A claim cycle leases the row with a token of its own.    *)
(*                                                                         *)
(* There is no clock: a lease expires at any time, whatever its worker is  *)
(* doing, and a delay before a retry is over at once.  Texts are abstract: *)
(* only the kind of a reply and the number of its chunks are kept.         *)
(***************************************************************************)
EXTENDS Integers, FiniteSets

CONSTANTS
  Workers,        \* claim cycles and update handlers that may run at a time
  Nobody,         \* lease_owner IS NULL
  Chunks,         \* Telegram messages that the reply is split into
  MaxAttempts,    \* _MAX_TRANSCRIPTION_ATTEMPTS
  MaxInterrupts,  \* bound: expired leases, failed heartbeats, sends and commits, crashes
  LateIngress     \* TRUE: others may run between the two transactions of an update

ASSUME VoiceAssumption ==
  /\ Nobody \notin Workers
  /\ Chunks \in Nat \ {0} /\ MaxAttempts \in Nat \ {0} /\ MaxInterrupts \in Nat
  /\ LateIngress \in BOOLEAN

VARIABLES
  row,         \* the voice_media_events row
  file,        \* the .ogg file: "none", "young" or "old" (past the retention window)
  act,         \* what each worker is doing
  sent,        \* the chunks the user was sent
  sends,       \* how many messages that were
  told,        \* the replies of which the user was sent a chunk
  interrupts

vars == <<row, file, act, sent, sends, told, interrupts>>

RecoverableIdle == {"received", "downloaded", "transcribed",      \* mutant of Recoverable
                    "transcription_retryable", "transcription_failed", "reply_pending"}
Recoverable == {"received", "downloaded", "processing", "transcribed",
                "transcription_retryable", "transcription_failed", "reply_pending"}
Purgeable   == {"transcription_failed", "reply_pending", "delivered"}
Replies     == {"answer", "apology", "untranscribed", "undownloaded"}
Rows == [status : Recoverable \cup {"absent", "delivered"},
         path : BOOLEAN, text : BOOLEAN, reply : Replies \cup {"none"},
         failures : Nat, cursor : 0..Chunks,
         owner : Workers \cup {Nobody}, live : BOOLEAN, old : BOOLEAN]
Steps == {"idle", "ingress", "download", "storepath", "ack", "run", "begin",
          "processing", "whisper", "whisperfail", "storetext", "answer", "answering",
          "stage", "unlink", "deliver", "send", "sending", "sent", "progress",
          "delivered", "sendfail", "release"}
Doings == [pc : Steps, ingress : BOOLEAN, lost : BOOLEAN, reply : Replies \cup {"none"},
           chunk : 1..(Chunks + 1)]

NoRow   == [status |-> "absent", path |-> FALSE, text |-> FALSE, reply |-> "none",
            failures |-> 0, cursor |-> 0, owner |-> Nobody, live |-> FALSE, old |-> FALSE]
Nothing == [pc |-> "idle", ingress |-> FALSE, lost |-> FALSE, reply |-> "none", chunk |-> 1]

TypeOK ==
  /\ row \in Rows
  /\ file \in {"none", "young", "old"}
  /\ act \in [Workers -> Doings]
  /\ sent \subseteq 1..Chunks /\ sends \in Nat
  /\ told \subseteq Replies
  /\ interrupts \in 0..MaxInterrupts

Init ==
  /\ row = NoRow /\ file = "none"
  /\ act = [w \in Workers |-> Nothing]
  /\ sent = {} /\ sends = 0 /\ told = {}
  /\ interrupts = 0

-----------------------------------------------------------------------------
(* The lease.                                                              *)

Owned(w) == row.owner = w /\ row.live

Claimable ==
  /\ row.status \in Recoverable
  /\ row.owner = Nobody \/ ~row.live

\* Every write stamps updated_at, from which retention is counted.
Leased(w) == [row EXCEPT !.owner = w, !.live = TRUE, !.old = FALSE]
Freed(r)  == [r EXCEPT !.owner = Nobody, !.live = FALSE, !.old = FALSE]

Goto(w, pc) == act' = [act EXCEPT ![w].pc = pc]
Stop(w)     == act' = [act EXCEPT ![w] = Nothing]

\* VoiceLeaseLost ends a leased run in its finally clause; the update handler,
\* which runs before there is a heartbeat, just ends.
GiveUp(w) == IF act[w].ingress THEN Stop(w) ELSE Goto(w, "release")

\* One transaction that locks the row if the lease is still owned, and raises
\* VoiceLeaseLost otherwise.
FencedUnchecked(w, r, pc) ==                            \* mutant of Fenced
  row' = r /\ Goto(w, pc)
Fenced(w, r, pc) ==
  IF Owned(w) THEN row' = r /\ Goto(w, pc) ELSE row' = row /\ GiveUp(w)

Set(status) == [row EXCEPT !.status = status, !.old = FALSE]

Undivided == LateIngress \/ \A w \in Workers : act[w].pc # "ingress"

\* The supervisor's claim cycle.
Claim(w) ==
  /\ act[w].pc = "idle" /\ Claimable /\ Undivided
  /\ row' = Leased(w) /\ Goto(w, "run")
  /\ UNCHANGED <<file, sent, sends, told, interrupts>>

Release(w) ==
  /\ act[w].pc = "release"
  /\ row' = IF row.owner = w THEN Freed(row) ELSE row
  /\ Stop(w)
  /\ UNCHANGED <<file, sent, sends, told, interrupts>>

\* The heartbeat could not renew the lease, and tells the worker.
HeartbeatFails(w) ==
  /\ interrupts < MaxInterrupts
  /\ act[w].pc \notin {"idle", "ingress", "release"} /\ ~act[w].ingress /\ ~act[w].lost
  /\ act' = [act EXCEPT ![w].lost = TRUE]
  /\ interrupts' = interrupts + 1
  /\ UNCHANGED <<row, file, sent, sends, told>>

\* A worker that knows stops before its next side effect, or cancels it.
Watching == {"download", "begin", "whisper", "storetext", "answering", "stage", "unlink",
             "deliver", "send", "sending", "sent", "delivered"}
NoticeLoss(w) ==
  /\ act[w].lost /\ act[w].pc \in Watching
  /\ file' \in {file} \cup (IF act[w].pc = "download" THEN {"young"} ELSE {})
  /\ GiveUp(w)
  /\ UNCHANGED <<row, sent, sends, told, interrupts>>
Unaware(w) == ~act[w].lost

-----------------------------------------------------------------------------
(* The update handler, and the download that recovery shares with it.      *)

\* An update is delivered once or several times; it is dropped unless it is the
\* first one or the event was received and has no path.  (Undivided, an update
\* whose claim would fail changes nothing.)
Receive(w) ==
  /\ act[w].pc = "idle" /\ Undivided
  /\ \/ row.status = "absent" /\ row' = [row EXCEPT !.status = "received"]
     \/ row.status = "received" /\ ~row.path /\ (LateIngress \/ Claimable) /\ row' = row
  /\ act' = [act EXCEPT ![w].pc = "ingress", ![w].ingress = TRUE]
  /\ UNCHANGED <<file, sent, sends, told, interrupts>>

IngressClaim(w) ==
  /\ act[w].pc = "ingress"
  /\ IF Claimable THEN row' = Leased(w) /\ Goto(w, "download")
                  ELSE row' = row /\ Stop(w)
  /\ UNCHANGED <<file, sent, sends, told, interrupts>>

Download(w) ==
  /\ act[w].pc = "download" /\ Unaware(w)
  /\ file' = "young" /\ Goto(w, "storepath")
  /\ UNCHANGED <<row, sent, sends, told, interrupts>>

\* The handler gives up with a reply, a recovered download is tried again.
DownloadFails(w) ==
  /\ act[w].pc = "download"
  /\ IF act[w].ingress
     THEN act' = [act EXCEPT ![w].pc = "stage", ![w].reply = "undownloaded"]
     ELSE Goto(w, "release")
  /\ UNCHANGED <<row, file, sent, sends, told, interrupts>>

\* A path that cannot be stored, for want of the lease or of the database, takes
\* the file with it.
PathFails(w) ==
  /\ act[w].pc \in {"storepath", "ack"}
  /\ \/ ~Owned(w) /\ interrupts' = interrupts
     \/ Owned(w) /\ interrupts < MaxInterrupts /\ interrupts' = interrupts + 1
  /\ file' = "none" /\ row' = row /\ GiveUp(w)
  /\ UNCHANGED <<sent, sends, told>>

StorePath(w) ==
  /\ act[w].pc = "storepath" /\ Owned(w)
  /\ row' = [Set("downloaded") EXCEPT !.path = TRUE]
  /\ Goto(w, IF act[w].ingress THEN "ack" ELSE "begin")
  /\ UNCHANGED <<file, sent, sends, told, interrupts>>

Acknowledge(w) ==
  /\ act[w].pc = "ack" /\ Owned(w)
  /\ row' = Set("processing")
  /\ act' = [act EXCEPT ![w].pc = "run", ![w].ingress = FALSE]
  /\ UNCHANGED <<file, sent, sends, told, interrupts>>

-----------------------------------------------------------------------------
(* A claimed event.                                                        *)

RunFrom(w) == IF row.status = "reply_pending" THEN "deliver"
              ELSE IF ~row.text /\ ~(row.path /\ file # "none") THEN "download" ELSE "begin"
Run(w) ==
  /\ act[w].pc = "run"
  /\ Goto(w, IF Owned(w) THEN RunFrom(w) ELSE "release")
  /\ UNCHANGED <<row, file, sent, sends, told, interrupts>>

Begin(w) ==
  /\ act[w].pc = "begin" /\ Unaware(w)
  /\ \/ ~Owned(w) /\ Goto(w, "release")
     \/ /\ Owned(w) /\ row.status = "transcription_failed"
        /\ act' = [act EXCEPT ![w].pc = "stage", ![w].reply = "untranscribed"]
     \/ /\ Owned(w) /\ row.status # "transcription_failed"
        /\ Goto(w, IF row.text THEN "answer" ELSE "processing")
  /\ UNCHANGED <<row, file, sent, sends, told, interrupts>>

StartTranscription(w) ==
  /\ act[w].pc = "processing"
  /\ Fenced(w, Set("processing"), "whisper")
  /\ UNCHANGED <<file, sent, sends, told, interrupts>>

Transcribe(w) ==
  /\ act[w].pc = "whisper" /\ Unaware(w)
  /\ \/ file # "none" /\ Goto(w, "storetext")
     \/ Goto(w, "whisperfail")
  /\ UNCHANGED <<row, file, sent, sends, told, interrupts>>

\* Below the limit the lease is given back at once, at the limit the same run
\* goes on to stage the reply.
RecordFailure(w) ==
  /\ act[w].pc = "whisperfail"
  /\ LET counted == [row EXCEPT !.failures = @ + 1, !.old = FALSE]
     IN  IF Owned(w) /\ counted.failures >= MaxAttempts
         THEN /\ row' = [counted EXCEPT !.status = "transcription_failed"]
              /\ act' = [act EXCEPT ![w].pc = "stage", ![w].reply = "untranscribed"]
         ELSE Fenced(w, [Freed(counted) EXCEPT !.status = "transcription_retryable"], "release")
  /\ UNCHANGED <<file, sent, sends, told, interrupts>>

StoreText(w) ==
  /\ act[w].pc = "storetext" /\ Unaware(w)
  /\ Fenced(w, [Set("transcribed") EXCEPT !.text = TRUE], "answer")
  /\ UNCHANGED <<file, sent, sends, told, interrupts>>

StartAnswer(w) ==
  /\ act[w].pc = "answer"
  /\ Fenced(w, Set("processing"), "answering")
  /\ UNCHANGED <<file, sent, sends, told, interrupts>>

\* An exception of the assistant becomes a reply as well.
Answer(w) ==
  /\ act[w].pc = "answering" /\ Unaware(w)
  /\ \E reply \in {"answer", "apology"} :
       act' = [act EXCEPT ![w].pc = "stage", ![w].reply = reply]
  /\ UNCHANGED <<row, file, sent, sends, told, interrupts>>

-----------------------------------------------------------------------------
(* Staging a reply and delivering it chunk by chunk.                       *)

Stage(w) ==
  /\ act[w].pc = "stage" /\ Unaware(w)
  /\ Fenced(w, [Set("reply_pending") EXCEPT !.reply = act[w].reply, !.cursor = 0], "unlink")
  /\ UNCHANGED <<file, sent, sends, told, interrupts>>

\* Best effort.  The row keeps its path until the sweep.
Unlink(w) ==
  /\ act[w].pc = "unlink" /\ Unaware(w)
  /\ file' \in {file} \cup (IF row.path /\ act[w].reply # "undownloaded" THEN {"none"} ELSE {})
  /\ Goto(w, "deliver")
  /\ UNCHANGED <<row, sent, sends, told, interrupts>>

Deliver(w) ==
  /\ act[w].pc = "deliver" /\ Unaware(w)
  /\ IF Owned(w)
     THEN act' = [act EXCEPT ![w].pc = "send", ![w].chunk = row.cursor + 1,
                             ![w].reply = row.reply]
     ELSE GiveUp(w)
  /\ UNCHANGED <<row, file, sent, sends, told, interrupts>>

Send(w) ==
  /\ act[w].pc = "send" /\ Unaware(w)
  /\ IF act[w].chunk > Chunks THEN Goto(w, "delivered")
     ELSE IF Owned(w) THEN Goto(w, "sending") ELSE GiveUp(w)
  /\ UNCHANGED <<row, file, sent, sends, told, interrupts>>

\* The message reaches the user ...
Arrives(w) ==
  /\ act[w].pc = "sending"
  /\ sent' = sent \cup {act[w].chunk} /\ sends' = sends + 1
  /\ told' = told \cup {act[w].reply}
  /\ Goto(w, "sent")
  /\ UNCHANGED <<row, file, interrupts>>

\* ... and its acknowledgement the bot.
Acknowledged(w) ==
  /\ act[w].pc = "sent" /\ Unaware(w)
  /\ Goto(w, "progress")
  /\ UNCHANGED <<row, file, sent, sends, told, interrupts>>

ProgressBeyond(w) ==                                    \* mutant of StoreProgress
  /\ act[w].pc = "progress"
  /\ row' = [row EXCEPT !.cursor = act[w].chunk + 1]
  /\ act' = [act EXCEPT ![w].pc = "send", ![w].chunk = @ + 1]
  /\ UNCHANGED <<file, sent, sends, told, interrupts>>
ProgressUnstored(w) ==                                  \* mutant of StoreProgress
  /\ act[w].pc = "progress"
  /\ act' = [act EXCEPT ![w].pc = "send", ![w].chunk = @ + 1]
  /\ UNCHANGED <<row, file, sent, sends, told, interrupts>>
StoreProgress(w) ==
  /\ act[w].pc = "progress"
  /\ IF Owned(w)
     THEN /\ row' = [row EXCEPT !.old = FALSE,
                       !.cursor = IF @ < act[w].chunk THEN act[w].chunk ELSE @]
          /\ act' = [act EXCEPT ![w].pc = "send", ![w].chunk = @ + 1]
     ELSE row' = row /\ GiveUp(w)
  /\ UNCHANGED <<file, sent, sends, told, interrupts>>

\* Any other failure of a send, of its acknowledgement or of the cursor.
SendFails(w) ==
  /\ act[w].pc \in {"sending", "sent", "progress"} /\ interrupts < MaxInterrupts
  /\ Goto(w, "sendfail")
  /\ interrupts' = interrupts + 1
  /\ UNCHANGED <<row, file, sent, sends, told>>

RecordSendFailure(w) ==
  /\ act[w].pc = "sendfail"
  /\ IF Owned(w) THEN row' = Freed(row) ELSE row' = row
  /\ GiveUp(w)
  /\ UNCHANGED <<file, sent, sends, told, interrupts>>

MarkDelivered(w) ==
  /\ act[w].pc = "delivered" /\ Unaware(w)
  /\ IF Owned(w)
     THEN row' = [Freed(row) EXCEPT !.status = "delivered", !.reply = "none", !.cursor = 0]
     ELSE row' = row
  /\ GiveUp(w)
  /\ UNCHANGED <<file, sent, sends, told, interrupts>>

-----------------------------------------------------------------------------
(* Time, crashes and the retention sweeps.                                 *)

\* Under a worker that still runs, or with nobody left to renew it.
InUse == \E w \in Workers : row.owner = w /\ act[w].pc \notin {"idle", "ingress"}
LeaseExpires ==
  /\ row.live /\ InUse /\ interrupts < MaxInterrupts
  /\ row' = [row EXCEPT !.live = FALSE]
  /\ interrupts' = interrupts + 1
  /\ UNCHANGED <<file, act, sent, sends, told>>
LeaseLapses ==
  /\ row.live /\ ~InUse
  /\ row' = [row EXCEPT !.live = FALSE]
  /\ UNCHANGED <<file, act, sent, sends, told, interrupts>>

Crash(w) ==
  /\ act[w].pc # "idle" /\ interrupts < MaxInterrupts
  /\ Stop(w)
  /\ interrupts' = interrupts + 1
  /\ UNCHANGED <<row, file, sent, sends, told>>

\* A lease is shorter than the retention window and so is a download.
RowAges ==
  /\ row.status # "absent" /\ ~row.live
  /\ row' = [row EXCEPT !.old = TRUE]
  /\ UNCHANGED <<file, act, sent, sends, told, interrupts>>
FileAges ==
  /\ file = "young" /\ \A w \in Workers : act[w].pc # "storepath"
  /\ file' = "old"
  /\ UNCHANGED <<row, act, sent, sends, told, interrupts>>

SweepFinished ==                                        \* mutant of CleanupMedia
  /\ row.status \in {"done", "failed"} /\ row.old /\ row.path /\ (row.owner = Nobody \/ ~row.live)
  /\ file' = "none" /\ row' = [row EXCEPT !.path = FALSE]
  /\ UNCHANGED <<act, sent, sends, told, interrupts>>
\* The file goes first: a crash before the commit leaves the path behind.
CleanupMedia ==
  /\ row.status # "absent" /\ row.old /\ row.path /\ (row.owner = Nobody \/ ~row.live)
  /\ file' = "none"
  /\ row' \in {[row EXCEPT !.path = FALSE]} \cup (IF file = "none" THEN {} ELSE {row})
  /\ UNCHANGED <<act, sent, sends, told, interrupts>>

CleanupOrphan ==
  /\ file = "old" /\ ~row.path
  /\ file' = "none"
  /\ UNCHANGED <<row, act, sent, sends, told, interrupts>>

PurgeText ==
  /\ row.status \in Purgeable /\ row.old /\ row.text
  /\ row' = [row EXCEPT !.text = FALSE]
  /\ UNCHANGED <<file, act, sent, sends, told, interrupts>>

-----------------------------------------------------------------------------
Ingress(w) == Receive(w) \/ IngressClaim(w) \/ StorePath(w) \/ Acknowledge(w) \/ PathFails(w)
Voice(w)   == Begin(w) \/ StartTranscription(w) \/ RecordFailure(w) \/ StoreText(w) \/ StartAnswer(w)
Delivery(w) ==
  \/ Stage(w) \/ Unlink(w) \/ Deliver(w) \/ Send(w) \/ Arrives(w) \/ Acknowledged(w)
  \/ StoreProgress(w) \/ RecordSendFailure(w) \/ MarkDelivered(w)
Outcome(w) == Download(w) \/ DownloadFails(w) \/ Transcribe(w) \/ Answer(w)
Step(w) ==
  \/ Ingress(w) \/ Claim(w) \/ Run(w) \/ Voice(w) \/ Outcome(w) \/ Delivery(w)
  \/ NoticeLoss(w) \/ Release(w)
Sweep == CleanupMedia \/ CleanupOrphan \/ PurgeText

Next ==
  \/ \E w \in Workers : Step(w) \/ HeartbeatFails(w) \/ SendFails(w) \/ Crash(w)
  \/ LeaseExpires \/ LeaseLapses \/ RowAges \/ FileAges \/ Sweep

Spec == Init /\ [][Next]_vars

\* The supervisor claims and sweeps forever, time passes, and a download that is
\* tried again and again succeeds.  Interruptions are bounded.
Fairness ==
  /\ \A w \in Workers : WF_vars(Step(w)) /\ SF_vars(Download(w))
  /\ WF_vars(LeaseLapses) /\ WF_vars(RowAges) /\ WF_vars(FileAges)
  /\ WF_vars(CleanupMedia) /\ WF_vars(CleanupOrphan)

FairSpec == Spec /\ Fairness

-----------------------------------------------------------------------------
(* Properties.                                                             *)

\* The user is never sent parts of two different replies to one voice message,
\* however its handling is interrupted and taken over.
OneReply == \A r, s \in told : r = s

\* A message is marked delivered only when every chunk of its reply was sent.
DeliveredWhole == row.status = "delivered" => sent = 1..Chunks

\* A chunk is sent again only because something was interrupted: an interruption
\* costs at most one repeated chunk, never the whole reply.
RepeatsExplained == sends <= Cardinality(sent) + interrupts

\* Once a transcript is committed Whisper is not called again for the message.
TranscribedOnce ==
  [][\A w \in Workers : act[w].pc # "whisper" /\ act'[w].pc = "whisper" => ~row.text]_vars

\* A delivered message is final: no late worker or update revives it.
DeliveryIsFinal == [][row.status = "delivered" => row'.status = "delivered"]_vars

\* Every received voice message is answered in the end.
EventuallyAnswered == row.status # "absent" ~> row.status = "delivered"

\* Raw audio does not outlive the message: its file is gone for good in the end.
AudioGone == <>[](row.status = "delivered") => <>[](file = "none")

\* While a worker transcribes under a live lease, the file stays where it is:
\* the lease prevents two workers from handling the event at once.
AudioHeld == \A w \in Workers : act[w].pc = "whisper" /\ Owned(w) => file # "none"

\* Whisper is never called a fourth time once its attempts are used up.
NoFourthAttempt ==
  [][\A w \in Workers : act[w].pc # "whisper" /\ act'[w].pc = "whisper"
       => row.failures < MaxAttempts]_vars

\* A message whose transcript is stored but whose assistant failed is not given
\* up: it stays recoverable until it has been answered.
AssistantRetried == row.status = "delivered" => "apology" \notin told
=============================================================================
