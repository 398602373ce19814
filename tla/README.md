# Dream Motif Interpreter: TLA+ models and proofs

Dream Motif Interpreter is a single-operator dream archive: a Telegram bot and
a FastAPI backend over PostgreSQL, Redis, a Google Docs document that is the
human-edited source, a Whisper voice pipeline and LLM enrichment. What is hard
in it is not any single function but the hand-overs: every piece of work is a
database row that several loops may pick up, lose, pick up again and finish,
while the effect of the work lives in another system (Google Docs, Telegram,
Redis) that cannot join the transaction.

This directory holds TLA+ modules translated from the code, TLC configurations
that check them on small instances, and TLAPS proofs. `PROJECT.json` lists the
runs, the source lines every definition stands for, a mutant of the code that
breaks each property, the hazards and the theorems.

Contents: 1 inventory, 2 plan, 3 modules and how they correspond to the code,
4 runs and bounds, 5 proofs, 6 behaviours of the code that its documents or
tests deny, 7 abstractions and what is left out.

## 1. Inventory

Paths are relative to `src/app/`.

**Dream outbox** (`workers/dream_processing.py`, `workers/dream_supervisor.py`,
`assistant/facade.py: retry_dream_processing`). *State:* the rows of
`dream_processing_jobs` (status, attempts, lock token and time, available_at).
*Operations:* sweep exhausted rows and claim one eligible row in a transaction,
check and renew the lease, run a stage under a timeout, settle by a
compare-and-swap on the token, restore failed rows, close a gdocs row from an
ingest. *Hard:* several claim loops (supervisor turns, arq workers, processes),
expired leases, paused workers that wake up, a crash in the last attempt, an
operator between two transactions. *Correct when:* one owner per row, no
unfinished stage reported successful, no row stranded outside the claim query,
success final, every job settled.

**Note outbox** (`workers/note_processing.py`, `facade.append_dream_note`).
*State:* the rows of `note_processing_jobs`, the chunk of a note, its line in the
document with its named range. *Operations:* those of the dream outbox, with the
stages index and gdocs; the ingest reads notes back and repairs their chunks.
*Hard:* the place of a note is found by the heading above it, a request may have
been applied when its answer is lost, the ingest reads what the bot has written.
*Correct when:* a note is in the document once, is read back as itself, and is
either indexed or owed by a job.

**Google Docs delivery** (`facade.write_dream_to_google_doc`,
`services/gdocs_client.py`). *State:* the `dream_write_statuses` receipt, the
document with its named ranges. *Operations:* claim the receipt, run the
blocking client in a thread, finalize by a compare-and-swap; retry by the user.
*Hard:* a cancelled coroutine leaves its thread writing, an answer is lost after
the insert, an ingest closes the receipt, a human edits the document, a request
is applied after the client gave up. *Correct when:* at most one copy is
written, nothing is reported delivered that was not, a delivered receipt stays.

**Manual sync and auto-sync** (`workers/sync_jobs.py`, `services/auto_sync.py`,
`workers/ingest.py`). *State:* `manual_sync_jobs` rows; in Redis one record per
document (last seen marker, status) and one per job (public status).
*Operations:* create, claim, ingest, settle; poll, compare, ingest. *Hard:* the
Redis records are written by several processes without a lock, an ingest reports
some failures only through them, a job can be claimed before its creator has
told of it, a poll process dies in the middle. *Correct
when:* the marker is never ahead of what was stored, a settled job stays settled
and says what happened, every edit arrives.

**Voice pipeline** (`telegram/handlers.py: voice_message_handler`,
`workers/transcribe.py`, `assistant/voice_media.py`, `workers/cleanup.py`).
*State:* the `voice_media_events` row, the audio file, what the user was sent.
*Operations:* receive, claim, download, transcribe, answer, stage a reply,
deliver it chunk by chunk, give up, sweep. *Hard:* the update handler and the
supervisor work on the same row, a path shared by successive owners, messages
sent that cannot be unsent, retention that removes what a recovery needs.
*Correct when:* one reply, whole, hardly repeated; a committed transcript never
paid for again; every message answered; the audio gone.

**Capture** (`facade.create_dream`, `add_dream_note`). *State:* `dream_entries`,
`dream_notes` and the job rows inserted with them. *Hard:* a redelivered update,
two deliveries at once, a target dream that changes between a message and its
replay. *Correct when:* one dream and one set of jobs per source event, one note
per dream and text.

**Source ingest** (`workers/ingest.py`, `services/segmentation.py`). *State:*
dream rows with identity keys. *Operations:* match the entries of the document to
rows by source id, heading and content, store, adopt, reject conflicts. *Hard:*
the result depends on headings and their order, the document is read before the
transaction that stores it, manual and automatic ingests overlap, the bot itself
writes into the document that the parser reads back. *Correct when:* an entry keeps
its row through edits and renames and no two entries share one.

**Supervisor and bot lifecycle** (`workers/dream_supervisor.py`, the
`LocalAsyncJobEnqueuer` of `api/dreams.py`, the voice supervisor of
`workers/transcribe.py`, `telegram/bot.py`). *State:* wake and stop events, tasks,
what each loop waits for. *Operations:* turns of the dream lane and the note lane,
batches of sync jobs, voice cycles, the shutdown that stops all of them before it
closes connections. *Hard:* a wake-up during a turn, cancellations that a loop
takes for something else, timeouts within timeouts. *Correct when:* a committed job
is picked up without waiting for the idle interval, nothing runs once connections
are closed, a stop ends in bounded time.

**Theme curation** (`api/themes.py`, `services/analysis.py`,
`services/versioning.py`, `services/taxonomy.py`). *State:* theme rows, categories,
annotation versions, a bulk token in Redis. *Operations:* analyse, confirm, reject,
bulk confirm, rollback, create, approve and deprecate a category. *Hard:* a request
reads in one transaction and commits in another and locks nothing in between, a
token that is read before it is deleted, versions ordered by time. *Correct when:*
every change has its version, and a rollback restores a state that once was.

**Motifs and memory controls** (`services/motif_service.py`, `imagery.py`,
`motif_grounder.py`, `api/motifs.py`, `api/dream_memory.py`,
`services/dream_memory_graph.py`, `models/dream_graph_privacy.py`). *State:* motif
rows with their quotations and versions, an append-only table of controls.
*Operations:* induce, rename, confirm, reject; delete, hide, restore, reject a
subject; show the graph. *Hard:* a model quotes what is not there, two requests
review one motif, rows of controls commit in another order than they are numbered,
a reader loads dreams, motifs and controls in three statements. *Correct when:* what
is quoted is in the dream, what was taken away is not shown, no sequence of controls
makes the table unreadable.

**Conversation state** (`assistant/session.py`, `telegram/handlers.py`,
`assistant/chat.py`). *State:* per chat one pending interpretation, one batch
note, one single note, each in process memory and in Redis. *Operations:* ask,
approve, decline, point to a dream, apply, expire, reload after a restart. *Hard:*
the voice worker writes the same memory during any await of a handler, Redis
failures are swallowed, an answer meant for one request meets another. *Correct
when:* an approved interpretation is paid for once, a batch reported done is
complete, what was answered does not come back, what is open survives a restart.

**Selections and displayed lists** (`assistant/chat.py`, `assistant/selection.py`,
`assistant/session.py`, `telegram/handlers.py`, `workers/transcribe.py`). *State:*
the list of dreams shown last and the dreams of each message shown, in memory and
Redis; the list a voice reply stages. *Operations:* read references off the output
of searches, choose those the reply names, number them; show, open, keep, remove;
remember a message; note in reply to a message. *Hard:* numbers are written by a
model and read by a user, a text answer and a voice reply replace one another's
list, a voice message is attempted twice. *Correct when:* the number beside a dream
opens that dream, a command acts on a list that was shown, and acts once.

**History** (`load_history`, `save_history` of `assistant/session.py`). *State:* one
row per chat. *Hard:* two turns read, answer and write back the whole conversation.

**Archive sources** (`shared/config.py`, `manage_archive_source` of
`assistant/tools.py`, `scripts/gdocs_canary.py`). *State:* the document written to
and the list of documents read, in a shared file, in the bot's memory, in the
environment. *Operations:* set, add, remove, restart. *Hard:* a write that fails and
is only logged, processes that see the file but not the memory. *Correct when:* all
processes write to and read the same documents.

**Retrieval** (`retrieval/*`). Chunks and their vectors, replaced per dream; the
chunks of notes are in the note outbox, ranking is numeric.

**Without state of their own:** LLM calls, archive research, patterns, feedback
(single-row upserts), the read-only API and mini app, configuration, tracing,
migrations, scripts.

How they interact: capture inserts job rows in its own transaction and wakes the
supervisor; the outboxes run the stages, of which gdocs goes through the delivery
and analysis leaves drafts for the curation; manual sync and auto-sync run the
ingest over the connected documents, which may close receipts and gdocs jobs and
stores the dreams whose motifs are induced; the voice pipeline hands its transcript to the
assistant, which captures, answers from searches and leaves a selection; retention
removes what the voice pipeline keeps.

The hazards of all this, 40 of them with their source lines and the properties
that watch them, are in `PROJECT.json`.

## 2. Plan

Written, in this order: `JobRow`, `DreamOutbox` with its abstract promise
`LeasedWork`; `GDocsDelivery`; `SourceSync`; `VoicePipeline`; `Conversation`; proofs
about each of these; `Segmentation` and `Archive` with its abstract
promise `EventRegister`; `Supervisor`; `ThemeCuration`; `Evidence` and `MotifReview`
with the abstract shelf `MotifShelf` that `DreamMemory` reads; `Notes`; `Selection`
and `Dialogue`; `History`; `Sources`; proofs about `ThemeCuration`, `History`,
`Sources`, `SourceSync` and `Archive` with the refinement of `EventRegister`; proofs
about `MotifReview`, with the refinement of `MotifShelf`, and `DreamMemory`; proofs about
`Supervisor`, `Dialogue` and `Notes`; proofs about time: the shutdown, the clock part of
`MCOutbox`, and the attempts of a job against a claim.

What is left:

1. Chunking of dreams and the replacement of their chunks; archive research, if it
   gets state.

`DreamOutbox` composes `JobRow` with workers, operators and an ingest;
`GDocsDelivery` and `SourceSync` compose the same `JobRow` with the document and
with Redis; `Supervisor` drives queues of such rows; `Conversation` and `Dialogue`
compose the update handler with the voice worker that `VoicePipeline` runs; `Archive`
composes capture, the delivery in outline, the human and the ingests over
`Segmentation`, and `Notes` the note outbox, the human and an ingest over it.

## 3. Modules

### JobRow

The row of an outbox table and what each UPDATE does to it, as operators without
state: `Eligible`, `Exhausted`, `HeldBy` are the WHERE clauses, `Claimed`,
`Renewed`, `Closed`, `FailedAttempt`, `Rearmed` the SET clauses, `RetryDelay` the
capped exponential delay. Time is relative: `age` since locked_at, capped just
past the lease, and `wait` until available_at, so that no horizon is needed. A
NULL locked_at is the capped age, which every query of the code treats alike.
`Rearmed` leaves token and lock time alone, as the ORM does when it is assigned
the None it has already loaded.

### DreamOutbox and LeasedWork

One action per transaction: `Claim` (sweep and lease), `CheckLease`, `Heartbeat`,
`Settle`, `ReadFailed` and `WriteRetry` (the two halves of
retry_dream_processing), `MarkPresence` (an ingest); one per outcome of a stage:
`StageReturns`, `StageRaises` (before or after its commit), `TimeOut`; `Abandon`
for a crash, a cancelled task or a settlement that fails; `Tick`. With
`Punctual = FALSE` a worker can sleep through any number of ticks between two of
its steps. The token, a uuid4, is the next number.

`LeasedWork` is the promise without clocks, workers or budgets: work is open,
held by one ticket, done or dead; a ticket is used once, only held work settles,
done is final and dead work is only ever reopened. `ImplementsLeasedWork`
instantiates it with the status and token of the rows.

### GDocsDelivery

A slot is one invocation of write_dream_to_google_doc and the thread it started;
`awaited = FALSE` is a thread whose coroutine was cancelled. `ClaimReceipt` and
`LeaveReceipt` are the upsert with its WHERE clause, `ReadDocument` and
`BatchUpdate` the two requests, `Success` and `Failure` the finalization,
`SettleJob` and `Cancel` the outbox around it. `wire` counts requests the server
still holds after the client gave up (`LateDelivery`). `FetchDocument` and
`StoreEntries` are the ingest, `HumanEdit` pastes or removes the entry.

### SourceSync

`Fetch`, `StoreSnapshot`, `Refuse`, `Break` and `Report` are ingest_document, run by a
worker for a job or by the poll. `CreateJob` is the commit of the row and `TellQueued`
the public status that its creator (`queuing`) writes only then, when a worker may have
told something else already. `ClaimJob` ... `Settle`, and `ShowSettled`, the public
status after the commit, follow `_run_claimed_job`; of the record it reads before it
begins (`ReadBefore`) it uses the marker only. `PollMarker` ... `PollOutcome` are
run_auto_sync_once. `auto` and `public` are the two Redis records; with `RedisFailures`
any single command may fail, whose effect is what the code makes of it (best-effort
writes are dropped, an unreadable status is none). `seen`, `stored`, `refused` and
`hidden` are history: which revisions and which jobs were really stored, which revisions
an ingest refused, and the jobs whose creator wrote "queued" over a failure.

### VoicePipeline

One voice message. `Receive`, `IngressClaim`, `Download`, `StorePath`,
`Acknowledge`, `PathFails` are the update handler (recovery shares the download);
`Claim`, `Run`, `Begin`, `StartTranscription`, `Transcribe`, `RecordFailure`,
`StoreText`, `StartAnswer`, `Answer`, `Stage`, `Unlink` a claimed event;
`Deliver`, `Send`, `Arrives`, `Acknowledged`, `StoreProgress`, `SendFails`,
`RecordSendFailure`, `MarkDelivered` the delivery. Every write goes through
`Fenced`, as every writer of voice_media.py checks owner and expiry under a row
lock. `Arrives` (the user has the message) and `Acknowledged` (the bot knows) are
two steps. `NoticeLoss` is the worker that the heartbeat has told, at the points
where the code looks. `LeaseExpires` takes the lease under a running worker,
`LeaseLapses` when nobody is left to renew it. `sent`, `sends` and `told` record
what the user has seen. `LateIngress = TRUE` lets the supervisor run between the
two transactions of an update, as the code does; FALSE is the handler with both
in one.

### Conversation

One chat. `mem` and `stored` hold, per kind of request, the number of the pending
one in process memory and in Redis; `asks` is the history of the requests, `notes`
the rows they led to. The update handler (`text`) is one process, since updates of
a chat are handled in turn; the voice worker (`voice`) is another and may step at
any await. A word of the user is an action up to its first await: `SayYes`,
`SayNo`, `SayThis` (a reply "this one"), `PressYes` and `PressNo` (the buttons of a
batch, which name no batch). What follows is one action per await: `Drop` (delete
in Redis), `Run` (the call of the model), `Look` (a "yes" for which no
interpretation was pending goes on to batch and single note), `Apply` per dream and
`ApplyEnd`, `Save` and `Clear`. `AskInterpretation`, `AskBatch` and `HoldNote` make
a request in memory, `Keep` stores it in Redis. `Restart`, `RedisFails`,
`RedisReturns` and `Lapse` are the world. `Apply` and `Save` have three outcomes:
stored, not stored, stored with the answer lost.

### Segmentation

Operators without state. `EntriesOf` is the parser: `Profile` chooses by the two
confidences between date lines, headings and a single entry, `Headed` and `Untitled`
make entries, one from each line of `Ranked` to the next. `InsertIndex` and `Written`
are where and what the bot writes for a dream. A paragraph is a form, a date and the
number of a text; `ShortTexts` are those that can pass for a heading.

### Archive and EventRegister

`rows` are the dreams as committed, each with its event, its key in the document
(heading and number among equal headings), its text and how far its delivery is;
`doc` is the document, whose paragraphs remember the dream they belong to
(`who`), which no program sees. `LookUp` and `Insert` are the two transactions of
create_dream; `ClaimDelivery`, `WriteDream`, `FinishDelivery` stand for
`GDocsDelivery`; `Type`, `Retitle`, `Reword`, `Move`, `Erase` are the human.
An ingest reads the document (`FetchEntries`) and then runs, per entry, the statements
of `_store_entries`: `FindByKey`, `FindRenamed`, `CheckVanished`, `Adopt`,
`InsertEntry`, and `Commit`. What it wrote is in `dirty` until then, and locked:
`AwaitedBy` says whom a statement waits for, `Deadlock` ends a circle, `GiveUp` is
every exception. `Place` is _apply_google_doc_metadata with the presence check, and
`AsEntry` the row it leaves. A row is known by its number; `Numbers` bounds how many there
can be, and `Fresh` are those not yet given.

`EventRegister` is the promise of capture: the first text of an event stays under
one number, repetitions are told that number, another text is refused.
`ImplementsRegister` instantiates it with the rows of each event and the answers.

### Supervisor

One bot process: the outbox loop with its two lanes, the sync loop, the voice loop
with its tasks, and the shutdown. A claimed job is just running here; what its row
goes through is in `DreamOutbox` and `SourceSync`. `OutboxTop`, `LaneClaims`,
`LaneEnds`, `TurnEnds`, `OutboxWakes`, `OutboxCancelled` are
run_dream_processing_supervisor from await to await, `SyncTop` to `SyncCancelled`
LocalAsyncJobEnqueuer, `VoiceClaims`, `VoiceTaskEnds`, `VoiceLoopEnds` the voice
supervisor; `PostStop`, `StopOutbox`, `StopVoice`, `StopSync`, `Close` and
`DeadlinePasses` the shutdown of bot.py. `Capture`, `DueAgain`, `UpdateEnds` and
`EnqueueEnds` are what makes jobs due, with or without a wake-up: `quiet` are the due
jobs for which none was called. `spent` is in the seconds of the code and moves only
to the next timer when nothing prompt is left to do (`TimerFires`). Without Redis there
is no enqueuer, which is the same as a sync loop that has ended before it began. No job
is in two queues (QueuesAssumption); the timeouts may be any (LoopsAssumption).

### ThemeCuration

A request (`tx`) reads in one step (`Load...`) and commits in another (`Commit...`),
since nothing locks the rows in between; `Written` is what the mapper writes: the
columns that changed against what was read. `Commit` stores rows and versions
together, `Abandon` is a failure before it. `CommitAnalysis` proposes drafts and
updates those of its dream, `CommitTransition` confirms or rejects, `RequestBulk`,
`TokenGone`, `Approve` and `LoadApproved` are the bulk confirmation with its token,
`CommitRollback` restores what `Restorable` finds in a version, `CreateCategory`,
`ApproveCategory`, `DeprecateCategory` the taxonomy. `past` remembers the rows a
theme has had.

### Evidence, MotifReview and MotifShelf

`Evidence` has the quotation rules as operators without state: `Acceptable` (the
parser of an answer), `Grounded` (the offsets check), `Reviewed` (what the inbox
verifies again before it shows it). `MotifReview` has inductions, between `StartInduction`
and `StoreMotifs`, and review requests, between `LoadMotif`, which locks the row, and
`CommitReview`; `log` are the versions of each motif. The text of a dream stays as it was
captured: an ingest that finds another one refuses (`workers/ingest.py:370-373`,
`:466-469`). Texts are sequences of words and never empty, since every way in refuses an empty
one (TextAssumption). `MotifShelf` is what its readers may rely on, drafts of captured
dreams that keep their dream and change by decisions only, and `ImplementsShelf` that the
code keeps it, with `Captures` and `Entries` for its variables.

### DreamMemory

Extends `MotifShelf` with the table of controls. `BeginControl` takes the time of a
row, `CommitControl` stores it, so that rows may commit in another order than they
are numbered. `Marks` is the replay of the rows of a subject, `VisibleDreams`,
`VisibleNodes`, `VisibleEdges` what the filters leave, `Shown` what an answer holds.
A reader runs three statements (`LoadDreams`, `LoadMotifs`, `LoadControls`), each with
a snapshot of its own.

### Notes

Extends `Segmentation`. `doc` are the lines of the document, which remember whose
they are and who wrote them; `Entries` are the dreams, `noteRows` the rows of dream_notes.
NotesAssumption has the types of the constants, and that notes are asked for dreams and
texts that exist. `LookUp` and `Insert` are add_dream_note, `Claim`,
`SweepExhausted`, `Crash`, `TimeOut`, `Settle`, `Retry` the outbox, `IndexNote` the
index stage, `ReadDocument`, `WriteNote`, `Lands`, `Cut` and `Arrive` the gdocs
stage with its request on the way; `Places` is where the client would write, by the
headings it can find. `DeliverDream`, `TypeNote`, `Retitle`, `Edit` are the rest of
the world; `Fetch`, `Store`, `Refuse` the ingest, whose store is one step because it
locks the rows of its dreams, which inserting a note needs too.

### Selection

`Result` is what a search returns, `Printed` the lines it prints, `Scan` and
`References` the reading of these lines, `Visible` the references that a reply names,
`Consistent` whether the numbers of the reply fit, `List` the list that is added when
they do not. `Answer` is an answer of the assistant: `reply.text`, the lines of the
model, is sent as it is, and `reply.list` below it. `Obey` is a command on its
selection. The model's reply is any sequence of two of the lines in `Replies`.

### Dialogue

A lane is the updates of a chat (0) or one of two attempts at a voice message, which
may overlap when the lease of the first is lost. `Load`, `FetchList`, `Copy`, `Look` are
the reading of the list shown last (memory, then Redis), `Act` the command, `Capture`
and `AddNote` the two that write rows; `TextSends`, `Keep`, `KeepCard`, `Remember` the
sending of a text answer and what is remembered of it; `StageSelection`, `StoreReply`,
`VoiceSends`, `Progress`, `Publish`, `Unstage`, `Mark` those of a voice reply, whose
list becomes current only once its message is out. `replies` are all replies composed,
a list is known by its reply, and `Digest` is the hash by which a staged list is
recognised. DialogueAssumption says what a request looks like, and that the voice worker
has neither buttons nor replies. The names leave room for `VoicePipelineProofs`, which
extends this module and `VoicePipeline`.

### History

`LoadHistory`, `DeleteHistory` (by chat and time stamp), `SaveHistory` and `Fails` of up
to three turns, and `Week`, in which the conversation expires. The names are longer than
those of other modules since `ConversationProofs` extends this one, `Conversation` and
`Notes`.

### Sources

`file`, `memory` and the environment are layers; `Target` and `All` are what a process
reads through them. `Ask`, `Name`, `Read`, `Write`, `SetSource` are the bot's set, add
and remove, `CanarySets` the script, `Restart` the bot's. Every write may fail.

### The MC modules

The checks of one process or one subsystem share a run. `MCOutbox`, `MCGDocsDelivery`,
`MCVoicePipeline`, `MCCuration`, `MCSourceSync` and `MCBot` extend the modules whose
theorems a reader may want to compare with the run (`DreamOutbox`; `GDocsDelivery`;
`VoicePipeline`; `ThemeCuration`, `MotifReview` and `DreamMemory`; `Sources`; `History`,
`Notes` and `Dialogue`) and put beside them instances of the others, or of the same
module with other constants. A variable that never changes (`part`, `late`, `split`)
says which of them a behaviour is of; the variables of the others stand still.
`JobParameters` and `SyncParameters` declare the constants of a module with their
assumptions, for the modules that only instantiate it, `CurationParameters` those that
the three parts of the curation share.

## 4. Runs and bounds

All runs finish within three minutes on two workers. Deadlock is checked in
`archive_overlap`, `gdocs`, `voice` and the violations about them. In the others the
work is bounded (jobs, requests, edits, messages, a process that is shut down) and
the instance really ends when it is done.

| Run | Instance | Question |
|---|---|---|
| `outbox` | crowd: 1 job, 3 workers, 1 operator with 1 retry, 2 attempts, every timer 1 tick, pauses of any length. clock: 1 gdocs job, 3 workers, the real minutes (lease 10, heartbeat 3, stage timeout 8, delays 1 to 60, 5 attempts), punctual timers. enriching: the loops with 2 dream jobs and 1 note job. syncing: the loops with 2 sync jobs and a voice task | Fencing, truthful success, the refinement to `LeasedWork`, settlement; no living worker overtaken, even when its heartbeat has died; no wake-up lost, nothing left running, a shutdown in time |
| `gdocs` | prompt: 2 workers, 1 user with 1 claim, 3 attempts with delays 1 and 2 against a claim of 2 ticks, 1 edit, a server that drops what its client gave up. late: 1 worker, 1 user with 2 claims, 2 attempts, 1 edit, late requests | One copy; a receipt that can be relied on; a claim that nobody finalizes does not use up the job |
| `sync` | sources: 4 documents, 4 changes. manual: 1 job, 2 workers, 2 attempts, 1 crash, refusals. poll: the poll alone, 3 edits, 2 crashes, failing Redis | All agree on the sources; what is recorded of a sync is true and stays; every job settles, the last edit arrives |
| `voice` | whole: 2 workers, 2 chunks, 2 attempts, 2 interruptions, undivided update. split: 1 chunk, 1 interruption, divided update | One reply, delivered whole, transcribed once, always answered, audio gone |
| `conversation` | 2 dreams, 2 requests of any kinds, the voice worker leaves interpretations and single notes, 1 restart, 1 outage | A batch done is complete, an interpretation runs once, answers are final, open requests survive |
| `archive_overlap` | 1 message delivered twice with two texts, 2 ingests that may die, a document with one dream, 1 edit of any kind | A dream keeps one row, the document stays readable, snapshots are stored whole, capture is a register |
| `curation` | themes: 2 dreams, 2 categories, 2 requests, 3 commits. motifs: 1 dream of 3 texts, 2 motifs, 2 requests, 2 reviews. memory: 2 dreams, 2 motifs, 2 controls, each of a dream or of an edge | A complete and safe history, verbatim evidence, what was taken away stays away |
| `bot` | notes: 2 dreams, one with an old note and still to be delivered, 1 call, 1 worker, 2 attempts, 1 edit, 1 ingest at a time. reading: 3 dreams, replies of two lines. crossing, failing: 1 update beside a voice message of two attempts, or of one with an outage and a lapse; 1 restart each. telling: 3 turns, 4 answers | Notes once and read back, numbers that fit or are put right, commands on what was shown, histories that survive |
| `sync_poll_refusal` | the poll, refusals | expected violation, section 6 |
| `voice_late_ingress` | 2 workers, 1 chunk, divided update | expected violation, section 6 |
| `notes_as_dreams` | 2 calls, a short and a long note of one dream | expected violation, section 6 |
| `note_where_replied` | 2 updates, of which the second is a note in reply | expected violation, section 6 |

Properties of a run that a reader may look for in a module and find in the MC module,
since they hold of one instance of several, or belong together:

- `TimeoutsFit` and `CrowdSettles` (outbox): LiveOwnerKeepsLease, with OneOwner and
  NoFalseSuccess, under the clock, and ShutdownFits of the loops; EventuallySettled of
  the crowd. `MCOutbox` extends `DreamOutbox` for the crowd and `Supervisor` for the loops,
  whose properties hold in every part.
- `SplitEnds` (voice): EventuallyAnswered and AudioGone when the supervisor may run
  between the two transactions of an update.
- `KeptUntilAnswered` (conversation): an open request survives a restart and an
  answered one is forgotten in memory and in Redis (AnsweredForgotten).
- `OneEntryOneRow` (archive_overlap): Legible and OneRowPerDream.
- `MotifsWarranted` (curation): MotifChain and EvidenceVerbatim; `AlwaysAnswered`:
  NeverLockedOut, that the table can be read, and OutputClosed, that an answer is closed.
- `ReadAsMeant` (bot): ReadBackAsItself of notes and NumbersAgree of a selection, which
  says that the list added by the code has the right numbers and that a number the model
  wrote is right or this list follows with the dream at its own. `MCBot`
  extends `History`, `Notes` and `Dialogue`, whose properties hold in every part.

Why these bounds. Rows of a table do not interact except through the sweep of a
claim's scope and the operator's read, so one row shows the races for a row; the loops,
which choose between rows, have two of a queue and one of the other. Three workers
allow a late owner, its successor and one that takes over again; two suffice where a
worker can do everything the others do between two of its steps. Two attempts tell the
last attempt from one that is not. The clock instance keeps the real ratios, because
the property is about them, and so do the seconds of the shutdown; in the prompt instance
of `gdocs` they are scaled: the real delays are 1 + 2 + 4 + 8 = 15 minutes over five
attempts against a claim of 10, the run has 1 + 2 = 3 over three attempts against 2. A
sync batch of 2 claims stands for the code's 20: the batch ends at its limit, or at a
claim that finds nothing; `BatchSize` can be set to 3 to see what longer batches do
(section 6). The outbox loop has the same limit of turns. Two chunks tell a first from a
last chunk. Two requests are an old one and one that takes its place or is answered
beside it, two dreams are a batch of which a part fails. In
`archive_overlap` an old dream, a captured one and a typed one meet in the document, the
last two under the same heading, so that moves change their numbers; two overlapping
ingests are every pair of a stale and a fresh snapshot.

In `curation` three commits are an analysis, a decision and a change of that decision by
a request that has read the row before; two requests are any pair of these. The replay
of controls looks at the rows of one subject only, and a subject is in one of four
states (plain, hidden, deleted, rejected), so two controls take it through every
transition, in both orders of committing. In `bot` one note call and one worker meet a
note from before the outbox, a dream still to be delivered, a retitled heading and an
ingest between any two steps; the replies of `reading` are all pairs of lines that name
a dream by title, date or number in an archive with equal, contained or missing titles
and dates; three turns of `telling` are a stale reader, a writer and one more; four
changes of `sources` are set, add, a failed write and a restart in any order. Edits,
crashes and interruptions are bounded by constants named in the modules.

Fairness. Claim loops, polls and sweeps run forever in the code
(`dream_supervisor.py`, the arq cron, `auto_sync.py`'s loop), timers fire and a
task that waits for nothing is scheduled: weak fairness. Nothing obliges a stage
to return, an assistant to succeed or an operator to act. Two actions get strong
fairness, because they are attempts at something external that must succeed
in the end for the claim to make sense: `Download` (a download tried again and
again succeeds) and `StoreSnapshot` (an ingest tried again and again is stored).
Crashes and interruptions have no fairness. `NotesOwed` says without fairness what the
note outbox owes: whatever was accepted has a job until it is done, and the outbox
settles its jobs as `CrowdSettles` shows of the protocol.

What the runs show, per module:

- Outbox. Only `StaleAfter > StageTimeout` protects a living worker, the
  heartbeat is not needed for it (`TimeoutsFit`); fencing needs no clock
  at all (`OneOwner` holds with unbounded pauses). The attempt count that a claim
  carries in memory is the row's as long as it owns the row.
- Loops. An event that is cleared before the queue is looked at loses no wake-up
  (`SleepsOnlyWhenDrained`), except in a turn whose other lane failed. Nothing runs once
  connections are closed (`ClosedMeansQuiet`), because the shutdown waits for the sync
  loop even after its own deadline; it is in time unless the sync loop has taken a
  cancellation for a failed ingest (`TimeoutsFit`, section 6).
- Delivery. With a transport that ends within the receipt's life
  (`BoundedTransport`: `GOOGLE_API_TIMEOUT_SECONDS`, 60 s, for each of two requests
  against 10 minutes) the thread of a cancelled stage is still inside its own claim,
  which is what makes the named range a sufficient test for "already written". What
  dies between its claim and the finalization leaves a receipt that every attempt of the
  job has to wait for: their delays are long enough (`BudgetOutlastsClaim`), unless users
  claim it anew meanwhile.
- Sync. A job that its first claim ends as succeeded was ingested, but only as long as
  nobody writes over the refusal before the worker reads it: `FirstClaimStored` excepts
  failing Redis commands and the creator of the job (section 6). Taking the marker before
  the ingest is what keeps `MarkerIngested`;
  announcing `running` with the old marker and a staleness rule for `running` is
  what brings a sync that died back.
- Voice. The staged reply and its cursor, both written under the lease, make
  delivery resumable; one interruption costs at most one repeated chunk.
- Conversation. `RunOnce` rests on the order memory, Redis, model: any later
  deletion lets a restart reload an approved request. A failed note costs nothing,
  because the request is forgotten only when its last dream succeeded.
  `OverStaysOver` rests on updates being handled in turn: a handler that took an
  answer while another one still had its request to store in Redis would bring it
  back.
- Archive. An ingest that stores an old snapshot after a newer one undoes headings,
  not identities: the unique key makes the second of two inserts join the first, and
  while a known key is missing from the document no unknown entry is stored, instead
  of guessing. `Legible` rests on InsertIndex stopping at headings only. What
  overlapping ingests cannot do is told in section 6.
- Themes. No lock is needed for the history to be complete, since the version and the
  columns it speaks of are written by one transaction. What a version calls the state
  before may be stale, but it was real once, which is all that a rollback needs.
- Motifs and memory. A quotation is checked when it is stored and again when it is
  shown, by two pieces of code that agree, since the text under it stays: nothing stored
  is lost or moved. The row lock makes the versions one chain. Nothing
  refuses a control that changes nothing or comes too late, so it is the replay that has
  to make sense of any sequence of them: hiding what is deleted, restoring what was
  rejected.
- Notes. Once, because the named range is looked for before every write and a lost
  request ends before the retry reads the document (`LateThreads`). Read back as
  itself, because the line begins with the word that the parser takes for a note's and
  because the unique note of a dream and a text is found again.
- Lists. A message whose only numbers are wrong is not sent: the added list has each
  dream at the number that a command takes (`Consistent` decides whether it is needed).
  The lines of the model stay above it, though (section 6). Publishing the list of a
  voice reply only after its message is out is what keeps a spoken "remove the first"
  from removing twice when it is attempted twice. The digest is needed because a second
  attempt may have staged another list.
- History. A stale reader deletes by chat and time stamp: by chat alone it would take
  the conversation that another turn has saved meanwhile.
- Sources. The first successful write persists the whole view of the bot and not only
  what it changes; otherwise documents that only the memory knew would be lost.

## 5. Proofs

For every value of the constants (sets of jobs, workers and slots of any size,
any timing, budgets and lengths), under the assumptions named in the modules:

| Module | Theorem | States |
|---|---|---|
| `OutboxProofs` | `TypeCorrect` | TypeOK |
| | `Fencing` | OneOwner |
| | `RowsAreSound` | OwnerKnowsAttempt, NoFalseSuccess, NothingStranded |
| | `KeepsPromise` | ImplementsLeasedWork with one operator and no ingest |
| | `OwnerKeepsLease` | LiveOwnerKeepsLease if timers are punctual, a stage times out before its lease goes stale, and an operator and an ingest do not both interfere (Calm) |
| `SupervisorProofs` | `LoopsTypeCorrect` | LoopsTypeOK: the types of `Supervisor` |
| | `ClosesQuietly` | ClosedMeansQuiet |
| | `NoLostWakeUp` | SleepsOnlyWhenDrained |
| | `ShutdownEndsInTime` | ShutdownFits if the limits of the parts add up to less than the deadline (DeadlineFits) |
| | `TimeoutsMatch` | TimeoutsFit of `MCOutbox`, under DeadlineFits |
| `GDocsDeliveryProofs` | `TypeCorrect` | TypeOK |
| | `CallsAreFenced` | LiveCallOwnsReceipt |
| | `WrittenOnce`, `AppendsOnlyUnderClaim` | InsertedOnce, AppendsUnderClaim if the server applies nothing late |
| | `Reliable` | ReceiptStands: NoFalseDelivery, DeliveryIsFinal, AppendClaimed |
| | `BudgetLasts` | BudgetOutlastsClaim if the delays before the last attempt add up to more than the life of a claim (DelaysOutlastClaim) and users claim at most once |
| `VoicePipelineProofs` | `TypeCorrect` | TypeOK |
| | `SingleReply` | OneReply if an update is undivided |
| | `Complete` | DeliveredWhole |
| | `DeliveredForGood` | DeliveryIsFinal |
| | `CommittedTranscript` | TranscribedOnce |
| | `RepeatsPaid` | RepeatsExplained if an update is undivided |
| | `DialogueTypeCorrect` | DialogueTypeOK: the types of `Dialogue`, lists are numbers of replies |
| | `ListsWereShown` | SelectionWasShown |
| | `SpokenOnce` | VoiceCommandOnce |
| `ConversationProofs` | `TypeCorrect` | TypeOK |
| | `BatchComplete` | DoneMeansAll |
| | `CalledOnce` | RunOnce |
| | `NothingComesBack` | OverStaysOver |
| | `OpenRequestsLast` | KeptUntilAnswered |
| | `NewHistorySurvives` | FreshHistorySurvives of `History`, if the summary keeps at least one exchange |
| | `NotesInvariance` | NotesIInv: whose lines the document has, whose jobs the outbox has, where a note may be written |
| | `NoteEchoes` | NeverEchoed |
| | `NoteOnce` | WrittenOnce unless LateThreads |
| | `NotesAreOwed` | NotesOwed |
| `CurationProofs` | `TypeCorrect` | TypeOK |
| | `HistoryComplete` | AuditComplete of themes |
| | `UndoIsSafe` | RestorableWasReal |
| | `OnlyTheUserDecides` | DecisionsSigned |
| | `MotifsTypeCorrect` | MotifTypeOK: rows, versions, texts, what a request knows |
| | `MotifsAreWarranted` | MotifsWarranted: MotifChain, EvidenceVerbatim |
| | `ReviewImplementsShelf` | ImplementsShelf |
| | `MemoryTypeCorrect` | the types of `DreamMemory`, controls numbered one by one |
| | `MemoryForgets` | TakenAwayStaysAway |
| | `MemoryAnswers` | AlwaysAnswered: NeverLockedOut, OutputClosed |
| `SourceSyncProofs` | `SourcesTypeCorrect`, `SameSources` | the types of `Sources`, SourcesAgree |
| | `SyncTypeCorrect` | TypeOK of `SourceSync` |
| | `RecordsAreTrue` | RecordsStand: MarkerIngested while no ingest is refused and no manual job created, KeepsSettled, FirstClaimStored (which excepts a refusal hidden by the creator) unless Redis fails |
| | `Consistent` | IInv of `Archive`: columns, keys, locks and what each ingest remembers agree |
| | `Stored` | StoredAsFetched |
| | `Registers` | ImplementsRegister |

`JobRowProofs` has the lemmas about the row operators (types, what each keeps and
changes) that `OutboxProofs`, `GDocsDeliveryProofs` and `SourceSyncProofs` use. Each
module of proofs extends the modules it is about, `SourceSyncProofs` all of `SourceSync`,
`Sources` and `Archive`, whose names are kept apart for it; `SupervisorProofs` extends
`MCOutbox` and takes the theorems of `OutboxProofs` by INSTANCE.

Two hypotheses compare constants, and the code's satisfy them. DelaysOutlastClaim: an
attempt is followed by its retry delay, or by the lease of a worker that died on it,
whichever is shorter, which is 1 + 2 + 4 + 8 = 15 minutes before the fifth attempt, against
the 10 of WRITE_RECEIPT_STALE_AFTER. DeadlineFits: 10 + 15 seconds for the outbox and the
sync loop, 2 * 5 + 10 + 15 for the voice loop, its tasks and the sync loop, against 40.

*Outbox.* IInv = TypeOK, Tickets, OwnerKnowsAttempt, NoFalseSuccess,
ReportsWork, NothingStranded. Fencing is not inductive alone: two workers must
never hold the same token, and every token held or stored must have been issued
(Tickets), so that a new claim's token is new. NoFalseSuccess needs ReportsWork:
a worker that is about to report success has its work in `done`. NothingStranded
needs OwnerKnowsAttempt, since the settlement compares the remembered count.
The refinement compares the steps row by row: each row is kept, finished, granted or
rearmed, and `LeasedWork` allows the combinations that occur. It needs Planned, that the
rows an operator is about to write are still failed, which a second operator may have
changed by rearming them and an ingest by closing them (Alone excludes both). For
OwnerKeepsLease the lease of a worker is never older than its stage (Fresh), so that the
stage times out first; it needs Planned too, or an operator would rearm a row whose
worker lives.

*Loops.* LoopsIInv = LoopsTypeOK, Held, Halted, Drained. Held says that a running job is in
a lane of an outbox loop that is at its turn, or is the job of a sync loop that is at its
batch, so that a loop which ends leaves nothing running; it is here that no job may be in
two queues. Halted follows the shutdown: what it has waited for has ended, and an ended
loop does not begin again. Drained is SleepsOnlyWhenDrained before the loop sleeps: while
the wake event is clear, a lane that found its queue empty has left nothing due behind
that anybody called for. It needs Woken, that a stop sets the event, since a loop that is
stopped goes to sleep after a turn that may have left something. Steps are compared by
NothingNewDue: none but the end of an update or of an enqueue, which set the event, makes
anything due that somebody called for.

*Shutdown.* ShutdownInTime says, for every place the shutdown can be at, how much of its
time is spent at most: the limits of the parts it has been through, and of the one it is
at, which began at `since`. Time goes no further than the next timer, and only while
nothing is ready; what is ready is spelled out (`Ready`), so that no ENABLED is needed. The
sync loop is the exception that ShutdownFits names: as long as it has taken no
cancellation for a failed ingest, it has ended, or is cancelled and ends at once.

*Parts.* `Timed` is `OutboxProofs` for the constants of the clock part, whose assumptions
are arithmetic (RealConstants); the Same lemmas identify the definitions that MCOutbox and
Timed have each from an instance of `DreamOutbox`. So the step lemmas of the three
theorems about rows apply to the part, and PartsInv is their invariants with that of the
loops, whichever part a behaviour is of.

*Delivery.* IInv = TypeOK, Claims, Marked. Claims says that a live slot owns the
pending receipt and that receipt age and slot life advance together, so that
CallLife <= ReceiptStale keeps the claim fresh; Marked says that a copy has its
named range and that a slot about to insert has seen none, which with Claims
leaves only one such slot. LateDelivery = FALSE is needed only here. Reliable needs
neither: until the dream has been in the document nobody has seen it there, in a
request, a receipt or an ingest (Evident). BudgetLasts counts the attempts that found the
claim held (`waited`). If any attempt did something else, one is left over (Counted).
Otherwise the claim is the one that a user has made (Unclaimed), and it is at least as old
as what those attempts have put between them (Paced), so that it is stale before the last
of them looks. LeaseHeld keeps it to one attempt at a time; `sum` is any function with the
sums of the delays.

*Voice.* IInv = TypeOK, WorkersFit, RowFits, Agreed, Quiet. WorkersFit is what each
worker knows of the row while it owns it (no transcript before Whisper, nothing
staged before Stage) and what it knows even without owning it once it sends: all
earlier chunks are out, and its reply is the staged one. RowFits ties the cursor,
the status and the reply to what was sent. Agreed is OneReply made inductive: what
was told and what any sender will tell are the same. Quiet is what the undivided
update gives: nobody owns a row between its two transactions. Each action is
reduced to one of four kinds of step (elsewhere, owner, claim, fading), with one
lemma each. RepeatsPaid balances the messages sent against the chunks: a message that
is out and not in the cursor, and a chunk that will have to go again, are each paid for
by an interruption (Balanced), and nobody is more than one chunk ahead of the cursor
(Cursored).

*Lists.* DialogueInv = DialogueTypeOK, LanesOK, EventOK, ListsOK. ListsOK is SelectionWasShown
for what is stored; a lane that is about to store a list must know the same of it
(LaneOK, by place), since what was shown stays so. An attempt publishes what is staged only
if it is the reply that was delivered, or has its digest. SelectionWasShown alone would not
do for VoiceCommandOnce: no reply of the voice message is a current list before one is
stored for delivery, which happens once (EventOK), and the holder of the lease answers only
while none is stored. An attempt that has lost the lease may answer later from a list of the
same message, but its reply is never sent.

*Conversation.* IInv = TypeOK, Placed, Aware, BatchNotes, DoneMeansAll. Placed says
that a place for a kind holds requests of that kind, Aware what the handler knows of
the request it is at, and that the voice worker never has a request of the text
handler to store. BatchNotes is DoneMeansAll before the end: while nothing failed,
what is off the list has its note. Every action is one of a few kinds of step
(answer, turn, ask) with a lemma each. OverStaysOver follows from the lemma
StepReaches: a step can only place or handle a request that a copy holds already or
that someone is about to store. RunOnce is made inductive by Once: without an
outage, a request that was run is held nowhere and handled by nobody, one about to
be run has left both copies, and one about to be deleted has left memory. That
holds through restarts, and needs Placed, since a copy in the place of another kind
would survive the deletion. KeptUntilAnswered is about the copy in Redis of the last
request of a kind: memory shows that request or none, and a handler that is about to
delete is at that very one (Shown), unless an outage has hidden it.

*Notes.* NotesIInv = DocumentOK, RowsOK, JobsOK, CallsOK, WorkOK, OneWorker, AdriftOK,
AcceptedIsOwed. NeverEchoed is about lines of the bot; it needs that a job to write, a
worker at one and a request adrift are only ever of a note that came by Telegram after
the outbox (ByBot), and those jobs are put down in the transaction that makes the note and
nowhere else. NotesIInv bounds no lines, edits or texts, and knows nothing of what the parser
reads: an ingest may bring any notes. WrittenOnce needs OneWriter as well: while somebody
is about to write a note, its mark is not in the document, and nobody else, worker or
request adrift, is about to write it. A crash hands the note from the worker to the request; a
claim would break it if a request of the note was still adrift, which is LateThreads. That
the others stay as many as they were is a lemma about putting lines in (SplicedKeeps).

*Themes.* IInv = TypeOK, Lived, AuditComplete, RestorableWasReal and what each request
knows. Lived says that a theme has been what it is; Known, that what a request has read
of its themes they have been, however stale it is by now. So the version a commit writes
speaks of a real state before, and the columns it changes become what it says, which is
`Committed`: the one lemma about commits, for any sound set of versions, of which analysis,
decision and rollback each have one. Categories must not be themes (Apart).

*Motifs.* ReviewIInv = MotifTypeOK, TextKnown, RowLocked, MotifChain, and that what is
stored quotes its dream (Quoting). RowLocked is the row lock: a request that has loaded
a motif is alone with it, and what it has read is what the motif is, so that its version
starts where the last one ended. Quoting stays because a motif is only of a dream that
has a text (TextKnown), and a text is given once; the review then finds every quotation
in its place and looks for none elsewhere. For the shelf, a step of induction is a
proposal of drafts under the names it found, and a review changes name and status of one
entry.

*Memory.* MemoryIInv = types and Numbered. A replay is recursion over the rows: Replayed
says that there is a function of the rows which starts unmarked and takes one step per
row, and Upwards is induction along it, so that what one row keeps (EffectMarks) the
replay keeps: at most one mark, what is deleted or rejected, and what is hidden until it
is restored. It needs the rows to be numbered one by one, or a CHOOSE could take another
row of the same number.

Induction over data. The induction theorems of the library take an operator and cannot be
used; LeastNumber, from the wellfoundedness of inclusion among finite sets, takes a set
instead, and with it intervals of numbers can be gone through.

*Archive.* IInv = Shapes, Relations. Shapes: rows have their columns, the document is a
sequence of lines and what is still to be delivered has a body, whoever writes.
Relations: no two ingests write one row (Locked), what an ingest has written keeps event
and text of the rows it found (Remembered), keys are unique among the rows and in what
each ingest sees (KeysUnique) and no two ingests are writing one key (KeysApart), and the
entries an ingest has passed are in its rows as fetched (StoredSoFar). The statements are
reduced to kinds: Begins, Searches, Writes, and Commit. Writes needs that a statement
which would wait does not proceed, and that the keys of one snapshot differ, since the
entries with one heading are counted from the top (LaterKeyDiffers). The first text of an
event is a function of the rows, so that the refinement is that each transaction keeps
it, adds one event, or is told the one that is there.

*Sync.* SyncIInv = TypeOK and what is known of each actor. A poll has asked for the
revision before it fetched the document, so that what it stores is as new as the marker it
will leave (Polled); the marker that it would restore on failure was ingested when it was
read. A job that has been claimed once has one worker only (Claims). Besides it only the
creator of the job may write its public status, once, after the commit; so the worker
knows what became of the ingest (Told) unless that write has hidden it (Knows).

*History and sources.* RowIsLast says that the row is the one written last, unless that
one has expired, so that an expired row is none to protect. For the sources, what was
accepted must be in three places at once: in what the file alone gives (SeenByAll), in
what the bot sees (SeenByBot), and in the list that the bot has composed but not written
(SeenAfter), which another process may overtake.

Model-checked only: everything under fairness (CrowdSettles, JobsSettle,
EventuallyFresh, SplitEnds), which needs ENABLED; OneEntryOneRow and ReadAsMeant, which
say what the parser of documents makes of every reachable document, and the reader of
lines of every answer. The parser takes paragraphs one after the other, so that what it
returns for a document of any length is induction over data. Nor does either hold for
every archive: section 6 has short dreams that are no entries of their own (against
Legible), headings that lead notes astray (ReadBackAsItself) and a reply that mixes the
titles and dates of four dreams (NumbersAgree); the runs have the documents and replies
for which they do. OneRowPerDream alone rests on Legible too, since which row an entry
goes to is decided by its heading. Where an ingest closes rows, TimeoutsFit is proved
too, since LiveOwnerKeepsLease excepts the worker of such a row. OwnerKnowsAttempt,
NothingStranded and AppendsUnderClaim are proved and no run checks them.

## 6. Where the code does something else than its documents or tests say

Four are runs with an expected violation:

- `sync_poll_refusal` / RefusalShown. run_auto_sync_once takes every result of
  ingest_document that is not an exception for a success, also the 0 it returns
  after GDocsAuthError and SourceDreamConflictError (`services/auto_sync.py:120`,
  `workers/ingest.py:106-135`). `docs/tasks_phase22.md:387` wants the state
  "honest when failed/stale/running/synced". A refused revision is shown as synced
  and is not tried again until the next edit.
- `voice_late_ingress` / OneReply. voice_message_handler decides from the row it
  recorded and claims it in a second transaction without looking at its status
  (`telegram/handlers.py:732`). The supervisor can answer the message in between;
  the handler then downloads again and replaces the staged reply.
  `docs/RUNBOOK_VOICE_PIPELINE.md:194` says "no second row or second reply".
- `notes_as_dreams` / NotesAreNoDreams. Headings are looked for before note lines are
  taken out (`services/segmentation.py:478`), so that a note of at most eight words
  above a long paragraph can be a heading: two notes of one dream are read back as a
  second dream. `docs/tasks_phase16.md:198` has notes kept apart from the text, and
  `tests/unit/test_segmentation.py:146` extracted.
- `note_where_replied` / NoteWhereReplied. For a reply to a message whose dreams are not
  remembered, as those of a full text (`assistant/chat.py:935`), no target is found, but
  the note is added all the same, without one (`telegram/handlers.py:521`), and goes to the
  dream of the recent list or to the newest. The comment at :2005 says that a reply "is an
  explicit target" and warns of exactly this.

The others are not in the list of runs. Some have a configuration of their own
(`tlc -config X.cfg M`); for the rest the table says which constants of a
configuration to change.

| Configuration, or what to change | Violates | What happens |
|---|---|---|
| `GDocsDelivery_late_request.cfg` | InsertedOnce | A request still queued at the server when the retry reads the document is applied after it: two copies. "Write a dream entry once", `services/gdocs_client.py:309`; the batchUpdate at :403 has no required revision. |
| `SourceSync_manual_marker.cfg` | MarkerIngested | A manual job takes the marker after its ingest (`workers/sync_jobs.py:294`); an edit in between is recorded as seen and never stored until the next one. |
| `SourceSync_manual_marker.cfg` with RedisFailures and Refusals, without edits | SuccessWasStored | The public status in Redis is the only way a refusal reaches the worker (`sync_jobs.py:226`); an unreadable one counts as no refusal. `tests/unit/test_manual_sync_jobs.py:247` wants the job failed. |
| `SourceSync_manual_marker.cfg` with Refusals, without edits and crashes | SuccessWasStored | The row of a job is committed (`sync_jobs.py:60`) before its creator writes "queued" (`:62`). A worker of another process claims it in between, its ingest is refused and says "failed", the late "queued" takes its place, and `:226` sees no refusal: the first claim ends as succeeded with nothing stored. `tests/unit/test_manual_sync_jobs.py:247` wants the job failed. |
| the same with two workers | SuccessWasStored | A worker without its lease writes `running` over the refusal that the new owner is about to read. |
| `Outbox_parts.cfg` with three sync jobs and a BatchSize of 3 | ShutdownBounded | A running sync job takes the cancellation of the shutdown for a failed ingest (`sync_jobs.py:228`), and the batch goes on to the next job. With three jobs waiting the deadline of 40 s passes; without it, connections stay open until the batch is over. `api/dreams.py:379`: "Running work is either allowed to finish or is released back"; `telegram/bot.py:171`: "cancelled by their own bounded shutdown logic". |
| `VoicePipeline_late_ingress.cfg` without LateIngress, with 2 interruptions | AudioHeld | The loser of a lease deletes the file at the path its successor uses (`workers/transcribe.py:261`); one attempt is lost. |
| `VoicePipeline_fourth.cfg` | NoFourthAttempt | After the last attempt, a crash and the sweep of the audio, recovery downloads before it looks at the status (`transcribe.py:230`), which resets it: Whisper is called again. `transcribe.py:416` excludes a fourth attempt. |
| the same, with one worker and no interruption | AssistantRetried | A failed assistant's message is staged as the reply and closes the row (`transcribe.py:550`); `RUNBOOK_VOICE_PIPELINE.md:151-152` says that the row is reclaimed. |
| `Conversation_unseen.cfg` | SeenBeforeRun | An interpretation prepared for a voice message is pending before its reply is delivered (`assistant/tools.py:601`); a "yes" meant for something else approves it unseen. `docs/tasks_phase22.md:315`: "visible to the user in plain Russian before execution". |
| `Conversation_kept.cfg` | KeptForChoice | The handler stores one single note, and then clears whatever single note is pending (`telegram/handlers.py:1341`), also one that a voice message left during the await. `transcribe.py:592` has told the user that its text is kept. |
| `Bot_parts.cfg` with the part telling alone | NoneLost | A text and a voice turn both read the conversation, and the second to write it back drops the exchange of the first (`assistant/session.py`, save_history). |
| `Bot_parts.cfg` with the part notes alone, all dreams delivered, no edit | SyncAccepted | A note of two lines is written as it is; its second line is no note for the parser but part of the dream, whose text has then changed, and every later ingest is refused. |
| the same part with LateThreads, no edit | WrittenOnce | A cancelled request that outlasts the delay before the retry (60 s against a transport of 60 s) is applied after the retry has read the document. |
| the same part, all delivered, without the old note, two headings of one day | ReadBackAsItself | Two headings of one day are similar enough for the client; the note goes under the wrong one and comes back as a note of the other dream. |
| the same part, all delivered, without the old note and edits, one heading without style | ReadBackAsItself | A dream whose heading has no heading style does not end the section of the dream above it (`services/gdocs_client.py`), and the note lands in the wrong entry. |
| `Selection` alone with the values that `MCBot` gives it (Reading) | EveryNumberAgrees | A reply that writes two dreams as "2. A" and "1. B" keeps these lines; the list "1. A, 2. B" is added below (`assistant/chat.py:414-418`) and is what "open 2" goes by, so that B opens although the user also reads 2 beside A. `docs/TELEGRAM_INTERACTION_MODEL.md:146-149`: Telegram stores "the displayed order" of the numbered list, and the handler "resolves the numbers against that displayed list". |
| `Selection` alone with four dreams on four days, two of title 1 and two of title 3 (1 occurs in 3), one list of recent dreams, replies of three lines | NumbersAgree | A line has the date of one dream and a title that contains that dream's. Among all dreams found it names that dream; among those that the reply names, whose twins are gone, it names the one with the longer title (`assistant/selection.py:127-158`). The numbers are checked against the latter only and accepted (`selection.py:183-195`), so that a number can stand beside words that fit another dream. No dream of the archive has what the line says. |
| `Archive_race.cfg` (MCArchive) | OneRowEver | Two ingests overlap and a heading is changed between their fetches: the first has inserted the entry under the old heading but not committed, so the second finds neither key, nor renamed row, nor vanished slot, and inserts it under the new one. `workers/ingest.py:406-408`: "Never turn it into a second dream"; `docs/tasks_phase22.md:98`: "rerunning sync does not create duplicate rows". |
| `Archive_same_words.cfg` (MCArchive) | SameWordsOneRow | Two messages with the same words are two dreams (`docs/DEPLOY.md:211`: "a separate legitimate archive entry"); when the first is delivered before the second, an ingest finds two rows to adopt, adopts none and inserts a third (`workers/ingest.py:549-556`). |
| `Archive_overlap.cfg` under FairArchiveSpec, one call with a text below 10, one ingest, no edit or crash | EventuallyArchived | A dream told in at most eight words without a final full stop looks like a heading itself, so that the line written above it is none and the dream is read as part of its neighbour. |
| the same with DateLines and DatedDream, and a text of 10 | EventuallyArchived | A document of date lines (`tests/unit/test_segmentation.py:24`) in which the bot writes its "date - title" changes its profile, and the ingest sees other entries. |
| the same with an empty document and two typed entries, not Orderly | EventuallyArchived | In a document out of the order of dates the bot may write above an entry with the same heading; the numbers of both change and every later ingest is refused. |

With the same constants, but Orderly and a text of 10, EventuallyArchived holds: where
there are full stops, headings, one ingest and entries added in order.

Seen while modelling, part of what the modules allow, and not told against a document:

- Themes. A draft may be confirmed by one request and rejected by another at the same
  time, both with success; the later commit stands, and a stale bulk confirmation can
  overwrite a rejection. A category that is approved and deprecated at once may end
  active. A token approved twice confirms nothing new but succeeds twice. The
  deprecation of a category marks its themes without a version of each.
- Motifs. Two inductions of one dream that overlap both store their motifs. The motif of
  a hidden dream stays visible as a node, without its edge
  (`docs/DREAM_MEMORY_MAP.md:344-350` speaks of edges only).
- Loops. A turn that fails ends the batch although other jobs are due, until the interval
  or the next wake-up. The concurrent lanes of dream_supervisor.py:115 are a promise
  about jobs that are there when a turn begins. Voice captures wake no loop.
- Notes. A note whose dream is not yet in the document after five attempts, about a
  quarter of an hour, fails for good, and nothing in the application calls the retry of
  notes. A replayed message without a reference may find another dream than the first
  time (`assistant/facade.py:1023`), which makes a second note.
- Selections. A search by title is cut by date before it is ordered by match. Dreams
  without a date come first in a list of recent ones and last as the target of a note.
- Lists. "Return the last displayed dream list for chat_id" (`assistant/session.py:680`)
  is not what a command gets when a text answer and a voice reply cross, when a failed
  write to Redis is followed by a restart, or when a list that was read from Redis
  replaces a newer one in memory (`assistant/chat.py:146`). What it gets is always a list
  that was shown (`SelectionWasShown`). An ambiguous request for a full text is answered by
  a list that is no selection, so that "open 2" means the one before.
- Sources. Until the first write that succeeds, a target that the bot has been told is
  unknown to the API and the auto-sync (`docs/DEPLOY.md:189` wants one configuration).
  With a persisted target a failing write of a new one is answered with success and
  changes nothing. A document that was added, made the target and then replaced is no
  longer read.
- Outbox. retry_dream_processing writes back by primary key what it read
  (`assistant/facade.py:661`), so the second of two overlapping retries of two operators
  resets a running row; the runs have one operator.

## 7. Abstractions, and what is left out

- Choice of the row. The code claims the eligible row with the smallest
  available_at; the models claim any eligible row, which includes that one.
- `Abandon` merges a crash, a cancelled task and a failed settlement, which leave
  the same row.
- Clocks. `DreamOutbox` and `GDocsDelivery` have relative clocks. `SourceSync` and
  `VoicePipeline` have none: a lease may expire at any time and a retry delay is
  over at once, which allows more behaviours than the code. The heartbeat in
  `GDocsDelivery` is the one of `DreamOutbox`, folded into `Tick`. In `Supervisor` what
  ends between two timers is taken to end at the first.
- `VoicePipeline` has one event and one reply at a time. A retention window is
  longer than a lease and than a download (`VOICE_RETENTION_SECONDS`, an hour, against
  minutes). The `.part` file of a download, which is renamed when complete, and the
  legacy statuses of rows written before the current schema are left out.
- `LiveOwnerKeepsLease` excepts the ingest that finds the work done and closes the
  row under its worker.
- `Conversation` and `Dialogue` have one chat; the eviction of the oldest chats beyond a
  cap is left out. Reading a request from Redis and copying it into memory is one step in
  `Conversation`, although the voice worker may leave a request of the same kind in
  between, which is then overwritten or cleared in memory (as in `Conversation_kept.cfg`);
  its copy in Redis stays. The dream a reply or a shown list points to is an input there,
  and the subject of `Dialogue`; the classes of texts are an input of both. A note that is
  stored at once, without a request, leaves no trace in `Conversation`. `notes` is a set
  because add_dream_note finds the note of the same dream and text and stores no second
  one. Only the text handler's requests are covered by RunOnce, AnsweredForgotten and
  OverStaysOver, and only kinds it alone asked for by KeptUntilAnswered: the voice worker
  may store its request in Redis after the user has answered the copy in memory.
- `Selection`: titles and dates are numbers, a line of a reply names at most one of each,
  and dream texts hold no lines that look like the fields of a search.
- `Dialogue`: two replies have one digest if they are of one kind and show the same
  dreams. A list is known by its reply.
- `Notes`: leases are those of `DreamOutbox` and run out here only when their owner is
  gone; the target of a note is an input. `ReadBackAsItself` excepts lines torn apart by
  an edit between the reading of the document and the write, which carries no revision
  to check (`torn`), and notes of several lines (`Broken`).
- `ThemeCuration`: a reading is an element of a small set; searches for duplicates of
  motifs, labels and the wording of versions are left out. `DreamMemory`: the exports with
  other scopes than the normal output.
- `History`: an exchange is a number. `Sources`: lists are sets, reads do not fail.
- `Archive`: one document and one chat. Profiles are detected, not configured, and
  paragraphs sanitised. A statement that waited is evaluated afresh when it
  proceeds, and of two transactions in a circle either may be ended. Receipts that
  failed or went stale, rows without jobs, other connectors and the pipeline after the
  store are left out; the notes of entries are in `Notes`. `OneRowPerDream` excepts dreams
  whose words changed before the archive knew them or during an ingest (`loose`):
  nothing in the document could tell them from new ones.
- Database: outside `Archive` a transaction is atomic and isolated at the granularity of
  the actions; row locks and ON CONFLICT are what makes it so in the code. Redis commands
  and files are single steps.

Not modelled: archive research, patterns and receipts and the read-only API and mini app
(computations over a snapshot), feedback (upserts of single rows), ranking (numeric),
prompts and the LLM client (a provider may answer anything that passes the parser),
configuration, tracing, migrations and scripts that are run by hand; the pending draft of
a dream, which no path stores; the notification of a chat after a manual sync, which two
finishers may send twice (`api/dreams.py:268`). `PROJECT.json` has the reason for each.
