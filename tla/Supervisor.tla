------------------------------ MODULE Supervisor ------------------------------
(***************************************************************************)
(* The loops of one bot process and its end: the outbox supervisor with    *)
(* its lane for dreams and its lane for notes (workers/dream_supervisor.py)*)
(* the manual sync supervisor (LocalAsyncJobEnqueuer in api/dreams.py),    *)
(* the voice maintenance supervisor with its tasks (workers/transcribe.py),*)
(* and the shutdown that stops them before the connections they use are    *)
(* closed (telegram/bot.py).  Within a process a claimed job is just       *)
(* running; what its row goes through is in DreamOutbox and SourceSync.    *)
(***************************************************************************)
EXTENDS Integers

CONSTANTS
  DreamJobs, NoteJobs, SyncJobs,  \* jobs of the three queues
  BatchSize,         \* turns of the outbox loop, claims of a sync batch
  MaxVoiceTasks,     \* bound: voice events in work at once
  OutboxStop,        \* DREAM_SUPERVISOR_STOP_TIMEOUT_SECONDS
  VoiceStop,         \* VOICE_SUPERVISOR_STOP_TIMEOUT_SECONDS
  VoiceTasksStop,    \* VOICE_ACTIVE_TASK_STOP_TIMEOUT_SECONDS
  SyncStop,          \* timeout_seconds of LocalAsyncJobEnqueuer.shutdown
  SyncAck,           \* its wait for the cancelled supervisor
  Deadline           \* _APPLICATION_SHUTDOWN_TIMEOUT_SECONDS

\* Rows of three tables; the times are numbers of seconds.
ASSUME QueuesAssumption ==
  /\ DreamJobs \cap NoteJobs = {} /\ DreamJobs \cap SyncJobs = {} /\ NoteJobs \cap SyncJobs = {}
  /\ (DreamJobs \cup NoteJobs \cup SyncJobs) \cap {"claim", "empty", "ran", "failed", "none"} = {}
ASSUME LoopsAssumption ==
  /\ BatchSize \in Nat \ {0} /\ MaxVoiceTasks \in Nat
  /\ OutboxStop \in Nat /\ VoiceStop \in Nat /\ VoiceTasksStop \in Nat
  /\ SyncStop \in Nat /\ SyncAck \in Nat /\ Deadline \in Nat

VARIABLES
  progress, \* [QueuedJobs -> "none", "due", "running", "later", "left", "done"]
  quiet,    \* due jobs that no wake-up was called for since they became due
  outbox,   \* the outbox loop: where it is, turns so far, its two lanes
  sync,     \* the sync loop: where it is, claims and successes of its batch, its job
  voice,    \* the voice loop: whether it runs, and its tasks
  wake,     \* [{"outbox", "sync"} -> BOOLEAN], the wake events
  stop,     \* [Loops -> BOOLEAN], the stop events
  cancel,   \* [Loops -> BOOLEAN], a cancellation is on its way
  down,     \* the shutdown: what each part of it waits for, and since when
  spent     \* seconds since it began

loopVars == <<progress, quiet, outbox, sync, voice, wake, stop, cancel, down, spent>>

Loops == {"outbox", "sync", "voice"}
Queue == [dream |-> DreamJobs, note |-> NoteJobs]
Lanes == {"dream", "note"}
OutboxJobs == DreamJobs \cup NoteJobs
QueuedJobs == OutboxJobs \cup SyncJobs
NewTurn == [l \in Lanes |-> "claim"]

LoopsInit ==
  /\ progress = [j \in QueuedJobs |-> "none"]
  /\ quiet = {}
  /\ outbox = [at |-> "top", turns |-> 0, lane |-> NewTurn]
  \* without Redis there is no enqueuer
  /\ \E at \in {"top", "ended"} :
       sync = [at |-> at, claims |-> 0, succeeded |-> 0, job |-> "none", late |-> 0]
  /\ voice = [loop |-> "on", tasks |-> 0]
  /\ wake = [q \in {"outbox", "sync"} |-> TRUE]
  /\ stop = [k \in Loops |-> FALSE]
  /\ cancel = [k \in Loops |-> FALSE]
  /\ down = [at |-> "up", outbox |-> "no", voice |-> "no", sync |-> "no", since |-> 0]
  /\ spent = 0

-----------------------------------------------------------------------------
(* Jobs come, from updates, from voice events and from a request to sync.  *)

DueJobs(S) == {j \in S : progress[j] = "due"}

BecomesDue(j) ==
  /\ progress' = [progress EXCEPT ![j] = "due"]
  /\ quiet' = quiet \cup {j}

\* trigger_sync refuses when there is no enqueuer.
Capture(j) ==
  /\ progress[j] = "none" /\ down.at = "up"
  /\ j \in SyncJobs => sync.at # "ended"
  /\ BecomesDue(j)
  /\ UNCHANGED <<outbox, sync, voice, wake, stop, cancel, down, spent>>

\* A retry delay is over, or a lease that was left behind is stale.
DueAgain(j) ==
  /\ progress[j] \in {"later", "left"}
  /\ BecomesDue(j)
  /\ UNCHANGED <<outbox, sync, voice, wake, stop, cancel, down, spent>>

\* dream_processing_wake_handler, after the handlers of any update; a voice event
\* that captures a dream later calls nobody.
UpdateEnds ==
  /\ down.at = "up"
  /\ wake' = [wake EXCEPT !.outbox = TRUE]
  /\ quiet' = quiet \ OutboxJobs
  /\ UNCHANGED <<progress, outbox, sync, voice, stop, cancel, down, spent>>

\* enqueue_ingest after its job is committed.
EnqueueEnds ==
  /\ down.at = "up" /\ DueJobs(SyncJobs) # {}
  /\ wake' = [wake EXCEPT !.sync = TRUE]
  /\ quiet' = quiet \ SyncJobs
  /\ UNCHANGED <<progress, outbox, sync, voice, stop, cancel, down, spent>>

-----------------------------------------------------------------------------
(* The outbox loop.                                                        *)

OutboxTop ==
  /\ outbox.at = "top"
  /\ IF stop.outbox
     THEN outbox' = [outbox EXCEPT !.at = "ended"] /\ wake' = wake
     ELSE /\ outbox' = [at |-> "turn", turns |-> 0, lane |-> NewTurn]
          /\ wake' = [wake EXCEPT !.outbox = FALSE]
  /\ UNCHANGED <<progress, quiet, sync, voice, stop, cancel, down, spent>>

\* Both lanes run at once; the claim of a lane may fail.
LaneClaims(l) ==
  /\ outbox.at = "turn" /\ outbox.lane[l] = "claim"
  /\ \/ \E j \in DueJobs(Queue[l]) :
          /\ progress' = [progress EXCEPT ![j] = "running"]
          /\ outbox' = [outbox EXCEPT !.lane[l] = j]
     \/ /\ DueJobs(Queue[l]) = {}
        /\ outbox' = [outbox EXCEPT !.lane[l] = "empty"] /\ progress' = progress
     \/ outbox' = [outbox EXCEPT !.lane[l] = "failed"] /\ progress' = progress
  /\ UNCHANGED <<quiet, sync, voice, wake, stop, cancel, down, spent>>

\* A job that is retried later counts as nothing completed, like an empty queue.
LaneEnds(l) ==
  /\ outbox.at = "turn" /\ outbox.lane[l] \in QueuedJobs
  /\ \E end \in {[row |-> "done", lane |-> "ran"], [row |-> "later", lane |-> "failed"],
                 [row |-> "left", lane |-> "failed"]} :
       /\ progress' = [progress EXCEPT ![outbox.lane[l]] = end.row]
       /\ outbox' = [outbox EXCEPT !.lane[l] = end.lane]
  /\ UNCHANGED <<quiet, sync, voice, wake, stop, cancel, down, spent>>

Ended(l) == outbox.lane[l] \in {"empty", "ran", "failed"}

ClearsAfterTurn ==                                        \* mutant of TurnEnds
  /\ outbox.at = "turn" /\ \A l \in Lanes : Ended(l)
  /\ outbox' = IF \A l \in Lanes : outbox.lane[l] # "ran" THEN [outbox EXCEPT !.at = "idle"]
               ELSE [outbox EXCEPT !.at = "top"]
  /\ wake' = [wake EXCEPT !.outbox = FALSE]
  /\ UNCHANGED <<progress, quiet, sync, voice, stop, cancel, down, spent>>
TurnEnds ==
  /\ outbox.at = "turn" /\ \A l \in Lanes : Ended(l)
  /\ outbox' =
       IF \A l \in Lanes : outbox.lane[l] # "ran" THEN [outbox EXCEPT !.at = "idle"]
       ELSE IF outbox.turns + 1 = BatchSize THEN [outbox EXCEPT !.at = "top"]
       ELSE IF stop.outbox THEN [outbox EXCEPT !.at = "idle"]
       ELSE [outbox EXCEPT !.turns = @ + 1, !.lane = NewTurn]
  /\ UNCHANGED <<progress, quiet, sync, voice, wake, stop, cancel, down, spent>>

\* The wake event is set, or the interval is over.
OutboxWakes ==
  /\ outbox.at = "idle"
  /\ outbox' = [outbox EXCEPT !.at = "top"]
  /\ UNCHANGED <<progress, quiet, sync, voice, wake, stop, cancel, down, spent>>

\* CancelledError ends both lanes: their rows stay as they are, or are settled just so.
OutboxCancelled ==
  /\ cancel.outbox /\ outbox.at # "ended"
  /\ LET held == {j \in OutboxJobs : \E l \in Lanes : outbox.lane[l] = j}
     IN  \E settled \in SUBSET held :
           progress' = [j \in QueuedJobs |-> IF j \in settled THEN "done"
                                  ELSE IF j \in held THEN "left" ELSE progress[j]]
  /\ outbox' = [outbox EXCEPT !.at = "ended"]
  /\ cancel' = [cancel EXCEPT !.outbox = FALSE]
  /\ UNCHANGED <<quiet, sync, voice, wake, stop, down, spent>>

-----------------------------------------------------------------------------
(* The sync loop.  A batch looks at nothing but its queue.                 *)

SyncTop ==
  /\ sync.at = "top"
  /\ IF stop.sync
     THEN sync' = [sync EXCEPT !.at = "ended"] /\ wake' = wake
     ELSE /\ sync' = [sync EXCEPT !.at = "batch", !.claims = 0, !.succeeded = 0]
          /\ wake' = [wake EXCEPT !.sync = FALSE]
  /\ UNCHANGED <<progress, quiet, outbox, voice, stop, cancel, down, spent>>

SyncClaims ==
  /\ sync.at = "batch" /\ sync.job = "none" /\ sync.claims < BatchSize
  /\ \/ \E j \in DueJobs(SyncJobs) :
          /\ progress' = [progress EXCEPT ![j] = "running"]
          /\ sync' = [sync EXCEPT !.claims = @ + 1, !.job = j]
     \/ DueJobs(SyncJobs) = {} /\ sync' = [sync EXCEPT !.at = "idle"] /\ progress' = progress
     \* the claim raises
     \/ sync' = [sync EXCEPT !.at = "idle", !.claims = BatchSize] /\ progress' = progress
  /\ UNCHANGED <<quiet, outbox, voice, wake, stop, cancel, down, spent>>

SyncEnds ==
  /\ sync.at = "batch" /\ sync.job # "none"
  /\ \/ /\ progress' = [progress EXCEPT ![sync.job] = "done"]
        /\ sync' = [sync EXCEPT !.job = "none", !.succeeded = @ + 1]
     \/ /\ progress' = [progress EXCEPT ![sync.job] = "later"]
        /\ sync' = [sync EXCEPT !.job = "none"]
  /\ UNCHANGED <<quiet, outbox, voice, wake, stop, cancel, down, spent>>

BatchEnds ==
  /\ sync.at = "batch" /\ sync.job = "none" /\ sync.claims = BatchSize
  /\ sync' = [sync EXCEPT !.at = IF sync.succeeded >= BatchSize THEN "top" ELSE "idle"]
  /\ UNCHANGED <<progress, quiet, outbox, voice, wake, stop, cancel, down, spent>>

SyncWakes ==
  /\ sync.at = "idle"
  /\ sync' = [sync EXCEPT !.at = "top"]
  /\ UNCHANGED <<progress, quiet, outbox, voice, wake, stop, cancel, down, spent>>

\* During an ingest the cancellation is taken for a failed attempt, and the batch
\* goes on; anywhere else it ends the loop.
SyncCancelled ==
  /\ cancel.sync /\ sync.at # "ended"
  /\ \/ /\ sync.job # "none"
        /\ progress' = [progress EXCEPT ![sync.job] = "later"]
        /\ sync' = [sync EXCEPT !.job = "none", !.late = @ + 1]
     \/ /\ progress' = [j \in QueuedJobs |-> IF j = sync.job THEN "left" ELSE progress[j]]
        /\ sync' = [sync EXCEPT !.at = "ended", !.job = "none"]
  /\ cancel' = [cancel EXCEPT !.sync = FALSE]
  /\ UNCHANGED <<quiet, outbox, voice, wake, stop, down, spent>>

-----------------------------------------------------------------------------
(* The voice loop and its tasks.                                           *)

VoiceClaims ==
  /\ voice.loop = "on" /\ ~stop.voice /\ voice.tasks < MaxVoiceTasks
  /\ voice' = [voice EXCEPT !.tasks = @ + 1]
  /\ UNCHANGED <<progress, quiet, outbox, sync, wake, stop, cancel, down, spent>>

VoiceTaskEnds ==
  /\ voice.tasks > 0
  /\ voice' = [voice EXCEPT !.tasks = @ - 1]
  /\ UNCHANGED <<progress, quiet, outbox, sync, wake, stop, cancel, down, spent>>

\* The cycle it is in is over, or acknowledges the cancellation.
VoiceLoopEnds ==
  /\ voice.loop = "on" /\ (stop.voice \/ cancel.voice)
  /\ voice' = [voice EXCEPT !.loop = "ended"]
  /\ UNCHANGED <<progress, quiet, outbox, sync, wake, stop, cancel, down, spent>>

-----------------------------------------------------------------------------
(* Shutdown.                                                               *)

\* Both stop functions start together.
PostStop ==
  /\ down.at = "up"
  /\ down' = [at |-> "loops", outbox |-> "wait", voice |-> "wait", sync |-> "no",
              since |-> 0]
  /\ stop' = [stop EXCEPT !.outbox = TRUE, !.voice = TRUE]
  /\ wake' = [wake EXCEPT !.outbox = TRUE]
  /\ UNCHANGED <<progress, quiet, outbox, sync, voice, cancel, spent>>

ForgetsTask ==                                          \* mutant of StopOutbox
  /\ down.at = "loops" /\ down.outbox = "wait"
  /\ \/ outbox.at = "ended" /\ cancel' = cancel
     \/ spent = OutboxStop /\ outbox.at # "ended" /\ cancel' = [cancel EXCEPT !.outbox = TRUE]
  /\ down' = [down EXCEPT !.outbox = "done"]
  /\ UNCHANGED <<progress, quiet, outbox, sync, voice, wake, stop, spent>>
\* wait_for(shield(task)), then cancel and await it.
StopOutbox ==
  /\ down.at = "loops"
  /\ \/ /\ down.outbox \in {"wait", "cancelled"} /\ outbox.at = "ended"
        /\ down' = [down EXCEPT !.outbox = "done"] /\ cancel' = cancel
     \/ /\ down.outbox = "wait" /\ outbox.at # "ended" /\ spent = OutboxStop
        /\ down' = [down EXCEPT !.outbox = "cancelled"]
        /\ cancel' = [cancel EXCEPT !.outbox = TRUE]
  /\ UNCHANGED <<progress, quiet, outbox, sync, voice, wake, stop, spent>>

\* The loop gets two waits, its tasks are cancelled and get a third.
StopVoice ==
  /\ down.at = "loops"
  /\ LET waited == spent - down.since
     IN  \/ /\ down.voice \in {"wait", "cancelled"} /\ voice.loop = "ended"
            /\ down' = [down EXCEPT !.voice = "tasks", !.since = spent] /\ cancel' = cancel
         \/ /\ down.voice = "wait" /\ voice.loop = "on" /\ waited = VoiceStop
            /\ down' = [down EXCEPT !.voice = "cancelled", !.since = spent]
            /\ cancel' = [cancel EXCEPT !.voice = TRUE]
         \/ /\ down.voice = "cancelled" /\ voice.loop = "on" /\ waited = VoiceStop
            /\ down' = [down EXCEPT !.voice = "tasks", !.since = spent] /\ cancel' = cancel
         \/ /\ down.voice = "tasks" /\ (voice.tasks = 0 \/ waited = VoiceTasksStop)
            /\ down' = [down EXCEPT !.voice = "done"] /\ cancel' = cancel
  /\ UNCHANGED <<progress, quiet, outbox, sync, voice, wake, stop, spent>>

WaitsForSync ==                                         \* mutant of StopSync
  /\ \/ /\ down.at = "loops" /\ down.outbox = "done" /\ down.voice = "done"
        /\ down' = [down EXCEPT !.at = "closing", !.sync = "wait", !.since = spent]
        /\ stop' = [stop EXCEPT !.sync = TRUE] /\ wake' = [wake EXCEPT !.sync = TRUE]
     \/ /\ down.at = "closing" /\ sync.at # "ended" /\ down.sync = "wait"
        /\ spent - down.since = SyncStop
        /\ down' = [down EXCEPT !.sync = "again"] /\ UNCHANGED <<stop, wake>>
  /\ UNCHANGED <<progress, quiet, outbox, sync, voice, cancel, spent>>
\* _close_runtime_resources: facade.shutdown, which stops the sync loop.
StopSync ==
  /\ \/ /\ down.at = "loops" /\ down.outbox = "done" /\ down.voice = "done"
        /\ down' = [down EXCEPT !.at = "closing", !.sync = "wait", !.since = spent]
        /\ stop' = [stop EXCEPT !.sync = TRUE] /\ wake' = [wake EXCEPT !.sync = TRUE]
        /\ cancel' = cancel
     \/ /\ down.at = "closing" /\ sync.at # "ended"
        /\ \/ /\ down.sync = "wait" /\ spent - down.since = SyncStop
              /\ down' = [down EXCEPT !.sync = "cancelled", !.since = spent]
           \/ /\ down.sync = "cancelled" /\ spent - down.since = SyncAck
              /\ down' = [down EXCEPT !.sync = "again"]
        /\ cancel' = [cancel EXCEPT !.sync = TRUE]
        /\ UNCHANGED <<stop, wake>>
  /\ UNCHANGED <<progress, quiet, outbox, sync, voice, spent>>

\* Once its task is done, however it was awaited, the connection is closed.
Close ==
  /\ down.at \in {"closing", "late"} /\ sync.at = "ended"
  /\ down' = [down EXCEPT !.at = "closed"]
  /\ UNCHANGED <<progress, quiet, outbox, sync, voice, wake, stop, cancel, spent>>

\* _bounded_runtime_shutdown cancels what it waits for, and waits for that: the
\* cancellation goes on to the sync loop.
DeadlinePasses ==
  /\ down.at = "closing" /\ sync.at # "ended" /\ spent = Deadline
  /\ down' = [down EXCEPT !.at = "late"]
  /\ cancel' = [cancel EXCEPT !.sync = TRUE]
  /\ UNCHANGED <<progress, quiet, outbox, sync, voice, wake, stop, spent>>

ShutdownStep ==
  PostStop \/ StopOutbox \/ StopVoice \/ StopSync \/ Close \/ DeadlinePasses

\* Steps that take no time worth counting: all but the work of a job, a voice task and
\* a voice cycle.  One of them is enabled in a state that is Ready.
OutboxReady ==
  \/ outbox.at = "top"
  \/ outbox.at = "idle" /\ wake.outbox
  \/ outbox.at = "turn" /\ \/ \A l \in Lanes : Ended(l)
                           \/ \E l \in Lanes : outbox.lane[l] = "claim"
  \/ outbox.at # "ended" /\ cancel.outbox

SyncReady ==
  \/ sync.at = "top"
  \/ sync.at = "idle" /\ wake.sync
  \/ sync.at = "batch" /\ sync.job = "none"
  \/ sync.at # "ended" /\ cancel.sync

\* What a part of the shutdown waits for has come, or its timer has expired.
ShutdownReady ==
  LET waited == spent - down.since
  IN  \/ /\ down.at = "loops"
         /\ \/ down.outbox \in {"wait", "cancelled"} /\ outbox.at = "ended"
            \/ down.outbox = "wait" /\ spent = OutboxStop
            \/ /\ down.voice \in {"wait", "cancelled"}
               /\ (voice.loop = "ended" \/ waited = VoiceStop)
            \/ down.voice = "tasks" /\ (voice.tasks = 0 \/ waited = VoiceTasksStop)
            \/ down.outbox = "done" /\ down.voice = "done"
      \/ /\ down.at = "closing" /\ sync.at # "ended"
         /\ \/ down.sync = "wait" /\ waited = SyncStop
            \/ down.sync = "cancelled" /\ waited = SyncAck
            \/ spent = Deadline
      \/ down.at \in {"closing", "late"} /\ sync.at = "ended"

Ready == OutboxReady \/ SyncReady \/ ShutdownReady

\* The timers of the shutdown that run.
Timers ==
  {Deadline}
    \cup {t \in {OutboxStop} : down.outbox = "wait"}
    \cup {t \in {down.since + VoiceStop} : down.voice \in {"wait", "cancelled"}}
    \cup {t \in {down.since + VoiceTasksStop} : down.voice = "tasks"}
    \cup {t \in {down.since + SyncStop} : down.sync = "wait"}
    \cup {t \in {down.since + SyncAck} : down.sync = "cancelled"}

\* Nothing is ready before the next timer fires.  What ends in between is taken to end
\* at its beginning, which makes no wait longer than the timers do.
TimerFires ==
  /\ down.at \in {"loops", "closing"} /\ ~Ready
  /\ \E t \in Timers : /\ t > spent /\ \A u \in Timers : u > spent => t <= u
                        /\ spent' = t
  /\ UNCHANGED <<progress, quiet, outbox, sync, voice, wake, stop, cancel, down>>

-----------------------------------------------------------------------------
LoopStep ==
  \/ OutboxTop \/ TurnEnds \/ OutboxWakes \/ OutboxCancelled
  \/ \E l \in Lanes : LaneClaims(l) \/ LaneEnds(l)
  \/ SyncTop \/ SyncClaims \/ SyncEnds \/ BatchEnds \/ SyncWakes \/ SyncCancelled
  \/ VoiceClaims \/ VoiceTaskEnds \/ VoiceLoopEnds

LoopsNext ==
  \/ \E j \in QueuedJobs : Capture(j) \/ DueAgain(j)
  \/ UpdateEnds \/ EnqueueEnds
  \/ LoopStep \/ ShutdownStep \/ TimerFires

LoopsSpec == LoopsInit /\ [][LoopsNext]_loopVars

-----------------------------------------------------------------------------
(* Properties.                                                             *)

\* No wake-up is lost (dream_supervisor.py: "Drain due jobs after wake-ups"): a loop
\* sleeps through its interval only when everything that was committed before the
\* last wake-up has been claimed, whenever that came: between two turns, during a
\* turn, before the other lane was done.  A queue whose turn failed is the exception.
OutboxAsleep == outbox.at = "idle" /\ ~wake.outbox
SyncAsleep == sync.at = "idle" /\ ~wake.sync
SleepsOnlyWhenDrained ==
  /\ OutboxAsleep => \A l \in Lanes :
       DueJobs(Queue[l]) \subseteq quiet \/ outbox.lane[l] = "failed"
  /\ SyncAsleep => DueJobs(SyncJobs) \subseteq quiet \/ sync.claims = BatchSize

\* "Resource owners close only after both have reached a safe boundary or been
\* cancelled" (bot.py): whatever is in work when the shutdown comes, and whichever
\* of its timers fire, no loop runs and no job is held once connections are closed.
ClosedMeansQuiet ==
  down.at = "closed" =>
    /\ outbox.at = "ended" /\ sync.at = "ended"
    /\ \A j \in QueuedJobs : progress[j] # "running"

\* The limits of the parts fit into the deadline of the whole: a shutdown is late
\* only if the sync loop has taken a cancellation for a failed ingest.
ShutdownFits ==
  spent = Deadline => down.at = "closed" \/ sync.late > 0

\* What a bounded shutdown would need.  The code violates it (see README).
ShutdownBounded ==
  spent = Deadline => down.at = "closed"
=============================================================================
