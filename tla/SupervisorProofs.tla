--------------------------- MODULE SupervisorProofs ---------------------------
(***************************************************************************)
(* Proofs about the loops of Supervisor for any queues and any timeouts, and *)
(* about the parts of MCOutbox, of which the one with punctual timers is an   *)
(* instance of what OutboxProofs shows of the workers.                       *)
(***************************************************************************)
EXTENDS MCOutbox, TLAPS

-----------------------------------------------------------------------------
(* The loops.                                                              *)

Stages == {"none", "due", "running", "later", "left", "done"}
LaneWords == {"claim", "empty", "ran", "failed"}

Lane == [Lanes -> LaneWords \cup OutboxJobs]
OutboxStates == [at : {"top", "turn", "idle", "ended"}, turns : Nat, lane : Lane]
SyncStates == [at : {"top", "batch", "idle", "ended"}, claims : 0..BatchSize, succeeded : Nat,
               job : SyncJobs \cup {"none"}, late : Nat]
VoiceStates == [loop : {"on", "ended"}, tasks : 0..MaxVoiceTasks]
Shutdowns == [at : {"up", "loops", "closing", "late", "closed"},
              outbox : {"no", "wait", "cancelled", "done"},
              voice : {"no", "wait", "cancelled", "tasks", "done"},
              sync : {"no", "wait", "cancelled", "again"}, since : Nat]
Flags(S) == [S -> BOOLEAN]

LoopsTypeOK ==
  /\ progress \in [QueuedJobs -> Stages] /\ quiet \in SUBSET QueuedJobs
  /\ outbox \in OutboxStates /\ sync \in SyncStates /\ voice \in VoiceStates
  /\ wake \in Flags({"outbox", "sync"}) /\ stop \in Flags(Loops) /\ cancel \in Flags(Loops)
  /\ down \in Shutdowns /\ spent \in Nat

\* Every running job is in the hands of a loop that is at it.
Held ==
  /\ \A j \in OutboxJobs :
       progress[j] = "running" => outbox.at = "turn" /\ \E l \in Lanes : outbox.lane[l] = j
  /\ \A j \in SyncJobs : progress[j] = "running" => sync.at = "batch" /\ sync.job = j

\* How far the shutdown is says which loops have ended.
Halted ==
  /\ down.outbox = "done" => outbox.at = "ended"
  /\ down.at \in {"closing", "late", "closed"} => down.outbox = "done"
  /\ down.at = "closed" => sync.at = "ended"

\* A stop wakes the outbox loop; while its wake event is clear, an empty lane has left
\* nothing behind, and an idle loop has seen both of its lanes end; so has a batch of
\* the sync loop.
Woken == stop.outbox => wake.outbox
LanesDrained ==
  ~wake.outbox => \A l \in Lanes :
    /\ outbox.at \in {"turn", "idle"} /\ outbox.lane[l] = "empty" => DueJobs(Queue[l]) \subseteq quiet
    /\ outbox.at = "idle" => outbox.lane[l] \in {"empty", "failed"}
BatchDrained ==
  ~wake.sync /\ sync.at = "idle" => DueJobs(SyncJobs) \subseteq quiet \/ sync.claims = BatchSize
Drained == Woken /\ LanesDrained /\ BatchDrained

LoopsIInv == LoopsTypeOK /\ Held /\ Halted /\ Drained

\* Flags.
LEMMA FlagSet ==
  ASSUME NEW S, NEW f \in Flags(S), NEW k \in S, NEW b \in BOOLEAN
  PROVE  /\ [f EXCEPT ![k] = b] \in Flags(S) /\ [f EXCEPT ![k] = b][k] = b
         /\ \A i \in S \ {k} : [f EXCEPT ![k] = b][i] = f[i]
BY Zenon DEF Flags

LEMMA FlagsNamed == "outbox" \in Loops /\ "sync" \in Loops /\ "voice" \in Loops
BY DEF Loops

LEMMA OutboxMoves ==
  ASSUME NEW o \in OutboxStates, NEW a \in {"top", "turn", "idle", "ended"}, NEW l \in Lanes,
         NEW w \in LaneWords \cup OutboxJobs
  PROVE  /\ [o EXCEPT !.at = a] \in OutboxStates /\ [o EXCEPT !.lane[l] = w] \in OutboxStates
         /\ [o EXCEPT !.turns = o.turns + 1, !.lane = NewTurn] \in OutboxStates
         /\ [at |-> a, turns |-> 0, lane |-> NewTurn] \in OutboxStates
<1>1. NewTurn \in Lane /\ [o.lane EXCEPT ![l] = w] \in Lane
  BY DEF NewTurn, LaneWords, Lane, OutboxStates
<1>2. [o EXCEPT !.lane[l] = w] = [o EXCEPT !.lane = [o.lane EXCEPT ![l] = w]]
  BY DEF OutboxStates
<1>3. [o EXCEPT !.at = a] \in OutboxStates
  BY DEF OutboxStates
<1>4. [o EXCEPT !.lane[l] = w] \in OutboxStates
  BY <1>1, <1>2 DEF OutboxStates
<1>5. [o EXCEPT !.turns = o.turns + 1, !.lane = NewTurn] \in OutboxStates
  <2>1. [o EXCEPT !.turns = o.turns + 1] \in OutboxStates
    BY DEF OutboxStates
  <2>2. PICK q \in OutboxStates : q = [o EXCEPT !.turns = o.turns + 1]
    BY <2>1
  <2>3. [q EXCEPT !.lane = NewTurn] \in OutboxStates
    BY <1>1 DEF OutboxStates
  <2> QED
    BY <2>2, <2>3
<1>6. [at |-> a, turns |-> 0, lane |-> NewTurn] \in OutboxStates
  BY <1>1 DEF OutboxStates
<1> QED
  BY <1>3, <1>4, <1>5, <1>6

LEMMA LaneMoves ==
  ASSUME NEW o \in OutboxStates, NEW l \in Lanes, NEW w \in LaneWords \cup OutboxJobs
  PROVE  [o EXCEPT !.lane[l] = w] \in OutboxStates
BY OutboxMoves

LEMMA SyncAt ==
  ASSUME NEW s \in SyncStates, NEW a \in {"top", "batch", "idle", "ended"}
  PROVE  [s EXCEPT !.at = a] \in SyncStates
BY DEF SyncStates

LEMMA SyncCounts ==
  ASSUME NEW s \in SyncStates, NEW a \in {"top", "batch", "idle", "ended"}, NEW c \in 0..BatchSize
  PROVE  [s EXCEPT !.at = a, !.claims = c] \in SyncStates
BY DEF SyncStates

LEMMA SyncStarts ==
  ASSUME NEW s \in SyncStates, 0 \in 0..BatchSize
  PROVE  [s EXCEPT !.at = "batch", !.claims = 0, !.succeeded = 0] \in SyncStates
BY DEF SyncStates

LEMMA SyncTakes ==
  ASSUME NEW s \in SyncStates, NEW c \in 0..BatchSize, NEW j \in SyncJobs \cup {"none"}
  PROVE  [s EXCEPT !.claims = c, !.job = j] \in SyncStates
BY DEF SyncStates

LEMMA SyncJob ==
  ASSUME NEW s \in SyncStates, NEW j \in SyncJobs \cup {"none"}
  PROVE  [s EXCEPT !.job = j] \in SyncStates
BY DEF SyncStates

LEMMA SyncAddsUp ==
  ASSUME NEW s \in SyncStates, NEW n \in Nat
  PROVE  /\ [s EXCEPT !.job = "none", !.succeeded = n] \in SyncStates
         /\ [s EXCEPT !.job = "none", !.late = n] \in SyncStates
<1>1. [s EXCEPT !.job = "none", !.succeeded = n] \in SyncStates
  BY DEF SyncStates
<1>2. [s EXCEPT !.job = "none", !.late = n] \in SyncStates
  BY DEF SyncStates
<1> QED
  BY <1>1, <1>2

LEMMA SyncNumbers ==
  ASSUME LoopsTypeOK
  PROVE  /\ sync \in SyncStates /\ BatchSize \in Nat /\ 0 \in 0..BatchSize
         /\ BatchSize \in 0..BatchSize
         /\ sync.claims \in 0..BatchSize /\ sync.succeeded + 1 \in Nat /\ sync.late + 1 \in Nat
<1>1. sync \in SyncStates /\ BatchSize \in Nat
  BY LoopsAssumption DEF LoopsTypeOK
<1>2. sync.claims \in 0..BatchSize /\ sync.succeeded \in Nat /\ sync.late \in Nat
  BY <1>1 DEF SyncStates
<1> QED
  BY <1>1, <1>2

\* What the loops and the shutdown do to events and cancellations.
LEMMA Signals ==
  ASSUME LoopsTypeOK, NEW b \in BOOLEAN
  PROVE  /\ [wake EXCEPT !.outbox = b] \in Flags({"outbox", "sync"})
         /\ [wake EXCEPT !.sync = b] \in Flags({"outbox", "sync"})
         /\ [stop EXCEPT !.sync = b] \in Flags(Loops)
         /\ [stop EXCEPT !.outbox = b, !.voice = b] \in Flags(Loops)
         /\ [cancel EXCEPT !.outbox = b] \in Flags(Loops)
         /\ [cancel EXCEPT !.sync = b] \in Flags(Loops)
         /\ [cancel EXCEPT !.voice = b] \in Flags(Loops)
<1>1. ASSUME NEW S, NEW f \in Flags(S), NEW k \in S PROVE [f EXCEPT ![k] = b] \in Flags(S)
  BY FlagSet
<1>2. /\ wake \in Flags({"outbox", "sync"}) /\ stop \in Flags(Loops) /\ cancel \in Flags(Loops)
      /\ "outbox" \in {"outbox", "sync"} /\ "sync" \in {"outbox", "sync"}
      /\ "outbox" \in Loops /\ "sync" \in Loops /\ "voice" \in Loops
  BY FlagsNamed DEF LoopsTypeOK
<1>3. [stop EXCEPT !.outbox = b, !.voice = b] \in Flags(Loops)
  BY Zenon, <1>1, <1>2
<1> QED
  BY Zenon, <1>1, <1>2, <1>3

LEMMA LoopsStart == LoopsInit => LoopsIInv
<1> SUFFICES ASSUME LoopsInit PROVE LoopsIInv
  OBVIOUS
<1>1. LoopsTypeOK
  BY LoopsAssumption DEF LoopsInit, LoopsTypeOK, Stages, LaneWords, NewTurn, Lanes, Lane,
     OutboxStates, SyncStates, VoiceStates, Shutdowns, Flags
<1>2. Held
  BY DEF LoopsInit, Held, QueuedJobs
<1>3. Halted
  BY DEF LoopsInit, Halted
<1>4. Drained
  BY DEF LoopsInit, Drained, Woken, LanesDrained, BatchDrained, Loops
<1> QED
  BY <1>1, <1>2, <1>3, <1>4 DEF LoopsIInv

LEMMA TimersFire ==
  ASSUME LoopsTypeOK, TimerFires
  PROVE  /\ UNCHANGED <<progress, quiet, outbox, sync, voice, wake, stop, cancel, down>>
         /\ spent' \in Nat
<1>1. Timers \subseteq Nat
  BY LoopsAssumption DEF LoopsTypeOK, Timers, Shutdowns
<1> QED
  BY <1>1 DEF TimerFires

LEMMA LanesTyped ==
  ASSUME LoopsTypeOK, NEW l \in Lanes
  PROVE  /\ outbox.lane[l] \in LaneWords \cup OutboxJobs
         /\ Queue[l] \subseteq OutboxJobs
BY DEF LoopsTypeOK, Lanes, Queue, OutboxJobs, OutboxStates, Lane

LEMMA LoopsTyped ==
  ASSUME LoopsTypeOK, [LoopsNext]_loopVars
  PROVE  LoopsTypeOK'
<1> USE LoopsAssumption
<1>1. ASSUME NEW j \in QueuedJobs, Capture(j) \/ DueAgain(j) PROVE LoopsTypeOK'
  BY <1>1 DEF Capture, DueAgain, BecomesDue, LoopsTypeOK, Stages
<1>2. CASE UpdateEnds \/ EnqueueEnds
  <2>1. wake' \in Flags({"outbox", "sync"}) /\ quiet' \in SUBSET QueuedJobs
    BY <1>2, Signals DEF UpdateEnds, EnqueueEnds, LoopsTypeOK
  <2> QED
    BY <1>2, <2>1 DEF UpdateEnds, EnqueueEnds, LoopsTypeOK
<1>3. CASE OutboxTop
  <2>1. wake' \in Flags({"outbox", "sync"})
    BY <1>3, Signals DEF OutboxTop, LoopsTypeOK
  <2>2. outbox' \in OutboxStates
    BY <1>3, OutboxMoves DEF OutboxTop, LoopsTypeOK, Lanes, LaneWords
  <2> QED
    BY <1>3, <2>1, <2>2 DEF OutboxTop, LoopsTypeOK
<1>4. CASE TurnEnds
  BY <1>4, OutboxMoves DEF TurnEnds, LoopsTypeOK, Lanes, LaneWords
<1>5. CASE OutboxWakes
  BY <1>5, OutboxMoves DEF OutboxWakes, LoopsTypeOK, Lanes, LaneWords
<1>6. CASE OutboxCancelled
  <2>1. progress' \in [QueuedJobs -> Stages]
    BY <1>6 DEF OutboxCancelled, LoopsTypeOK, Stages
  <2>2. outbox' \in OutboxStates
    BY <1>6, OutboxMoves DEF OutboxCancelled, LoopsTypeOK, Lanes, LaneWords
  <2>3. cancel' \in Flags(Loops)
    BY <1>6, Signals DEF OutboxCancelled, LoopsTypeOK
  <2> QED
    BY <1>6, <2>1, <2>2, <2>3 DEF OutboxCancelled, LoopsTypeOK
<1>7. ASSUME NEW l \in Lanes, LaneClaims(l) PROVE LoopsTypeOK'
  <2>1. CASE \E j \in DueJobs(Queue[l]) : /\ progress' = [progress EXCEPT ![j] = "running"]
                                          /\ outbox' = [outbox EXCEPT !.lane[l] = j]
    <3>1. PICK j \in OutboxJobs : /\ progress' = [progress EXCEPT ![j] = "running"]
                                  /\ outbox' = [outbox EXCEPT !.lane[l] = j]
      BY <2>1, LanesTyped DEF DueJobs
    <3>2. outbox' \in OutboxStates
      BY <3>1, OutboxMoves DEF LoopsTypeOK
    <3> QED
      BY <1>7, <3>1, <3>2 DEF LaneClaims, LoopsTypeOK, Stages
  <2>2. CASE /\ \E w \in LaneWords : outbox' = [outbox EXCEPT !.lane[l] = w]
             /\ progress' = progress
    <3>1. outbox' \in OutboxStates
      BY <2>2, LaneMoves DEF LoopsTypeOK
    <3> QED
      BY <1>7, <2>2, <3>1 DEF LaneClaims, LoopsTypeOK
  <2> QED
    BY <1>7, <2>1, <2>2 DEF LaneClaims, LaneWords
<1>8. ASSUME NEW l \in Lanes, LaneEnds(l) PROVE LoopsTypeOK'
  <2>1. PICK r \in Stages, w \in LaneWords : /\ progress' = [progress EXCEPT ![outbox.lane[l]] = r]
                                             /\ outbox' = [outbox EXCEPT !.lane[l] = w]
    <3>1. PICK end \in {[row |-> "done", lane |-> "ran"], [row |-> "later", lane |-> "failed"],
                       [row |-> "left", lane |-> "failed"]} :
              /\ progress' = [progress EXCEPT ![outbox.lane[l]] = end.row]
              /\ outbox' = [outbox EXCEPT !.lane[l] = end.lane]
      BY <1>8 DEF LaneEnds
    <3>2. end.row \in Stages /\ end.lane \in LaneWords
      BY DEF Stages, LaneWords
    <3> QED
      BY <3>1, <3>2
  <2>2. outbox' \in OutboxStates
    BY <2>1, OutboxMoves DEF LoopsTypeOK
  <2> QED
    BY <1>8, <2>1, <2>2 DEF LaneEnds, LoopsTypeOK
<1>9. CASE SyncTop
  <2>1. sync' \in SyncStates
    <3>1. CASE sync' = [sync EXCEPT !.at = "ended"]
      BY <3>1, SyncAt DEF LoopsTypeOK
    <3>2. CASE sync' = [sync EXCEPT !.at = "batch", !.claims = 0, !.succeeded = 0]
      BY <3>2, SyncStarts, SyncNumbers
    <3> QED
      BY <1>9, <3>1, <3>2 DEF SyncTop
  <2>2. wake' \in Flags({"outbox", "sync"})
    BY <1>9, Signals DEF SyncTop, LoopsTypeOK
  <2> QED
    BY <1>9, <2>1, <2>2 DEF SyncTop, LoopsTypeOK
<1>10. CASE SyncWakes \/ BatchEnds
  <2>1. sync' \in SyncStates
    BY <1>10 DEF SyncWakes, BatchEnds, LoopsTypeOK, SyncStates
  <2> QED
    BY <1>10, <2>1 DEF SyncWakes, BatchEnds, LoopsTypeOK
<1>11. CASE SyncClaims
  <2>1. sync' \in SyncStates
    <3>1. CASE \E j \in SyncJobs : sync' = [sync EXCEPT !.claims = @ + 1, !.job = j]
      <4>1. sync.claims + 1 \in 0..BatchSize
        <5>1. sync.claims < BatchSize
          BY <1>11 DEF SyncClaims
        <5> QED
          BY <5>1, SyncNumbers
      <4>2. PICK j \in SyncJobs : sync' = [sync EXCEPT !.claims = sync.claims + 1, !.job = j]
        BY <3>1
      <4> QED
        BY <4>1, <4>2, SyncTakes, SyncNumbers
    <3>2. CASE sync' = [sync EXCEPT !.at = "idle"]
      BY <3>2, SyncAt DEF LoopsTypeOK
    <3>3. CASE sync' = [sync EXCEPT !.at = "idle", !.claims = BatchSize]
      BY <3>3, SyncCounts, SyncNumbers
    <3> QED
      BY <1>11, <3>1, <3>2, <3>3 DEF SyncClaims, DueJobs
  <2> QED
    BY <1>11, <2>1 DEF SyncClaims, LoopsTypeOK, Stages, DueJobs
<1>12. CASE SyncEnds
  <2>1. sync' \in SyncStates
    <3>1. CASE sync' = [sync EXCEPT !.job = "none", !.succeeded = @ + 1]
      BY <3>1, SyncAddsUp, SyncNumbers
    <3>2. CASE sync' = [sync EXCEPT !.job = "none"]
      BY <3>2, SyncJob DEF LoopsTypeOK
    <3> QED
      BY <1>12, <3>1, <3>2 DEF SyncEnds
  <2> QED
    BY <1>12, <2>1 DEF SyncEnds, LoopsTypeOK, Stages
<1>13. CASE SyncCancelled
  <2>1. sync' \in SyncStates
    <3>1. CASE sync' = [sync EXCEPT !.job = "none", !.late = @ + 1]
      BY <3>1, SyncAddsUp, SyncNumbers
    <3>2. CASE sync' = [sync EXCEPT !.at = "ended", !.job = "none"]
      BY <3>2 DEF LoopsTypeOK, SyncStates
    <3> QED
      BY <1>13, <3>1, <3>2 DEF SyncCancelled
  <2>2. progress' \in [QueuedJobs -> Stages]
    BY <1>13 DEF SyncCancelled, LoopsTypeOK, Stages
  <2>3. cancel' \in Flags(Loops)
    BY <1>13, Signals DEF SyncCancelled, LoopsTypeOK
  <2> QED
    BY <1>13, <2>1, <2>2, <2>3 DEF SyncCancelled, LoopsTypeOK
<1>14. CASE VoiceClaims \/ VoiceTaskEnds \/ VoiceLoopEnds
  <2>1. voice' \in VoiceStates
    BY <1>14 DEF VoiceClaims, VoiceTaskEnds, VoiceLoopEnds, LoopsTypeOK, VoiceStates
  <2> QED
    BY <1>14, <2>1 DEF VoiceClaims, VoiceTaskEnds, VoiceLoopEnds, LoopsTypeOK
<1>15. CASE PostStop
  <2>1. down' \in Shutdowns
    BY <1>15 DEF PostStop, Shutdowns
  <2>2. stop' \in Flags(Loops) /\ wake' \in Flags({"outbox", "sync"})
    BY <1>15, Signals DEF PostStop, LoopsTypeOK
  <2> QED
    BY <1>15, <2>1, <2>2 DEF PostStop, LoopsTypeOK
<1>16. CASE StopOutbox \/ StopVoice \/ StopSync \/ Close \/ DeadlinePasses
  <2>1. down' \in Shutdowns
    BY <1>16 DEF StopOutbox, StopVoice, StopSync, Close, DeadlinePasses, LoopsTypeOK, Shutdowns
  <2>2. cancel' \in Flags(Loops)
    BY <1>16, Signals
    DEF StopOutbox, StopVoice, StopSync, Close, DeadlinePasses, LoopsTypeOK
  <2>3. stop' \in Flags(Loops) /\ wake' \in Flags({"outbox", "sync"})
    BY <1>16, Signals
    DEF StopOutbox, StopVoice, StopSync, Close, DeadlinePasses, LoopsTypeOK
  <2> QED
    BY <1>16, <2>1, <2>2, <2>3
    DEF StopOutbox, StopVoice, StopSync, Close, DeadlinePasses, LoopsTypeOK
<1>17. CASE TimerFires
  BY <1>17, TimersFire DEF LoopsTypeOK
<1>18. CASE UNCHANGED loopVars
  BY <1>18 DEF loopVars, LoopsTypeOK
<1> QED
  BY <1>1, <1>2, <1>3, <1>4, <1>5, <1>6, <1>7, <1>8, <1>9, <1>10, <1>11, <1>12, <1>13,
     <1>14, <1>15, <1>16, <1>17, <1>18
  DEF LoopsNext, LoopStep, ShutdownStep

-----------------------------------------------------------------------------
(* What a step does to places, lanes and jobs.                             *)

LEMMA OutboxFields ==
  ASSUME NEW o \in OutboxStates, NEW a, NEW l \in Lanes, NEW w
  PROVE  /\ [o EXCEPT !.at = a].at = a /\ [o EXCEPT !.at = a].lane = o.lane
         /\ [o EXCEPT !.lane[l] = w].at = o.at /\ [o EXCEPT !.lane[l] = w].lane[l] = w
         /\ \A k \in Lanes \ {l} : [o EXCEPT !.lane[l] = w].lane[k] = o.lane[k]
BY DEF OutboxStates, Lane

LEMMA SyncFields ==
  ASSUME NEW s \in SyncStates, NEW a, NEW c, NEW n
  PROVE  /\ [s EXCEPT !.at = a].at = a /\ [s EXCEPT !.at = a].job = s.job
         /\ [s EXCEPT !.at = a].claims = s.claims
         /\ [s EXCEPT !.at = a, !.claims = c].at = a
         /\ [s EXCEPT !.at = a, !.claims = c].job = s.job
         /\ [s EXCEPT !.at = a, !.claims = c].claims = c
         /\ [s EXCEPT !.at = a, !.claims = c, !.succeeded = n].at = a
BY DEF SyncStates

LEMMA SyncJobFields ==
  ASSUME NEW s \in SyncStates, NEW a, NEW c, NEW j, NEW n
  PROVE  /\ [s EXCEPT !.claims = c, !.job = j].at = s.at
         /\ [s EXCEPT !.claims = c, !.job = j].job = j
         /\ [s EXCEPT !.job = j].at = s.at /\ [s EXCEPT !.job = j].job = j
         /\ [s EXCEPT !.job = j, !.succeeded = n].at = s.at
         /\ [s EXCEPT !.job = j, !.late = n].at = s.at
         /\ [s EXCEPT !.at = a, !.job = j].at = a
BY DEF SyncStates

\* A loop that has ended does not begin again.
LEMMA EndedStays ==
  ASSUME LoopsTypeOK, [LoopsNext]_loopVars
  PROVE  /\ outbox.at = "ended" => outbox'.at = "ended"
         /\ sync.at = "ended" => sync'.at = "ended"
<1>0. outbox \in OutboxStates /\ sync \in SyncStates
  BY DEF LoopsTypeOK
<1>1. ASSUME outbox.at = "ended" PROVE outbox' = outbox
  <2>1. CASE LoopStep
    BY <1>1, <2>1
    DEF LoopStep, OutboxTop, TurnEnds, OutboxWakes, OutboxCancelled, LaneClaims, LaneEnds,
        SyncTop, SyncClaims, SyncEnds, BatchEnds, SyncWakes, SyncCancelled,
        VoiceClaims, VoiceTaskEnds, VoiceLoopEnds
  <2>2. CASE ShutdownStep
    BY <2>2
    DEF ShutdownStep, PostStop, StopOutbox, StopVoice, StopSync, Close, DeadlinePasses
  <2>3. CASE UpdateEnds \/ EnqueueEnds \/ \E j \in QueuedJobs : Capture(j) \/ DueAgain(j)
    BY <2>3 DEF UpdateEnds, EnqueueEnds, Capture, DueAgain
  <2> QED
    BY <2>1, <2>2, <2>3, TimersFire DEF LoopsNext, loopVars
<1>2. ASSUME sync.at = "ended" PROVE sync' = sync
  <2>1. CASE LoopStep
    BY <1>2, <2>1
    DEF LoopStep, OutboxTop, TurnEnds, OutboxWakes, OutboxCancelled, LaneClaims, LaneEnds,
        SyncTop, SyncClaims, SyncEnds, BatchEnds, SyncWakes, SyncCancelled,
        VoiceClaims, VoiceTaskEnds, VoiceLoopEnds
  <2>2. CASE ShutdownStep
    BY <2>2
    DEF ShutdownStep, PostStop, StopOutbox, StopVoice, StopSync, Close, DeadlinePasses
  <2>3. CASE UpdateEnds \/ EnqueueEnds \/ \E j \in QueuedJobs : Capture(j) \/ DueAgain(j)
    BY <2>3 DEF UpdateEnds, EnqueueEnds, Capture, DueAgain
  <2> QED
    BY <2>1, <2>2, <2>3, TimersFire DEF LoopsNext, loopVars
<1> QED
  BY <1>1, <1>2

LEMMA DownAt ==
  ASSUME NEW d \in Shutdowns, NEW a
  PROVE  [d EXCEPT !.at = a].at = a /\ [d EXCEPT !.at = a].outbox = d.outbox
BY DEF Shutdowns

LEMMA HaltedNext ==
  ASSUME LoopsTypeOK, Halted, [LoopsNext]_loopVars
  PROVE  Halted'
<1>0. down \in Shutdowns
  BY DEF LoopsTypeOK
<1>1. CASE UNCHANGED down
  BY <1>1, EndedStays DEF Halted
<1>2. CASE PostStop
  BY <1>2 DEF PostStop, Halted
<1>3. CASE StopOutbox
  <2>1. down.at = "loops" /\ outbox' = outbox
    BY <1>3 DEF StopOutbox
  <2>2. \/ down' = [down EXCEPT !.outbox = "done"] /\ outbox.at = "ended"
        \/ down' = [down EXCEPT !.outbox = "cancelled"]
    BY <1>3 DEF StopOutbox
  <2>3. down'.at = "loops" /\ (down'.outbox = "done" => outbox.at = "ended")
    BY <1>0, <2>1, <2>2 DEF Shutdowns
  <2> QED
    BY <2>1, <2>3 DEF Halted
<1>4. CASE StopVoice
  <2>1. down.at = "loops" /\ outbox' = outbox
    BY <1>4 DEF StopVoice
  <2>2. \E v, t : \/ down' = [down EXCEPT !.voice = v, !.since = t]
                  \/ down' = [down EXCEPT !.voice = v]
    BY <1>4 DEF StopVoice
  <2>3. down'.at = down.at /\ down'.outbox = down.outbox
    <3>1. PICK v, t : \/ down' = [down EXCEPT !.voice = v, !.since = t]
                      \/ down' = [down EXCEPT !.voice = v]
      BY <2>2
    <3> QED
      BY <1>0, <3>1 DEF Shutdowns
  <2> QED
    BY <2>1, <2>3 DEF Halted
<1>5. CASE StopSync
  <2>1. outbox' = outbox /\ sync' = sync
    BY <1>5 DEF StopSync
  <2>2. CASE /\ down.outbox = "done"
             /\ down' = [down EXCEPT !.at = "closing", !.sync = "wait", !.since = spent]
    <3>1. down'.at = "closing" /\ down'.outbox = down.outbox
      BY <1>0, <2>2 DEF Shutdowns
    <3> QED
      BY <2>1, <2>2, <3>1 DEF Halted
  <2>3. CASE down.at = "closing" /\ \E v, t : \/ down' = [down EXCEPT !.sync = v, !.since = t]
                                              \/ down' = [down EXCEPT !.sync = v]
    <3>1. down'.at = down.at /\ down'.outbox = down.outbox
      <4>1. PICK v, t : \/ down' = [down EXCEPT !.sync = v, !.since = t]
                        \/ down' = [down EXCEPT !.sync = v]
        BY <2>3
      <4> QED
        BY <1>0, <4>1 DEF Shutdowns
    <3> QED
      BY <2>1, <2>3, <3>1 DEF Halted
  <2> QED
    BY <1>5, <2>2, <2>3 DEF StopSync
<1>6. CASE Close
  <2>1. down'.at = "closed" /\ down'.outbox = down.outbox
    BY <1>0, <1>6, DownAt DEF Close
  <2> QED
    BY <1>6, <2>1 DEF Close, Halted
<1>7. CASE DeadlinePasses
  <2>1. down'.at = "late" /\ down'.outbox = down.outbox
    BY <1>0, <1>7, DownAt DEF DeadlinePasses
  <2> QED
    BY <1>7, <2>1 DEF DeadlinePasses, Halted
<1>8. CASE LoopStep
  BY <1>1, <1>8
  DEF LoopStep, OutboxTop, TurnEnds, OutboxWakes, OutboxCancelled, LaneClaims, LaneEnds,
      SyncTop, SyncClaims, SyncEnds, BatchEnds, SyncWakes, SyncCancelled,
      VoiceClaims, VoiceTaskEnds, VoiceLoopEnds
<1>9. CASE UpdateEnds \/ EnqueueEnds \/ \E j \in QueuedJobs : Capture(j) \/ DueAgain(j)
  BY <1>1, <1>9 DEF UpdateEnds, EnqueueEnds, Capture, DueAgain
<1> QED
  BY <1>1, <1>2, <1>3, <1>4, <1>5, <1>6, <1>7, <1>8, <1>9, TimersFire
  DEF LoopsNext, ShutdownStep, loopVars

\* No job is a word of a lane, and no job is in two queues.
LEMMA NamesApart ==
  /\ \A j \in QueuedJobs : j \notin LaneWords /\ j # "none"
  /\ \A j \in OutboxJobs : j \in QueuedJobs /\ j \notin SyncJobs
  /\ \A j \in SyncJobs : j \in QueuedJobs /\ j \notin OutboxJobs
BY QueuesAssumption DEF QueuedJobs, OutboxJobs, LaneWords

\* Held when nobody but the outbox loop moves, and when nobody but the sync loop does.
LEMMA HeldBySync ==
  ASSUME LoopsTypeOK, Held, sync' = sync,
         \A j \in SyncJobs : progress'[j] = "running" => progress[j] = "running"
  PROVE  \A j \in SyncJobs : progress'[j] = "running" => sync'.at = "batch" /\ sync'.job = j
BY DEF Held

LEMMA HeldByLanes ==
  ASSUME LoopsTypeOK, Held, outbox' = outbox,
         \A j \in OutboxJobs : progress'[j] = "running" => progress[j] = "running"
  PROVE  \A j \in OutboxJobs :
           progress'[j] = "running" => outbox'.at = "turn" /\ \E l \in Lanes : outbox'.lane[l] = j
BY DEF Held

LEMMA HeldNext ==
  ASSUME LoopsTypeOK, Held, [LoopsNext]_loopVars
  PROVE  Held'
<1>0. /\ outbox \in OutboxStates /\ sync \in SyncStates
      /\ progress \in [QueuedJobs -> Stages] /\ OutboxJobs \subseteq QueuedJobs
      /\ SyncJobs \subseteq QueuedJobs
  BY DEF LoopsTypeOK, QueuedJobs
<1>1. CASE UNCHANGED <<progress, outbox, sync>>
  BY <1>1 DEF Held
<1>2. ASSUME NEW j \in QueuedJobs, Capture(j) \/ DueAgain(j) PROVE Held'
  <2>1. /\ UNCHANGED <<outbox, sync>>
        /\ \A i \in QueuedJobs : progress'[i] = "running" => progress[i] = "running"
    BY <1>0, <1>2 DEF Capture, DueAgain, BecomesDue
  <2> QED
    BY <1>0, <2>1 DEF Held
<1>3. CASE OutboxTop
  <2>1. \A j \in OutboxJobs : progress[j] # "running"
    BY <1>3 DEF OutboxTop, Held
  <2> QED
    BY <1>3, <2>1 DEF OutboxTop, Held
<1>4. CASE TurnEnds
  <2>1. \A j \in OutboxJobs : progress[j] # "running"
    BY <1>4, NamesApart DEF TurnEnds, Held, Ended, LaneWords
  <2> QED
    BY <1>4, <2>1 DEF TurnEnds, Held
<1>5. CASE OutboxWakes
  <2>1. \A j \in OutboxJobs : progress[j] # "running"
    BY <1>5 DEF OutboxWakes, Held
  <2> QED
    BY <1>5, <2>1 DEF OutboxWakes, Held
<1>6. CASE OutboxCancelled
  <2>1. /\ sync' = sync
        /\ \A j \in QueuedJobs : progress'[j] = "running" => progress[j] = "running"
    BY <1>0, <1>6 DEF OutboxCancelled
  <2>2. \A j \in OutboxJobs : progress'[j] # "running"
    BY <1>0, <1>6 DEF OutboxCancelled, Held
  <2> QED
    BY <1>0, <2>1, <2>2, HeldBySync DEF Held
<1>7. ASSUME NEW l \in Lanes, LaneClaims(l) PROVE Held'
  <2>0. /\ sync' = sync /\ outbox.at = "turn" /\ outbox.lane[l] = "claim"
        /\ Queue[l] \subseteq OutboxJobs
    BY <1>7, LanesTyped DEF LaneClaims
  <2>1. CASE \E j \in DueJobs(Queue[l]) : /\ progress' = [progress EXCEPT ![j] = "running"]
                                          /\ outbox' = [outbox EXCEPT !.lane[l] = j]
    <3>1. PICK j \in OutboxJobs : /\ progress' = [progress EXCEPT ![j] = "running"]
                                  /\ outbox' = [outbox EXCEPT !.lane[l] = j]
      BY <2>0, <2>1 DEF DueJobs
    <3>2. /\ outbox'.at = "turn" /\ outbox'.lane[l] = j
          /\ \A k \in Lanes \ {l} : outbox'.lane[k] = outbox.lane[k]
      BY <1>0, <2>0, <3>1, OutboxFields
    <3>3. \A i \in QueuedJobs : i # j /\ progress'[i] = "running" => progress[i] = "running"
      BY <1>0, <3>1
    <3>4. ASSUME NEW i \in OutboxJobs, progress'[i] = "running", i # j
          PROVE  \E k \in Lanes : outbox'.lane[k] = i
      <4>1. PICK k \in Lanes : outbox.lane[k] = i
        BY <1>0, <3>3, <3>4 DEF Held
      <4>2. k # l
        BY <2>0, <3>4, <4>1, NamesApart DEF LaneWords
      <4> QED
        BY <3>2, <4>1, <4>2
    <3>5. \A i \in SyncJobs : progress'[i] = "running" => progress[i] = "running"
      BY <1>0, <3>3, NamesApart
    <3> QED
      BY <2>0, <3>2, <3>4, <3>5, HeldBySync DEF Held
  <2>2. CASE /\ \E w \in LaneWords : outbox' = [outbox EXCEPT !.lane[l] = w]
             /\ progress' = progress
    <3>1. PICK w \in LaneWords : outbox' = [outbox EXCEPT !.lane[l] = w]
      BY <2>2
    <3>2. /\ outbox'.at = "turn"
          /\ \A k \in Lanes \ {l} : outbox'.lane[k] = outbox.lane[k]
      BY <1>0, <2>0, <3>1, OutboxFields
    <3>3. ASSUME NEW i \in OutboxJobs, progress'[i] = "running"
          PROVE  \E k \in Lanes : outbox'.lane[k] = i
      <4>1. PICK k \in Lanes : outbox.lane[k] = i
        BY <2>2, <3>3 DEF Held
      <4>2. k # l
        BY <2>0, <4>1, NamesApart DEF LaneWords
      <4> QED
        BY <3>2, <4>1, <4>2
    <3> QED
      BY <2>0, <2>2, <3>2, <3>3, HeldBySync DEF Held
  <2> QED
    BY <1>7, <2>1, <2>2 DEF LaneClaims, LaneWords
<1>8. ASSUME NEW l \in Lanes, LaneEnds(l) PROVE Held'
  <2>0. /\ sync' = sync /\ outbox.at = "turn" /\ outbox.lane[l] \in OutboxJobs
    BY <1>8, LanesTyped, NamesApart DEF LaneEnds
  <2>1. PICK r \in {"done", "later", "left"}, w \in LaneWords :
             /\ progress' = [progress EXCEPT ![outbox.lane[l]] = r]
             /\ outbox' = [outbox EXCEPT !.lane[l] = w]
    <3>1. PICK end \in {[row |-> "done", lane |-> "ran"], [row |-> "later", lane |-> "failed"],
                       [row |-> "left", lane |-> "failed"]} :
              /\ progress' = [progress EXCEPT ![outbox.lane[l]] = end.row]
              /\ outbox' = [outbox EXCEPT !.lane[l] = end.lane]
      BY <1>8 DEF LaneEnds
    <3>2. end.row \in {"done", "later", "left"} /\ end.lane \in LaneWords
      BY DEF LaneWords
    <3> QED
      BY <3>1, <3>2
  <2>2. /\ outbox'.at = "turn"
        /\ \A k \in Lanes \ {l} : outbox'.lane[k] = outbox.lane[k]
    BY <1>0, <2>0, <2>1, OutboxFields
  <2>3. /\ progress'[outbox.lane[l]] # "running"
        /\ \A i \in QueuedJobs : progress'[i] = "running" => progress[i] = "running"
    BY <1>0, <2>0, <2>1
  <2>4. ASSUME NEW i \in OutboxJobs, progress'[i] = "running"
        PROVE  \E k \in Lanes : outbox'.lane[k] = i
    <3>1. PICK k \in Lanes : outbox.lane[k] = i
      BY <1>0, <2>3, <2>4 DEF Held
    <3>2. k # l
      BY <2>3, <2>4, <3>1
    <3> QED
      BY <2>2, <3>1, <3>2
  <2> QED
    BY <1>0, <2>0, <2>2, <2>3, <2>4, HeldBySync DEF Held
<1>9. CASE SyncTop \/ SyncWakes
  <2>1. \A j \in SyncJobs : progress[j] # "running"
    BY <1>9 DEF SyncTop, SyncWakes, Held
  <2> QED
    BY <1>9, <2>1 DEF SyncTop, SyncWakes, Held
<1>10. CASE BatchEnds
  <2>1. \A j \in SyncJobs : progress[j] # "running"
    BY <1>10, NamesApart DEF BatchEnds, Held
  <2> QED
    BY <1>10, <2>1 DEF BatchEnds, Held
<1>11. CASE SyncClaims
  <2>1. \A j \in SyncJobs : progress[j] # "running"
    BY <1>11, NamesApart DEF SyncClaims, Held
  <2>2. CASE \E j \in DueJobs(SyncJobs) : /\ progress' = [progress EXCEPT ![j] = "running"]
                                          /\ sync' = [sync EXCEPT !.claims = @ + 1, !.job = j]
    <3>1. PICK j \in SyncJobs : /\ progress' = [progress EXCEPT ![j] = "running"]
                                /\ sync' = [sync EXCEPT !.claims = sync.claims + 1, !.job = j]
      BY <2>2 DEF DueJobs
    <3>2. sync'.at = "batch" /\ sync'.job = j
      BY <1>0, <1>11, <3>1 DEF SyncClaims, SyncStates
    <3>3. \A i \in QueuedJobs : i # j /\ progress'[i] = "running" => progress[i] = "running"
      BY <1>0, <3>1
    <3> QED
      BY <1>0, <1>11, <2>1, <3>2, <3>3, HeldByLanes, NamesApart DEF Held, SyncClaims
  <2> QED
    BY <1>11, <2>1, <2>2 DEF Held, SyncClaims
<1>12. CASE SyncEnds
  <2>1. sync.job \in SyncJobs /\ outbox' = outbox
    BY <1>0, <1>12 DEF SyncEnds, SyncStates
  <2>2. \A j \in SyncJobs : progress'[j] # "running"
    BY <1>0, <1>12, <2>1 DEF SyncEnds, Held
  <2>3. \A j \in OutboxJobs : progress'[j] = "running" => progress[j] = "running"
    BY <1>0, <1>12, <2>1 DEF SyncEnds
  <2> QED
    BY <2>1, <2>2, <2>3, HeldByLanes DEF Held
<1>13. CASE SyncCancelled
  <2>1. outbox' = outbox
    BY <1>13 DEF SyncCancelled
  <2>2. \A j \in SyncJobs : progress'[j] # "running"
    BY <1>0, <1>13 DEF SyncCancelled, Held, SyncStates
  <2>3. \A j \in OutboxJobs : progress'[j] = "running" => progress[j] = "running"
    BY <1>0, <1>13 DEF SyncCancelled, SyncStates
  <2> QED
    BY <2>1, <2>2, <2>3, HeldByLanes DEF Held
<1>14. CASE VoiceClaims \/ VoiceTaskEnds \/ VoiceLoopEnds \/ UpdateEnds \/ EnqueueEnds
  BY <1>1, <1>14 DEF VoiceClaims, VoiceTaskEnds, VoiceLoopEnds, UpdateEnds, EnqueueEnds
<1>15. CASE ShutdownStep
  BY <1>1, <1>15 DEF ShutdownStep, PostStop, StopOutbox, StopVoice, StopSync, Close, DeadlinePasses
<1> QED
  BY <1>1, <1>2, <1>3, <1>4, <1>5, <1>6, <1>7, <1>8, <1>9, <1>10, <1>11, <1>12, <1>13,
     <1>14, <1>15, TimersFire
  DEF LoopsNext, LoopStep, loopVars

\* What is due and not quiet was so before: true of every step but an update's end and
\* an enqueue's.
NothingNewDue(S) == DueJobs(S)' \ quiet' \subseteq DueJobs(S) \ quiet

LEMMA SettlingAddsNothing ==
  ASSUME LoopsTypeOK, quiet' = quiet,
         \A j \in QueuedJobs : progress'[j] = "due" => progress[j] = "due",
         NEW S, S \subseteq QueuedJobs
  PROVE  NothingNewDue(S)
BY DEF NothingNewDue, DueJobs

LEMMA CaptureIsQuiet ==
  ASSUME LoopsTypeOK, NEW j \in QueuedJobs, BecomesDue(j), NEW S, S \subseteq QueuedJobs
  PROVE  NothingNewDue(S)
BY DEF NothingNewDue, DueJobs, BecomesDue, LoopsTypeOK

LEMMA QueuesKnown ==
  /\ SyncJobs \subseteq QueuedJobs /\ OutboxJobs \subseteq QueuedJobs
  /\ \A l \in Lanes : Queue[l] \subseteq QueuedJobs /\ Queue[l] \subseteq OutboxJobs
BY DEF QueuedJobs, OutboxJobs, Queue, Lanes

LEMMA LanesStayDrained ==
  ASSUME LanesDrained, UNCHANGED outbox, wake'.outbox = wake.outbox,
         \A l \in Lanes : NothingNewDue(Queue[l])
  PROVE  LanesDrained'
BY DEF LanesDrained, NothingNewDue, DueJobs

LEMMA BatchStaysDrained ==
  ASSUME BatchDrained, UNCHANGED sync, wake'.sync = wake.sync, NothingNewDue(SyncJobs)
  PROVE  BatchDrained'
BY DEF BatchDrained, NothingNewDue, DueJobs

\* Which flags a step touches.
LEMMA FlagsRead ==
  ASSUME LoopsTypeOK, NEW b \in BOOLEAN
  PROVE  /\ [wake EXCEPT !.outbox = b].outbox = b /\ [wake EXCEPT !.outbox = b].sync = wake.sync
         /\ [wake EXCEPT !.sync = b].sync = b /\ [wake EXCEPT !.sync = b].outbox = wake.outbox
         /\ [stop EXCEPT !.sync = b].outbox = stop.outbox
BY DEF LoopsTypeOK, Flags, Loops

LEMMA WokenNext ==
  ASSUME LoopsTypeOK, Woken, [LoopsNext]_loopVars
  PROVE  Woken'
<1>1. CASE UNCHANGED <<stop, wake>>
  BY <1>1 DEF Woken
<1>2. CASE UpdateEnds
  BY <1>2, FlagsRead DEF UpdateEnds, Woken
<1>3. CASE EnqueueEnds
  BY <1>3, FlagsRead DEF EnqueueEnds, Woken
<1>4. CASE OutboxTop
  BY <1>1, <1>4, FlagsRead DEF OutboxTop, Woken
<1>5. CASE SyncTop
  BY <1>1, <1>5, FlagsRead DEF SyncTop, Woken
<1>6. CASE PostStop
  BY <1>6, FlagsRead DEF PostStop, Woken
<1>7. CASE StopSync
  BY <1>1, <1>7, FlagsRead DEF StopSync, Woken
<1>8. CASE StopOutbox \/ StopVoice \/ Close \/ DeadlinePasses
  BY <1>1, <1>8 DEF StopOutbox, StopVoice, Close, DeadlinePasses
<1>9. CASE \E j \in QueuedJobs : Capture(j) \/ DueAgain(j)
  BY <1>1, <1>9 DEF Capture, DueAgain
<1>10. CASE \/ TurnEnds \/ OutboxWakes \/ OutboxCancelled
            \/ \E l \in Lanes : LaneClaims(l) \/ LaneEnds(l)
            \/ SyncClaims \/ SyncEnds \/ BatchEnds \/ SyncWakes \/ SyncCancelled
            \/ VoiceClaims \/ VoiceTaskEnds \/ VoiceLoopEnds
  BY <1>1, <1>10
  DEF TurnEnds, OutboxWakes, OutboxCancelled, LaneClaims, LaneEnds, SyncClaims, SyncEnds,
      BatchEnds, SyncWakes, SyncCancelled, VoiceClaims, VoiceTaskEnds, VoiceLoopEnds
<1> QED
  BY <1>1, <1>2, <1>3, <1>4, <1>5, <1>6, <1>7, <1>8, <1>9, <1>10, TimersFire
  DEF LoopsNext, LoopStep, ShutdownStep, loopVars

\* A job that a loop claims, settles, leaves or retries later does not become due.
LEMMA LoopsAddNothing ==
  ASSUME LoopsTypeOK, LoopStep, NEW S, S \subseteq QueuedJobs
  PROVE  NothingNewDue(S)
<1>0. progress \in [QueuedJobs -> Stages] /\ sync \in SyncStates
  BY DEF LoopsTypeOK
<1>1. CASE UNCHANGED <<progress, quiet>>
  BY <1>1, SettlingAddsNothing
<1>2. CASE OutboxTop \/ TurnEnds \/ OutboxWakes \/ SyncTop \/ BatchEnds \/ SyncWakes
           \/ VoiceClaims \/ VoiceTaskEnds \/ VoiceLoopEnds
  BY <1>1, <1>2
  DEF OutboxTop, TurnEnds, OutboxWakes, SyncTop, BatchEnds, SyncWakes, VoiceClaims,
      VoiceTaskEnds, VoiceLoopEnds
<1>3. CASE OutboxCancelled \/ SyncCancelled
  <2>1. quiet' = quiet /\ \A j \in QueuedJobs : progress'[j] = "due" => progress[j] = "due"
    BY <1>0, <1>3 DEF OutboxCancelled, SyncCancelled
  <2> QED
    BY <2>1, SettlingAddsNothing
<1>4. ASSUME NEW l \in Lanes, LaneClaims(l) PROVE NothingNewDue(S)
  <2>1. quiet' = quiet /\ \A j \in QueuedJobs : progress'[j] = "due" => progress[j] = "due"
    BY <1>0, <1>4 DEF LaneClaims
  <2> QED
    BY <2>1, SettlingAddsNothing
<1>5. ASSUME NEW l \in Lanes, LaneEnds(l) PROVE NothingNewDue(S)
  <2>1. PICK end \in {[row |-> "done", lane |-> "ran"], [row |-> "later", lane |-> "failed"],
                      [row |-> "left", lane |-> "failed"]} :
          progress' = [progress EXCEPT ![outbox.lane[l]] = end.row]
    BY <1>5 DEF LaneEnds
  <2>2. end.row # "due"
    OBVIOUS
  <2>3. quiet' = quiet /\ \A j \in QueuedJobs : progress'[j] = "due" => progress[j] = "due"
    BY <1>0, <1>5, <2>1, <2>2 DEF LaneEnds
  <2> QED
    BY <2>3, SettlingAddsNothing
<1>6. CASE SyncClaims \/ SyncEnds
  <2>1. quiet' = quiet /\ \A j \in QueuedJobs : progress'[j] = "due" => progress[j] = "due"
    BY <1>0, <1>6 DEF SyncClaims, SyncEnds
  <2> QED
    BY <2>1, SettlingAddsNothing
<1> QED
  BY <1>2, <1>3, <1>4, <1>5, <1>6 DEF LoopStep

LEMMA LanesDrainedNext ==
  ASSUME LoopsTypeOK, Woken, LanesDrained, [LoopsNext]_loopVars
  PROVE  LanesDrained'
<1>0. outbox \in OutboxStates /\ \A l \in Lanes : Queue[l] \subseteq QueuedJobs
  BY QueuesKnown DEF LoopsTypeOK
<1>1. CASE UNCHANGED <<outbox, progress, quiet>> /\ wake'.outbox = wake.outbox
  BY <1>1 DEF LanesDrained, DueJobs
<1>2. ASSUME NEW j \in QueuedJobs, Capture(j) \/ DueAgain(j) PROVE LanesDrained'
  <2>1. \A l \in Lanes : NothingNewDue(Queue[l])
    BY <1>0, <1>2, CaptureIsQuiet DEF Capture, DueAgain
  <2> QED
    BY <1>2, <2>1, LanesStayDrained DEF Capture, DueAgain
<1>3. CASE UpdateEnds \/ PostStop
  BY <1>3, FlagsRead DEF UpdateEnds, PostStop, LanesDrained
<1>4. CASE EnqueueEnds
  <2>1. wake'.outbox = wake.outbox
    BY <1>4, FlagsRead DEF EnqueueEnds
  <2>2. quiet' = quiet \ SyncJobs /\ UNCHANGED <<progress, outbox>>
    BY <1>4 DEF EnqueueEnds
  <2>3. \A l \in Lanes : NothingNewDue(Queue[l])
    <3>1. \A l \in Lanes : \A j \in Queue[l] : j \notin SyncJobs
      BY QueuesKnown, NamesApart
    <3> QED
      BY <2>2, <3>1 DEF NothingNewDue, DueJobs
  <2> QED
    BY <2>1, <2>2, <2>3, LanesStayDrained
<1>5. CASE OutboxTop
  <2>1. CASE outbox' = [outbox EXCEPT !.at = "ended"]
    <3>1. outbox'.at = "ended"
      BY <1>0, <2>1 DEF OutboxStates
    <3> QED
      BY <3>1 DEF LanesDrained
  <2>2. CASE outbox' = [at |-> "turn", turns |-> 0, lane |-> NewTurn]
    <3>1. outbox'.at = "turn" /\ \A l \in Lanes : outbox'.lane[l] = "claim"
      BY <2>2 DEF NewTurn
    <3> QED
      BY <3>1 DEF LanesDrained
  <2> QED
    BY <1>5, <2>1, <2>2 DEF OutboxTop
<1>6. CASE TurnEnds
  <2>1. UNCHANGED <<progress, quiet, wake>>
    BY <1>6 DEF TurnEnds
  <2>2. CASE outbox' = [outbox EXCEPT !.at = "top"]
    <3>1. outbox'.at = "top"
      BY <1>0, <2>2 DEF OutboxStates
    <3> QED
      BY <3>1 DEF LanesDrained
  <2>3. CASE outbox' = [outbox EXCEPT !.turns = @ + 1, !.lane = NewTurn]
    <3>1. outbox'.at = "turn" /\ outbox'.lane = NewTurn
      BY <1>0, <1>6, <2>3 DEF TurnEnds, OutboxStates
    <3>2. \A l \in Lanes : outbox'.lane[l] = "claim"
      BY <3>1 DEF NewTurn
    <3> QED
      BY <3>1, <3>2 DEF LanesDrained
  <2>4. CASE /\ outbox' = [outbox EXCEPT !.at = "idle"]
             /\ stop.outbox \/ \A l \in Lanes : outbox.lane[l] # "ran"
    <3>1. outbox'.at = "idle" /\ outbox'.lane = outbox.lane
      BY <1>0, <2>4 DEF OutboxStates
    <3>2. ~wake.outbox => \A l \in Lanes : outbox.lane[l] \in {"empty", "failed"}
      BY <1>6, <2>4 DEF TurnEnds, Ended, Woken
    <3>3. ~wake.outbox => \A l \in Lanes :
            outbox.lane[l] = "empty" => DueJobs(Queue[l]) \subseteq quiet
      BY <1>6 DEF TurnEnds, LanesDrained
    <3> QED
      BY <2>1, <3>1, <3>2, <3>3 DEF LanesDrained, DueJobs
  <2> QED
    BY <1>6, <2>2, <2>3, <2>4 DEF TurnEnds
<1>7. CASE OutboxWakes \/ OutboxCancelled
  <2>1. outbox'.at \in {"top", "ended"}
    BY <1>0, <1>7 DEF OutboxWakes, OutboxCancelled, OutboxStates
  <2> QED
    BY <2>1 DEF LanesDrained
<1>8. ASSUME NEW l \in Lanes, LaneClaims(l) \/ LaneEnds(l) PROVE LanesDrained'
  <2>1. wake' = wake /\ outbox.at = "turn" /\ LoopStep
    BY <1>8 DEF LaneClaims, LaneEnds, LoopStep
  <2>2. \E w : /\ outbox' = [outbox EXCEPT !.lane[l] = w]
               /\ w = "empty" => DueJobs(Queue[l]) = {}
    BY <1>8, NamesApart, QueuesKnown DEF LaneClaims, LaneEnds, DueJobs, LaneWords
  <2>3. PICK w : /\ outbox' = [outbox EXCEPT !.lane[l] = w]
                 /\ w = "empty" => DueJobs(Queue[l]) = {}
    BY <2>2
  <2>4. /\ outbox'.at = "turn" /\ outbox'.lane[l] = w
        /\ \A k \in Lanes \ {l} : outbox'.lane[k] = outbox.lane[k]
    BY <1>0, <2>1, <2>3, OutboxFields
  <2>5. \A k \in Lanes : NothingNewDue(Queue[k])
    BY <1>0, <2>1, LoopsAddNothing
  <2>6. ASSUME NEW k \in Lanes, outbox'.lane[k] = "empty", ~wake.outbox
        PROVE  DueJobs(Queue[k]) \subseteq quiet
    <3>1. CASE k = l
      BY <2>3, <2>4, <2>6, <3>1
    <3>2. CASE k # l
      BY <2>1, <2>4, <2>6, <3>2 DEF LanesDrained
    <3> QED
      BY <3>1, <3>2
  <2> QED
    BY <2>1, <2>4, <2>5, <2>6 DEF LanesDrained, NothingNewDue, DueJobs
<1>9. CASE \/ SyncTop \/ SyncClaims \/ SyncEnds \/ BatchEnds \/ SyncWakes \/ SyncCancelled
           \/ VoiceClaims \/ VoiceTaskEnds \/ VoiceLoopEnds
  <2>1. LoopStep /\ UNCHANGED outbox
    BY <1>9
    DEF LoopStep, SyncTop, SyncClaims, SyncEnds, BatchEnds, SyncWakes, SyncCancelled,
        VoiceClaims, VoiceTaskEnds, VoiceLoopEnds
  <2>2. wake'.outbox = wake.outbox
    BY <1>9, FlagsRead
    DEF SyncTop, SyncClaims, SyncEnds, BatchEnds, SyncWakes, SyncCancelled,
        VoiceClaims, VoiceTaskEnds, VoiceLoopEnds
  <2>3. \A l \in Lanes : NothingNewDue(Queue[l])
    BY <1>0, <2>1, LoopsAddNothing
  <2> QED
    BY <2>1, <2>2, <2>3, LanesStayDrained
<1>10. CASE StopOutbox \/ StopVoice \/ StopSync \/ Close \/ DeadlinePasses
  <2>1. UNCHANGED <<outbox, progress, quiet>>
    BY <1>10 DEF StopOutbox, StopVoice, StopSync, Close, DeadlinePasses
  <2>2. wake'.outbox = wake.outbox
    BY <1>10, FlagsRead DEF StopOutbox, StopVoice, StopSync, Close, DeadlinePasses
  <2> QED
    BY <1>1, <2>1, <2>2
<1> QED
  BY <1>1, <1>2, <1>3, <1>4, <1>5, <1>6, <1>7, <1>8, <1>9, <1>10, TimersFire
  DEF LoopsNext, LoopStep, ShutdownStep, loopVars

LEMMA BatchDrainedNext ==
  ASSUME LoopsTypeOK, BatchDrained, [LoopsNext]_loopVars
  PROVE  BatchDrained'
<1>0. sync \in SyncStates /\ SyncJobs \subseteq QueuedJobs
  BY QueuesKnown DEF LoopsTypeOK
<1>1. CASE UNCHANGED <<sync, progress, quiet>> /\ wake'.sync = wake.sync
  BY <1>1 DEF BatchDrained, DueJobs
<1>2. ASSUME NEW j \in QueuedJobs, Capture(j) \/ DueAgain(j) PROVE BatchDrained'
  <2>1. NothingNewDue(SyncJobs)
    BY <1>0, <1>2, CaptureIsQuiet DEF Capture, DueAgain
  <2> QED
    BY <1>2, <2>1, BatchStaysDrained DEF Capture, DueAgain
<1>3. CASE EnqueueEnds
  BY <1>3, FlagsRead DEF EnqueueEnds, BatchDrained
<1>4. CASE UpdateEnds
  <2>1. wake'.sync = wake.sync
    BY <1>4, FlagsRead DEF UpdateEnds
  <2>2. quiet' = quiet \ OutboxJobs /\ UNCHANGED <<progress, sync>>
    BY <1>4 DEF UpdateEnds
  <2>3. NothingNewDue(SyncJobs)
    BY <2>2, NamesApart DEF NothingNewDue, DueJobs
  <2> QED
    BY <2>1, <2>2, <2>3, BatchStaysDrained
<1>5. CASE SyncTop \/ SyncEnds \/ SyncWakes
  <2>1. sync'.at # "idle"
    BY <1>0, <1>5 DEF SyncTop, SyncEnds, SyncWakes, SyncStates
  <2> QED
    BY <2>1 DEF BatchDrained
<1>6. CASE BatchEnds
  <2>1. sync'.claims = BatchSize
    BY <1>0, <1>6 DEF BatchEnds, SyncStates
  <2> QED
    BY <2>1 DEF BatchDrained
<1>7. CASE SyncClaims
  <2>1. CASE sync' = [sync EXCEPT !.at = "idle", !.claims = BatchSize]
    <3>1. sync'.claims = BatchSize
      BY <1>0, <2>1 DEF SyncStates
    <3> QED
      BY <3>1 DEF BatchDrained
  <2>2. CASE DueJobs(SyncJobs) = {} /\ progress' = progress
    <3>1. DueJobs(SyncJobs)' = {}
      BY <2>2 DEF DueJobs
    <3> QED
      BY <3>1 DEF BatchDrained
  <2>3. CASE \E j \in SyncJobs : sync' = [sync EXCEPT !.claims = @ + 1, !.job = j]
    <3>1. PICK j \in SyncJobs : sync' = [sync EXCEPT !.claims = sync.claims + 1, !.job = j]
      BY <2>3
    <3>2. sync'.at = "batch"
      BY <1>0, <1>7, <3>1 DEF SyncClaims, SyncStates
    <3> QED
      BY <3>2 DEF BatchDrained
  <2> QED
    BY <1>7, <2>1, <2>2, <2>3 DEF SyncClaims, DueJobs
<1>8. CASE SyncCancelled
  <2>1. /\ sync'.at = "idle" => sync.at = "idle" /\ sync'.claims = sync.claims
        /\ wake' = wake
    BY <1>0, <1>8 DEF SyncCancelled, SyncStates
  <2>2. NothingNewDue(SyncJobs)
    BY <1>0, <1>8, LoopsAddNothing DEF LoopStep
  <2> QED
    BY <2>1, <2>2 DEF BatchDrained, NothingNewDue, DueJobs
<1>9. CASE \/ OutboxTop \/ TurnEnds \/ OutboxWakes \/ OutboxCancelled
           \/ \E l \in Lanes : LaneClaims(l) \/ LaneEnds(l)
           \/ VoiceClaims \/ VoiceTaskEnds \/ VoiceLoopEnds
  <2>1. LoopStep /\ UNCHANGED sync
    BY <1>9
    DEF LoopStep, OutboxTop, TurnEnds, OutboxWakes, OutboxCancelled, LaneClaims, LaneEnds,
        VoiceClaims, VoiceTaskEnds, VoiceLoopEnds
  <2>2. wake'.sync = wake.sync
    BY <1>9, FlagsRead
    DEF OutboxTop, TurnEnds, OutboxWakes, OutboxCancelled, LaneClaims, LaneEnds,
        VoiceClaims, VoiceTaskEnds, VoiceLoopEnds
  <2>3. NothingNewDue(SyncJobs)
    BY <1>0, <2>1, LoopsAddNothing
  <2> QED
    BY <2>1, <2>2, <2>3, BatchStaysDrained
<1>10. CASE PostStop \/ StopOutbox \/ StopVoice \/ Close \/ DeadlinePasses
  <2>1. UNCHANGED <<sync, progress, quiet>>
    BY <1>10 DEF PostStop, StopOutbox, StopVoice, Close, DeadlinePasses
  <2>2. wake'.sync = wake.sync
    BY <1>10, FlagsRead DEF PostStop, StopOutbox, StopVoice, Close, DeadlinePasses
  <2> QED
    BY <1>1, <2>1, <2>2
<1>11. CASE StopSync
  <2>1. UNCHANGED <<sync, progress, quiet>> /\ (wake'.sync \/ wake' = wake)
    BY <1>11, FlagsRead DEF StopSync
  <2> QED
    BY <1>1, <2>1 DEF BatchDrained
<1> QED
  BY <1>1, <1>2, <1>3, <1>4, <1>5, <1>6, <1>7, <1>8, <1>9, <1>10, <1>11, TimersFire
  DEF LoopsNext, LoopStep, ShutdownStep, loopVars

LEMMA LoopsIInvNext == LoopsIInv /\ [LoopsNext]_loopVars => LoopsIInv'
<1> SUFFICES ASSUME LoopsIInv, [LoopsNext]_loopVars PROVE LoopsIInv'
  OBVIOUS
<1>1. LoopsTypeOK /\ Held /\ Halted /\ Woken /\ LanesDrained /\ BatchDrained
  BY DEF LoopsIInv, Drained
<1>2. LoopsTypeOK' /\ Held' /\ Halted'
  BY <1>1, LoopsTyped, HeldNext, HaltedNext
<1>3. Woken' /\ LanesDrained' /\ BatchDrained'
  BY <1>1, WokenNext, LanesDrainedNext, BatchDrainedNext
<1>4. Drained'
  BY <1>3 DEF Drained
<1> QED
  BY <1>2, <1>4 DEF LoopsIInv

\* The loops and their end keep their types, for any number of jobs in each queue, any
\* batch size and any timeouts.
THEOREM LoopsTypeCorrect == LoopsSpec => []LoopsTypeOK
<1>1. LoopsIInv => LoopsTypeOK
  BY DEF LoopsIInv
<1> QED
  BY <1>1, LoopsStart, LoopsIInvNext, PTL DEF LoopsSpec

\* Connections are closed under nobody: whichever timers of the shutdown fire, and
\* whatever a cancellation finds in work, a process that has closed them runs neither
\* of the two loops and holds no job.
THEOREM ClosesQuietly == LoopsSpec => []ClosedMeansQuiet
<1>1. LoopsIInv => ClosedMeansQuiet
  <2> SUFFICES ASSUME LoopsIInv, down.at = "closed"
               PROVE  /\ outbox.at = "ended" /\ sync.at = "ended"
                      /\ \A j \in QueuedJobs : progress[j] # "running"
    BY DEF ClosedMeansQuiet
  <2>1. outbox.at = "ended" /\ sync.at = "ended"
    BY DEF LoopsIInv, Halted
  <2> QED
    BY <2>1 DEF LoopsIInv, Held, QueuedJobs
<1> QED
  BY <1>1, LoopsStart, LoopsIInvNext, PTL DEF LoopsSpec

\* No wake-up is lost, however captures, turns, batches, failures and a shutdown
\* interleave: a loop that sleeps has claimed all that was due at its last wake-up.
THEOREM NoLostWakeUp == LoopsSpec => []SleepsOnlyWhenDrained
<1>1. LoopsIInv => SleepsOnlyWhenDrained
  BY DEF LoopsIInv, Drained, LanesDrained, BatchDrained, SleepsOnlyWhenDrained,
         OutboxAsleep, SyncAsleep
<1> QED
  BY <1>1, LoopsStart, LoopsIInvNext, PTL DEF LoopsSpec
-----------------------------------------------------------------------------
(* The time of the shutdown.                                               *)

\* No part of the first half is still waited for after one of these times.
InTime(t) == t <= OutboxStop \/ t <= 2 * VoiceStop + VoiceTasksStop

LoopsInTime ==
  down.at = "loops" =>
    /\ InTime(spent) /\ down.outbox # "no" /\ down.voice # "no"
    /\ down.outbox = "wait" => spent <= OutboxStop
    /\ down.outbox = "cancelled" => outbox.at = "ended" \/ cancel.outbox
    /\ down.voice = "wait" => down.since = 0 /\ spent <= VoiceStop
    /\ down.voice = "cancelled" => down.since <= VoiceStop /\ spent <= down.since + VoiceStop
    /\ down.voice = "tasks" =>
         down.since <= 2 * VoiceStop /\ spent <= down.since + VoiceTasksStop

\* Until the sync loop takes a cancellation for a failed ingest.
SyncInTime ==
  down.at = "closing" /\ sync.late = 0 =>
    /\ InTime(spent - SyncStop) /\ down.sync # "no"
    /\ down.sync = "wait" => InTime(down.since) /\ spent <= down.since + SyncStop
    /\ down.sync # "wait" => sync.at = "ended" \/ cancel.sync

ShutdownInTime ==
  /\ down.at = "up" => spent = 0
  /\ LoopsInTime /\ SyncInTime
  /\ down.at = "late" => sync.late > 0

\* The waits of the shutdown, one after the other, end before its deadline.
DeadlineFits ==
  OutboxStop + SyncStop < Deadline /\ 2 * VoiceStop + VoiceTasksStop + SyncStop < Deadline

LEMMA ShutdownNumbers ==
  ASSUME LoopsTypeOK
  PROVE  /\ spent \in Nat /\ down \in Shutdowns /\ down.since \in Nat
         /\ sync \in SyncStates /\ sync.late \in Nat /\ outbox \in OutboxStates
         /\ OutboxStop \in Nat /\ VoiceStop \in Nat /\ VoiceTasksStop \in Nat
         /\ SyncStop \in Nat /\ SyncAck \in Nat /\ Deadline \in Nat
BY LoopsAssumption DEF LoopsTypeOK, Shutdowns, SyncStates

LEMMA EarlierInTime ==
  ASSUME NEW a \in Int, NEW b \in Int, b <= a, InTime(a)
  PROVE  InTime(b)
BY LoopsAssumption DEF InTime

\* Time goes no further than the next timer.
LEMMA NextTimer ==
  ASSUME TimerFires, NEW u \in Timers, u > spent
  PROVE  spent' <= u
BY DEF TimerFires

LEMMA TimersThatRun ==
  /\ down.outbox = "wait" => OutboxStop \in Timers
  /\ down.voice \in {"wait", "cancelled"} => down.since + VoiceStop \in Timers
  /\ down.voice = "tasks" => down.since + VoiceTasksStop \in Timers
  /\ down.sync = "wait" => down.since + SyncStop \in Timers
<1>1. down.outbox = "wait" => OutboxStop \in Timers
  BY DEF Timers
<1>2. down.voice \in {"wait", "cancelled"} => down.since + VoiceStop \in Timers
  BY DEF Timers
<1>3. down.voice = "tasks" => down.since + VoiceTasksStop \in Timers
  BY DEF Timers
<1>4. down.sync = "wait" => down.since + SyncStop \in Timers
  BY DEF Timers
<1> QED
  BY <1>1, <1>2, <1>3, <1>4

LEMMA LoopsTimed ==
  ASSUME LoopsTypeOK, ShutdownInTime, TimerFires, down.at = "loops"
  PROVE  /\ InTime(spent') /\ down.outbox # "cancelled"
         /\ down.outbox = "wait" => spent' <= OutboxStop
         /\ down.voice = "wait" => spent' <= VoiceStop
         /\ down.voice = "cancelled" => spent' <= down.since + VoiceStop
         /\ down.voice = "tasks" => spent' <= down.since + VoiceTasksStop
<1>1. LoopsInTime /\ ~OutboxReady /\ ~ShutdownReady
  BY DEF ShutdownInTime, TimerFires, Ready
<1>2. /\ spent \in Nat /\ down \in Shutdowns /\ down.since \in Nat /\ spent' \in Nat
      /\ OutboxStop \in Nat /\ VoiceStop \in Nat /\ VoiceTasksStop \in Nat
  BY ShutdownNumbers, TimersFire
<1>3. down.outbox # "cancelled"
  BY <1>1 DEF LoopsInTime, OutboxReady, ShutdownReady
<1>4. ASSUME down.outbox = "wait" PROVE spent' <= OutboxStop
  <2>1. spent # OutboxStop /\ spent <= OutboxStop
    BY <1>1, <1>4 DEF LoopsInTime, ShutdownReady
  <2> QED
    BY <1>2, <1>4, <2>1, NextTimer, TimersThatRun
<1>5. ASSUME down.voice \in {"wait", "cancelled"} PROVE spent' <= down.since + VoiceStop
  <2>1. spent - down.since # VoiceStop /\ spent <= down.since + VoiceStop
    BY <1>1, <1>2, <1>5 DEF LoopsInTime, ShutdownReady
  <2>2. spent < down.since + VoiceStop /\ down.since + VoiceStop \in Timers
    BY <1>2, <1>5, <2>1, TimersThatRun
  <2> QED
    BY <1>2, <2>2, NextTimer
<1>6. ASSUME down.voice = "tasks" PROVE spent' <= down.since + VoiceTasksStop
  <2>1. spent - down.since # VoiceTasksStop /\ spent <= down.since + VoiceTasksStop
    BY <1>1, <1>2, <1>6 DEF LoopsInTime, ShutdownReady
  <2>2. spent < down.since + VoiceTasksStop /\ down.since + VoiceTasksStop \in Timers
    BY <1>2, <1>6, <2>1, TimersThatRun
  <2> QED
    BY <1>2, <2>2, NextTimer
<1>7. InTime(spent')
  <2>1. ~(down.outbox = "done" /\ down.voice = "done")
    BY <1>1 DEF ShutdownReady
  <2>2. /\ down.outbox \in {"no", "wait", "cancelled", "done"}
        /\ down.voice \in {"no", "wait", "cancelled", "tasks", "done"}
    BY <1>2 DEF Shutdowns
  <2>3. down.outbox = "wait" \/ down.voice \in {"wait", "cancelled", "tasks"}
    BY <1>1, <1>3, <2>1, <2>2 DEF LoopsInTime
  <2>4. /\ down.voice \in {"wait", "cancelled"} => down.since <= VoiceStop
        /\ down.voice = "tasks" => down.since <= 2 * VoiceStop
    BY <1>1, <1>2 DEF LoopsInTime
  <2> QED
    BY <1>2, <1>4, <1>5, <1>6, <2>3, <2>4 DEF InTime
<1> QED
  BY <1>1, <1>2, <1>3, <1>4, <1>5, <1>6, <1>7 DEF LoopsInTime

LEMMA SyncTimed ==
  ASSUME LoopsTypeOK, ShutdownInTime, TimerFires, down.at = "closing", sync.late = 0
  PROVE  /\ down.sync = "wait" /\ InTime(down.since)
         /\ spent' <= down.since + SyncStop
<1>1. SyncInTime /\ ~SyncReady /\ ~ShutdownReady
  BY DEF ShutdownInTime, TimerFires, Ready
<1>2. /\ spent \in Nat /\ down.since \in Nat /\ spent' \in Nat /\ SyncStop \in Nat
  BY ShutdownNumbers, TimersFire
<1>3. sync.at # "ended" /\ ~cancel.sync
  BY <1>1 DEF SyncReady, ShutdownReady
<1>4. down.sync = "wait" /\ InTime(down.since) /\ spent <= down.since + SyncStop
  BY <1>1, <1>3 DEF SyncInTime
<1>5. spent - down.since # SyncStop
  BY <1>1, <1>3, <1>4 DEF ShutdownReady
<1>6. spent < down.since + SyncStop /\ down.since + SyncStop \in Timers
  BY <1>2, <1>4, <1>5, TimersThatRun
<1> QED
  BY <1>2, <1>4, <1>6, NextTimer

\* A loop that has ended, or is about to be cancelled, stays so.
Forward ==
  /\ outbox.at = "ended" \/ cancel.outbox => outbox'.at = "ended" \/ cancel'.outbox
  /\ sync'.late = 0 =>
       /\ sync.late = 0
       /\ sync.at = "ended" \/ cancel.sync => sync'.at = "ended" \/ cancel'.sync
  /\ sync'.late \in Nat

LEMMA CancelsApart ==
  ASSUME LoopsTypeOK, NEW b \in BOOLEAN
  PROVE  /\ [cancel EXCEPT !.outbox = b].sync = cancel.sync
         /\ [cancel EXCEPT !.outbox = b].outbox = b
         /\ [cancel EXCEPT !.sync = b].outbox = cancel.outbox
         /\ [cancel EXCEPT !.sync = b].sync = b
         /\ [cancel EXCEPT !.voice = b].outbox = cancel.outbox
         /\ [cancel EXCEPT !.voice = b].sync = cancel.sync
<1>1. cancel \in Flags(Loops)
  BY DEF LoopsTypeOK
<1>2. ASSUME NEW k \in Loops
      PROVE  /\ [cancel EXCEPT ![k] = b][k] = b
             /\ \A i \in Loops \ {k} : [cancel EXCEPT ![k] = b][i] = cancel[i]
  BY Zenon, <1>1 DEF Flags
<1>3. /\ "sync" \in Loops \ {"outbox"} /\ "outbox" \in Loops \ {"sync"}
      /\ "outbox" \in Loops \ {"voice"} /\ "sync" \in Loops \ {"voice"} /\ "voice" \in Loops
  BY DEF Loops
<1> QED
  BY <1>2, <1>3

LEMMA LoopsForward ==
  ASSUME LoopsTypeOK, LoopStep
  PROVE  Forward
<1>0. sync \in SyncStates /\ sync.late \in Nat /\ outbox \in OutboxStates
  BY ShutdownNumbers
<1>1. /\ outbox.at = "ended" => outbox'.at = "ended"
      /\ sync.at = "ended" => sync'.at = "ended"
  BY EndedStays DEF LoopsNext
<1>2. CASE OutboxCancelled
  <2>1. outbox'.at = "ended" /\ sync' = sync /\ cancel'.sync = cancel.sync
    <3>1. outbox' = [outbox EXCEPT !.at = "ended"] /\ sync' = sync
          /\ cancel' = [cancel EXCEPT !.outbox = FALSE]
      BY <1>2 DEF OutboxCancelled
    <3> QED
      BY <1>0, <3>1, CancelsApart DEF OutboxStates
  <2> QED
    BY <1>0, <2>1 DEF Forward
<1>3. CASE SyncCancelled
  <2>1. outbox' = outbox /\ cancel'.outbox = cancel.outbox
    BY <1>3, CancelsApart DEF SyncCancelled
  <2>2. CASE sync' = [sync EXCEPT !.job = "none", !.late = @ + 1]
    <3>1. sync'.late = sync.late + 1
      BY <1>0, <2>2 DEF SyncStates
    <3> QED
      BY <1>0, <1>1, <2>1, <3>1 DEF Forward
  <2>3. CASE sync' = [sync EXCEPT !.at = "ended", !.job = "none"]
    <3>1. sync'.late = sync.late /\ sync'.at = "ended"
      BY <1>0, <2>3 DEF SyncStates
    <3> QED
      BY <1>0, <1>1, <2>1, <3>1 DEF Forward
  <2> QED
    BY <1>3, <2>2, <2>3 DEF SyncCancelled
<1>4. CASE SyncTop \/ SyncClaims \/ SyncEnds \/ BatchEnds \/ SyncWakes
  <2>1. outbox' = outbox /\ cancel' = cancel
    BY <1>4 DEF SyncTop, SyncClaims, SyncEnds, BatchEnds, SyncWakes
  <2>2. sync'.late = sync.late
    BY <1>0, <1>4 DEF SyncTop, SyncClaims, SyncEnds, BatchEnds, SyncWakes, SyncStates
  <2> QED
    BY <1>0, <1>1, <2>1, <2>2 DEF Forward
<1>5. CASE UNCHANGED <<sync, cancel>>
  BY <1>0, <1>1, <1>5 DEF Forward
<1> QED
  BY <1>2, <1>3, <1>4, <1>5
  DEF LoopStep, OutboxTop, TurnEnds, OutboxWakes, LaneClaims, LaneEnds,
      VoiceClaims, VoiceTaskEnds, VoiceLoopEnds

\* Steps during which the shutdown stays where it is and no time passes.
LEMMA SteadyInTime ==
  ASSUME LoopsTypeOK, ShutdownInTime, Forward, UNCHANGED <<down, spent>>
  PROVE  ShutdownInTime'
<1>1. sync.late \in Nat /\ sync'.late \in Nat
  BY ShutdownNumbers DEF Forward
<1>2. LoopsInTime'
  BY DEF ShutdownInTime, LoopsInTime, InTime, Forward
<1>3. SyncInTime'
  BY DEF ShutdownInTime, SyncInTime, InTime, Forward
<1>4. down.at = "late" => sync'.late > 0
  BY <1>1 DEF ShutdownInTime, Forward
<1> QED
  BY <1>2, <1>3, <1>4 DEF ShutdownInTime

LEMMA TimerInTime ==
  ASSUME LoopsTypeOK, ShutdownInTime, TimerFires
  PROVE  ShutdownInTime'
<1>1. UNCHANGED <<outbox, sync, cancel, down>> /\ spent' \in Nat
  BY TimersFire
<1>2. down.at \in {"loops", "closing"}
  BY DEF TimerFires
<1>3. /\ down.since \in Nat /\ VoiceStop \in Nat /\ SyncStop \in Nat
      /\ OutboxStop \in Nat /\ VoiceTasksStop \in Nat
  BY ShutdownNumbers
<1>4. LoopsInTime'
  BY <1>1, <1>3, LoopsTimed DEF ShutdownInTime, LoopsInTime
<1>5. SyncInTime'
  <2> SUFFICES ASSUME down.at = "closing", sync.late = 0
               PROVE  /\ InTime(spent' - SyncStop) /\ down.sync # "no"
                      /\ down.sync = "wait" => InTime(down.since) /\ spent' <= down.since + SyncStop
                      /\ down.sync # "wait" => sync.at = "ended" \/ cancel.sync
    BY <1>1 DEF SyncInTime, InTime
  <2>1. down.sync = "wait" /\ InTime(down.since) /\ spent' <= down.since + SyncStop
    BY SyncTimed
  <2>2. InTime(spent' - SyncStop)
    <3>1. spent' - SyncStop \in Int /\ spent' - SyncStop <= down.since
      BY <1>1, <1>3, <2>1
    <3> QED
      BY <1>3, <2>1, <3>1, EarlierInTime
  <2> QED
    BY <2>1, <2>2
<1> QED
  BY <1>1, <1>2, <1>4, <1>5 DEF ShutdownInTime

\* What a step of the shutdown makes of its own record.
LEMMA ShutdownMoves ==
  ASSUME NEW d \in Shutdowns, NEW a, NEW b, NEW n
  PROVE  /\ LET e == [d EXCEPT !.outbox = a]
            IN  /\ e.outbox = a /\ e.at = d.at /\ e.voice = d.voice
                /\ e.sync = d.sync /\ e.since = d.since
         /\ LET e == [d EXCEPT !.voice = a]
            IN  /\ e.voice = a /\ e.at = d.at /\ e.outbox = d.outbox
                /\ e.sync = d.sync /\ e.since = d.since
         /\ LET e == [d EXCEPT !.voice = a, !.since = n]
            IN  /\ e.voice = a /\ e.at = d.at /\ e.outbox = d.outbox
                /\ e.sync = d.sync /\ e.since = n
         /\ LET e == [d EXCEPT !.sync = a]
            IN  e.sync = a /\ e.at = d.at /\ e.since = d.since
         /\ LET e == [d EXCEPT !.sync = a, !.since = n]
            IN  e.sync = a /\ e.at = d.at /\ e.since = n
         /\ LET e == [d EXCEPT !.at = b, !.sync = a, !.since = n]
            IN  e.at = b /\ e.sync = a /\ e.since = n
BY DEF Shutdowns

LEMMA StopOutboxInTime ==
  ASSUME LoopsTypeOK, ShutdownInTime, StopOutbox
  PROVE  ShutdownInTime'
<1>1. down \in Shutdowns /\ down.at = "loops" /\ LoopsInTime /\ UNCHANGED <<outbox, spent>>
  BY ShutdownNumbers DEF StopOutbox, ShutdownInTime
<1>2. CASE down' = [down EXCEPT !.outbox = "done"]
  <2>1. /\ down'.outbox = "done" /\ down'.at = "loops" /\ down'.voice = down.voice
        /\ down'.since = down.since
    BY <1>1, <1>2, ShutdownMoves
  <2> QED
    BY <1>1, <2>1 DEF ShutdownInTime, LoopsInTime, SyncInTime, InTime
<1>3. CASE /\ down' = [down EXCEPT !.outbox = "cancelled"]
           /\ cancel' = [cancel EXCEPT !.outbox = TRUE]
  <2>1. /\ down'.outbox = "cancelled" /\ down'.at = "loops" /\ down'.voice = down.voice
        /\ down'.since = down.since
    BY <1>1, <1>3, ShutdownMoves
  <2>2. cancel'.outbox
    BY <1>3, CancelsApart
  <2> QED
    BY <1>1, <2>1, <2>2 DEF ShutdownInTime, LoopsInTime, SyncInTime, InTime
<1> QED
  BY <1>2, <1>3 DEF StopOutbox

LEMMA StopVoiceInTime ==
  ASSUME LoopsTypeOK, ShutdownInTime, StopVoice
  PROVE  ShutdownInTime'
<1>1. /\ down \in Shutdowns /\ down.at = "loops" /\ LoopsInTime /\ UNCHANGED <<outbox, spent>>
      /\ spent \in Nat /\ down.since \in Nat /\ VoiceStop \in Nat /\ VoiceTasksStop \in Nat
  BY ShutdownNumbers DEF StopVoice, ShutdownInTime
<1>2. down.outbox = "cancelled" => outbox.at = "ended" \/ cancel'.outbox
  BY <1>1, CancelsApart DEF StopVoice, LoopsInTime
<1>3. ASSUME NEW v \in {"cancelled", "tasks"}, down' = [down EXCEPT !.voice = v, !.since = spent],
             v = "cancelled" => spent <= VoiceStop, spent <= 2 * VoiceStop
      PROVE  ShutdownInTime'
  <2>1. /\ down'.voice = v /\ down'.at = "loops" /\ down'.outbox = down.outbox
        /\ down'.since = spent
    BY <1>1, <1>3, ShutdownMoves
  <2> QED
    BY <1>1, <1>2, <1>3, <2>1 DEF ShutdownInTime, LoopsInTime, SyncInTime, InTime
<1>4. CASE down' = [down EXCEPT !.voice = "done"]
  <2>1. /\ down'.voice = "done" /\ down'.at = "loops" /\ down'.outbox = down.outbox
    BY <1>1, <1>4, ShutdownMoves
  <2> QED
    BY <1>1, <1>2, <2>1 DEF ShutdownInTime, LoopsInTime, SyncInTime, InTime
<1>5. down.voice \in {"wait", "cancelled"} => spent <= 2 * VoiceStop
  BY <1>1 DEF LoopsInTime
<1>6. down.voice = "wait" => spent <= VoiceStop
  BY <1>1 DEF LoopsInTime
<1> QED
  BY <1>3, <1>4, <1>5, <1>6 DEF StopVoice

LEMMA StopSyncInTime ==
  ASSUME LoopsTypeOK, ShutdownInTime, StopSync
  PROVE  ShutdownInTime'
<1>1. /\ down \in Shutdowns /\ UNCHANGED <<outbox, sync, spent>>
      /\ spent \in Nat /\ down.since \in Nat /\ SyncStop \in Nat
  BY ShutdownNumbers DEF StopSync
<1>2. CASE /\ down.at = "loops"
           /\ down' = [down EXCEPT !.at = "closing", !.sync = "wait", !.since = spent]
  <2>1. down'.at = "closing" /\ down'.sync = "wait" /\ down'.since = spent
    BY <1>1, <1>2, ShutdownMoves
  <2>2. InTime(spent) /\ spent <= spent + SyncStop
    BY <1>1, <1>2 DEF ShutdownInTime, LoopsInTime
  <2>3. InTime(spent - SyncStop)
    BY <1>1, <2>2, EarlierInTime
  <2> QED
    BY <1>1, <2>1, <2>2, <2>3 DEF ShutdownInTime, LoopsInTime, SyncInTime, InTime
<1>3. CASE /\ down.at = "closing" /\ down.sync = "wait" /\ spent - down.since = SyncStop
           /\ down' = [down EXCEPT !.sync = "cancelled", !.since = spent]
           /\ cancel' = [cancel EXCEPT !.sync = TRUE]
  <2>1. down'.at = "closing" /\ down'.sync = "cancelled" /\ cancel'.sync
    BY <1>1, <1>3, ShutdownMoves, CancelsApart
  <2> QED
    BY <1>1, <1>3, <2>1 DEF ShutdownInTime, LoopsInTime, SyncInTime, InTime
<1>4. CASE /\ down.at = "closing" /\ down.sync = "cancelled"
           /\ down' = [down EXCEPT !.sync = "again"]
           /\ cancel' = [cancel EXCEPT !.sync = TRUE]
  <2>1. down'.at = "closing" /\ down'.sync = "again" /\ cancel'.sync
    BY <1>1, <1>4, ShutdownMoves, CancelsApart
  <2> QED
    BY <1>1, <1>4, <2>1 DEF ShutdownInTime, LoopsInTime, SyncInTime, InTime
<1> QED
  BY <1>2, <1>3, <1>4 DEF StopSync

LEMMA EndInTime ==
  ASSUME DeadlineFits, LoopsTypeOK, ShutdownInTime, PostStop \/ Close \/ DeadlinePasses
  PROVE  ShutdownInTime'
<1>0. /\ down \in Shutdowns /\ spent \in Nat /\ sync.late \in Nat
      /\ OutboxStop \in Nat /\ VoiceStop \in Nat /\ VoiceTasksStop \in Nat
      /\ SyncStop \in Nat /\ Deadline \in Nat
  BY ShutdownNumbers
<1>1. CASE PostStop
  <2>1. spent' = 0 /\ spent = 0
    BY <1>1 DEF PostStop, ShutdownInTime
  <2>2. /\ down'.at = "loops" /\ down'.outbox = "wait" /\ down'.voice = "wait"
        /\ down'.since = 0
    BY <1>1 DEF PostStop
  <2> QED
    BY <1>0, <2>1, <2>2 DEF ShutdownInTime, LoopsInTime, SyncInTime, InTime
<1>2. CASE Close
  <2>1. down'.at = "closed"
    BY <1>0, <1>2, DownAt DEF Close
  <2> QED
    BY <2>1 DEF ShutdownInTime, LoopsInTime, SyncInTime
<1>3. CASE DeadlinePasses
  <2>1. down'.at = "late" /\ sync' = sync /\ spent = Deadline /\ down.at = "closing"
    BY <1>0, <1>3, DownAt DEF DeadlinePasses
  <2>2. sync.late # 0
    BY <1>0, <2>1 DEF ShutdownInTime, SyncInTime, InTime, DeadlineFits
  <2> QED
    BY <1>0, <2>1, <2>2 DEF ShutdownInTime, LoopsInTime, SyncInTime
<1> QED
  BY <1>1, <1>2, <1>3

LEMMA InTimeNext ==
  ASSUME DeadlineFits, LoopsTypeOK, ShutdownInTime, [LoopsNext]_loopVars
  PROVE  ShutdownInTime'
<1>1. CASE \/ UNCHANGED loopVars \/ UpdateEnds \/ EnqueueEnds
           \/ \E j \in QueuedJobs : Capture(j) \/ DueAgain(j)
  <2>1. UNCHANGED <<outbox, sync, cancel, down, spent>>
    BY <1>1 DEF loopVars, UpdateEnds, EnqueueEnds, Capture, DueAgain
  <2>2. Forward
    BY <2>1, ShutdownNumbers DEF Forward
  <2> QED
    BY <2>1, <2>2, SteadyInTime
<1>2. CASE LoopStep
  <2>1. UNCHANGED <<down, spent>>
    BY <1>2
    DEF LoopStep, OutboxTop, TurnEnds, OutboxWakes, OutboxCancelled, LaneClaims, LaneEnds,
        SyncTop, SyncClaims, SyncEnds, BatchEnds, SyncWakes, SyncCancelled,
        VoiceClaims, VoiceTaskEnds, VoiceLoopEnds
  <2> QED
    BY <1>2, <2>1, LoopsForward, SteadyInTime
<1> QED
  BY <1>1, <1>2, StopOutboxInTime, StopVoiceInTime, StopSyncInTime, EndInTime, TimerInTime
  DEF LoopsNext, ShutdownStep

\* Before its deadline a shutdown has closed everything, or the sync loop has taken a
\* cancellation for a failed ingest.
LEMMA InTimeFits ==
  ASSUME DeadlineFits, LoopsTypeOK, ShutdownInTime
  PROVE  ShutdownFits
<1> SUFFICES ASSUME spent = Deadline, down.at # "closed", ~(sync.late > 0)
             PROVE  FALSE
  BY DEF ShutdownFits
<1>1. /\ down \in Shutdowns /\ spent \in Nat /\ sync.late \in Nat
      /\ OutboxStop \in Nat /\ VoiceStop \in Nat /\ VoiceTasksStop \in Nat
      /\ SyncStop \in Nat /\ Deadline \in Nat
  BY ShutdownNumbers
<1>2. sync.late = 0 /\ down.at \in {"up", "loops", "closing", "late"}
  BY <1>1 DEF Shutdowns
<1>3. Deadline > 0
  BY <1>1 DEF DeadlineFits
<1> QED
  BY <1>1, <1>2, <1>3 DEF ShutdownInTime, LoopsInTime, SyncInTime, InTime, DeadlineFits

\* The limits of the parts fit into the deadline of the whole (bot.py), for any queues,
\* any batch size and any timeouts whose sums are below the deadline: a shutdown that
\* reaches its deadline with connections still open has lost a cancellation.
THEOREM ShutdownEndsInTime == ASSUME DeadlineFits PROVE LoopsSpec => []ShutdownFits
<1>1. LoopsInit => LoopsIInv /\ ShutdownInTime
  BY LoopsStart DEF LoopsInit, ShutdownInTime, LoopsInTime, SyncInTime
<1>2. /\ LoopsIInv /\ ShutdownInTime /\ [LoopsNext]_loopVars
      => (LoopsIInv /\ ShutdownInTime)'
  BY LoopsIInvNext, InTimeNext DEF LoopsIInv
<1>3. LoopsIInv /\ ShutdownInTime => ShutdownFits
  BY InTimeFits DEF LoopsIInv
<1> QED
  BY <1>1, <1>2, <1>3, PTL DEF LoopsSpec

-----------------------------------------------------------------------------
(* The parts of a run.  The workers with punctual timers are an instance of   *)
(* OutboxProofs, whose operators are those of the instance Clock.             *)

Timed == INSTANCE OutboxProofs WITH
  row <- clockRow, run <- clockRun, issued <- clockIssued, done <- clockDone,
  plan <- clockPlan, retries <- clockRetries,
  GoogleJobs <- Jobs, MaxRetries <- 0, Punctual <- TRUE,
  MaxAttempts <- 5, StaleAfter <- 10, BaseDelay <- 1, MaxDelay <- 60,
  HeartbeatInterval <- 3, StageTimeout <- 8

LEMMA SameRows ==
  /\ Clock!Unlocked = Timed!Unlocked /\ Clock!NoToken = Timed!NoToken
  /\ Clock!Idle = Timed!Idle /\ Clock!NewRow = Timed!NewRow
  /\ Clock!Busy = Timed!Busy /\ Clock!Scopes = Timed!Scopes
  /\ \A r : /\ Clock!Waiting(r) <=> Timed!Waiting(r)
            /\ Clock!Stale(r) <=> Timed!Stale(r)
  /\ \A r, t : /\ Clock!HeldBy(r, t) <=> Timed!HeldBy(r, t)
               /\ Clock!Claimed(r, t) = Timed!Claimed(r, t)
  /\ \A r : Clock!Renewed(r) = Timed!Renewed(r) /\ Clock!Rearmed(r) = Timed!Rearmed(r)
  /\ \A n : Clock!RetryDelay(n) = Timed!RetryDelay(n)
BY DEF Clock!Unlocked, Timed!Unlocked, Clock!NoToken, Timed!NoToken, Clock!Idle, Timed!Idle,
   Clock!NewRow, Timed!NewRow, Clock!Busy, Timed!Busy, Clock!Scopes, Timed!Scopes,
   Clock!Waiting, Timed!Waiting, Clock!Stale, Timed!Stale, Clock!HeldBy, Timed!HeldBy,
   Clock!Claimed, Timed!Claimed, Clock!Renewed, Timed!Renewed, Clock!Rearmed, Timed!Rearmed,
   Clock!RetryDelay, Timed!RetryDelay

LEMMA SameInit == Clock!Init <=> Timed!Init
BY SameRows DEF Clock!Init, Timed!Init

LEMMA SameTick == Clock!Tick <=> Timed!Tick
BY DEF Clock!Tick, Timed!Tick, Clock!Due, Timed!Due, Clock!Older, Timed!Older,
   Clock!Aged, Timed!Aged, Clock!Unlocked, Timed!Unlocked, Clock!Busy, Timed!Busy

LEMMA SameClaim == \A w \in Workers : Clock!Claim(w) <=> Timed!Claim(w)
BY DEF Clock!Claim, Timed!Claim, Clock!Scopes, Timed!Scopes, Clock!NothingToLease,
   Timed!NothingToLease, Clock!Lease, Timed!Lease, Clock!Eligible, Timed!Eligible,
   Clock!Swept, Timed!Swept, Clock!Exhausted, Timed!Exhausted, Clock!Stale, Timed!Stale,
   Clock!Closed, Timed!Closed, Clock!Claimed, Timed!Claimed, Clock!Idle, Timed!Idle,
   Clock!Waiting, Timed!Waiting, Clock!Unlocked, Timed!Unlocked, Clock!NoToken, Timed!NoToken

LEMMA SameRuns == \A w \in Workers :
  /\ Clock!CheckLease(w) <=> Timed!CheckLease(w)
  /\ Clock!StageReturns(w) <=> Timed!StageReturns(w)
  /\ Clock!StageRaises(w) <=> Timed!StageRaises(w)
  /\ Clock!TimeOut(w) <=> Timed!TimeOut(w)
  /\ Clock!Heartbeat(w) <=> Timed!Heartbeat(w)
  /\ Clock!Abandon(w) <=> Timed!Abandon(w)
BY DEF Clock!CheckLease, Timed!CheckLease, Clock!StageReturns, Timed!StageReturns,
   Clock!StageRaises, Timed!StageRaises, Clock!TimeOut, Timed!TimeOut,
   Clock!Heartbeat, Timed!Heartbeat, Clock!Abandon, Timed!Abandon,
   Clock!Outcome, Timed!Outcome, Clock!Owns, Timed!Owns, Clock!HeldBy, Timed!HeldBy,
   Clock!Renewed, Timed!Renewed, Clock!Busy, Timed!Busy, Clock!Idle, Timed!Idle,
   Clock!NoToken, Timed!NoToken

LEMMA SameSettle == \A w \in Workers : Clock!Settle(w) <=> Timed!Settle(w)
BY DEF Clock!Settle, Timed!Settle, Clock!SettledRow, Timed!SettledRow, Clock!Owns, Timed!Owns,
   Clock!HeldBy, Timed!HeldBy, Clock!FailedAttempt, Timed!FailedAttempt, Clock!Closed,
   Timed!Closed, Clock!RetryDelay, Timed!RetryDelay, Clock!Unlocked, Timed!Unlocked,
   Clock!NoToken, Timed!NoToken, Clock!Idle, Timed!Idle

LEMMA SameOthers ==
  /\ \A o \in Operators : Clock!OperatorStep(o) <=> Timed!OperatorStep(o)
  /\ \A j \in Jobs : Clock!MarkPresence(j) <=> Timed!MarkPresence(j)
BY DEF Clock!OperatorStep, Timed!OperatorStep, Clock!ReadFailed, Timed!ReadFailed,
   Clock!WriteRetry, Timed!WriteRetry, Clock!Rearmed, Timed!Rearmed,
   Clock!MarkPresence, Timed!MarkPresence, Clock!Closed, Timed!Closed,
   Clock!Unlocked, Timed!Unlocked, Clock!NoToken, Timed!NoToken

LEMMA SameNext == Clock!Next <=> Timed!Next
<1>1. \A w \in Workers : Clock!WorkerStep(w) <=> Timed!WorkerStep(w)
  BY SameClaim, SameRuns, SameSettle DEF Clock!WorkerStep, Timed!WorkerStep
<1>2. QED
  BY <1>1, SameOthers, SameTick DEF Clock!Next, Timed!Next

LEMMA SameProperties ==
  /\ Clock!LiveOwnerKeepsLease <=> Timed!LiveOwnerKeepsLease
  /\ Clock!OneOwner <=> Timed!OneOwner
  /\ Clock!NoFalseSuccess <=> Timed!NoFalseSuccess
BY DEF Clock!LiveOwnerKeepsLease, Timed!LiveOwnerKeepsLease, Clock!OneOwner, Timed!OneOwner,
   Clock!NoFalseSuccess, Timed!NoFalseSuccess, Clock!Owns, Timed!Owns, Clock!HeldBy, Timed!HeldBy

\* The real minutes (dream_processing.py): a stage ends before its lease does.
LEMMA RealTimers == Timed!Timing /\ Timed!Calm
BY DEF Timed!Timing, Timed!Calm

\* What OutboxProofs assumes of its constants.
LEMMA RealConstants ==
  /\ 5 \in Nat \ {0}
  /\ 10 \in Nat /\ 1 \in Nat /\ 60 \in Nat
  /\ Jobs \subseteq Jobs /\ NoJob \notin Jobs
  /\ /\ 3 \in Nat /\ 8 \in Nat /\ 0 \in Nat
     /\ TRUE \in BOOLEAN
BY JobAssumption

\* What is kept in every part: the workers' and the loops' invariants.
PartsInv ==
  /\ part = "clock" => Timed!IInv /\ Timed!Timely
  /\ LoopsIInv /\ ShutdownInTime

LEMMA PartsStart == PartsInit => PartsInv
<1> SUFFICES ASSUME PartsInit PROVE PartsInv
  OBVIOUS
<1>1. Timed!Init /\ LoopsInit
  BY SameInit DEF PartsInit
<1>2. Timed!IInv
  BY <1>1, RealConstants, Timed!InitIInv
<1>3. Timed!Timely
  BY <1>1 DEF Timed!Init, Timed!Timely, Timed!LiveOwnerKeepsLease, Timed!Fresh, Timed!Planned,
     Timed!Unplanned, Timed!Idle, Timed!Owns
<1>4. LoopsIInv /\ ShutdownInTime
  BY <1>1, LoopsStart DEF LoopsInit, ShutdownInTime, LoopsInTime, SyncInTime
<1>5. QED
  BY <1>2, <1>3, <1>4 DEF PartsInv

LEMMA PartsKept == ASSUME DeadlineFits, PartsInv, [PartsNext]_mcvars PROVE PartsInv'
<1>1. part' = part
  BY DEF PartsNext, mcvars
<1>2. ASSUME part = "clock" PROVE (Timed!IInv /\ Timed!Timely)'
  <2>1. Timed!IInv /\ Timed!Timely
    BY <1>2 DEF PartsInv
  <2>2. [Timed!Next]_(Timed!vars)
    BY <1>2, SameNext DEF PartsNext, mcvars, clockVars, Timed!vars
  <2>3. QED
    BY <2>1, <2>2, RealConstants, RealTimers, Timed!NextIInv, Timed!NextIsTimely
<1>3. LoopsIInv' /\ ShutdownInTime'
  <2>1. [LoopsNext]_loopVars
    BY DEF PartsNext, mcvars, Enriching, Syncing
  <2>2. LoopsIInv /\ ShutdownInTime /\ LoopsTypeOK
    BY DEF PartsInv, LoopsIInv
  <2>3. QED
    BY <2>1, <2>2, LoopsIInvNext, InTimeNext
<1>4. QED
  BY <1>1, <1>2, <1>3 DEF PartsInv

LEMMA PartsFit == ASSUME DeadlineFits, PartsInv PROVE TimeoutsFit
<1>1. part = "clock" => Clock!LiveOwnerKeepsLease /\ Clock!OneOwner /\ Clock!NoFalseSuccess
  <2> SUFFICES ASSUME part = "clock"
               PROVE  Timed!LiveOwnerKeepsLease /\ Timed!OneOwner /\ Timed!NoFalseSuccess
    BY SameProperties
  <2>1. Timed!IInv /\ Timed!Timely
    BY DEF PartsInv
  <2>2. Timed!LiveOwnerKeepsLease /\ Timed!NoFalseSuccess
    BY <2>1 DEF Timed!Timely, Timed!IInv
  <2>3. Timed!OneOwner
    BY <2>1 DEF Timed!IInv, Timed!Tickets, Timed!OneOwner, Timed!Owns, Timed!HeldBy
  <2>4. QED
    BY <2>2, <2>3
<1>2. ShutdownFits
  BY InTimeFits DEF PartsInv, LoopsIInv
<1>3. QED
  BY <1>1, <1>2 DEF TimeoutsFit

\* The timeouts fit one another, for any jobs, workers and queues: with the real minutes
\* of the lease, the heartbeat and the stage no living worker is overtaken, whatever an
\* ingest closes beside it; and with limits of the shutdown's parts that add up to less
\* than its own, only a cancellation taken for a failed ingest makes it late.
THEOREM TimeoutsMatch == ASSUME DeadlineFits PROVE PartsSpec => []TimeoutsFit
<1>1. PartsInit => PartsInv
  BY PartsStart
<1>2. PartsInv /\ [PartsNext]_mcvars => PartsInv'
  BY PartsKept
<1>3. PartsInv => TimeoutsFit
  BY PartsFit
<1>4. QED
  BY <1>1, <1>2, <1>3, PTL DEF PartsSpec

=============================================================================
