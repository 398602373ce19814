------------------------------ MODULE SourceSync ------------------------------
(***************************************************************************)
(* Bringing the archive up to date with the source document.  Durable      *)
(* manual_sync_jobs rows are leased by workers (workers/sync_jobs.py); a   *)
(* separate process polls the document's revision (services/auto_sync.py). *)
(* Both run ingest_document and both keep, without any lock, one Redis     *)
(* record per document: the last seen revision and the status shown to the *)
(* user.  A second Redis record per job carries the public job status, and *)
(* is also how ingest_document tells the worker that it failed softly.     *)
(*                                                                         *)
(* Leases have no clock here (DreamOutbox has one for the same protocol):   *)
(* a lease grows stale at any time, and retry delays are zero ticks.       *)
(***************************************************************************)
EXTENDS JobRow, SyncParameters, FiniteSets

Actors == Workers \cup Pollers

VARIABLES
  rev,       \* the document's revision, from 1
  seen,      \* history: revisions whose content has been stored in the archive
  auto,      \* Redis, per document: last seen marker, status, age of a running status
  public,    \* Redis, per job: the public status
  row,       \* the manual_sync_jobs rows
  created,   \* jobs created so far
  queuing,   \* those of which the creator has yet to write that they are queued
  act,       \* what each actor is doing
  stored,    \* history: jobs of which some ingest has been stored
  refused,   \* history: revisions that an ingest has refused
  hidden,    \* history: jobs whose creator wrote "queued" over a failure
  crashes    \* crashes so far

vars == <<rev, seen, auto, public, row, created, queuing, act, stored, refused, hidden, crashes>>

Revs    == 1..(MaxEdits + 1)
Markers == 0..(MaxEdits + 1)              \* 0: no marker yet
Records == [marker : Markers, status : {"never", "running", "synced", "failed"},
            old : BOOLEAN]
Public  == {"none", "queued", "running", "done", "failed"}
Steps   == {"idle", "fetch", "store",                        \* ingest_document
            "stored", "refused", "broken",
            "claimed", "announce", "returned", "marker",     \* a worker
            "tellsynced", "tellfailed", "tellrefused",
            "markok", "markfailed", "markrefused",
         "showok", "showfailed", "showrefused",
            "poll", "unchanged", "synced", "failed"}         \* a poller
Doings  == [pc : Steps, job : Jobs \cup {NoJob}, attempt : 0..MaxAttempts,
            before : Records, marker : Markers, snap : Markers]

Never   == [marker |-> 0, status |-> "never", old |-> FALSE]
Nothing == [pc |-> "idle", job |-> NoJob, attempt |-> 0, before |-> Never,
            marker |-> 0, snap |-> 0]

TypeOK ==
  /\ rev \in Revs /\ seen \subseteq Revs /\ refused \subseteq Revs
  /\ auto \in Records
  /\ public \in [Jobs -> Public]
  /\ row \in [Jobs -> Rows]
  /\ created \subseteq Jobs /\ queuing \subseteq created
  /\ stored \subseteq Jobs /\ hidden \subseteq Jobs
  /\ act \in [Actors -> Doings]
  /\ crashes \in 0..MaxCrashes

Init ==
  /\ rev = 1 /\ seen = {} /\ auto = Never
  /\ public = [j \in Jobs |-> "none"]
  /\ row = [j \in Jobs |-> NewRow]
  /\ created = {} /\ queuing = {} /\ stored = {} /\ refused = {} /\ hidden = {} /\ crashes = 0
  /\ act = [a \in Actors |-> Nothing]

Goto(a, pc) == act' = [act EXCEPT ![a].pc = pc]
Stop(a)     == act' = [act EXCEPT ![a] = Nothing]

\* A Redis write whose failure is only logged.
BestEffort(value, old) == {value} \cup (IF RedisFailures THEN {old} ELSE {})
SetAuto(value)      == auto' \in BestEffort(value, auto)
SetPublic(j, value) == public' \in BestEffort([public EXCEPT ![j] = value], public)

Record(marker, status) == [marker |-> marker, status |-> status, old |-> FALSE]

-----------------------------------------------------------------------------
(* ingest_document, for a worker's job or for a poll.                      *)

IsJob(a) == a \in Workers

Fetch(a) ==
  /\ act[a].pc = "fetch"
  /\ act' = [act EXCEPT ![a].pc = "store", ![a].snap = rev]
  /\ IF IsJob(a) THEN SetPublic(act[a].job, "running") ELSE public' = public
  /\ UNCHANGED <<rev, seen, auto, row, created, queuing, stored, refused, hidden, crashes>>

\* One transaction stores every entry of the snapshot; the pipeline follows.
StoreSnapshot(a) ==
  /\ act[a].pc = "store"
  /\ seen' = seen \cup {act[a].snap}
  /\ stored' = stored \cup (IF IsJob(a) THEN {act[a].job} ELSE {})
  /\ Goto(a, "stored") \/ Goto(a, "broken")
  /\ UNCHANGED <<rev, auto, public, row, created, queuing, refused, hidden, crashes>>

\* The transaction is rolled back: by an authentication failure or a source
\* conflict, which ingest_document reports and turns into a result of 0, or by
\* any other exception, which it reports and raises.
Refuse(a) ==
  /\ Refusals /\ act[a].pc = "store"
  /\ refused' = refused \cup {act[a].snap}
  /\ Goto(a, "refused")
  /\ UNCHANGED <<rev, seen, auto, public, row, created, queuing, stored, hidden, crashes>>

Break(a) ==
  /\ act[a].pc = "store"
  /\ Goto(a, "broken")
  /\ UNCHANGED <<rev, seen, auto, public, row, created, queuing, stored, refused, hidden, crashes>>

\* Where the caller of ingest_document goes on.
OnResult(a) == IF IsJob(a) THEN "returned" ELSE "synced"
OnRaise(a)  == IF IsJob(a) THEN "tellfailed" ELSE "failed"

\* The last Redis write of ingest_document is not best effort: it raises.
Report(a) ==
  /\ act[a].pc \in {"stored", "refused", "broken"}
  /\ LET status == IF act[a].pc = "stored" THEN "done" ELSE "failed"
         pub    == IF IsJob(a) THEN [public EXCEPT ![act[a].job] = status] ELSE public
     IN  \/ /\ public' = pub
            /\ Goto(a, IF act[a].pc = "broken" THEN OnRaise(a) ELSE OnResult(a))
         \/ /\ RedisFailures
            /\ public' = public /\ Goto(a, OnRaise(a))
  /\ UNCHANGED <<rev, seen, auto, row, created, queuing, stored, refused, hidden, crashes>>

-----------------------------------------------------------------------------
(* Manual jobs.                                                            *)

\* The row is committed, and can be claimed, before the creator goes on.
CreateJob(j) ==
  /\ j \notin created
  /\ created' = created \cup {j} /\ queuing' = queuing \cup {j}
  /\ UNCHANGED <<rev, seen, auto, public, row, act, stored, refused, hidden, crashes>>

\* The creator's write, over whatever a worker has told of the job meanwhile.
TellQueued(j) ==
  /\ j \in queuing
  /\ SetPublic(j, "queued")
  /\ queuing' = queuing \ {j}
  /\ hidden' = hidden \cup {k \in {j} : public[k] = "failed"}
  /\ UNCHANGED <<rev, seen, auto, row, created, act, stored, refused, crashes>>

Swept == [j \in Jobs |-> IF Exhausted(row[j]) THEN Closed(row[j], "failed") ELSE row[j]]

ClaimJob(w) ==
  /\ act[w].pc = "idle"
  /\ \/ \E j \in created :
          /\ Eligible(row[j])
          /\ row' = [Swept EXCEPT ![j] = Claimed(@, w)]
          /\ act' = [act EXCEPT ![w] = [Nothing EXCEPT !.pc = "claimed", !.job = j,
                                                       !.attempt = row[j].attempts + 1]]
     \/ /\ \A j \in created : ~Eligible(row[j])
        /\ Swept # row
        /\ row' = Swept /\ act' = act
  /\ UNCHANGED <<rev, seen, auto, public, created, queuing, stored, refused, hidden, crashes>>

\* A state that cannot be read counts as never synced; of one that can the worker will
\* use the marker only.
ReadBefore(w) ==
  /\ act[w].pc = "claimed"
  /\ \E m \in BestEffort(auto.marker, 0) :
       act' = [act EXCEPT ![w].pc = "announce", ![w].before = Record(m, "never")]
  /\ UNCHANGED <<rev, seen, auto, public, row, created, queuing, stored, refused, hidden, crashes>>

TellRunning(w) ==
  /\ act[w].pc = "announce" /\ IsJob(w)
  /\ SetAuto(Record(act[w].before.marker, "running"))
  /\ Goto(w, "fetch")
  /\ UNCHANGED <<rev, seen, public, row, created, queuing, stored, refused, hidden, crashes>>

\* SYNC_JOB_TIMEOUT, or shutdown: here CancelledError is caught as well.
CancelIngest(w) ==
  /\ IsJob(w) /\ act[w].pc \in {"fetch", "store", "stored", "refused", "broken", "returned"}
  /\ Goto(w, "tellfailed")
  /\ UNCHANGED <<rev, seen, auto, public, row, created, queuing, stored, refused, hidden, crashes>>

\* The worker learns of a refusal from the public status; an unreadable one is none.
ReadReport(w) ==
  /\ act[w].pc = "returned"
  /\ \E status \in BestEffort(public[act[w].job], "none") :
       Goto(w, IF status = "failed" THEN "tellrefused" ELSE "marker")
  /\ UNCHANGED <<rev, seen, auto, public, row, created, queuing, stored, refused, hidden, crashes>>

\* The revision is asked for after the ingest; without it the old marker stays.
ReadMarker(w) ==
  /\ act[w].pc = "marker"
  /\ \E m \in {rev, act[w].before.marker} :
       act' = [act EXCEPT ![w].pc = "tellsynced", ![w].marker = m]
  /\ UNCHANGED <<rev, seen, auto, public, row, created, queuing, stored, refused, hidden, crashes>>

TellOutcome(w) ==
  /\ \/ /\ act[w].pc = "tellsynced" /\ Goto(w, "markok")
        /\ SetAuto(Record(act[w].marker, "synced"))
     \/ /\ act[w].pc = "tellfailed" /\ Goto(w, "markfailed")
        /\ SetAuto(Record(act[w].before.marker, "failed"))
     \/ /\ act[w].pc = "tellrefused" /\ Goto(w, "markrefused")
        /\ SetAuto(Record(act[w].before.marker, "failed"))
  /\ UNCHANGED <<rev, seen, public, row, created, queuing, stored, refused, hidden, crashes>>

\* Where a worker goes on when the row is settled.
Shown == [markok |-> "showok", markrefused |-> "showrefused", markfailed |-> "showfailed"]

SettledRow(w) ==
  LET r == row[act[w].job]
  IN  CASE act[w].pc = "markok"      -> Closed(r, "succeeded")
        [] act[w].pc = "markrefused" -> Closed(r, "failed")
        [] act[w].pc = "markfailed"  -> FailedAttempt(r, act[w].attempt)

SettleUnfenced(w) ==                                    \* mutant of Settle
  /\ act[w].pc \in DOMAIN Shown
  /\ row' = [row EXCEPT ![act[w].job] = SettledRow(w)]
  /\ Goto(w, Shown[act[w].pc])
  /\ UNCHANGED <<rev, seen, auto, public, created, queuing, stored, refused, hidden, crashes>>
\* The compare-and-swap; a worker that has lost its job is done.
Settle(w) ==
  /\ act[w].pc \in DOMAIN Shown
  /\ LET j == act[w].job
     IN  IF HeldBy(row[j], w)
         THEN row' = [row EXCEPT ![j] = SettledRow(w)] /\ Goto(w, Shown[act[w].pc])
         ELSE row' = row /\ Stop(w)
  /\ UNCHANGED <<rev, seen, auto, public, created, queuing, stored, refused, hidden, crashes>>

\* The public status follows the commit, when others may be at the job already.
ShowSettled(w) ==
  /\ \/ act[w].pc = "showok" /\ SetPublic(act[w].job, "done")
     \/ act[w].pc = "showrefused" /\ SetPublic(act[w].job, "failed")
     \/ /\ act[w].pc = "showfailed"
        /\ SetPublic(act[w].job, IF act[w].attempt >= MaxAttempts THEN "failed" ELSE "queued")
  /\ Stop(w)
  /\ UNCHANGED <<rev, seen, auto, row, created, queuing, stored, refused, hidden, crashes>>

-----------------------------------------------------------------------------
(* The auto-sync process.                                                  *)

\* The revision is asked for before the ingest.
PollMarker(p) ==
  /\ act[p].pc = "idle"
  /\ act' = [act EXCEPT ![p].pc = "poll", ![p].marker = rev]
  /\ UNCHANGED <<rev, seen, auto, public, row, created, queuing, stored, refused, hidden, crashes>>

PollAnyRunning(p) ==                                    \* mutant of PollRead
  /\ act[p].pc = "poll"
  /\ act' = [act EXCEPT ![p].before = auto,
                        ![p].pc = IF auto.marker = act[p].marker \/ auto.status = "running"
                                  THEN "unchanged" ELSE "announce"]
  /\ UNCHANGED <<rev, seen, auto, public, row, created, queuing, stored, refused, hidden, crashes>>
PollRead(p) ==
  /\ act[p].pc = "poll"
  /\ LET stale == auto.status = "running" /\ auto.old
     IN  act' = [act EXCEPT ![p].before = auto,
                            ![p].pc = IF auto.marker = act[p].marker /\ ~stale
                                      THEN "unchanged" ELSE "announce"]
  /\ UNCHANGED <<rev, seen, auto, public, row, created, queuing, stored, refused, hidden, crashes>>

\* Writes the record back as it was read.
PollUnchanged(p) ==
  /\ act[p].pc = "unchanged"
  /\ auto' = act[p].before
  /\ Stop(p)
  /\ UNCHANGED <<rev, seen, public, row, created, queuing, stored, refused, hidden, crashes>>

PollAnnounce(p) ==
  /\ act[p].pc = "announce" /\ ~IsJob(p)
  /\ auto' = Record(act[p].before.marker, "running")
  /\ Goto(p, "fetch")
  /\ UNCHANGED <<rev, seen, public, row, created, queuing, stored, refused, hidden, crashes>>

\* A result of 0 is taken for a success, whatever it stands for.
PollOutcome(p) ==
  /\ \/ act[p].pc = "synced" /\ auto' = Record(act[p].marker, "synced")
     \/ act[p].pc = "failed" /\ auto' = Record(act[p].before.marker, "failed")
  /\ Stop(p)
  /\ UNCHANGED <<rev, seen, public, row, created, queuing, stored, refused, hidden, crashes>>

-----------------------------------------------------------------------------
(* The environment.                                                        *)

\* A process dies; a poll also ends at the first Redis command that fails.
Crash(a) ==
  /\ act[a].pc # "idle" /\ crashes < MaxCrashes
  /\ Stop(a)
  /\ crashes' = crashes + 1
  /\ UNCHANGED <<rev, seen, auto, public, row, created, queuing, stored, refused, hidden>>

\* A heartbeat fails or its worker is gone for longer than the lease.
LeaseExpires(j) ==
  /\ row[j].status = "running"
  /\ row' = [row EXCEPT ![j] = Aged(@)]
  /\ UNCHANGED <<rev, seen, auto, public, created, queuing, act, stored, refused, hidden, crashes>>

\* Only a poll asks how old a running state is.
RunningGrowsOld ==
  /\ Pollers # {} /\ auto.status = "running"
  /\ auto' = [auto EXCEPT !.old = TRUE]
  /\ UNCHANGED <<rev, seen, public, row, created, queuing, act, stored, refused, hidden, crashes>>

Edit ==
  /\ rev <= MaxEdits /\ rev' = rev + 1
  /\ UNCHANGED <<seen, auto, public, row, created, queuing, act, stored, refused, hidden, crashes>>

WorkerStep(w) ==
  \/ ClaimJob(w) \/ ReadBefore(w) \/ TellRunning(w) \/ CancelIngest(w) \/ ReadReport(w)
  \/ ReadMarker(w) \/ TellOutcome(w) \/ Settle(w) \/ ShowSettled(w)
PollStep(p) ==
  \/ PollMarker(p) \/ PollRead(p) \/ PollUnchanged(p) \/ PollAnnounce(p) \/ PollOutcome(p)
IngestStep(a) == Fetch(a) \/ StoreSnapshot(a) \/ Refuse(a) \/ Break(a) \/ Report(a)

Next ==
  \/ \E w \in Workers : WorkerStep(w)
  \/ \E p \in Pollers : PollStep(p)
  \/ \E a \in Actors : IngestStep(a) \/ Crash(a)
  \/ \E j \in Jobs : CreateJob(j) \/ TellQueued(j) \/ LeaseExpires(j)
  \/ RunningGrowsOld \/ Edit

Spec == Init /\ [][Next]_vars

\* The supervisors and the poll loop run forever, time passes, and an ingest that
\* is tried again and again is stored in the end.  Crashes are bounded.
Fairness ==
  /\ \A w \in Workers : WF_vars(WorkerStep(w))
  /\ \A p \in Pollers : WF_vars(PollStep(p))
  /\ \A a \in Actors : WF_vars(IngestStep(a)) /\ SF_vars(StoreSnapshot(a))
  /\ \A j \in Jobs : WF_vars(LeaseExpires(j))
  /\ WF_vars(RunningGrowsOld)

FairSpec == Spec /\ Fairness

-----------------------------------------------------------------------------
(* Properties.                                                             *)

\* The marker is never ahead of the archive: what the next poll will skip because
\* its revision has been seen has really been stored.
MarkerIngested == auto.marker # 0 => \E s \in seen : s >= auto.marker

\* A sync that was refused is not shown as synced: "Auto-sync state is user-visible
\* and honest when failed/stale/running/synced".
RefusalShown ==
  auto.status = "synced" /\ (\E s \in refused : s >= auto.marker) =>
    \E s \in seen : s >= auto.marker

\* A job that its first claim ended as succeeded has really been ingested: the
\* refusal of an ingest reaches the row through the public status, unless the job's
\* creator, late with its "queued", hid it there.
FirstClaimStored ==
  \A j \in created :
    row[j].status = "succeeded" /\ row[j].attempts = 1 => j \in stored \cup hidden

\* The same for every claim, and whatever the creator hid.
SuccessWasStored == \A j \in created : row[j].status = "succeeded" => j \in stored

\* A settled row stays settled: a worker that lost its lease does not reopen it.
KeepsSettled == \A j \in created : Terminal(row[j]) => row'[j].status = row[j].status

\* What is recorded of a sync is true and stays.  The marker of the poll process is never
\* ahead of the archive, as long as no ingest was refused and no manual job was created; a
\* job that its first claim ended as succeeded has been ingested, unless its creator wrote
\* "queued" over a failure; and no worker that lost its lease reopens a settled one.
RecordsStand ==
  [][/\ KeepsSettled
     /\ created' = {} /\ refused' = {} => MarkerIngested'
     /\ RedisFailures \/ FirstClaimStored']_vars

\* With the poll loop alone, every edit reaches the archive, through crashes in
\* the middle of a sync and stale running states.
StaysFresh == <>[](rev \in seen)

\* Every manual job that was created is settled.
JobsSettle == \A j \in Jobs : j \in created ~> (j \in created /\ Terminal(row[j]))
=============================================================================
