--------------------------- MODULE SyncParameters ---------------------------
(* The constants of SourceSync and what is assumed of them.                  *)
EXTENDS Integers

CONSTANTS
  Jobs,           \* manual_sync_jobs rows that may be created
  Workers,        \* supervisors of the API and of the Telegram process
  Pollers,        \* the auto-sync process, or no process
  MaxEdits,       \* bound: edits of the document
  MaxCrashes,     \* bound: crashes and failed Redis commands that end a poll
  Refusals,       \* TRUE: an ingest may end in GDocsAuthError or SourceDreamConflictError
  RedisFailures,  \* TRUE: any single Redis command may fail
  NoJob           \* not a job

ASSUME WorkerAssumption == Workers \subseteq Nat \ {0} /\ Workers \cap Pollers = {}
ASSUME SwitchAssumption ==
  MaxEdits \in Nat /\ MaxCrashes \in Nat /\ Refusals \in BOOLEAN /\ RedisFailures \in BOOLEAN /\ NoJob \notin Jobs
=============================================================================
