-------------------------------- MODULE Notes --------------------------------
(***************************************************************************)
(* Notes to dreams: captured from Telegram (facade.add_dream_note), indexed  *)
(* and written under the dream's heading by the note outbox                  *)
(* (workers/note_processing.py, services/gdocs_client.py), and read back,     *)
(* with those a human types, by the ingest (workers/ingest.py).              *)
(*                                                                         *)
(* A note is known by its dream and its text, which are unique together.  A   *)
(* dream of the document is locked by the ingest until it commits and by the  *)
(* insertion of a note (its foreign key), so storing is one action here;       *)
(* Archive has the statements.  Leases are in DreamOutbox, whose protocol      *)
(* this outbox repeats: here a lease runs out only when its owner is gone.     *)
(***************************************************************************)
EXTENDS Segmentation

CONSTANTS
  Entries, BodyOf,   \* the dreams and their texts
  FirstHeads,       \* their dates and titles
  Typed,            \* dreams whose heading has the style HEADING_1
  Undelivered,      \* dreams that the bot has still to write into the document
  Texts, LinesIn,   \* of notes, and the number of their lines
  OldNotes,         \* notes from before the outbox
  Calls, Asked,     \* runs of add_dream_note, and the notes they may bring
  Workers, MaxAttempts,
  Similar,          \* pairs of headings that the client takes for one
  NewHeads,         \* what a human makes of a heading
  MaxEdits,         \* bound: edits, and retries asked for, by a human
  LateThreads       \* a cancelled request may outlast the delay before the retry

\* A heading is a date and a title, a note a dream and a text.
Headings == Nat \X Nat

ASSUME NotesAssumption ==
  /\ IsFiniteSet(Entries) /\ Undelivered \subseteq Entries
  /\ FirstHeads \in [Entries -> Headings] /\ NewHeads \subseteq Headings
  /\ BodyOf \in [Entries -> Paragraphs(Nat, Nat)]
  /\ Texts \subseteq Nat /\ LinesIn \in [Texts -> Nat \ {0}]
  /\ OldNotes \subseteq Entries \X Texts /\ Asked \subseteq Entries \X Texts
  /\ MaxAttempts \in Nat

Stages == {"index", "gdocs"}
ByHand  == <<>>

VARIABLES
  rows,     \* dream_entries: heading, text, and whether it has a key of the document
  noteRows, \* dream_notes: the source of each
  job,      \* note_processing_jobs, by note and stage
  chunk,    \* chunks of notes: "empty" has no vector
  doc,      \* lines of the document, with their dream and who wrote them
  call,     \* calls under way
  run,      \* what each worker does
  adrift,   \* requests of cancelled workers
  sync,     \* the ingest: what it fetched
  torn,     \* history: a line was written at an index that had moved
  echoes,   \* history: notes stored from lines of the bot
  edits

notesVars == <<rows, noteRows, job, chunk, doc, call, run, adrift, sync, torn, echoes, edits>>

-----------------------------------------------------------------------------
(* The document.                                                            *)

Line(p, d, by, styled) == [p |-> p, of |-> d, by |-> by, styled |-> styled]
HeadLine(h)  == [form |-> "line", date |-> h[1], text |-> h[2]]
NoteLine(t)  == [form |-> "note", date |-> 0, text |-> t]
MoreLine(t)  == [form |-> "line", date |-> 0, text |-> t]

Section(d) == <<Line(HeadLine(FirstHeads[d]), d, ByHand, d \in Typed),
                Line(BodyOf[d], d, ByHand, FALSE)>>

\* A line break in a text makes another paragraph.
NoteLines(n, by) ==
  [i \in 1..LinesIn[n[2]] |->
     Line(IF i = 1 THEN NoteLine(n[2]) ELSE MoreLine(n[2]), n[1], by, FALSE)]

Spliced(at, new) == SubSeq(doc, 1, at - 1) \o new \o SubSeq(doc, at, Len(doc))

Least(S)   == CHOOSE i \in S : \A j \in S : i <= j
\* Lines styled as headings that are one of these.
Styled(heads) ==
  {i \in DOMAIN doc : doc[i].styled /\ <<doc[i].p.date, doc[i].p.text>> \in heads}

\* mutant of SectionEnd: right below the heading of the section after it
SectionEndOver(h) ==
  LET next == {i \in DOMAIN doc : i > h /\ doc[i].styled} IN
  IF next = {} THEN Len(doc) + 1 ELSE Least(next) + 1

SectionEnd(h) ==
  LET next == {i \in DOMAIN doc : i > h /\ doc[i].styled} IN
  IF next = {} THEN Len(doc) + 1 ELSE Least(next)

\* Where a note of the dream goes: below the first heading like the dream's, else
\* the only one similar to it; nowhere if there is none.
Places(d) ==
  LET same == Styled({rows[d].head})
      like == Styled({x[1] : x \in {x \in Similar : x[2] = rows[d].head}})
  IN  IF same # {} THEN {SectionEnd(Least(same))}
      ELSE IF Cardinality(like) = 1 THEN {SectionEnd(Least(like))}
      ELSE {}

\* The named range of the note.
Marked(n) == \E i \in DOMAIN doc : doc[i].by = n

-----------------------------------------------------------------------------
\* A table with the entries of f, and those of g that f does not have.
Over(f, g) == [x \in DOMAIN f \cup DOMAIN g |-> IF x \in DOMAIN f THEN f[x] ELSE g[x]]

Fresh   == [status |-> "pending", attempts |-> 0]
Resting == [pc |-> "idle"]

NotesInit ==
  /\ rows = [d \in Entries |->
               [head |-> FirstHeads[d], body |-> <<BodyOf[d]>>, known |-> d \notin Undelivered]]
  /\ noteRows = [n \in OldNotes |-> "telegram"]
  /\ chunk = [n \in OldNotes |-> "empty"]
  /\ \E S \in SUBSET OldNotes : job = [j \in S \X {"index"} |-> [status |-> "succeeded", attempts |-> 1]]
  /\ \E order \in SetToSeqs(Entries \ Undelivered) :
       doc = [i \in 1..(2 * Len(order)) |-> Section(order[(i + 1) \div 2])[2 - (i % 2)]]
  /\ call = [c \in Calls |-> [pc |-> "new"]]
  /\ run = [w \in Workers |-> Resting]
  /\ adrift = {} /\ sync = [pc |-> "idle"]
  /\ torn = FALSE /\ echoes = {} /\ edits = 0

-----------------------------------------------------------------------------
(* Capture.  The target of a note is the dream named, else the one shown last, *)
(* else the newest: what a person looks at may change at any time, so any one. *)

\* A note that is there already only gets the index job that it may lack.
SafeJobs(n) == Over(job, [j \in {<<n, "index">>} |-> Fresh])

End(c) == call' = [call EXCEPT ![c].pc = "end"]

LookUp(c) ==
  /\ call[c].pc = "new"
  /\ \E n \in Asked :
       /\ call' = [call EXCEPT ![c] = [pc |-> IF n \in DOMAIN noteRows THEN "end" ELSE "insert", note |-> n]]
       /\ job' = IF n \in DOMAIN noteRows THEN SafeJobs(n) ELSE job
  /\ UNCHANGED <<rows, noteRows, chunk, doc, run, adrift, sync, torn, echoes, edits>>

\* The note and both jobs in one transaction; whoever loses the race for the
\* unique note goes on with what the winner stored.
Insert(c) ==
  /\ call[c].pc = "insert" /\ End(c)
  /\ LET n == call[c].note IN
       IF n \in DOMAIN noteRows
       THEN job' = SafeJobs(n) /\ UNCHANGED noteRows
       ELSE /\ noteRows' = Over(noteRows, [m \in {n} |-> "telegram"])
            /\ job' = Over(job, [j \in {n} \X Stages |-> Fresh])
  /\ UNCHANGED <<rows, chunk, doc, run, adrift, sync, torn, echoes, edits>>

-----------------------------------------------------------------------------
(* The outbox.                                                               *)

Holders(j)   == {w \in Workers : run[w].pc # "idle" /\ run[w].job = j}
Abandoned(j) == job[j].status = "running" /\ Holders(j) = {}
Waiting(j)   == job[j].status \in {"pending", "retryable"}

Claim(w) ==
  /\ run[w].pc = "idle"
  /\ \E j \in DOMAIN job :
       /\ Waiting(j) \/ Abandoned(j)
       /\ job[j].attempts < MaxAttempts
       /\ LateThreads \/ \A r \in adrift : r.note # j[1]
       /\ job' = [job EXCEPT ![j] = [status |-> "running", attempts |-> @.attempts + 1]]
       /\ run' = [run EXCEPT ![w] = [pc |-> IF j[2] = "index" THEN "index" ELSE "get", job |-> j]]
  /\ UNCHANGED <<rows, noteRows, chunk, doc, call, adrift, sync, torn, echoes, edits>>

SweepExhausted ==
  /\ \E j \in DOMAIN job :
       /\ Abandoned(j) /\ job[j].attempts = MaxAttempts
       /\ job' = [job EXCEPT ![j].status = "failed"]
  /\ UNCHANGED <<rows, noteRows, chunk, doc, call, run, adrift, sync, torn, echoes, edits>>

Goto(w, pc) == run' = [run EXCEPT ![w] = [pc |-> pc, job |-> @.job]]

\* The chunk is committed under the lock of the dream; one with a vector stays.
IndexNote(w) ==
  /\ run[w].pc = "index" /\ Goto(w, "ok")
  /\ chunk' = Over([n \in {run[w].job[1]} |-> "ready"], chunk)
  /\ UNCHANGED <<rows, noteRows, job, doc, call, adrift, sync, torn, echoes, edits>>

\* mutant of ReadDocument: the named range is not looked for
ReadUnmarked(w) ==
  /\ run[w].pc = "get"
  /\ LET n == run[w].job[1] IN
       IF Places(n[1]) = {} THEN Goto(w, "error")
       ELSE \E at \in Places(n[1]) :
              run' = [run EXCEPT ![w] = [pc |-> "put", job |-> @.job, at |-> at, seen |-> doc]]
  /\ UNCHANGED <<rows, noteRows, job, chunk, doc, call, adrift, sync, torn, echoes, edits>>

\* documents.get: nothing to do, nowhere to write, or an index to write at.
ReadDocument(w) ==
  /\ run[w].pc = "get"
  /\ LET n == run[w].job[1] IN
       IF Marked(n) THEN Goto(w, "ok")
       ELSE IF Places(n[1]) = {} THEN Goto(w, "error")
       ELSE \E at \in Places(n[1]) :
              run' = [run EXCEPT ![w] = [pc |-> "put", job |-> @.job, at |-> at, seen |-> doc]]
  /\ UNCHANGED <<rows, noteRows, job, chunk, doc, call, adrift, sync, torn, echoes, edits>>

\* batchUpdate inserts at the index, wherever that is by now (really it would be
\* in the middle of a line).
Lands(n, at, seen) ==
  /\ doc' = Spliced(at, NoteLines(n, n))
  /\ torn' = (torn \/ doc # seen)

WriteNote(w) ==
  /\ run[w].pc = "put"
  /\ Lands(run[w].job[1], run[w].at, run[w].seen)
  /\ \E answer \in {"ok", "error"} : Goto(w, answer)
  /\ UNCHANGED <<rows, noteRows, job, chunk, call, adrift, sync, echoes, edits>>

\* The stage raises before it has changed anything.
StageRaises(w) ==
  /\ run[w].pc \in {"index", "get"} /\ Goto(w, "error")
  /\ UNCHANGED <<rows, noteRows, job, chunk, doc, call, adrift, sync, torn, echoes, edits>>

\* The request fails, times out, or the worker is cancelled: its thread may live on
\* (one that is still reading then counts as cut after it has read).
Cut(w) ==
  adrift' = IF run[w].pc = "put"
            THEN adrift \cup {[note |-> run[w].job[1], at |-> run[w].at, seen |-> run[w].seen]}
            ELSE adrift

TimeOut(w) ==
  /\ run[w].pc = "put" /\ Cut(w) /\ Goto(w, "error")
  /\ UNCHANGED <<rows, noteRows, job, chunk, doc, call, sync, torn, echoes, edits>>

Crash(w) ==
  /\ run[w].pc # "idle" /\ Cut(w) /\ run' = [run EXCEPT ![w] = Resting]
  /\ UNCHANGED <<rows, noteRows, job, chunk, doc, call, sync, torn, echoes, edits>>

\* A request that nobody waits for arrives, or never does.
Arrive ==
  /\ \E r \in adrift :
       /\ adrift' = adrift \ {r}
       /\ Lands(r.note, r.at, r.seen) \/ UNCHANGED <<doc, torn>>
  /\ UNCHANGED <<rows, noteRows, job, chunk, call, run, sync, echoes, edits>>

Settle(w) ==
  /\ run[w].pc \in {"ok", "error"}
  /\ LET j == run[w].job IN
       job' = [job EXCEPT ![j].status = IF run[w].pc = "ok" THEN "succeeded"
                                        ELSE IF job[j].attempts = MaxAttempts THEN "failed"
                                        ELSE "retryable"]
  /\ run' = [run EXCEPT ![w] = Resting]
  /\ UNCHANGED <<rows, noteRows, chunk, doc, call, adrift, sync, torn, echoes, edits>>

\* retry_note_processing, for one failed stage or for all of a note.
Retry ==
  /\ edits < MaxEdits /\ edits' = edits + 1
  /\ \E n \in DOMAIN noteRows, S \in {Stages, {"index"}, {"gdocs"}} :
       LET failed == {j \in DOMAIN job : j \in {n} \X S /\ job[j].status = "failed"} IN
       /\ failed # {}
       /\ job' = Over([j \in failed |-> [status |-> "retryable", attempts |-> 0]], job)
  /\ UNCHANGED <<rows, noteRows, chunk, doc, call, run, adrift, sync, torn, echoes>>

-----------------------------------------------------------------------------
(* The other writers of the document.                                        *)

\* The bot writes a dream where its date belongs (Archive, GDocsDelivery).
DeliverDream ==
  /\ \E d \in Undelivered :
       /\ \A i \in DOMAIN doc : doc[i].of # d
       /\ doc' = Spliced(InsertIndex([i \in DOMAIN doc |-> doc[i].p], FirstHeads[d][1]), Section(d))
  /\ UNCHANGED <<rows, noteRows, job, chunk, call, run, adrift, sync, torn, echoes, edits>>

HeadAt(d) == {i \in DOMAIN doc : doc[i].of = d /\ doc[i].by = ByHand /\ doc[i].p.date # 0}

\* A human writes a note of one line at the end of a dream, with words that may
\* come by Telegram too, or another heading.
TypeNote(n) ==
  LET own == {i \in DOMAIN doc : doc[i].of = n[1]} IN
  /\ own # {} /\ LinesIn[n[2]] = 1
  /\ doc' = Spliced(Least({i \in 1..(Len(doc) + 1) : \A k \in own : k < i}), NoteLines(n, ByHand))

Retitle(d, h) == \E i \in HeadAt(d) :
  /\ \A k \in DOMAIN doc : doc[k].p # HeadLine(h)
  /\ doc' = [doc EXCEPT ![i].p = HeadLine(h)]

Edit ==
  /\ edits < MaxEdits /\ edits' = edits + 1
  /\ (\E n \in Asked : TypeNote(n)) \/ (\E d \in Entries, h \in NewHeads : Retitle(d, h))
  /\ UNCHANGED <<rows, noteRows, job, chunk, call, run, adrift, sync, torn, echoes>>

-----------------------------------------------------------------------------
(* The ingest.                                                               *)

Key(e) == <<e.date, e.title[2]>>

\* The entries of the document, and the texts of the notes somebody typed,
\* wherever the parser puts them.
Fetch ==
  /\ sync.pc = "idle"
  /\ LET es == EntriesOf([i \in DOMAIN doc |-> doc[i].p])
         byHand == {i \in DOMAIN doc : doc[i].p.form = "note" /\ doc[i].by = ByHand}
     IN  sync' = [pc |-> "store", typed |-> {doc[i].p.text : i \in byHand},
                  read |-> {[key |-> Key(es[n]), body |-> es[n].body,
                             notes |-> {p.text : p \in ToSet(es[n].notes)}] : n \in DOMAIN es}]
  /\ UNCHANGED <<rows, noteRows, job, chunk, doc, call, run, adrift, torn, echoes, edits>>

Incoming == {e.key : e \in sync.read}
KeyGone(r)  == rows[r].known /\ rows[r].head \notin Incoming

\* The row of an entry: that with its key, else one with its text whose key is
\* gone from the document, else one captured with its text, else a new one.
Same(e)      == {r \in DOMAIN rows : rows[r].known /\ rows[r].head = e.key}
Renamed(e)   == {r \in DOMAIN rows : KeyGone(r) /\ rows[r].body = e.body}
Adoptable(e) == {r \in DOMAIN rows : ~rows[r].known /\ rows[r].body = e.body}
New(e)       == <<Cardinality(DOMAIN rows), e.key>>

RowOf(e) ==
  IF Same(e) # {} THEN CHOOSE r \in Same(e) : TRUE
  ELSE IF Renamed(e) # {} THEN CHOOSE r \in Renamed(e) : TRUE
  ELSE IF Cardinality(Adoptable(e)) = 1 THEN CHOOSE r \in Adoptable(e) : TRUE
  ELSE New(e)

\* An entry with another text than it had, or an unknown one while a known is
\* gone, and nothing at all is stored.
Refused ==
  \E e \in sync.read :
    \/ \E r \in Same(e) : rows[r].body # e.body
    \/ Same(e) = {} /\ Cardinality(Renamed(e)) > 1
    \/ Same(e) = {} /\ Renamed(e) = {} /\ \E r \in DOMAIN rows : KeyGone(r)

NotesIn(e) == {<<RowOf(e), t>> : t \in e.notes}
ReadNotes  == UNION {NotesIn(e) : e \in sync.read}

\* mutant of Repaired: a job that claims success is believed
RepairedNever(j) == job[j]

\* A job that claims success although the chunk lacks its vector starts again.
Repaired(j) == IF job[j].status = "succeeded" THEN [status |-> "retryable", attempts |-> 0] ELSE job[j]

ChunkOf(n) == IF n \in DOMAIN chunk THEN chunk[n] ELSE "none"

\* mutant of ImportedJobs: all the work of a captured note
ImportedAllJobs ==
  LET S == {n \in ReadNotes : ChunkOf(n) # "ready"} IN
  [j \in DOMAIN job \cup (S \X Stages) |->
     IF j \notin DOMAIN job THEN Fresh ELSE IF j[1] \in S /\ j[2] = "index" THEN Repaired(j) ELSE job[j]]

\* Of the notes read, those without a vector get an index job; none is ever
\* written back.
ImportedJobs ==
  LET S == {n \in ReadNotes : ChunkOf(n) # "ready"} IN
  [j \in DOMAIN job \cup (S \X {"index"}) |->
     IF j \notin DOMAIN job THEN Fresh ELSE IF j[1] \in S /\ j[2] = "index" THEN Repaired(j) ELSE job[j]]

Store ==
  /\ sync.pc = "store" /\ ~Refused
  /\ rows' = Over([r \in {RowOf(e) : e \in sync.read} |->
                     LET e == CHOOSE x \in sync.read : RowOf(x) = r IN
                     [head |-> e.key, body |-> e.body, known |-> TRUE]], rows)
  /\ noteRows' = Over(noteRows, [n \in ReadNotes |-> "google_doc"])
  /\ job' = ImportedJobs
  /\ echoes' = echoes \cup {n \in ReadNotes \ DOMAIN noteRows : n[2] \notin sync.typed}
  /\ sync' = [pc |-> "idle"]
  /\ UNCHANGED <<chunk, doc, call, run, adrift, torn, edits>>

Refuse ==
  /\ sync.pc = "store" /\ Refused /\ sync' = [pc |-> "idle"]
  /\ UNCHANGED <<rows, noteRows, job, chunk, doc, call, run, adrift, torn, echoes, edits>>

-----------------------------------------------------------------------------
NotesNext ==
  \/ \E c \in Calls : LookUp(c) \/ Insert(c)
  \/ \E w \in Workers : \/ Claim(w) \/ IndexNote(w) \/ ReadDocument(w) \/ WriteNote(w)
                        \/ StageRaises(w) \/ TimeOut(w) \/ Crash(w) \/ Settle(w)
  \/ SweepExhausted \/ Arrive \/ Retry
  \/ DeliverDream \/ Edit
  \/ Fetch \/ Store \/ Refuse

NotesSpec == NotesInit /\ [][NotesNext]_notesVars

-----------------------------------------------------------------------------
LinesBy(n) == {i \in DOMAIN doc : doc[i].by = n /\ doc[i].p.form = "note"}

\* A note that was in the document before the archive knew it is never written
\* there by the bot, whichever of capture and ingest comes first, and neither is
\* one from before the outbox, which may have been written without a mark.
NeverEchoed ==
  \A i \in DOMAIN doc : doc[i].by # ByHand =>
    noteRows[doc[i].by] = "telegram" /\ doc[i].by \notin OldNotes

\* However often a write is retried after a lost answer, a timeout or a crash,
\* the document holds the note once (if a cancelled request ends before the
\* retry, LateThreads).
WrittenOnce == \A n \in DOMAIN noteRows : Cardinality(LinesBy(n)) <= 1

\* What the bot wrote under a dream is read back as the note it was: no second
\* note, no dream.  Unless it landed where the document had moved meanwhile, or
\* was of several lines.
Strays == DOMAIN rows \ Entries
Broken == \E i \in DOMAIN doc : doc[i].by # ByHand /\ LinesIn[doc[i].by[2]] > 1

ReadBackAsItself == torn \/ Broken \/ (echoes = {} /\ Strays = {})

AcceptedIsOwed ==
  \A c \in Calls : call[c].pc = "end" =>
    /\ call[c].note \in DOMAIN noteRows
    /\ <<call[c].note, "index">> \in DOMAIN job

ReadIsOwed ==
  sync.pc = "store" /\ sync'.pc = "idle" /\ ~Refused =>
    \A n \in ReadNotes : ChunkOf(n) = "ready" \/ job'[<<n, "index">>].status # "succeeded"

\* Every note that a call has accepted, or found, is indexed or has the job; and after
\* an ingest every note it read has its vector, or a job that will make it or that
\* failed for all to see.
NotesOwed == [][AcceptedIsOwed' /\ ReadIsOwed]_notesVars

\* A note is kept apart from the dreams: no line of a note becomes a dream.
NotesAreNoDreams == torn \/ Broken \/ Strays = {}

\* An ingest is never refused for what the bot has written.
SyncAccepted == torn \/ sync.pc = "idle" \/ ~Refused
=============================================================================
