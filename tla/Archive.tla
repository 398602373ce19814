------------------------------- MODULE Archive -------------------------------
(***************************************************************************)
(* The dreams of the archive and the document they also live in: capture    *)
(* (assistant/facade.py: create_dream), the delivery of a capture into the   *)
(* document, the human who edits it, and the ingest that reads it back and   *)
(* decides which entry is which dream (workers/ingest.py: _store_entries).   *)
(* An ingest fetches first and stores in one transaction at READ COMMITTED;  *)
(* one action is one statement, `dirty` the row versions it has written and  *)
(* not committed, which are also the rows it has locked.  Manual sync and    *)
(* auto-sync run in different processes, so two ingests may overlap.         *)
(***************************************************************************)
EXTENDS Segmentation

CONSTANTS
  Events,      \* message identities (source_event_key)
  Calls,       \* deliveries of these messages to create_dream
  Drafts,      \* what a call may bring: [event, date, title, body]
  Ingests,     \* concurrent runs of the ingest
  Dates,       \* of dreams, from 1
  Headings,    \* the headings a human writes
  FirstDoc,    \* the headings of the document at the start
  Edits,       \* which edits the human makes
  MaxDocEdits, \* bound: edits
  Orderly,     \* a human adds only where the order of dates wants it
  Crashes      \* ingests may die at any time

NoKey   == <<>>
NoEvent == "none"

\* Every text a human types is new: a number above all others.
Typed(w) == [form |-> "line", date |-> 0, text |-> 100 + w]

MaxDreams == Len(FirstDoc) + MaxDocEdits + Cardinality(Calls)
Bodies    == Seq(Paragraphs(Dates \cup {0}, Nat))

ASSUME ArchiveAssumption ==
  /\ MaxDocEdits \in Nat /\ {Orderly, Crashes} \subseteq BOOLEAN /\ Dates \subseteq Nat \ {0}
  /\ Headings \subseteq Paragraphs(Dates, ShortTexts) /\ FirstDoc \in Seq(Paragraphs(Dates, ShortTexts))
  /\ Drafts \subseteq [event : Events, date : Dates, title : Nat \X Nat, body : Bodies]
  /\ NoEvent \notin Events

VARIABLES
  rows,     \* dream_entries as committed: a number to a row
  doc,      \* the document: paragraphs, with the dream they belong to
  call,     \* per call: [pc, draft]
  sync,     \* per ingest: [pc, entries, n, dirty, dreams]
  said,     \* history: what create_dream answered
  born,     \* history: dreams there have been; the number of the newest
  loose,    \* history: dreams changed before they were ingested, or during an ingest
  edits

history     == <<born, loose>>
archiveVars == <<rows, doc, call, sync, said, history, edits>>

Resting == [pc |-> "rest", entries |-> <<>>, n |-> 0, dirty |-> <<>>, dreams |-> <<>>]

Deliveries == {"none", "queued", "claimed", "written", "done"}

ParasOf(d)   == [i \in DOMAIN d |-> d[i].p]
Signed(w, ps) == [i \in DOMAIN ps |-> [p |-> ps[i], who |-> w]]

Entered(heading, w) == Signed(w, <<heading, Typed(w)>>)

ArchiveInit ==
  /\ rows = <<>>
  /\ doc = [i \in 1..(2 * Len(FirstDoc)) |->
              LET n == (i + 1) \div 2 IN Entered(FirstDoc[n], n)[2 - (i % 2)]]
  /\ call = [c \in Calls |-> [pc |-> "new"]]
  /\ sync = [i \in Ingests |-> Resting]
  /\ said = {} /\ born = Len(FirstDoc) /\ loose = {} /\ edits = 0

\* Functions, changed at a place, or where another one says so.
Put(f, x, v) == [y \in DOMAIN f \cup {x} |-> IF y = x THEN v ELSE f[y]]
Over(f, g)   == [y \in DOMAIN f \cup DOMAIN g |-> IF y \in DOMAIN f THEN f[y] ELSE g[y]]

\* A number that no row has, committed or not.  Bound: there are Numbers.
Numbers   == 1..(2 * MaxDreams + 1)
Fresh     == Numbers \ (DOMAIN rows \cup UNION {DOMAIN sync[i].dirty : i \in Ingests})
UnusedRow == CHOOSE r \in Fresh : TRUE

-----------------------------------------------------------------------------
(* Capture.  create_dream looks the event up in one transaction and inserts  *)
(* the dream with its jobs in another; the unique event key arbitrates.      *)

HolderOf(e) == {r \in DOMAIN rows : rows[r].event = e}

Say(draft, verdict, r) == said' = said \cup {<<draft.event, draft.body, verdict, r>>}

\* The dream of the event is there: told, unless the text differs.
Recognise(draft) ==
  \E r \in HolderOf(draft.event) :
     Say(draft, IF rows[r].body = draft.body THEN "existing" ELSE "conflict", r)

LookUp(c) ==
  /\ call[c].pc = "new"
  /\ \E draft \in Drafts :
       IF HolderOf(draft.event) = {}
       THEN call' = [call EXCEPT ![c] = [pc |-> "insert", draft |-> draft]] /\ UNCHANGED said
       ELSE call' = [call EXCEPT ![c] = [pc |-> "end"]] /\ Recognise(draft)
  /\ UNCHANGED <<rows, doc, sync, history, edits>>

Captured(draft, w) ==
  [event |-> draft.event, key |-> NoKey, home |-> "telegram", head |-> <<draft.date, draft.title>>,
   body |-> draft.body, delivery |-> "queued", who |-> w]

\* mutant of Insert: no unique event key
InsertUnchecked(c) ==
  /\ call[c].pc = "insert" /\ Fresh # {}
  /\ rows' = Put(rows, UnusedRow, Captured(call[c].draft, born + 1))
  /\ born' = born + 1
  /\ Say(call[c].draft, "created", UnusedRow)
  /\ call' = [call EXCEPT ![c] = [pc |-> "end"]]
  /\ UNCHANGED <<doc, sync, loose, edits>>

Insert(c) ==
  /\ call[c].pc = "insert" /\ Fresh # {}
  /\ LET draft == call[c].draft IN
       IF HolderOf(draft.event) = {}
       THEN /\ rows' = Put(rows, UnusedRow, Captured(draft, born + 1))
            /\ born' = born + 1
            /\ Say(draft, "created", UnusedRow)
       ELSE /\ Recognise(draft)
            /\ UNCHANGED <<rows, born>>
  /\ call' = [call EXCEPT ![c] = [pc |-> "end"]]
  /\ UNCHANGED <<doc, sync, loose, edits>>

-----------------------------------------------------------------------------
(* The delivery of a captured dream, in outline: GDocsDelivery has the rest.  *)
(* Claiming locks the dream row, and so waits for an ingest that holds it.    *)

NotLocked(r) == \A i \in Ingests : r \notin DOMAIN sync[i].dirty

ClaimDelivery(r) ==
  /\ rows[r].delivery = "queued" /\ NotLocked(r)
  /\ rows' = [rows EXCEPT ![r].delivery = "claimed"]
  /\ UNCHANGED <<doc, call, sync, said, history, edits>>

WriteDream(r) ==
  /\ rows[r].delivery = "claimed"
  /\ LET date == rows[r].head[1]
         at   == InsertIndex(ParasOf(doc), date)
         new  == Signed(rows[r].who, Written(date, rows[r].head[2], rows[r].body))
     IN  doc' = SubSeq(doc, 1, at - 1) \o new \o SubSeq(doc, at, Len(doc))
  /\ rows' = [rows EXCEPT ![r].delivery = "written"]
  /\ UNCHANGED <<call, sync, said, history, edits>>

FinishDelivery(r) ==
  /\ rows[r].delivery = "written"
  /\ rows' = [rows EXCEPT ![r].delivery = "done"]
  /\ UNCHANGED <<doc, call, sync, said, history, edits>>

-----------------------------------------------------------------------------
(* The human.                                                                *)

Ids(d)      == {d[i].who : i \in DOMAIN d}
LinesOf(w)  == {i \in DOMAIN doc : doc[i].who = w}
FirstOf(w)  == CHOOSE i \in LinesOf(w) : \A j \in LinesOf(w) : i <= j
LinesAt(S)  == LET at == Ranked(S) IN [n \in DOMAIN at |-> doc[at[n]]]
Without(w)  == LinesAt(DOMAIN doc \ LinesOf(w))
Only(w)     == LinesAt(LinesOf(w))
Gaps(d)     == {i \in 1..(Len(d) + 1) : i \in {1, Len(d) + 1} \/ d[i].who # d[i - 1].who}
Spliced(d, i, new) == SubSeq(d, 1, i - 1) \o new \o SubSeq(d, i, Len(d))

WasIngested(w) == \E r \in DOMAIN rows : rows[r].who = w /\ rows[r].key # NoKey

HumanEdits(kind) ==
  /\ kind \in Edits /\ edits < MaxDocEdits /\ edits' = edits + 1
  /\ UNCHANGED <<rows, call, sync, said>>

\* A change of an entry's words is harmless to its identity only when the
\* archive knows the entry already and nobody is reading the document.
Settled(w) == WasIngested(w) /\ \A i \in Ingests : sync[i].pc = "rest"

Changed(w) ==
  /\ loose' = IF Settled(w) THEN loose ELSE loose \cup {w}
  /\ UNCHANGED born

Type ==
  /\ HumanEdits("type")
  /\ \E i \in Gaps(doc), heading \in Headings :
       /\ Orderly => i = InsertIndex(ParasOf(doc), heading.date)
       /\ doc' = Spliced(doc, i, Entered(heading, born + 1))
  /\ born' = born + 1 /\ UNCHANGED loose

Retitle ==
  /\ HumanEdits("retitle")
  /\ \E w \in Ids(doc), heading \in Headings :
       /\ doc[FirstOf(w)].p # heading
       /\ doc' = [doc EXCEPT ![FirstOf(w)].p = heading]
       /\ Changed(w)

Reword ==
  /\ HumanEdits("reword")
  /\ \E w \in Ids(doc) :
       /\ doc' = [doc EXCEPT ![FirstOf(w) + 1].p = Typed(MaxDreams + edits')]
       /\ Changed(w)

Move ==
  /\ HumanEdits("move")
  /\ \E w \in Ids(doc) : \E i \in Gaps(Without(w)) :
       /\ doc' = Spliced(Without(w), i, Only(w)) /\ doc' # doc
  /\ UNCHANGED <<born, loose>>

Erase ==
  /\ HumanEdits("erase")
  /\ \E w \in Ids(doc) : doc' = Without(w)
  /\ UNCHANGED <<born, loose>>

-----------------------------------------------------------------------------
(* The ingest.  The key of an entry is its heading and how many entries with  *)
(* the same heading precede it.                                              *)

SourceKey(es, n) ==
  <<es[n].date, es[n].title,
    Cardinality({m \in 1..(n - 1) : es[m].date = es[n].date /\ es[m].title = es[n].title})>>

Snapshot(d) ==
  LET es == EntriesOf(ParasOf(d)) IN
  [n \in DOMAIN es |-> [key |-> SourceKey(es, n), body |-> es[n].body, who |-> d[es[n].at].who]]

Seen(i)     == Over(sync[i].dirty, rows)
Entry(i)    == sync[i].entries[sync[i].n]
Incoming(i) == {sync[i].entries[n].key : n \in DOMAIN sync[i].entries}

\* The rows that each of the queries selects.
WithKey(i)   == {r \in DOMAIN Seen(i) : Seen(i)[r].key = Entry(i).key}
Renamed(i)   == {r \in DOMAIN Seen(i) :
                   /\ Seen(i)[r].home = "doc" /\ Seen(i)[r].body = Entry(i).body
                   /\ Seen(i)[r].key \notin Incoming(i)}
Vanished(i)  == {r \in DOMAIN Seen(i) :
                   /\ Seen(i)[r].home = "doc" /\ Seen(i)[r].key # NoKey
                   /\ Seen(i)[r].key \notin Incoming(i)}
\* mutant of Adoptable: a dream that is delivered already is not looked for
AdoptableQueued(i) == {r \in DOMAIN Seen(i) :
                         /\ Seen(i)[r].home = "telegram" /\ Seen(i)[r].delivery = "queued"
                         /\ Seen(i)[r].body = Entry(i).body}
Adoptable(i) == {r \in DOMAIN Seen(i) :
                   /\ Seen(i)[r].home = "telegram" /\ Seen(i)[r].key = NoKey
                   /\ Seen(i)[r].body = Entry(i).body}

\* A statement waits for the transactions that hold what it selects, and a
\* write for those that hold its key, in the old or in the new version.
HolderOfRows(i, S) == {j \in Ingests \ {i} : S \cap DOMAIN sync[j].dirty # {}}
\* mutant of HolderOfKey: no unique key in the table
NoHolderOfKey(i) == {}
HolderOfKey(i) == {j \in Ingests \ {i} : \E r \in DOMAIN sync[j].dirty :
                         \/ sync[j].dirty[r].key = Entry(i).key
                         \/ r \in DOMAIN rows /\ rows[r].key = Entry(i).key}

AwaitedBy(i) ==
  CASE sync[i].pc = "find"   -> HolderOfRows(i, WithKey(i))
    [] sync[i].pc = "rename" -> HolderOfRows(i, Renamed(i))
                                  \cup (IF Renamed(i) = {} THEN {} ELSE HolderOfKey(i))
    [] sync[i].pc = "adopt"  -> HolderOfRows(i, Adoptable(i))
                                  \cup (IF Adoptable(i) = {} THEN {} ELSE HolderOfKey(i))
    [] sync[i].pc = "insert" -> HolderOfKey(i)
    [] OTHER -> {}

Goes(i, pc) == sync' = [sync EXCEPT ![i].pc = pc]
GiveUp(i)   == sync' = [sync EXCEPT ![i] = Resting]   \* rolled back, reported failed

\* The entry is stored in row r as `version`; on to the next one.
Advance(i, r, version) ==
  sync' = [sync EXCEPT ![i].dirty = Put(@, r, version), ![i].dreams = Append(@, r),
                       ![i].n = @ + 1,
                       ![i].pc = IF sync[i].n = Len(sync[i].entries) THEN "commit" ELSE "find"]

\* A row that takes the place of the entry; its delivery is closed.
AsEntry(row, e) ==
  [event |-> row.event, key |-> e.key, home |-> "doc", head |-> <<e.key[1], e.key[2]>>,
   body |-> row.body, delivery |-> IF row.delivery = "queued" THEN "done" ELSE row.delivery,
   who |-> row.who]

\* Not while the delivery is under way, and not if another row has the key.
Place(i, r) ==
  IF WithKey(i) \ {r} # {} \/ Seen(i)[r].delivery \in {"claimed", "written"}
  THEN GiveUp(i)
  ELSE Advance(i, r, AsEntry(Seen(i)[r], Entry(i)))

FetchEntries(i) ==
  /\ sync[i].pc = "rest"
  /\ LET es == Snapshot(doc) IN
       sync' = [sync EXCEPT ![i] = [Resting EXCEPT !.pc = IF es = <<>> THEN "commit" ELSE "find",
                                                   !.entries = es, !.n = 1]]

FindByKey(i) ==
  /\ sync[i].pc = "find"
  /\ IF WithKey(i) = {} THEN Goes(i, "rename")
     ELSE \E r \in WithKey(i) :
            IF Seen(i)[r].body # Entry(i).body THEN GiveUp(i) ELSE Place(i, r)

FindRenamed(i) ==
  /\ sync[i].pc = "rename"
  /\ IF Cardinality(Renamed(i)) > 1 THEN GiveUp(i)
     ELSE IF Renamed(i) = {} THEN Goes(i, "vanish")
     ELSE \E r \in Renamed(i) : Place(i, r)

\* An unknown entry while a known one is gone might be the same dream.
CheckVanished(i) ==
  /\ sync[i].pc = "vanish"
  /\ IF Vanished(i) # {} THEN GiveUp(i) ELSE Goes(i, "adopt")

Adopt(i) ==
  /\ sync[i].pc = "adopt"
  /\ IF Cardinality(Adoptable(i)) # 1 THEN Goes(i, "insert")
     ELSE \E r \in Adoptable(i) : Place(i, r)

InsertEntry(i) ==
  /\ sync[i].pc = "insert" /\ Fresh # {}
  /\ IF WithKey(i) = {}
     THEN Advance(i, UnusedRow,
                  [event |-> NoEvent, key |-> Entry(i).key, home |-> "doc",
                   head |-> <<Entry(i).key[1], Entry(i).key[2]>>, body |-> Entry(i).body,
                   delivery |-> "none", who |-> Entry(i).who])
     ELSE \E r \in WithKey(i) :
            IF Seen(i)[r].body # Entry(i).body THEN GiveUp(i) ELSE Place(i, r)

Commit(i) ==
  /\ sync[i].pc = "commit"
  /\ rows' = Seen(i)
  /\ GiveUp(i)

Statement(i) ==
  /\ AwaitedBy(i) = {}
  /\ \/ FetchEntries(i) \/ FindByKey(i) \/ FindRenamed(i) \/ CheckVanished(i) \/ Adopt(i)
     \/ InsertEntry(i)
  /\ UNCHANGED <<rows, doc, call, said, history, edits>>

Store(i) == Commit(i) /\ UNCHANGED <<doc, call, said, history, edits>>

\* The database ends one of two transactions that wait for each other.
Deadlock(i) ==
  /\ \E j \in AwaitedBy(i) : i \in AwaitedBy(j)
  /\ GiveUp(i)
  /\ UNCHANGED <<rows, doc, call, said, history, edits>>

Abort(i) ==
  /\ Crashes /\ sync[i].pc # "rest"
  /\ GiveUp(i)
  /\ UNCHANGED <<rows, doc, call, said, history, edits>>

-----------------------------------------------------------------------------
Delivery(r) == ClaimDelivery(r) \/ WriteDream(r) \/ FinishDelivery(r)
Ingest(i)   == Statement(i) \/ Store(i) \/ Deadlock(i)

ArchiveNext ==
  \/ \E c \in Calls : LookUp(c) \/ Insert(c)
  \/ \E r \in DOMAIN rows : Delivery(r)
  \/ Type \/ Retitle \/ Reword \/ Move \/ Erase
  \/ \E i \in Ingests : Ingest(i) \/ Abort(i)

\* The sync loops never end and the outbox delivers; a human may do nothing.
ArchiveFairness ==
  /\ \A i \in Ingests : WF_archiveVars(Ingest(i))
  /\ WF_archiveVars(\E r \in DOMAIN rows : Delivery(r))

ArchiveSpec     == ArchiveInit /\ [][ArchiveNext]_archiveVars
FairArchiveSpec == ArchiveSpec /\ ArchiveFairness

-----------------------------------------------------------------------------
Keys == {NoKey} \cup ((Dates \cup {0}) \X ((Dates \cup {0}) \X Nat) \X Nat)

RowType ==
  [event : Events \cup {NoEvent}, key : Keys, home : {"telegram", "doc"},
   head : (Dates \cup {0}) \X ((Dates \cup {0}) \X Nat),
   body : Bodies, delivery : Deliveries, who : 1..MaxDreams]

\* The values of the state; only a row captured for an event has a delivery,
\* and only a row read from the document has a key.
ArchiveTypeOK ==
  /\ \A r \in DOMAIN rows :
       /\ rows[r] \in RowType
       /\ (rows[r].event = NoEvent) = (rows[r].delivery = "none")
       /\ (rows[r].key = NoKey) = (rows[r].home = "telegram")
  /\ \A i \in Ingests :
       /\ sync[i].pc \in {"rest", "find", "rename", "vanish", "adopt", "insert", "commit"}
       /\ \A r \in DOMAIN sync[i].dirty : sync[i].dirty[r] \in RowType
       /\ Len(sync[i].dreams) \in 0..Len(sync[i].entries)
  /\ born \in 0..MaxDreams /\ loose \subseteq 1..born /\ Ids(doc) \subseteq 1..born
  /\ edits \in 0..MaxDocEdits

\* A dream never takes two rows, whatever is inserted, moved, retitled,
\* reworded or erased in the document while ingests overlap, die and store old
\* snapshots.  Two exceptions: a dream that was changed before the archive knew
\* it or while an ingest ran, and captures of one text, none of which is adopted
\* while another one waits as well (_store_entries: "Never turn it into a
\* second dream").
Twin(r) == \E s \in DOMAIN rows \ {r} : rows[s].event # NoEvent /\ rows[s].body = rows[r].body

OneRowPerDream ==
  \A r, s \in DOMAIN rows :
    r # s /\ rows[r].who = rows[s].who
      => rows[r].who \in loose \/ \E t \in {r, s} : rows[t].key = NoKey /\ Twin(t)

\* The same without the exception for changes: what the code says.
OneRowEver ==
  \A r, s \in DOMAIN rows :
    r # s /\ rows[r].who = rows[s].who => \E t \in {r, s} : rows[t].key = NoKey /\ Twin(t)

\* And without the one for captures of the same text.
SameWordsOneRow ==
  \A r, s \in DOMAIN rows : r # s /\ rows[r].who = rows[s].who => rows[r].who \in loose

\* Whatever was typed, moved, retitled or written by the bot at its place, the
\* parser reads every dream of the document as one entry with its own heading
\* and text, and nothing else (append_dream_entry against EntriesOf).
Legible ==
  LET read == Snapshot(doc) IN
  /\ Len(read) = Cardinality(Ids(doc))
  /\ \A w \in Ids(doc) : \E n \in DOMAIN read :
       LET first == doc[FirstOf(w)].p IN
       /\ read[n].who = w /\ read[n].body = <<doc[FirstOf(w) + 1].p>>
       /\ read[n].key[1] = first.date /\ read[n].key[2] = Heading(first)

\* What an ingest commits is its whole snapshot: each entry in a row of its
\* own, with the text, key and heading it had, and the entry's key is nobody
\* else's in the archive.
StoredAsFetched ==
  [][\A i \in Ingests :
       sync[i].pc = "commit" /\ sync'[i].pc = "rest" /\ rows' = Seen(i) =>
       /\ Len(sync[i].dreams) = Len(sync[i].entries)
       /\ \A n \in DOMAIN sync[i].entries :
            LET r == sync[i].dreams[n] e == sync[i].entries[n] IN
            /\ rows'[r].key = e.key /\ rows'[r].body = e.body
            /\ rows'[r].head = <<e.key[1], e.key[2]>>
            /\ \A s \in DOMAIN rows' \ {r} : rows'[s].key # e.key
            /\ \A m \in DOMAIN sync[i].entries \ {n} : sync[i].dreams[m] # r]_archiveVars

\* Capture keeps the promise of EventRegister: one row for an event, with the
\* text that came first, through ingests and deliveries.
Register == INSTANCE EventRegister WITH
  Bodies <- {draft.body : draft \in Drafts},
  register <- [e \in Events |-> {<<r, rows[r].body>> : r \in HolderOf(e)}]

ImplementsRegister == Register!Spec

\* Every entry of a document to which the human only adds, in order of dates,
\* reaches the archive, whether typed or delivered.
EventuallyArchived == \A w \in 1..MaxDreams : w \in Ids(doc) ~> WasIngested(w)
=============================================================================
