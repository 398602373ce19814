-------------------------------- MODULE Sources --------------------------------
(***************************************************************************)
(* The connected Google documents and the one that is written to: what the    *)
(* user changes through the assistant (manage_archive_source of               *)
(* assistant/tools.py, assistant/facade.py) or an operator through             *)
(* scripts/gdocs_canary.py, and what the bot, the API and the auto-sync read    *)
(* (shared/config.py).  The processes share a file; each write locks it,        *)
(* replaces it whole, and is given up with a warning when it fails.             *)
(*                                                                         *)
(* The file, the memory of the bot and the environment are layers, of which     *)
(* the first that has a value counts.  Lists of documents are sets here.        *)
(***************************************************************************)
EXTENDS Naturals

CONSTANTS
  Docs,
  Own, Given,  \* GOOGLE_DOC_ID and GOOGLE_DOC_IDS
  Legacy,      \* the file of an older release, a bare list
  MaxChanges   \* bound: changes asked for, and restarts

VARIABLES
  file, memory, \* layers: [primary, listed, extras]
  asked,        \* what the bot is doing: [at, op, doc, extras]
  connected,    \* history: documents accepted, and neither removed nor replaced since
  changes

sourceVars == <<file, memory, asked, connected, changes>>

None  == "none"
Layer(primary, listed, extras) == [primary |-> primary, listed |-> listed, extras |-> extras]
Empty == Layer(None, FALSE, {})
Done  == [at |-> "done", op |-> None, doc |-> None, extras |-> {}]

\* get_effective_google_doc_id, with the memory m
Target(m) ==
  IF file.primary # None THEN file.primary
  ELSE IF m.primary # None THEN m.primary ELSE Own

Extras(m) ==
  IF file.listed THEN file.extras
  ELSE IF m.listed THEN m.extras ELSE Given

\* get_all_doc_ids: the document of the environment is always there.
All(m) == {Target(m), Own} \cup Extras(m)

\* mutant of Persisted: what is not set now comes from the process alone
PersistedOwnView(m, new) ==
  LET primary == IF new.primary # None THEN new.primary ELSE Target(m)
      extras  == IF new.listed THEN new.extras ELSE IF m.listed THEN m.extras ELSE Given
  IN  Layer(primary, TRUE, (extras \cup {Own}) \ {primary})

\* _persist_extra_docs: the file after a change `new`
Persisted(m, new) ==
  LET primary == IF new.primary # None THEN new.primary ELSE Target(m)
      extras  == IF new.listed THEN new.extras ELSE Extras(m)
  IN  Layer(primary, TRUE, (extras \cup {Own}) \ {primary})

SourcesInit ==
  /\ file \in {Empty, Layer(None, TRUE, Legacy)}
  /\ memory = Empty /\ asked = Done /\ changes = 0
  /\ connected = {Own} \cup (IF file.listed THEN Legacy ELSE Given)

Change == changes < MaxChanges /\ changes' = changes + 1

\* The target before is connected no more, but for the one of the environment.
Kept == connected \ ({Target(memory)} \ {Own})

\* set_archive_source
SetSource(doc) ==
  /\ asked.at = "done" /\ Change
  /\ memory' = [memory EXCEPT !.primary = doc]
  /\ \/ file' = Persisted(memory', Layer(doc, FALSE, {})) /\ connected' = Kept \cup {doc}
     \/ UNCHANGED file /\ connected' = IF file.primary = None THEN Kept ELSE connected
  /\ UNCHANGED asked

\* add_archive_source, of a document that was found or created with a name of its own,
\* and remove_archive_source, which refuses the target.
Ask(op, doc) ==
  /\ asked.at = "done" /\ Change
  /\ op = "remove" => doc # Target(memory)
  /\ asked' = [Done EXCEPT !.at = IF op = "find" THEN "name" ELSE "read", !.op = op, !.doc = doc]
  /\ UNCHANGED <<file, memory, connected>>

\* register_doc_name writes the whole file.
Name ==
  /\ asked.at = "name"
  /\ asked' = [asked EXCEPT !.at = "read"]
  /\ file' \in {file, Persisted(memory, Empty)}
  /\ UNCHANGED <<memory, connected, changes>>

Read ==
  /\ asked.at = "read"
  /\ LET all == IF asked.op = "remove" THEN All(memory) \ {asked.doc} ELSE All(memory) \cup {asked.doc}
     IN  asked' = [asked EXCEPT !.at = "write", !.extras = all \ {Target(memory)}]
  /\ UNCHANGED <<file, memory, connected, changes>>

\* set_google_doc_ids_override, and the list that the answer shows
Write ==
  /\ asked.at = "write" /\ asked' = Done
  /\ memory' = [memory EXCEPT !.listed = TRUE, !.extras = asked.extras]
  /\ file' \in {file, Persisted(memory', Layer(None, TRUE, asked.extras))}
  /\ connected' = IF asked.op = "remove" THEN connected \ {asked.doc}
                  ELSE connected \cup ({asked.doc} \cap (IF file' = file THEN {} ELSE All(memory)'))
  /\ UNCHANGED changes

\* Another process sets the target.
CanarySets(doc) ==
  /\ Change
  /\ file' = Persisted(Layer(doc, FALSE, {}), Layer(doc, FALSE, {}))
  /\ connected' = Kept \cup {doc}
  /\ UNCHANGED <<memory, asked>>

Restart ==
  /\ Change
  /\ memory' = Empty /\ asked' = Done
  /\ UNCHANGED <<file, connected>>

SourcesNext ==
  \/ \E doc \in Docs :
       SetSource(doc) \/ CanarySets(doc) \/ \E op \in {"add", "find", "remove"} : Ask(op, doc)
  \/ Name \/ Read \/ Write \/ Restart

SourcesSpec == SourcesInit /\ [][SourcesNext]_sourceVars

-----------------------------------------------------------------------------
\* Once the file has been written all processes have one target and one list, in which
\* is every document that was accepted, whichever process, restart or failed write came
\* in between ("API, bot and auto-sync must therefore see the same state").
SourcesAgree ==
  file.primary # None =>
    /\ Target(memory) = Target(Empty) /\ All(memory) = All(Empty)
    /\ connected \subseteq All(Empty)
=============================================================================
