----------------------------- MODULE DreamMemory -----------------------------
(***************************************************************************)
(* The dream memory graph: dreams and motifs as nodes, where motifs appear *)
(* and repeat as edges (services/dream_memory_graph.py), what the user has *)
(* deleted, hidden, restored or rejected as an append-only table that      *)
(* every reader replays (api/dream_memory.py), and what remains visible    *)
(* (models/dream_graph_privacy.py).                                        *)
(***************************************************************************)
EXTENDS MotifShelf, FiniteSets

CONSTANTS
  Targets,     \* subjects the user may act on
  MaxControls  \* bound: rows of dream_graph_privacy_controls

VARIABLES
  controls,  \* the committed rows, numbered by created_at
  posting,   \* rows whose transaction has begun: created_at is taken, nothing stored
  view       \* what a reader has loaded

ASSUME ControlAssumption == MaxControls \in Nat

memoryVars == <<dreams, shelf, controls, posting, view>>

-----------------------------------------------------------------------------
(* Subjects: a dream, the node of a dream or a motif, an edge.             *)

DreamItself(d) == [type |-> "dream", of |-> <<d>>]
DreamNode(d)   == [type |-> "dream_node", of |-> <<d>>]
MotifNode(m)   == [type |-> "motif_node", of |-> <<m>>]
Appears(m, d)  == [type |-> "appears", of |-> <<m, d>>]
Repeats(m, n)  == [type |-> "repeats", of |-> <<m, n>>]

Actions(s) == {"delete", "hide", "restore"}
              \cup (IF s.type = "dream" THEN {} ELSE {"reject"})

NoView == [stage |-> 0]

MemoryInit ==
  /\ ShelfInit
  /\ controls = {}
  /\ posting = {}
  /\ view = NoView

-----------------------------------------------------------------------------
(* Controls.                                                               *)

Rows == controls \cup posting

\* create_dream_memory_*_control: one insert; created_at is when its transaction began.
BeginControl ==
  /\ Cardinality(Rows) < MaxControls
  /\ \E s \in Targets : \E a \in Actions(s) :
       posting' = posting \cup {[at |-> Cardinality(Rows) + 1, subject |-> s, action |-> a]}
  /\ UNCHANGED <<shelfVars, controls, view>>

CommitControl ==
  /\ \E c \in posting : /\ controls' = controls \cup {c}
                        /\ posting' = posting \ {c}
  /\ UNCHANGED <<shelfVars, view>>

-----------------------------------------------------------------------------
(* Replay.                                                                 *)

Unmarked == [deleted |-> FALSE, hidden |-> FALSE, rejected |-> FALSE]

RestoresAll(mark, action) ==                                 \* mutant of Effect
  CASE action = "delete"  -> [deleted |-> TRUE, hidden |-> FALSE, rejected |-> FALSE]
    [] action = "hide"    -> IF mark.deleted \/ mark.rejected THEN mark
                             ELSE [mark EXCEPT !.hidden = TRUE]
    [] action = "restore" -> Unmarked
    [] action = "reject"  -> IF mark.deleted THEN mark
                             ELSE [mark EXCEPT !.rejected = TRUE, !.hidden = FALSE]
\* _privacy_controls_from_rows, for one subject.
Effect(mark, action) ==
  CASE action = "delete"  -> [deleted |-> TRUE, hidden |-> FALSE, rejected |-> FALSE]
    [] action = "hide"    -> IF mark.deleted \/ mark.rejected THEN mark
                             ELSE [mark EXCEPT !.hidden = TRUE]
    [] action = "restore" -> [mark EXCEPT !.hidden = FALSE]
    [] action = "reject"  -> IF mark.deleted THEN mark
                             ELSE [mark EXCEPT !.rejected = TRUE, !.hidden = FALSE]

Marks(s, rows) ==
  LET own == {c \in rows : c.subject = s}
      after[i \in 0..MaxControls] ==
        IF i = 0 THEN Unmarked
        ELSE IF \E c \in own : c.at = i
             THEN Effect(after[i - 1], (CHOOSE c \in own : c.at = i).action)
             ELSE after[i - 1]
  IN  after[MaxControls]

Withheld(s, rows) == LET m == Marks(s, rows) IN m.deleted \/ m.hidden \/ m.rejected

\* The constructor of DreamGraphPrivacyControls raises when two of the sets overlap.
Consistent(mark) ==
  Cardinality({a \in {"deleted", "hidden", "rejected"} : mark[a]}) <= 1

-----------------------------------------------------------------------------
(* A reader: three statements, each with a snapshot of its own.            *)

LoadDreams ==
  /\ view = NoView
  /\ view' = [stage |-> 1, dreams |-> dreams]
  /\ UNCHANGED <<shelfVars, controls, posting>>

LoadMotifs ==
  /\ view.stage = 1
  /\ view' = [stage |-> 2, dreams |-> view.dreams, motifs |-> shelf]
  /\ UNCHANGED <<shelfVars, controls, posting>>

\* The third statement; the answer is made of Loaded.
LoadControls ==
  /\ view.stage = 2
  /\ view' = NoView
  /\ UNCHANGED <<shelfVars, controls, posting>>

Loaded == [dreams |-> view.dreams, motifs |-> view.motifs, controls |-> controls]

-----------------------------------------------------------------------------
(* The graph, and what of it is shown.                                     *)

Present(v) == {m \in Motifs : v.motifs[m] # NoEntry}
Rejected(v, m) == v.motifs[m].status = "rejected"

\* build_dream_memory_snapshot leaves out the edge to a dream that was not loaded.
Appearances(v) ==
  {Appears(m, v.motifs[m].dream) : m \in {m \in Present(v) : v.motifs[m].dream \in v.dreams}}

\* motif_repeat_edges: neighbours by id among the motifs of one label, unless both
\* belong to one dream.
Repetitions(v) ==
  LET Group(m) == {n \in Present(v) : /\ ~Rejected(v, n)
                                      /\ v.motifs[n].label = v.motifs[m].label}
      Neighbours(m, n) == /\ n \in Group(m) /\ m < n
                          /\ \A k \in Group(m) : ~(m < k /\ k < n)
  IN  {Repeats(e[1], e[2]) :
         e \in {e \in Present(v) \X Present(v) :
                  /\ ~Rejected(v, e[1]) /\ Neighbours(e[1], e[2])
                  /\ v.motifs[e[1]].dream # v.motifs[e[2]].dream}}

VisibleDreams(v) == {d \in v.dreams : ~Withheld(DreamItself(d), v.controls)}

\* _node_is_visible
VisibleNodes(v) ==
  {s \in {DreamNode(d) : d \in VisibleDreams(v)}
         \cup {MotifNode(m) : m \in {m \in Present(v) : ~Rejected(v, m)}} :
     ~Withheld(s, v.controls)}

\* _edge_is_visible: neither marked nor rejected, both ends visible, and every dream
\* quoted for it visible.
Ends(v, e) == IF e.type = "appears" THEN {MotifNode(e.of[1]), DreamNode(e.of[2])}
                                    ELSE {MotifNode(e.of[1]), MotifNode(e.of[2])}
Quoted(v, e) == IF e.type = "appears" THEN {e.of[2]}
                ELSE {v.motifs[e.of[1]].dream, v.motifs[e.of[2]].dream}
EndsOnly(v, e, nodes, seen) ==                            \* mutant of EdgeIsVisible
  /\ ~Withheld(e, v.controls)
  /\ ~Rejected(v, e.of[1])
  /\ Ends(v, e) \subseteq nodes
EdgeIsVisible(v, e, nodes, seen) ==
  /\ ~Withheld(e, v.controls)
  /\ ~Rejected(v, e.of[1])
  /\ Ends(v, e) \subseteq nodes
  /\ Quoted(v, e) \subseteq seen
VisibleEdges(v) ==
  LET nodes == VisibleNodes(v)
      seen  == VisibleDreams(v)
  IN  {e \in Appearances(v) \cup Repetitions(v) : EdgeIsVisible(v, e, nodes, seen)}

Shown(v) ==
  {DreamItself(d) : d \in VisibleDreams(v)} \cup VisibleNodes(v) \cup VisibleEdges(v)

-----------------------------------------------------------------------------
MemoryNext ==
  \/ ShelfNext /\ UNCHANGED <<controls, posting, view>>
  \/ BeginControl \/ CommitControl
  \/ LoadDreams \/ LoadMotifs \/ LoadControls

MemorySpec == MemoryInit /\ [][MemoryNext]_memoryVars

-----------------------------------------------------------------------------
(* Properties.                                                             *)

\* No sequence of deletions, hidings, restorations and rejections, in whatever order
\* their transactions begin and commit, makes the table unreadable: the replay never
\* marks a subject twice, for which the constructor would raise for every reader.
NeverLockedOut ==
  \A s \in Targets : Consistent(Marks(s, controls))

\* What the user took away stays away.  An answer read after the commit of a deletion
\* or rejection never holds its subject again, whatever follows; one read after a
\* hiding does not hold it unless it was restored by a later request.
TakenAwayStaysAway ==
  view.stage = 2 =>
    LET shown == Shown(Loaded)
    IN \A c \in controls :
      \/ c.subject \notin shown
      \/ c.action = "restore"
      \/ /\ c.action = "hide"
         /\ \E k \in controls :
              k.subject = c.subject /\ k.action = "restore" /\ k.at > c.at

\* An answer is closed, although dreams, motifs and controls are three snapshots: an
\* edge comes with both its ends, and no quotation leads to a dream that is hidden,
\* deleted or not in the answer.
OutputClosed ==
  view.stage = 2 =>
    LET shown == Shown(Loaded)
    IN \A e \in VisibleEdges(Loaded) :
         /\ Ends(Loaded, e) \subseteq shown
         /\ \A d \in Quoted(Loaded, e) : DreamItself(d) \in shown

\* A reader of the memory is answered whatever was posted, and what it gets is closed.
AlwaysAnswered == NeverLockedOut /\ OutputClosed
=============================================================================
