------------------------------ MODULE MotifShelf ------------------------------
(***************************************************************************)
(* The motifs of an archive as its readers see them: a motif appears as a  *)
(* draft of a dream, keeps its dream, and its name and status change by    *)
(* decisions of the user.  MotifReview is how the code keeps this promise; *)
(* DreamMemory reads the shelf.                                            *)
(***************************************************************************)
EXTENDS CurationParameters, Integers

CONSTANT Labels   \* names of motifs

VARIABLES
  dreams,  \* captured dreams
  shelf    \* [Motifs -> row or NoEntry]

shelfVars == <<dreams, shelf>>

NoEntry == [status |-> "none"]
ShelfStatuses == {"draft", "confirmed", "rejected"}
Shelved(m) == shelf[m] # NoEntry

ShelfInit ==
  /\ dreams = {}
  /\ shelf = [m \in Motifs |-> NoEntry]

Captured(d) ==
  /\ d \notin dreams
  /\ dreams' = dreams \cup {d}
  /\ UNCHANGED shelf

\* One run may bring several drafts of one dream.
Proposed(d) ==
  /\ d \in dreams
  /\ \E ids \in (SUBSET {m \in Motifs : ~Shelved(m)}) \ {{}} : \E label \in [ids -> Labels] :
       shelf' = [m \in Motifs |->
                   IF m \in ids THEN [dream |-> d, label |-> label[m], status |-> "draft"]
                                ELSE shelf[m]]
  /\ UNCHANGED dreams

Decided(m) ==
  /\ Shelved(m)
  /\ \E l \in Labels, s \in ShelfStatuses :
       shelf' = [shelf EXCEPT ![m].label = l, ![m].status = s]
  /\ UNCHANGED dreams

ShelfNext ==
  \/ \E d \in Dreams : Captured(d) \/ Proposed(d)
  \/ \E m \in Motifs : Decided(m)

ShelfSpec == ShelfInit /\ [][ShelfNext]_shelfVars
=============================================================================
