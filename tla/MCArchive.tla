------------------------------ MODULE MCArchive ------------------------------
(* The drafts and first documents of the runs of Archive.  Texts 1 and 2 are  *)
(* titles, 10 and above dreams told to the bot, and the one below is short.    *)
EXTENDS Archive, TLC

Symmetry == Permutations(Calls) \cup Permutations(Ingests)

Told(text) == <<[form |-> "line", date |-> 0, text |-> text]>>

Draft(e, date, title, text) ==
  [event |-> e, date |-> date, title |-> <<0, title>>, body |-> Told(text)]

\* A message retold in other words; two messages in the same words; a short one.
RetoldDrafts == {Draft("m1", 1, 1, 10), Draft("m1", 1, 1, 11)}
SameWords    == {Draft("m1", 1, 1, 10), Draft("m2", 1, 1, 10)}
OneDraft     == {Draft("m1", 1, 1, 10)}
ShortDraft   == {Draft("m1", 1, 1, 2)}

Line(date, title) == [form |-> "line", date |-> date, text |-> title]
Date(date, title) == [form |-> "date", date |-> date, text |-> title]

OneLine  == {Line(1, 1)}
Lines    == {Line(1, 1), Line(2, 2)}
NoDream  == <<>>
OneDream == <<Line(2, 2)>>

\* A document of date lines.
DateLines  == {Date(1, 1), Date(2, 2)}
DatedDream == <<Date(2, 2)>>

-----------------------------------------------------------------------------
\* Every dream of the document is read as one entry, and every dream has one row.
OneEntryOneRow == Legible /\ OneRowPerDream
=============================================================================
