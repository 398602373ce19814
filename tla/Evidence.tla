------------------------------- MODULE Evidence -------------------------------
(***************************************************************************)
(* Quotations of a dream: what services/imagery.py accepts of a model's    *)
(* answer, what services/motif_grounder.py verifies, and what the review   *)
(* inbox of api/motifs.py verifies again.  A text is a sequence; a         *)
(* fragment quotes `text` from offset `from` up to, and without, offset    *)
(* `to`.                                                                   *)
(***************************************************************************)
EXTENDS Integers, Sequences, FiniteSetsExt

Slice(s, from, to) == SubSeq(s, from + 1, to)

\* _parse_fragments: an answer with any other fragment is refused as a whole.
Acceptable(f, s) == f.text # <<>> /\ 0 <= f.from /\ f.from < f.to /\ f.to <= Len(s)

\* _check_offsets
Grounded(f, s) ==
  /\ 0 <= f.from /\ f.from <= f.to /\ f.to <= Len(s)
  /\ f.text = Slice(s, f.from, f.to)

\* raw_text.find(text)
Occurrences(word, s) ==
  {i \in 0..(Len(s) - Len(word)) : Slice(s, i, i + Len(word)) = word}

\* _verified_review_fragments: a quotation that is no longer where it was is shown
\* where its words first occur, or not at all.
Reviewed(fragments, s) ==
  LET inPlace == {f \in fragments : Acceptable(f, s) /\ Grounded(f, s)}
      moved   == {f \in fragments \ inPlace : Occurrences(f.text, s) # {}}
      Found(f) == LET i == Min(Occurrences(f.text, s))
                  IN  [text |-> f.text, from |-> i, to |-> i + Len(f.text)]
  IN  inPlace \cup {Found(f) : f \in moved}
=============================================================================
