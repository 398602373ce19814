----------------------------- MODULE Segmentation -----------------------------
(***************************************************************************)
(* How a document becomes dreams (services/segmentation.py), and the place  *)
(* at which the bot writes a dream into it (services/gdocs_client.py).      *)
(* Without state.  A paragraph is what the parser tells apart: a line of    *)
(* nothing but a date, a "[Note ...]: text" line, or any other line, which  *)
(* may start with "date - ".  Texts are numbers, date 0 is none.  Secrets   *)
(* are assumed redacted and white space normalised before.                  *)
(***************************************************************************)
EXTENDS Naturals, Sequences, FiniteSets, SequencesExt

CONSTANT ShortTexts   \* texts of at most eight words and eighty letters
                      \* without punctuation at their end

Paragraphs(dates, texts) == [form : {"line", "date", "note"}, date : dates, text : texts]

\* Could be a heading: also a note, and also the body of a short dream.
Candidate(p) == p.form # "date" /\ p.text \in ShortTexts

HeadingIndexes(ps) == {i \in 1..(Len(ps) - 1) : Candidate(ps[i]) /\ ~Candidate(ps[i + 1])}
DateIndexes(ps)    == {i \in 1..Len(ps) : ps[i].form = "date"}

-----------------------------------------------------------------------------
(* The profile of a document is detected anew at every read, from the share *)
(* of date lines and the number of headings.  Confidences in hundredths,    *)
(* times the length that the one of the dates is divided by.                *)

Span(ps)             == IF Len(ps) > 2 THEN Len(ps) ELSE 2
DatedConfidence(ps)  == LET c == 200 * Cardinality(DateIndexes(ps)) IN
                        IF c > 100 * Span(ps) THEN 100 * Span(ps) ELSE c
HeadedConfidence(ps) == LET n == Cardinality(HeadingIndexes(ps)) IN
                        Span(ps) * (IF n = 0 THEN 0
                                    ELSE IF n > 3 THEN 98 ELSE 45 + 15 * n)

Profile(ps) ==
  IF DatedConfidence(ps) >= HeadedConfidence(ps)
  THEN IF DatedConfidence(ps) >= 60 * Span(ps) THEN "dated_entries" ELSE "default"
  ELSE IF HeadedConfidence(ps) >= 60 * Span(ps) THEN "heading_based" ELSE "default"

-----------------------------------------------------------------------------
(* The entries: date, title, the paragraphs of the text, notes, and the     *)
(* index of the paragraph they start at.                                    *)

IsNote(p)  == p.form = "note"
IsText(p)  == ~IsNote(p)
Whole(p)   == <<p.date, p.text>>      \* a paragraph as a title
Heading(p) == <<0, p.text>>           \* the same without its date

\* A section that starts with a heading of its own.
Headed(ps, from, to) ==
  LET body == SelectSeq(SubSeq(ps, from + 1, to), IsText)
      h    == ps[from]
  IN  [date  |-> h.date, title |-> Heading(h), at |-> from,
       body  |-> IF body = <<>> THEN <<[h EXCEPT !.date = 0]>> ELSE body,
       notes |-> SelectSeq(SubSeq(ps, from + 1, to), IsNote)]

\* A section whose title is its first paragraph.
Untitled(ps, date, at, from, to) ==
  LET body == SelectSeq(SubSeq(ps, from, to), IsText)
  IN  [date |-> date, title |-> IF body = <<>> THEN <<0, 0>> ELSE Whole(body[1]),
       at |-> at, body |-> body, notes |-> SelectSeq(SubSeq(ps, from, to), IsNote)]

HasText(e) == e.body # <<>>

\* A set of indexes in their order: the n-th has n - 1 below it.
Ranked(S) == [n \in 1..Cardinality(S) |-> CHOOSE i \in S : Cardinality({j \in S : j < i}) = n - 1]

\* The last paragraph of the section that starts at i.
EndOf(ps, cuts, i) ==
  LET later == {j \in cuts : j > i} IN IF later = {} THEN Len(ps) ELSE Min(later) - 1

\* What precedes the first heading, or the first date, belongs to no entry.
EntriesOf(ps) ==
  LET headings == HeadingIndexes(ps)
      dates    == DateIndexes(ps)
      Dated(i) == Untitled(ps, ps[i].date, i, i + 1, EndOf(ps, dates, i))
      whole    == Untitled(ps, 0, 1, 1, Len(ps))
      named    == Ranked(headings)
      filled   == Ranked({i \in dates : HasText(Dated(i))})
  IN  IF Profile(ps) = "heading_based"
      THEN [n \in DOMAIN named |-> Headed(ps, named[n], EndOf(ps, headings, named[n]))]
      ELSE IF Profile(ps) = "dated_entries" THEN [n \in DOMAIN filled |-> Dated(filled[n])]
      ELSE IF HasText(whole) THEN <<whole>> ELSE <<>>

-----------------------------------------------------------------------------
(* The bot writes a dream before the first line with a later date.          *)

InsertIndex(ps, date) ==
  1 + Cardinality({i \in 1..Len(ps) : \A j \in 1..i : ps[j].date <= date})

Written(date, title, body) ==
  <<[form |-> "line", date |-> date, text |-> title[2]]>> \o body
=============================================================================
