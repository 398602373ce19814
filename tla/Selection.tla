------------------------------ MODULE Selection ------------------------------
(***************************************************************************)
(* From the results of the assistant's searches to the numbered selection    *)
(* that the next commands act on (assistant/chat.py, assistant/selection.py). *)
(* The references are read off the tools' output; those that the model's reply *)
(* names become the selection, in the order of the reply, and the reply is sent *)
(* with a list of the code after it when its numbers do not fit.                *)
(*                                                                         *)
(* A line of a reply has a number (0: none) and may name a dream by its        *)
(* identifier, its title or its date; titles and dates are numbers.             *)
(***************************************************************************)
EXTENDS Naturals, Sequences, SequencesExt

CONSTANTS
  Archives,   \* what the dreams of an archive are called: [dream -> [title, date]]
  Within,     \* pairs of titles of which the first occurs in the second
  MostHits,   \* dreams of a search that are printed
  Rounds,     \* the searches of a turn: sequences of [tool, blocks, rows, title, limit]
  Replies,    \* what the model may write: sequences of lines
  Commands    \* what the user may then say: [action, indices]

Untitled    == 0     \* also "без названия"
NoDate      == 0     \* "", as before a field is read
Unknown     == 1     \* "unknown"
UnknownDate == 2     \* "unknown date", which display_date takes for a date
Latest      == 99
Longest     == 20    \* references of a list that the code adds

VARIABLES
  archive, found,   \* what there is, and what the searches returned
  reply,            \* the message that is sent: the model's lines, then the code's list
  selection, opened

vars == <<archive, found, reply, selection, opened>>

-----------------------------------------------------------------------------
(* What the searches return: sequences of dreams.                           *)

Top(n, s) == SubSeq(s, 1, IF n < Len(s) THEN n ELSE Len(s))

\* By date, those without one first; of one day the dream that came last.
Newer(a, b) ==
  LET day(d) == IF archive[d].date = NoDate THEN Latest ELSE archive[d].date
  IN  day(a) > day(b) \/ (day(a) = day(b) /\ a > b)

Recent(limit) == Top(limit, SetToSortSeq(DOMAIN archive, Newer))

\* The limit cuts by date, before the best match comes first.
ByTitle(title, limit) ==
  LET hits == {d \in DOMAIN archive : archive[d].title = title \/ <<title, archive[d].title>> \in Within}
      new  == Top(limit, SetToSortSeq(hits, Newer))
      Better(i, j) ==
        LET t == archive[new[i]].title  u == archive[new[j]].title IN
        \/ t = title /\ u # title
        \/ (t = title) = (u = title) /\ (t < u \/ (t = u /\ i < j))
      order == SetToSortSeq(DOMAIN new, Better)
  IN  [k \in DOMAIN order |-> new[order[k]]]

\* The dreams of the verified blocks, each where its first block is.
Related(blocks) ==
  FoldLeft(LAMBDA s, b : IF b.verified /\ ~Contains(s, b.dream) THEN Append(s, b.dream) ELSE s,
           <<>>, blocks)

\* What a tool prints, and how; a search for words or a title that finds nothing goes
\* on with the meaning.
Result(call) ==
  LET alike == [tool |-> "search_dreams", dreams |-> Top(MostHits, Related(call.blocks))]
      exact == [tool |-> call.tool, dreams |->
                  CASE call.tool = "search_dreams_exact" -> call.rows
                    [] call.tool = "search_dreams_by_title" -> ByTitle(call.title, call.limit)
                    [] call.tool = "list_recent_dreams" -> Recent(call.limit)
                    [] OTHER -> <<>>]
  IN  IF exact.dreams = <<>> /\ call.tool # "list_recent_dreams" THEN alike ELSE exact

-----------------------------------------------------------------------------
(* References in the output of a tool.                                      *)

Dated(d, none) == IF archive[d].date = NoDate THEN none ELSE archive[d].date

\* What each tool prints of a dream.
Printed(tool, d) ==
  LET id    == [key |-> "id", dream |-> d]
      title == [key |-> "title", value |-> archive[d].title]
      date(none) == [key |-> "date", value |-> Dated(d, none)]
  IN  CASE tool = "list_recent_dreams" ->
             <<[key |-> "heading", date |-> Dated(d, Unknown), title |-> archive[d].title], id>>
        [] tool = "search_dreams_by_title" -> <<id, date(Unknown), title>>
        [] OTHER -> <<id, date(UnknownDate), title>>

\* An identifier starts a reference, with the heading above it if there is one.
Scan(scan, line) ==
  LET last == Len(scan.refs) IN
  CASE line.key = "heading" -> [scan EXCEPT !.date = line.date, !.title = line.title]
    [] line.key = "id" ->
         [refs |-> Append(scan.refs, [dream |-> line.dream, date |-> scan.date, title |-> scan.title]),
          date |-> NoDate, title |-> Untitled]
    [] line.key = "date"  /\ last > 0 -> [scan EXCEPT !.refs[last].date = line.value]
    [] line.key = "title" /\ last > 0 -> [scan EXCEPT !.refs[last].title = line.value]
    [] OTHER -> scan

\* One reference to a dream stays, with what later ones add to it.
Merge(refs, ref) ==
  IF \A i \in DOMAIN refs : refs[i].dream # ref.dream THEN Append(refs, ref)
  ELSE [i \in DOMAIN refs |->
          IF refs[i].dream # ref.dream THEN refs[i]
          ELSE [refs[i] EXCEPT !.date  = IF @ = NoDate THEN ref.date ELSE @,
                               !.title = IF @ = Untitled THEN ref.title ELSE @]]

References(result) ==
  LET lines == FlattenSeq([i \in DOMAIN result.dreams |-> Printed(result.tool, result.dreams[i])])
      scan  == FoldLeft(Scan, [refs |-> <<>>, date |-> NoDate, title |-> Untitled], lines)
  IN  FoldLeft(Merge, <<>>, scan.refs)

Found(rounds) ==
  FoldLeft(Merge, <<>>, FlattenSeq([i \in DOMAIN rounds |-> References(Result(rounds[i]))]))

-----------------------------------------------------------------------------
(* The references that a text names.                                        *)

Refs(refs) == {refs[i] : i \in DOMAIN refs}
Shown(date) == IF date = Unknown THEN NoDate ELSE date

Twins(ref, refs)   == {r \in Refs(refs) : r.title = ref.title}
SameDay(ref, refs) ==
  {r \in IF ref.title = Untitled THEN Refs(refs) ELSE Twins(ref, refs) :
     Shown(r.date) = Shown(ref.date)}

Says(line, title) == line.title = title \/ <<title, line.title>> \in Within

\* A short title inside the longer title of another candidate does not count.
Titled(line, ref, refs) ==
  /\ Says(line, ref.title)
  /\ line.title = ref.title \/ \A r \in Refs(refs) : r.title # line.title

\* The lines that name the reference.
Naming(text, ref, refs) ==
  LET byId == {i \in DOMAIN text : text[i].id = ref.dream}
      named == ref.title # Untitled
  IN  IF byId # {} THEN byId
      ELSE IF named /\ Twins(ref, refs) = {ref}
        THEN {i \in DOMAIN text : Titled(text[i], ref, refs)}
      ELSE IF Shown(ref.date) # NoDate /\ SameDay(ref, refs) = {ref}
        THEN {i \in DOMAIN text : /\ named => Says(text[i], ref.title)
                                  /\ text[i].date = ref.date}
      ELSE {}

FirstOf(S) == CHOOSE i \in S : \A j \in S : i <= j

\* In the order of the text; on a line an undated title comes after a bare date.
Visible(text, refs) ==
  LET hits == {i \in DOMAIN refs : Naming(text, refs[i], refs) # {}}
      At(i) == 2 * FirstOf(Naming(text, refs[i], refs))
                 + (IF refs[i].title = Untitled THEN 0 ELSE 1)
      order == SetToSortSeq(hits, LAMBDA i, j : At(i) < At(j) \/ (At(i) = At(j) /\ i < j))
  IN  [k \in DOMAIN order |-> refs[order[k]]]

ConsistentAlways(text, refs) == TRUE                     \* mutant of Consistent

\* The numbered lines that name one of the references name it by its number.
Consistent(text, refs) ==
  LET numbered == SelectSeq(text, LAMBDA line : line.n # 0 /\ Visible(<<line>>, refs) # <<>>)
  IN  /\ Len(numbered) = Len(refs)
      /\ \A i \in DOMAIN numbered :
           numbered[i].n = i /\ Visible(<<numbered[i]>>, refs) = <<refs[i]>>

-----------------------------------------------------------------------------
(* The turn and the command that follows it.                                *)

List(refs) ==
  [i \in DOMAIN refs |->
     [n |-> i, id |-> 0, title |-> refs[i].title, date |-> Shown(refs[i].date)]]

Silence == [text |-> <<>>, list |-> <<>>]
Listing(refs) == [text |-> <<>>, list |-> List(refs)]

\* The list is added to what the model wrote, which stays.
Answer(text) ==
  LET visible == Visible(text, found)
      all == Top(Longest, found)
      fits == visible # <<>> /\ Consistent(text, visible)
  IN  /\ reply = Silence
      /\ selection' = IF visible = <<>> THEN all ELSE visible
      /\ reply' = [text |-> text, list |-> IF found = <<>> \/ fits THEN <<>> ELSE List(selection')]
      /\ UNCHANGED <<archive, found, opened>>

Chosen(command) == {command.indices[i] : i \in DOMAIN command.indices}

\* A number outside the selection is refused, and nothing is opened or removed.
Kept(command) ==
  LET kept == {i \in DOMAIN selection : (i \in Chosen(command)) = (command.action = "keep")}
      order == SetToSortSeq(kept, <)
  IN  [k \in DOMAIN order |-> selection[order[k]]]

Obey(command) ==
  /\ selection # <<>> /\ opened = 0
  /\ Chosen(command) \subseteq DOMAIN selection
  /\ \/ /\ command.action = "open"
        /\ opened' = selection[command.indices[1]].dream
        /\ UNCHANGED <<reply, selection>>
     \/ /\ command.action \in {"remove", "keep"}
        /\ selection' = Kept(command) /\ reply' = Listing(Kept(command))
        /\ UNCHANGED opened
     \/ /\ command.action = "show"
        /\ reply' = Listing(selection)
        /\ UNCHANGED <<selection, opened>>
  /\ UNCHANGED <<archive, found>>

Init ==
  /\ archive \in Archives /\ \E rounds \in Rounds : found = Found(rounds)
  /\ reply = Silence /\ selection = <<>> /\ opened = 0

Next == (\E text \in Replies : Answer(text)) \/ (\E c \in Commands : Obey(c))

Spec == Init /\ [][Next]_vars

-----------------------------------------------------------------------------
\* A line that names one dream beside a number of the selection has that dream's number.
Right(line) ==
  LET named == Visible(<<line>>, found)
  IN  Len(named) = 1 /\ line.n \in DOMAIN selection => selection[line.n].dream = named[1].dream

\* The code's list has the dream of the line, at the number that "open 2" takes.
Corrected(line) ==
  \E i \in DOMAIN reply.list :
    reply.list[i].n = i /\ selection[i].dream = Visible(<<line>>, found)[1].dream

\* The numbers of the code's list are right.  So are those that the model wrote, or the list
\* follows them in the same message and has each dream that they misplace at its number: a
\* message whose only numbers are wrong is not sent ("Never derive an ordinal from a candidate
\* count", selection.py), in whatever order and with whatever names the model wrote, nor after
\* a removal.
NumbersAgree ==
  /\ \A i \in DOMAIN reply.list : Right(reply.list[i])
  /\ \A i \in DOMAIN reply.text : Right(reply.text[i]) \/ Corrected(reply.text[i])

\* No line of the message has a number that opens another dream than the one beside it.
EveryNumberAgrees ==
  /\ \A i \in DOMAIN reply.list : Right(reply.list[i])
  /\ \A i \in DOMAIN reply.text : Right(reply.text[i])
=============================================================================
