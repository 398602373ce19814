-------------------------------- MODULE MCBot --------------------------------
(***************************************************************************)
(* What the bot keeps of a conversation, in parts that share no state: the    *)
(* history of a chat, notes and the dialogue (with the cfg's constants), and    *)
(* the selection read off an answer.  `part` is the one that runs; the dialogue *)
(* has three, in two of which a few requests meet.                             *)
(***************************************************************************)
EXTENDS History, Notes, Dialogue

CONSTANTS Parts, d1, d2

VARIABLES
  part,
  archive, found, reply, selection, opened

readingVars  == <<archive, found, reply, selection, opened>>

-----------------------------------------------------------------------------
(* The archives of Notes.  Dream texts are 20 and above, titles 1 to 3; of the  *)
(* texts of notes, 5 is short, 15 and 17 long and 16 long in two lines.          *)

Two == {d1, d2}
TwoBodies == [d \in Two |-> [form |-> "line", date |-> 0, text |-> IF d = d1 THEN 21 ELSE 22]]
TwoHeads  == [d \in Two |-> IF d = d1 THEN <<1, 1>> ELSE <<2, 2>>]

Lengths == [t \in {5, 15, 16, 17} |-> IF t = 16 THEN 2 ELSE 1]

\* Headings of one day are alike, but for the third.
Alike  == {<<<<1, 1>>, <<1, 2>>>>, <<<<1, 2>>, <<1, 1>>>>, <<<<1, 1>>, <<1, 3>>>>, <<<<1, 3>>, <<1, 1>>>>}

Old      == {<<d2, 15>>}
NewHead  == {<<1, 3>>}
LongOnes == {<<d1, 17>>, <<d2, 15>>, <<d1, 16>>}

\* A short note and a long one to one dream.
ShortAndLong == {<<d1, 5>>, <<d1, 15>>}

-----------------------------------------------------------------------------
(* Three dreams with titles that contain one another, or are alike, or none.    *)

Named(t1, day1, t2, day2, t3, day3) ==
  <<[title |-> t1, date |-> day1], [title |-> t2, date |-> day2], [title |-> t3, date |-> day3]>>

ReplyLines ==
  {[n |-> n, title |-> x[1], date |-> x[2], id |-> x[3]] : n \in 0..2,
     x \in {<<0, 0, 0>>, <<1, 0, 0>>, <<1, 5, 0>>, <<1, 6, 0>>, <<2, 0, 0>>, <<3, 5, 0>>,
            <<0, 5, 0>>, <<0, 0, 1>>}}

\* A search that finds blocks of the dreams, the second of them without evidence.
Call(tool, blocks, exact, title, limit) ==
  [tool |-> tool, rows |-> exact, title |-> title, limit |-> limit,
   blocks |-> [i \in DOMAIN blocks |-> [dream |-> blocks[i], verified |-> i # 2]]]

Reading == INSTANCE Selection WITH
  Archives <- {Named(1, 5, 2, 6, 0, 7), Named(1, 5, 1, 6, 2, 5), Named(1, 5, 1, 5, 2, 6),
               Named(0, 5, 0, 5, 1, 5), Named(1, 5, 3, 5, 0, 0)},
  Within <- {<<1, 3>>},
  MostHits <- 2,
  Rounds <- {<<>>, <<Call("search_dreams", <<1, 2, 3>>, <<>>, 0, 0)>>,
             <<Call("search_dreams_exact", <<>>, <<3, 2, 3, 1>>, 0, 0)>>,
             <<Call("list_recent_dreams", <<>>, <<>>, 0, 2),
               Call("search_dreams_by_title", <<1, 3>>, <<>>, 1, 2)>>},
  Replies <- {<<l>> : l \in ReplyLines} \cup {<<l, m>> : l, m \in ReplyLines},
  Commands <- {[action |-> "open", indices |-> <<2>>], [action |-> "remove", indices |-> <<1>>],
               [action |-> "keep", indices |-> <<2>>], [action |-> "show", indices |-> <<>>]}

-----------------------------------------------------------------------------
(* One update beside a voice message, of the requests that meet: those that cross,   *)
(* with the attempts of the cfg, and those that fail, with one attempt; and two       *)
(* updates of which the second is a note.                                             *)

Ask(do, dreams, n) == [do |-> do, dreams |-> dreams, n |-> n]
Plain(words) == {Ask(word, <<>>, 0) : word \in words}

Listed == <<1, 2, 3>>

CrossingTexts == Plain({"save"}) \cup {Ask("find", <<3>>, 0), Ask("remove", <<>>, 1)}
CrossingWords == Plain({"tell"}) \cup {Ask("remove", <<>>, 1)}
FailingTexts  == Plain({"show", "analyse", "note", "tell"})
                   \cup {Ask("keep", <<>>, 1), Ask("text", <<1, 2>>, 0), Ask("press", <<>>, 1),
                         Ask("reply note", <<>>, 1)}
FailingWords  == Plain({"note"}) \cup {Ask("open", <<>>, 1), Ask("keep", <<>>, 2)}

Requests == CrossingTexts \cup FailingTexts
Words    == CrossingWords \cup FailingWords

ReplyRequests == {Ask("text", <<2>>, 0)} \cup {Ask("reply note", <<>>, r) : r \in 1..3}
ReplyWords == Plain({"note"})

Crossing ==
  /\ DialogueNext
  /\ outages' = 0 /\ lapses' = 0 /\ lane'[0].ask \in CrossingTexts \cup {Idle.ask}
Failing ==
  /\ DialogueNext
  /\ event'.owner <= 1 /\ lane'[0].ask \in FailingTexts \cup {Idle.ask}

Dialogues == {"crossing", "failing", "replying"}

DialogueParts ==
  /\ DialogueInit
  /\ CASE part = "crossing" -> event.ask \in CrossingWords
       [] part = "failing"  -> event.ask \in FailingWords
       [] part = "replying" -> TRUE
       [] OTHER -> event.ask = CHOOSE ask \in VoiceAsks : TRUE

-----------------------------------------------------------------------------
ReadingQuiet == archive = 0 /\ found = 0 /\ reply = 0 /\ selection = 0 /\ opened = 0

BotInit ==
  /\ part \in Parts
  /\ HistoryInit
  /\ NotesInit /\ (part # "notes" => DOMAIN job = {})
  /\ IF part = "reading" THEN Reading!Init ELSE ReadingQuiet
  /\ DialogueParts

BotNext ==
  /\ \/ part = "telling" /\ HistoryNext /\ UNCHANGED <<notesVars, readingVars, dialogueVars>>
     \/ part = "notes" /\ NotesNext /\ UNCHANGED <<historyVars, readingVars, dialogueVars>>
     \/ part = "reading" /\ Reading!Next /\ UNCHANGED <<historyVars, notesVars, dialogueVars>>
     \/ part = "crossing" /\ Crossing /\ UNCHANGED <<historyVars, notesVars, readingVars>>
     \/ part = "failing" /\ Failing /\ UNCHANGED <<historyVars, notesVars, readingVars>>
     \/ part = "replying" /\ DialogueNext /\ UNCHANGED <<historyVars, notesVars, readingVars>>
  /\ UNCHANGED part

botVars == <<part, historyVars, notesVars, readingVars, dialogueVars>>

BotSpec == BotInit /\ [][BotNext]_botVars

-----------------------------------------------------------------------------
(* FreshHistorySurvives is that of History, NeverEchoed, WrittenOnce, NotesOwed and *)
(* NotesAreNoDreams are those of Notes, SelectionWasShown, VoiceCommandOnce and      *)
(* NoteWhereReplied those of Dialogue.                                             *)

\* Notes, Selection: what the bot wrote under a dream is read back as the note it was,
\* and a number beside a dream is its number in the selection, or a list with the right
\* one follows in the same message.
ReadAsMeant == ReadBackAsItself /\ (part = "reading" => Reading!NumbersAgree)
=============================================================================
