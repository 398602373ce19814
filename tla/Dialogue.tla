------------------------------- MODULE Dialogue -------------------------------
(***************************************************************************)
(* What a chat's next command or note is about: the list of dreams shown     *)
(* last and the dreams of each message shown, as the update handlers         *)
(* (telegram/handlers.py), the assistant (assistant/chat.py) and the voice   *)
(* worker (workers/transcribe.py) keep them in memory and in Redis           *)
(* (assistant/session.py).  Updates are handled one at a time; a voice        *)
(* message runs beside them, in two attempts of which the second may take the *)
(* lease of the first at any time.  A lane is 0, the updates, or an attempt.  *)
(*                                                                         *)
(* A list is known by the number of the reply that shows it; 0 is none.       *)
(***************************************************************************)
EXTENDS Naturals, Sequences, FiniteSets

CONSTANTS
  Archive,      \* dreams there are: 1..Archive, of which the last is the newest
  First,        \* the list of dreams that has been shown at the start
  TextAsks,     \* what the user writes: [do, dreams, n]
  VoiceAsks,    \* what the voice message may say
  Attempts,     \* bound: the attempts at the voice message, from 1
  MaxTurns,     \* bound: updates
  MaxRestarts, MaxOutages, MaxLapses   \* bounds

\* What a request is: "chat" is none, and what it names are dreams and a number.
Asks == [do : {"chat", "find", "text", "press", "show", "remove", "keep", "open", "analyse",
               "tell", "save", "note", "reply note"}, dreams : Seq(Nat), n : Nat]

ASSUME DialogueAssumption ==
  /\ Archive \in Nat /\ First \in Seq(Nat) /\ Attempts \subseteq Nat \ {0}
  /\ TextAsks \subseteq Asks /\ VoiceAsks \subseteq Asks
  /\ \A ask \in TextAsks : ask.do # "chat"
  /\ \A ask \in VoiceAsks : ask.do \notin {"chat", "press", "save", "reply note"}

VARIABLES
  replies,   \* composed so far: [kind, dreams, by, on, sent]
  mem,       \* the list in memory, _displayed_dream_sets and _recent_dream_sets
  stored,    \* the list in Redis
  cards,     \* [{"mem", "redis"} -> replies whose own dreams are kept]
  staged,    \* the list of the voice message in Redis, until its reply is out
  lane,      \* what each lane is doing: [at, ask, list, card]
  event,     \* the voice row: [owner, reply, sent, done]
  captured,  \* the messages of the dreams after Archive
  noted,     \* history: where notes went: [replied, dream]
  turns, redisUp, restarts, outages, lapses

copies == <<mem, stored, cards>>
world  == <<redisUp, restarts, outages, lapses>>
dialogueVars == <<replies, copies, staged, lane, event, captured, noted, turns, world>>

Lanes    == {0} \cup Attempts
VoiceKey == 0          \* the message of the voice note; updates count from 1
Idle     == [at |-> "idle", ask |-> [do |-> "chat", dreams |-> <<>>, n |-> 0], list |-> 0, card |-> FALSE]

\* A reply of kind "list" is the next selection, of kind "card" only remembered as a
\* message (preserve_selection), and of kind "plain" not at all.
Digest(r) == <<replies[r].kind, replies[r].dreams>>
Shown     == {r \in DOMAIN replies : replies[r].sent}
Newest    == Archive + Len(captured)
DreamsOf(r) == IF r = 0 THEN <<>> ELSE replies[r].dreams

DialogueInit ==
  /\ replies = <<[kind |-> "list", dreams |-> First, by |-> "text", on |-> 0, sent |-> TRUE]>>
  /\ mem = 1 /\ stored = 1 /\ cards = [c \in {"mem", "redis"} |-> {1}] /\ staged = 0
  /\ lane = [l \in Lanes |-> Idle]
  /\ \E ask \in VoiceAsks : event = [ask |-> ask, owner |-> 0, reply |-> 0, sent |-> FALSE, done |-> FALSE]
  /\ captured = <<>> /\ noted = {} /\ turns = 0
  /\ redisUp = TRUE /\ restarts = 0 /\ outages = 0 /\ lapses = 0

Goes(l, at) == lane' = [lane EXCEPT ![l].at = at]
Ends(l)     == lane' = [lane EXCEPT ![l] = Idle]

-----------------------------------------------------------------------------
(* A request comes, and with it the list it is about.                       *)

\* A note may be a reply to any message; its buttons are pressed under a list or card.
Possible(ask) ==
  /\ ask.do = "press" => \E r \in Shown : \E i \in DOMAIN DreamsOf(r) : DreamsOf(r)[i] = ask.n
  /\ ask.do = "reply note" => ask.n \in Shown
  /\ ask.do = "save" => event.owner # 0

TextArrives(ask) ==
  /\ lane[0].at = "idle" /\ turns < MaxTurns /\ Possible(ask)
  /\ lane' = [lane EXCEPT ![0] = [Idle EXCEPT !.ask = ask,
                !.at = CASE ask.do \in {"press", "save", "tell"} -> "act"
                         [] ask.do = "reply note" -> "look"
                         [] OTHER -> "load"]]
  /\ turns' = turns + 1
  /\ UNCHANGED <<replies, copies, staged, event, captured, noted, world>>

\* claim_pending_voice_media_event; a reply that is stored is only delivered.
VoiceClaims(a) ==
  /\ ~event.done /\ lane[a].at = "idle" /\ event.owner = a - 1
  /\ event' = [event EXCEPT !.owner = a]
  /\ lane' = [lane EXCEPT ![a] = [Idle EXCEPT !.ask = event.ask,
                !.at = IF event.reply # 0 THEN "deliver"
                       ELSE IF event.ask.do = "tell" THEN "act" ELSE "load"]]
  /\ UNCHANGED <<replies, copies, staged, captured, noted, turns, world>>

Load(l) ==
  /\ lane[l].at = "load"
  /\ lane' = [lane EXCEPT ![l].list = mem, ![l].at = IF mem = 0 THEN "fetch" ELSE "act"]
  /\ UNCHANGED <<replies, copies, staged, event, captured, noted, turns, world>>

FetchList(l) ==
  /\ lane[l].at = "fetch"
  /\ LET found == IF redisUp THEN stored ELSE 0
     IN  lane' = [lane EXCEPT ![l].list = found, ![l].at = IF found = 0 THEN "act" ELSE "copy"]
  /\ UNCHANGED <<replies, copies, staged, event, captured, noted, turns, world>>

\* After the await: memory may have been written meanwhile.
Copy(l) ==
  /\ lane[l].at = "copy"
  /\ mem' = lane[l].list /\ Goes(l, "act")
  /\ UNCHANGED <<replies, stored, cards, staged, event, captured, noted, turns, world>>

\* The dreams of the message that a note replies to.
Look ==
  /\ lane[0].at = "look"
  /\ LET r == lane[0].ask.n
         found == r \in cards["mem"] \/ (redisUp /\ r \in cards["redis"])
     IN  /\ lane' = [lane EXCEPT ![0].list = IF found THEN r ELSE 0, ![0].at = "act"]
         /\ cards' = IF found THEN [cards EXCEPT !["mem"] = @ \cup {r}] ELSE cards
  /\ UNCHANGED <<replies, mem, stored, staged, event, captured, noted, turns, world>>

-----------------------------------------------------------------------------
(* The answer.                                                              *)

Reply(kind, dreams) == [kind |-> kind, dreams |-> dreams]
Refusal == Reply("plain", <<>>)

Without(s, n) == [i \in 1..(Len(s) - 1) |-> IF i < n THEN s[i] ELSE s[i + 1]]

\* A request for a full text names its dream, or several: then the reply lists them,
\* and is no selection.
FullText(ask) == Reply("plain", ask.dreams)

\* The button under a dream.
Pressed(ask) == Reply("card", <<ask.n>>)

\* A number outside the list is refused.
Selected(ask, s) ==
  IF s = <<>> \/ (ask.do # "show" /\ ask.n \notin DOMAIN s) THEN Refusal
  ELSE CASE ask.do = "show"   -> Reply("list", s)
         [] ask.do = "remove" -> Reply("list", Without(s, ask.n))
         [] ask.do = "keep"   -> Reply("list", <<s[ask.n]>>)
         [] ask.do = "open"   -> Reply("card", <<s[ask.n]>>)

\* Without a list of its own the analysis takes what is in memory by now.
Analysed(list) ==
  CASE list # 0 /\ DreamsOf(list) # <<>> -> Reply("card", DreamsOf(list))
    [] list = 0 /\ DreamsOf(mem) # <<>> -> Reply("list", DreamsOf(mem))
    [] OTHER -> Refusal

AnswerTo(ask, list) ==
  CASE ask.do = "find" -> Reply("list", ask.dreams)
    [] ask.do = "text" -> FullText(ask)
    [] ask.do = "press" -> Pressed(ask)
    [] ask.do = "analyse" -> Analysed(list)
    [] ask.do \in {"show", "remove", "keep", "open"} -> Selected(ask, DreamsOf(list))

Compose(l, reply) ==
  /\ replies' = Append(replies, [kind |-> reply.kind, dreams |-> reply.dreams,
                  by |-> IF l = 0 THEN "text" ELSE "voice", on |-> lane[l].list, sent |-> FALSE])
  /\ lane' = [lane EXCEPT ![l] = [Idle EXCEPT !.at = IF l = 0 THEN "send" ELSE "stage",
                                              !.list = Len(replies) + 1, !.card = (l = 0)]]

Act(l) ==
  /\ lane[l].at = "act" /\ lane[l].ask.do \notin {"tell", "save", "note", "reply note"}
  /\ Compose(l, AnswerTo(lane[l].ask, lane[l].list))
  /\ UNCHANGED <<copies, staged, event, captured, noted, turns, world>>

\* create_dream with the key of its message (_telegram_source_event_key).
Captured(key) ==
  IF \E i \in DOMAIN captured : captured[i] = key THEN captured ELSE Append(captured, key)

KeyOf(l) == IF l = 0 /\ lane[l].ask.do = "tell" THEN turns ELSE VoiceKey

\* A dream is told, or the user replies "save" to the voice message.
Capture(l) ==
  /\ lane[l].at = "act" /\ lane[l].ask.do \in {"tell", "save"}
  /\ captured' = Captured(KeyOf(l))
  /\ LET new == CHOOSE i \in DOMAIN captured' : captured'[i] = KeyOf(l)
     IN  Compose(l, Reply("list", <<Archive + new>>))
  /\ UNCHANGED <<copies, staged, event, noted, turns, world>>

\* _resolve_direct_note_target_dream_id, and what add_dream_note does without a target.
Target(list) ==
  IF Len(DreamsOf(list)) = 1 THEN DreamsOf(list)[1]
  ELSE IF Len(DreamsOf(mem)) = 1 THEN DreamsOf(mem)[1] ELSE Newest

\* By voice a list of several dreams, or of none, makes the bot ask (Conversation).
AddNote(l) ==
  /\ lane[l].at = "act" /\ lane[l].ask.do \in {"note", "reply note"}
  /\ LET replied == IF lane[l].ask.do = "note" THEN 0 ELSE lane[l].ask.n
         asks == l # 0 /\ Len(DreamsOf(lane[l].list)) # 1 /\ mem # 0 /\ Len(DreamsOf(mem)) # 1
     IN  noted' = IF asks THEN noted
                  ELSE noted \cup {[replied |-> replied, dream |-> Target(lane[l].list)]}
  /\ IF l = 0 THEN Ends(l) /\ UNCHANGED replies ELSE Compose(l, Refusal)
  /\ UNCHANGED <<copies, staged, event, captured, turns, world>>

-----------------------------------------------------------------------------
(* An update's answer is sent and then remembered.                          *)

\* The send may fail, and then its answer may be all that is lost.
TextSends ==
  /\ lane[0].at = "send"
  /\ \/ /\ replies' = [replies EXCEPT ![lane[0].list].sent = TRUE]
        /\ Goes(0, "remember") \/ Ends(0)
     \/ Ends(0) /\ UNCHANGED replies
  /\ UNCHANGED <<copies, staged, event, captured, noted, turns, world>>

-----------------------------------------------------------------------------
(* A voice answer is staged, stored and delivered by whoever holds the lease. *)

PublishesAtOnce(a) ==   \* mutant of StageSelection: the list is current before it is shown
  /\ lane[a].at = "stage"
  /\ mem' = IF replies[lane[a].list].kind = "list" THEN lane[a].list ELSE mem
  /\ staged' = IF replies[lane[a].list].kind # "plain" /\ redisUp THEN lane[a].list ELSE staged
  /\ Goes(a, "store")
  /\ UNCHANGED <<replies, stored, cards, event, captured, noted, turns, world>>

\* _stage_voice_selection: nobody asks for the lease.
StageSelection(a) ==
  /\ lane[a].at = "stage"
  /\ staged' = IF replies[lane[a].list].kind # "plain" /\ redisUp THEN lane[a].list ELSE staged
  /\ Goes(a, "store")
  /\ UNCHANGED <<replies, copies, event, captured, noted, turns, world>>

\* store_voice_reply_pending
StoreReply(a) ==
  /\ lane[a].at = "store"
  /\ IF event.owner = a
       THEN event' = [event EXCEPT !.reply = lane[a].list] /\ Goes(a, "deliver")
       ELSE UNCHANGED event /\ Ends(a)
  /\ UNCHANGED <<replies, copies, staged, captured, noted, turns, world>>

\* The chunks that the cursor does not have yet; a message sent earlier has no number.
VoiceSends(a) ==
  /\ lane[a].at = "deliver"
  /\ IF event.owner # a THEN Ends(a) /\ UNCHANGED replies
     ELSE IF event.sent THEN Goes(a, "publish") /\ UNCHANGED replies
     ELSE replies' = [replies EXCEPT ![event.reply].sent = TRUE] /\ Goes(a, "progress")
  /\ UNCHANGED <<copies, staged, event, captured, noted, turns, world>>

\* store_voice_delivery_progress
Progress(a) ==
  /\ lane[a].at = "progress"
  /\ IF event.owner = a
       THEN /\ event' = [event EXCEPT !.sent = TRUE]
            /\ lane' = [lane EXCEPT ![a].at = "publish", ![a].card = TRUE]
       ELSE UNCHANGED event /\ Ends(a)
  /\ UNCHANGED <<replies, copies, staged, captured, noted, turns, world>>

WhateverIsStaged(r) == staged   \* mutant of StagedFor

\* load_voice_selection: of another reply than this one it returns nothing.
StagedFor(r) == IF staged # 0 /\ Digest(staged) = Digest(r) THEN staged ELSE 0

Publish(a) ==
  /\ lane[a].at = "publish"
  /\ LET list == IF redisUp THEN StagedFor(event.reply) ELSE 0
     IN  lane' = [lane EXCEPT ![a].list = list, ![a].at = IF list = 0 THEN "mark" ELSE "remember"]
  /\ UNCHANGED <<replies, copies, staged, event, captured, noted, turns, world>>

\* delete_voice_selection, whosever it is by now.
Unstage(a) ==
  /\ lane[a].at = "unstage"
  /\ staged' = IF redisUp THEN 0 ELSE staged
  /\ Goes(a, "mark")
  /\ UNCHANGED <<replies, copies, event, captured, noted, turns, world>>

\* mark_voice_reply_delivered
Mark(a) ==
  /\ lane[a].at = "mark"
  /\ event' = [event EXCEPT !.done = @ \/ event.owner = a]
  /\ Ends(a)
  /\ UNCHANGED <<replies, copies, staged, captured, noted, turns, world>>

\* An attempt finds out that its lease is gone, where it asks.
Stops(a) ==
  /\ event.owner # a
  /\ lane[a].at \in {"load", "act", "stage", "store", "deliver", "progress", "publish", "mark"}
  /\ Ends(a)
  /\ UNCHANGED <<replies, copies, staged, event, captured, noted, turns, world>>

-----------------------------------------------------------------------------
(* What was shown is remembered: the list in memory and in Redis, then the    *)
(* message in memory and in Redis (_remember_displayed_dreams,                *)
(* _remember_created_dream, _publish_voice_selection).                        *)

After(l) == IF l = 0 THEN "idle" ELSE "unstage"

RememberCard(l, list) ==
  IF lane[l].card THEN cards' = [cards EXCEPT !["mem"] = @ \cup {list}] /\ Goes(l, "keep card")
  ELSE cards' = cards /\ Goes(l, After(l))

Remember(l) ==
  /\ lane[l].at = "remember"
  /\ LET list == lane[l].list IN
     \/ /\ replies[list].kind = "list"
        /\ mem' = list /\ Goes(l, "keep") /\ UNCHANGED cards
     \/ /\ replies[list].kind = "card"
        /\ RememberCard(l, list) /\ UNCHANGED mem
     \/ /\ replies[list].kind = "plain"
        /\ Goes(l, After(l)) /\ UNCHANGED <<mem, cards>>
  /\ UNCHANGED <<replies, stored, staged, event, captured, noted, turns, world>>

Keep(l) ==
  /\ lane[l].at = "keep"
  /\ stored' = IF redisUp THEN lane[l].list ELSE stored
  /\ RememberCard(l, lane[l].list)
  /\ UNCHANGED <<replies, mem, staged, event, captured, noted, turns, world>>

KeepCard(l) ==
  /\ lane[l].at = "keep card"
  /\ cards' = IF redisUp THEN [cards EXCEPT !["redis"] = @ \cup {lane[l].list}] ELSE cards
  /\ Goes(l, After(l))
  /\ UNCHANGED <<replies, mem, stored, staged, event, captured, noted, turns, world>>

-----------------------------------------------------------------------------
(* The world.                                                               *)

Restart ==
  /\ restarts < MaxRestarts
  /\ mem' = 0 /\ cards' = [cards EXCEPT !["mem"] = {}]
  /\ lane' = [l \in Lanes |-> Idle]
  /\ restarts' = restarts + 1
  /\ UNCHANGED <<replies, stored, staged, event, captured, noted, turns, redisUp, outages, lapses>>

RedisFails ==
  /\ redisUp /\ outages < MaxOutages
  /\ redisUp' = FALSE /\ outages' = outages + 1
  /\ UNCHANGED <<replies, copies, staged, lane, event, captured, noted, turns, restarts, lapses>>

RedisReturns ==
  /\ ~redisUp /\ redisUp' = TRUE
  /\ UNCHANGED <<replies, copies, staged, lane, event, captured, noted, turns, restarts, outages, lapses>>

\* RECENT_DREAM_SET_TTL_MINUTES after it was made a list is gone from every place.
Lapse(r) ==
  /\ lapses < MaxLapses /\ r \in {mem, stored, staged} \ {0}
  /\ mem' = (IF mem = r THEN 0 ELSE mem) /\ stored' = (IF stored = r THEN 0 ELSE stored)
  /\ staged' = IF staged = r THEN 0 ELSE staged
  /\ cards' = [c \in DOMAIN cards |-> cards[c] \ {r}]
  /\ lapses' = lapses + 1
  /\ UNCHANGED <<replies, lane, event, captured, noted, turns, redisUp, restarts, outages>>

-----------------------------------------------------------------------------
LaneStep(l) ==
  \/ Load(l) \/ FetchList(l) \/ Copy(l) \/ Act(l) \/ Capture(l) \/ AddNote(l)
  \/ Remember(l) \/ Keep(l) \/ KeepCard(l)

DialogueNext ==
  \/ \E ask \in TextAsks : TextArrives(ask)
  \/ Look \/ TextSends
  \/ \E l \in Lanes : LaneStep(l)
  \/ \E a \in Attempts :
       \/ VoiceClaims(a) \/ StageSelection(a) \/ StoreReply(a) \/ VoiceSends(a) \/ Progress(a)
       \/ Publish(a) \/ Unstage(a) \/ Mark(a) \/ Stops(a)
  \/ Restart \/ RedisFails \/ RedisReturns
  \/ \E r \in DOMAIN replies : Lapse(r)

DialogueSpec == DialogueInit /\ [][DialogueNext]_dialogueVars

-----------------------------------------------------------------------------
\* What the next command acts on has been shown to the user as it is: a list of a
\* search that was never sent, or of a voice reply that another attempt replaced or
\* that is still under way, is neither current nor stored nor any message's
\* ("Publication follows delivery", session.py).
SelectionWasShown ==
  \A r \in ({mem, stored} \ {0}) \cup cards["mem"] \cup cards["redis"] :
    \E s \in Shown : Digest(s) = Digest(r)

\* A spoken "remove the first" takes effect once: whatever attempts there were, the
\* reply that is delivered is not built on the list that the same message published.
VoiceCommandOnce ==
  \A r \in Shown : replies[r].by = "voice" /\ replies[r].on # 0
                     => replies[replies[r].on].by = "text"

\* A note that replies to a message about one dream goes to that dream ("A reply is an
\* explicit target", handlers.py).  Not so: see the README.
NoteWhereReplied ==
  \A n \in noted : n.replied # 0 /\ Len(DreamsOf(n.replied)) = 1
                     => n.dream = DreamsOf(n.replied)[1]
=============================================================================
