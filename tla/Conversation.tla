----------------------------- MODULE Conversation -----------------------------
(***************************************************************************)
(* The requests a chat leaves open (assistant/session.py), and the handlers *)
(* that act on them (telegram/handlers.py).  One update is handled   *)
(* at a time, but every await of its handler may let the voice pipeline in  *)
(* (workers/transcribe.py), which writes the same memory.  Each request     *)
(* waiting for the user's word is kept twice: in process memory, which a    *)
(* restart empties, and in Redis, whose failures are swallowed.             *)
(*                                                                         *)
(* A request is an interpretation to approve, a note for several dreams to  *)
(* approve, or a note whose dream is still unknown.  No code path stores a   *)
(* pending dream draft (both callers of _maybe_store_pending_dream return    *)
(* before it for every text it would accept), so there is none here.  The    *)
(* dream a reply or the last list shown points to is an input: 0 is none.   *)
(***************************************************************************)
EXTENDS Naturals, Sequences

CONSTANTS
  Dreams,       \* the archive, as positive numbers
  VoiceKinds,   \* the requests a voice message may leave
  MaxAsks,      \* bound: requests
  MaxRestarts,  \* bound: restarts of the bot process
  MaxOutages    \* bound: times Redis becomes unreachable

Kinds == {"interpretation", "batch", "single"}

ASSUME ConversationAssumption ==
  /\ Dreams \subseteq Nat \ {0} /\ VoiceKinds \subseteq Kinds \ {"batch"}
  /\ {MaxAsks, MaxRestarts, MaxOutages} \subseteq Nat

VARIABLES
  mem,       \* per kind: the request in process memory; 0: none
  stored,    \* per kind: the request in Redis
  asks,      \* every request made, with its history
  notes,     \* dream_notes of requests: [dream, ask]
  text,      \* what the update handler is doing
  voice,     \* what the voice worker is doing
  redisUp, restarts, outages

pending == <<mem, stored>>
world   == <<redisUp, restarts, outages>>
vars    == <<pending, asks, notes, text, voice, world>>

Order   == <<"interpretation", "batch", "single">>   \* the order of the handlers
Fates   == {"open", "taken", "done", "declined", "lapsed"}
Idle    == [pc |-> "idle", ask |-> 0, kind |-> "single", next |-> "idle",
            dream |-> 0, todo |-> {}, failed |-> FALSE]
Quiet   == [pc |-> "idle", ask |-> 0, kind |-> "single"]
AskIds  == 0..MaxAsks

Aims    == Dreams \cup {0}

Requests == [kind : Kinds, by : {"text", "voice"}, dreams : SUBSET Dreams,
             fate : Fates, runs : Nat]
Turns    == [pc : {"idle", "drop", "run", "look", "apply", "save", "clear", "keep"},
             ask : AskIds, kind : Kinds, next : {"idle", "run", "look"},
             dream : Aims, todo : SUBSET Dreams, failed : BOOLEAN]

TypeOK ==
  /\ mem \in [Kinds -> AskIds] /\ stored \in [Kinds -> AskIds]
  /\ asks \in Seq(Requests) /\ Len(asks) <= MaxAsks
  /\ notes \subseteq [dream : Dreams, ask : AskIds]
  /\ text \in Turns
  /\ voice \in [pc : {"idle", "keep"}, ask : AskIds, kind : Kinds]
  /\ redisUp \in BOOLEAN /\ restarts \in 0..MaxRestarts /\ outages \in 0..MaxOutages

Init ==
  /\ mem = [k \in Kinds |-> 0] /\ stored = [k \in Kinds |-> 0]
  /\ asks = <<>> /\ notes = {} /\ text = Idle /\ voice = Quiet
  /\ redisUp = TRUE /\ restarts = 0 /\ outages = 0

-----------------------------------------------------------------------------
(* The two copies.  Reading falls back to Redis and copies what it finds     *)
(* into memory.                                                             *)

Load(k)     == IF mem[k] # 0 THEN mem[k] ELSE IF redisUp THEN stored[k] ELSE 0
Remembering(k) == [mem EXCEPT ![k] = Load(k)]
Forget(k)   == mem' = [mem EXCEPT ![k] = 0]

\* The handler turns to deleting the copy of the kind in Redis.
Dropping(k, r) == [Idle EXCEPT !.pc = "drop", !.kind = k, !.ask = r]

SetFate(r, fate) == asks' = IF r = 0 THEN asks ELSE [asks EXCEPT ![r].fate = fate]

-----------------------------------------------------------------------------
(* The user's word on what is pending: the handlers are tried in one order, *)
(* interpretation, batch note, single note, whichever was asked last.      *)

YesWithoutDrop(aim) ==                                     \* mutant of SayYes
  LET r == Load("interpretation") IN
  /\ text.pc = "idle" /\ r # 0
  /\ Forget("interpretation") /\ SetFate(r, "taken")
  /\ text' = [Idle EXCEPT !.pc = "run", !.kind = "interpretation", !.ask = r]
  /\ UNCHANGED <<stored, notes, voice, world>>

\* "Yes": the interpretation leaves memory, and then Redis, before it is run.
SayYes(aim) ==
  LET r == Load("interpretation") IN
  /\ text.pc = "idle"
  /\ Forget("interpretation")
  /\ SetFate(r, "taken")
  /\ text' = [Dropping("interpretation", r) EXCEPT
                !.next = IF r = 0 THEN "look" ELSE "run",
                !.dream = IF r = 0 THEN aim ELSE 0]
  /\ UNCHANGED <<stored, notes, voice, world>>

\* "No" declines the first that is pending.
SayNo ==
  /\ text.pc = "idle"
  /\ \E i \in DOMAIN Order :
       LET k == Order[i] IN
       /\ Load(k) # 0 /\ \A j \in 1..(i - 1) : Load(Order[j]) = 0
       /\ Forget(k)
       /\ SetFate(Load(k), "declined")
       /\ text' = Dropping(k, Load(k))
  /\ UNCHANGED <<stored, notes, voice, world>>

\* The button below a batch question names no batch: it cancels the pending one.
PressNo ==
  LET r == IF mem["batch"] # 0 THEN mem["batch"] ELSE stored["batch"] IN
  /\ text.pc = "idle"
  /\ Forget("batch")
  /\ SetFate(r, "declined")
  /\ text' = Dropping("batch", r)
  /\ UNCHANGED <<stored, notes, voice, world>>

\* Redis forgets the kind, if it hears of it.
Drop ==
  /\ text.pc = "drop"
  /\ stored' = IF redisUp THEN [stored EXCEPT ![text.kind] = 0] ELSE stored
  /\ text' = IF text.next = "idle" THEN Idle ELSE [text EXCEPT !.pc = text.next]
  /\ UNCHANGED <<mem, asks, notes, voice, world>>

\* interpret_dream_with_prompt: one call of the model, whatever it answers.
Run ==
  /\ text.pc = "run"
  /\ asks' = [asks EXCEPT ![text.ask].runs = @ + 1]
  /\ text' = Idle
  /\ UNCHANGED <<pending, notes, voice, world>>

\* The pending batch note is applied to its dreams, one by one.
StartBatch ==
  /\ Load("batch") # 0
  /\ mem' = Remembering("batch")
  /\ text' = [Idle EXCEPT !.pc = "apply", !.ask = Load("batch"),
                          !.todo = asks[Load("batch")].dreams]
  /\ UNCHANGED <<stored, asks, notes, voice, world>>

\* The pending single note is stored at the dream meant, or goes on waiting.
StartSingle(aim) ==
  LET r == Load("single") IN
  /\ mem' = Remembering("single")
  /\ text' = IF r = 0 \/ aim = 0 THEN Idle
             ELSE [Idle EXCEPT !.pc = "save", !.ask = r, !.dream = aim]
  /\ UNCHANGED <<stored, asks, notes, voice, world>>

\* "Yes" goes on to the notes when no interpretation was pending.
Look ==
  /\ text.pc = "look"
  /\ IF Load("batch") # 0 THEN StartBatch ELSE StartSingle(text.dream)

PressYes     == text.pc = "idle" /\ StartBatch
SayThis(aim) == text.pc = "idle" /\ Load("single") # 0 /\ StartSingle(aim)

SaveNote(d, r) == notes' = notes \cup {[dream |-> d, ask |-> r]}

\* A dream of the batch: stored, or an error, or stored with the answer lost.
Apply ==
  /\ text.pc = "apply"
  /\ \E d \in text.todo :
       \/ /\ SaveNote(d, text.ask)
          /\ text' = [text EXCEPT !.todo = @ \ {d}]
       \/ /\ SaveNote(d, text.ask) \/ UNCHANGED notes
          /\ text' = [text EXCEPT !.todo = @ \ {d}, !.failed = TRUE]
  /\ UNCHANGED <<pending, asks, voice, world>>

ApplyEndAnyway ==                                          \* mutant of ApplyEnd
  /\ text.pc = "apply" /\ text.todo = {}
  /\ Forget("batch") /\ SetFate(text.ask, "done")
  /\ text' = Dropping("batch", text.ask)
  /\ UNCHANGED <<stored, notes, voice, world>>

ApplyEndForgets ==                                         \* mutant of ApplyEnd
  /\ text.pc = "apply" /\ text.todo = {}
  /\ Forget("batch")
  /\ IF text.failed THEN UNCHANGED asks ELSE SetFate(text.ask, "done")
  /\ text' = Dropping("batch", text.ask)
  /\ UNCHANGED <<stored, notes, voice, world>>

\* Only a batch without a failure is answered as done, and forgotten.
ApplyEnd ==
  /\ text.pc = "apply" /\ text.todo = {}
  /\ IF text.failed
     THEN text' = Idle /\ UNCHANGED <<mem, asks>>
     ELSE /\ Forget("batch")
          /\ SetFate(text.ask, "done")
          /\ text' = Dropping("batch", text.ask)
  /\ UNCHANGED <<stored, notes, voice, world>>

Save ==
  /\ text.pc = "save"
  /\ \/ SaveNote(text.dream, text.ask) /\ text' = [text EXCEPT !.pc = "clear", !.dream = 0]
     \/ (SaveNote(text.dream, text.ask) \/ UNCHANGED notes) /\ text' = Idle
  /\ UNCHANGED <<pending, asks, voice, world>>

\* Whatever single note is pending by now is cleared with it.
Clear ==
  /\ text.pc = "clear"
  /\ Forget("single")
  /\ SetFate(text.ask, "done")
  /\ text' = Dropping("single", text.ask)
  /\ UNCHANGED <<stored, notes, voice, world>>

-----------------------------------------------------------------------------
(* New requests: remembered, then stored in Redis, then put to the user.     *)
(* Every other text looks for a pending single note on its way.              *)

Heard(by) == IF by = "text" THEN Remembering("single") ELSE mem

AskUnawaited(kind, by, s) ==                               \* mutant of Ask
  LET r == Len(asks) + 1 IN
  /\ r <= MaxAsks /\ text.pc = "idle" /\ voice.pc = "idle"
  /\ by = "voice" => kind \in VoiceKinds
  /\ asks' = Append(asks, [kind |-> kind, by |-> by, dreams |-> s, fate |-> "open", runs |-> 0])
  /\ mem' = [Heard(by) EXCEPT ![kind] = r]
  /\ voice' = [pc |-> "keep", kind |-> kind, ask |-> r]
  /\ UNCHANGED <<stored, notes, text, world>>

Ask(kind, by, s) ==
  LET r == Len(asks) + 1 IN
  /\ r <= MaxAsks
  /\ asks' = Append(asks, [kind |-> kind, by |-> by, dreams |-> s, fate |-> "open", runs |-> 0])
  /\ mem' = [Heard(by) EXCEPT ![kind] = r]
  /\ IF by = "text"
     THEN /\ text.pc = "idle" /\ UNCHANGED voice
          /\ text' = [Idle EXCEPT !.pc = "keep", !.kind = kind, !.ask = r]
     ELSE /\ voice.pc = "idle" /\ kind \in VoiceKinds /\ UNCHANGED text
          /\ voice' = [pc |-> "keep", kind |-> kind, ask |-> r]
  /\ UNCHANGED <<stored, notes, world>>

AskInterpretation(by) == Ask("interpretation", by, {})

\* Some of the dreams of the last list, by their numbers in it.
AskBatch(s) == s # {} /\ Ask("batch", "text", s)

\* A note that points to "this dream", with none to be found, waits for one.
HoldNote(by) == Ask("single", by, {})

\* Anything else that is said.
Say ==
  /\ text.pc = "idle" /\ mem' = Heard("text")
  /\ UNCHANGED <<stored, asks, notes, text, voice, world>>

Stored(k, r) == stored' = IF redisUp THEN [stored EXCEPT ![k] = r] ELSE stored

Keep ==
  \/ /\ text.pc = "keep" /\ Stored(text.kind, text.ask)
     /\ text' = Idle
     /\ UNCHANGED <<mem, asks, notes, voice, world>>
  \/ /\ voice.pc = "keep" /\ Stored(voice.kind, voice.ask)
     /\ voice' = Quiet
     /\ UNCHANGED <<mem, asks, notes, text, world>>

-----------------------------------------------------------------------------
(* The world.  A restart loses memory and whatever was being handled.        *)

Restart ==
  /\ restarts < MaxRestarts /\ restarts' = restarts + 1
  /\ mem' = [k \in Kinds |-> 0]
  /\ text' = Idle /\ voice' = Quiet
  /\ UNCHANGED <<stored, asks, notes, redisUp, outages>>

RedisFails ==
  /\ redisUp /\ outages < MaxOutages
  /\ redisUp' = FALSE /\ outages' = outages + 1
  /\ UNCHANGED <<pending, asks, notes, text, voice, restarts>>

RedisReturns ==
  /\ ~redisUp /\ redisUp' = TRUE
  /\ UNCHANGED <<pending, asks, notes, text, voice, restarts, outages>>

\* Half an hour for a request.  The copy in Redis may be the older one: memory
\* was written in an outage, or read back after a restart, which dates it anew.
Lapse(k) ==
  LET gone(r) == r # 0 /\ r \in {stored[k], mem[k]} /\ r # mem'[k] IN
  /\ mem[k] # 0 \/ stored[k] # 0
  /\ stored' = [stored EXCEPT ![k] = 0]
  /\ \/ Forget(k)
     \/ mem' = mem /\ (mem[k] # stored[k] \/ restarts > 0)
  /\ asks' = [r \in DOMAIN asks |->
                IF gone(r) /\ asks[r].fate = "open" THEN [asks[r] EXCEPT !.fate = "lapsed"]
                ELSE asks[r]]
  /\ UNCHANGED <<notes, text, voice, world>>

-----------------------------------------------------------------------------
Answering ==
  \/ \E aim \in Aims : SayYes(aim) \/ SayThis(aim)
  \/ SayNo \/ PressYes \/ PressNo
  \/ Drop \/ Run \/ Look \/ Apply \/ ApplyEnd \/ Save \/ Clear

Speaking ==
  \/ \E s \in SUBSET Dreams : AskBatch(s)
  \/ \E by \in {"text", "voice"} : AskInterpretation(by) \/ HoldNote(by)
  \/ Say
  \/ Keep

World ==
  \/ Restart \/ RedisFails \/ RedisReturns
  \/ \E k \in Kinds : Lapse(k)

Next == Answering \/ Speaking \/ World

Spec == Init /\ [][Next]_vars

-----------------------------------------------------------------------------
NotesOf(r) == {n.dream : n \in {x \in notes : x.ask = r}}

(* A batch answered as done has its note at every dream that was approved,   *)
(* and at no other, whatever dreams failed before, were retried after a      *)
(* restart, or had their answer lost (_apply_pending_batch_note 1399-1453).  *)
DoneMeansAll ==
  \A r \in DOMAIN asks :
    asks[r].kind = "batch" /\ asks[r].fate = "done" => NotesOf(r) = asks[r].dreams

Mine(r)     == asks[r].by = "text"
Answered(r) == Mine(r) /\ asks[r].fate \in {"taken", "done", "declined"}
Held(r)     == \E k \in Kinds : r \in {mem[k], stored[k]}

(* An approved interpretation leaves both copies before the model is called: *)
(* it is run at most once, and with no outage of Redis a restart at any      *)
(* point in between loses the answer rather than paying for a second call   *)
(* (_handle_pending_interpretation_confirmation 1236-1249).                  *)
RunOnce ==
  outages = 0 => \A r \in DOMAIN asks : Mine(r) => asks[r].runs <= 1

(* When its answer has been handled, no copy of a request is left to be      *)
(* answered a second time, if Redis and the bot were up all along.           *)
AnsweredForgotten ==
  restarts = 0 /\ outages = 0 =>
    \A r \in DOMAIN asks : Answered(r) /\ text.ask # r => ~Held(r)

(* The last request of a kind that only the text handler asks for outlives   *)
(* restarts and outages: what Redis holds of it is lost to nothing but the    *)
(* user's answer or its half hour, and memory never shows another one in its *)
(* place.  A pending interpretation is deleted by any "yes", found or not,    *)
(* and so may go in an outage that ends between the reading and the deleting.*)
(* An answered one is forgotten.                                             *)
LastOfKind(r) ==
  \A q \in DOMAIN asks : asks[q].kind = asks[r].kind => q <= r /\ Mine(q)

KeptUntilAnswered ==
  [][/\ AnsweredForgotten'
     /\ \A k \in Kinds, r \in DOMAIN asks :
          /\ stored[k] = r /\ (k = "interpretation" => outages' = 0)
          /\ asks'[r].fate = "open" /\ LastOfKind(r)'
          => mem'[k] \in {0, r} /\ (stored'[k] = r \/ mem'[k] = r)]_vars

(* A request of the text handler that was taken up, declined or done, and    *)
(* that neither memory nor Redis holds, is over: no race with the voice      *)
(* worker, restart or outage brings it back to be run or to store a note.    *)
OverStaysOver ==
  [][\A r \in DOMAIN asks : Answered(r) /\ ~Held(r) /\ text.ask # r =>
       text'.ask # r /\ ~Held(r)' /\ NotesOf(r)' = NotesOf(r)]_vars

-----------------------------------------------------------------------------
(* What documents or messages of the program promise and it does not keep.   *)

(* An interpretation is run only after its prompt was put to the user.       *)
SeenBeforeRun ==
  ~(text.pc = "run" /\ voice.pc = "keep" /\ voice.ask = text.ask)

(* A note the user was told is kept is not dropped by the handling of        *)
(* another one, while nothing fails.                                        *)
KeptForChoice ==
  \A r \in DOMAIN asks :
    /\ asks[r].kind = "single" /\ asks[r].fate = "open"
    /\ \A q \in DOMAIN asks : asks[q].kind = "single" => q <= r
    /\ restarts = 0 /\ outages = 0
    => r \in {mem["single"], stored["single"]}
=============================================================================
