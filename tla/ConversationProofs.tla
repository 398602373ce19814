-------------------------- MODULE ConversationProofs --------------------------
(***************************************************************************)
(* The requests of the chat, for any archive and any bounds: types, a batch *)
(* reported done is complete, an interpretation runs once, what is over     *)
(* stays over, and what is open is kept until it is answered.  The history  *)
(* of a chat: a fresh one survives a stale reader.  Notes: none is echoed,   *)
(* written twice or forgotten.                                            *)
(***************************************************************************)
EXTENDS Conversation, History, Notes, FiniteSetTheorems, WellFoundedInduction, SequenceTheorems, TLAPS

(* Every place that names a request names one that was made, of the kind the *)
(* place is for.                                                           *)
Names(r, k) == r \in DOMAIN asks /\ asks[r].kind = k

Placed ==
  \A k \in Kinds : (mem[k] # 0 => Names(mem[k], k)) /\ (stored[k] # 0 => Names(stored[k], k))

(* What the handler knows of the request it is at.                           *)
Aware ==
  /\ text.ask # 0 => text.ask \in DOMAIN asks
  /\ text.pc = "idle" => text.ask = 0
  /\ text.pc \in {"run", "apply", "save", "clear", "keep"} => text.ask # 0
  /\ text.pc = "apply" => Names(text.ask, "batch")
  /\ text.pc \in {"save", "clear"} => Names(text.ask, "single")
  /\ text.pc = "save" => text.dream # 0
  /\ text.pc = "keep" => Names(text.ask, text.kind) /\ Mine(text.ask)
  /\ text.pc = "drop" /\ text.next = "run" =>
       text.ask # 0 /\ text.kind = "interpretation"
  /\ voice.pc = "keep" => Names(voice.ask, voice.kind) /\ ~Mine(voice.ask)

(* A batch writes to its own dreams, and once one of them is off the list    *)
(* without a failure its note is there.                                     *)
BatchNotes ==
  /\ \A n \in notes : n.ask \in DOMAIN asks
  /\ \A r \in DOMAIN asks : asks[r].kind = "batch" => NotesOf(r) \subseteq asks[r].dreams
  /\ text.pc = "apply" =>
       /\ text.todo \subseteq asks[text.ask].dreams
       /\ ~text.failed => asks[text.ask].dreams \subseteq text.todo \cup NotesOf(text.ask)

IInv == TypeOK /\ Placed /\ Aware /\ BatchNotes /\ DoneMeansAll

-----------------------------------------------------------------------------
(* The copies, and the history of the requests.                            *)

LEMMA NoAsk == 0 \in AskIds /\ AskIds \subseteq Nat
BY ConversationAssumption DEF AskIds

LEMMA LoadFits ==
  ASSUME TypeOK, Placed, NEW k \in Kinds
  PROVE  Load(k) \in AskIds /\ (Load(k) # 0 => Names(Load(k), k))
BY DEF TypeOK, Placed, Load

(* What no step changes of a request that was made.                         *)
Recorded ==
  /\ asks' \in Seq(Requests) /\ Len(asks') <= MaxAsks
  /\ DOMAIN asks \subseteq DOMAIN asks'
  /\ \A r \in DOMAIN asks : /\ asks'[r].kind = asks[r].kind
                            /\ asks'[r].by = asks[r].by
                            /\ asks'[r].dreams = asks[r].dreams

LEMMA SameRecorded == TypeOK /\ UNCHANGED asks => Recorded
BY DEF TypeOK, Recorded

LEMMA FateRecorded ==
  ASSUME TypeOK, NEW r, r # 0 => r \in DOMAIN asks, NEW f \in Fates, SetFate(r, f)
  PROVE  /\ Recorded /\ DOMAIN asks' = DOMAIN asks
         /\ \A q \in DOMAIN asks : /\ asks'[q].runs = asks[q].runs
                                   /\ asks'[q].fate = IF q = r THEN f ELSE asks[q].fate
<1>1. CASE r = 0
  BY <1>1, SameRecorded DEF SetFate, TypeOK
<1>2. CASE r # 0
  <2>1. asks \in Seq(Requests) /\ asks[r] \in Requests
    BY <1>2 DEF TypeOK
  <2>2. [asks[r] EXCEPT !.fate = f] \in Requests
    BY <2>1, Zenon DEF Requests
  <2>3. asks' = [asks EXCEPT ![r] = [asks[r] EXCEPT !.fate = f]]
    BY <1>2 DEF SetFate
  <2>4. asks' \in Seq(Requests) /\ Len(asks') = Len(asks) /\ DOMAIN asks' = DOMAIN asks
    BY <1>2, <2>1, <2>2, <2>3
  <2>5. \A q \in DOMAIN asks : asks'[q] = IF q = r THEN [asks[r] EXCEPT !.fate = f] ELSE asks[q]
    BY <1>2, <2>1, <2>3
  <2>6. ASSUME NEW q \in DOMAIN asks
        PROVE  /\ asks'[q].kind = asks[q].kind /\ asks'[q].by = asks[q].by
               /\ asks'[q].dreams = asks[q].dreams /\ asks'[q].runs = asks[q].runs
               /\ asks'[q].fate = IF q = r THEN f ELSE asks[q].fate
    <3>1. CASE q = r
      BY <2>1, <2>5, <3>1 DEF Requests
    <3>2. CASE q # r
      BY <2>5, <3>2
    <3> QED
      BY <3>1, <3>2
  <2> QED
    BY <2>4, <2>6 DEF Recorded, TypeOK
<1> QED
  BY <1>1, <1>2

LEMMA RunRecorded ==
  ASSUME TypeOK, text.ask \in DOMAIN asks, Run
  PROVE  /\ Recorded /\ DOMAIN asks' = DOMAIN asks
         /\ \A q \in DOMAIN asks :
              /\ asks'[q].fate = asks[q].fate
              /\ asks'[q].runs = IF q = text.ask THEN asks[q].runs + 1 ELSE asks[q].runs
<1> DEFINE x == [asks[text.ask] EXCEPT !.runs = asks[text.ask].runs + 1]
<1>1. asks \in Seq(Requests) /\ asks[text.ask] \in Requests
  BY DEF TypeOK
<1>2. asks[text.ask].runs + 1 \in Nat
  BY <1>1 DEF Requests
<1>3. x \in Requests
  BY <1>1, <1>2, Zenon DEF Requests
<1>4. asks' = [asks EXCEPT ![text.ask] = x]
  BY DEF Run
<1>5. /\ x.kind = asks[text.ask].kind /\ x.by = asks[text.ask].by
      /\ x.dreams = asks[text.ask].dreams /\ x.fate = asks[text.ask].fate
      /\ x.runs = asks[text.ask].runs + 1
  BY <1>1 DEF Requests
<1> HIDE DEF x
<1>6. asks' \in Seq(Requests) /\ Len(asks') = Len(asks) /\ DOMAIN asks' = DOMAIN asks
  BY <1>1, <1>3, <1>4
<1>7. \A q \in DOMAIN asks : asks'[q] = IF q = text.ask THEN x ELSE asks[q]
  BY <1>1, <1>4
<1> QED
  BY <1>5, <1>6, <1>7 DEF Recorded, TypeOK

LEMMA AskRecorded ==
  ASSUME TypeOK, NEW kind \in Kinds, NEW by \in {"text", "voice"}, NEW s \in SUBSET Dreams,
         Ask(kind, by, s)
  PROVE  \E r \in AskIds :
           /\ r = Len(asks) + 1 /\ r # 0 /\ r \notin DOMAIN asks
           /\ Recorded /\ DOMAIN asks' = DOMAIN asks \cup {r}
           /\ asks'[r] = [kind |-> kind, by |-> by, dreams |-> s, fate |-> "open", runs |-> 0]
           /\ \A q \in DOMAIN asks : asks'[q] = asks[q]
<1> DEFINE x == [kind |-> kind, by |-> by, dreams |-> s, fate |-> "open", runs |-> 0]
<1>1. x \in Requests
  BY DEF Requests, Fates
<1>2. asks' = Append(asks, x) /\ Len(asks) + 1 <= MaxAsks /\ asks \in Seq(Requests)
  BY DEF Ask, TypeOK
<1> HIDE DEF x
<1>3. /\ asks' \in Seq(Requests) /\ Len(asks') = Len(asks) + 1 /\ asks'[Len(asks) + 1] = x
      /\ \A q \in 1..Len(asks) : asks'[q] = asks[q]
  BY <1>1, <1>2
<1>4. /\ Len(asks) + 1 \in AskIds /\ Len(asks) + 1 # 0 /\ Len(asks) + 1 \notin DOMAIN asks
      /\ Recorded /\ DOMAIN asks' = DOMAIN asks \cup {Len(asks) + 1}
      /\ \A q \in DOMAIN asks : asks'[q] = asks[q]
  BY <1>2, <1>3, ConversationAssumption DEF Recorded, AskIds
<1>5. asks'[Len(asks) + 1] = [kind |-> kind, by |-> by, dreams |-> s, fate |-> "open", runs |-> 0]
  BY <1>3 DEF x
<1> QED
  BY <1>4, <1>5

LEMMA LapseRecorded ==
  ASSUME TypeOK, NEW k \in Kinds, Lapse(k)
  PROVE  /\ Recorded /\ DOMAIN asks' = DOMAIN asks
         /\ \A q \in DOMAIN asks :
              /\ asks'[q].runs = asks[q].runs
              /\ asks'[q].fate = asks[q].fate \/ (asks[q].fate = "open" /\ asks'[q].fate = "lapsed")
<1> DEFINE gone(r) == r # 0 /\ r \in {stored[k], mem[k]} /\ r # mem'[k]
           x(r) == [asks[r] EXCEPT !.fate = "lapsed"]
<1>1. asks' = [r \in DOMAIN asks |->
                 IF gone(r) /\ asks[r].fate = "open" THEN x(r) ELSE asks[r]]
  BY DEF Lapse
<1> HIDE DEF gone
<1>2. asks \in Seq(Requests) /\ \A r \in DOMAIN asks : asks[r] \in Requests
  BY DEF TypeOK
<1>3. "lapsed" \in Fates
  BY DEF Fates
<1>4. ASSUME NEW r \in DOMAIN asks
      PROVE  /\ x(r) \in Requests /\ x(r).fate = "lapsed"
             /\ x(r).kind = asks[r].kind /\ x(r).by = asks[r].by
             /\ x(r).dreams = asks[r].dreams /\ x(r).runs = asks[r].runs
  <2>1. x(r) \in Requests
    BY <1>2, <1>3, Zenon DEF Requests
  <2>2. QED
    BY <2>1, <1>2 DEF Requests
<1> HIDE DEF x
<1>5. DOMAIN asks' = DOMAIN asks /\ \A r \in DOMAIN asks : asks'[r] = IF gone(r) /\ asks[r].fate = "open" THEN x(r) ELSE asks[r]
  BY <1>1
<1>6. asks' \in Seq(Requests) /\ Len(asks') = Len(asks)
  <2>1. asks' \in [1..Len(asks) -> Requests] /\ Len(asks) \in Nat
    BY <1>1, <1>2, <1>4
  <2>2. QED
    BY <2>1
<1>7. QED
  BY <1>4, <1>5, <1>6 DEF Recorded, TypeOK

-----------------------------------------------------------------------------
(* What the handler goes on to.                                            *)

LEMMA IdleTurn == Idle \in Turns /\ Idle.pc = "idle" /\ Idle.ask = 0 /\ ~Idle.failed
BY ConversationAssumption DEF Idle, Turns, AskIds, Kinds, Aims

Saying(r, n, d) == [Dropping("interpretation", r) EXCEPT !.next = n, !.dream = d]
Applying(r, s)  == [Idle EXCEPT !.pc = "apply", !.ask = r, !.todo = s]
Saving(r, d)    == [Idle EXCEPT !.pc = "save", !.ask = r, !.dream = d]
Keeping(k, r)   == [Idle EXCEPT !.pc = "keep", !.kind = k, !.ask = r]

LEMMA DropTurn ==
  ASSUME NEW k \in Kinds, NEW r \in AskIds
  PROVE  /\ Dropping(k, r) \in Turns
         /\ Dropping(k, r).pc = "drop" /\ Dropping(k, r).ask = r
         /\ Dropping(k, r).kind = k /\ Dropping(k, r).next = "idle"
BY IdleTurn DEF Dropping, Idle, Turns

LEMMA SayTurn ==
  ASSUME NEW r \in AskIds, NEW n \in {"run", "look"}, NEW d \in Aims
  PROVE  /\ Saying(r, n, d) \in Turns
         /\ Saying(r, n, d).pc = "drop" /\ Saying(r, n, d).ask = r
         /\ Saying(r, n, d).kind = "interpretation" /\ Saying(r, n, d).next = n
BY IdleTurn DEF Saying, Dropping, Idle, Turns, Kinds

LEMMA ApplyTurn ==
  ASSUME NEW r \in AskIds, NEW s \in SUBSET Dreams
  PROVE  /\ Applying(r, s) \in Turns
         /\ Applying(r, s).pc = "apply" /\ Applying(r, s).ask = r
         /\ Applying(r, s).todo = s /\ ~Applying(r, s).failed
BY IdleTurn DEF Applying, Idle, Turns

LEMMA SaveTurn ==
  ASSUME NEW r \in AskIds, NEW d \in Aims
  PROVE  /\ Saving(r, d) \in Turns
         /\ Saving(r, d).pc = "save" /\ Saving(r, d).ask = r /\ Saving(r, d).dream = d
BY IdleTurn DEF Saving, Idle, Turns

LEMMA KeepTurn ==
  ASSUME NEW k \in Kinds, NEW r \in AskIds
  PROVE  /\ Keeping(k, r) \in Turns
         /\ Keeping(k, r).pc = "keep" /\ Keeping(k, r).ask = r /\ Keeping(k, r).kind = k
BY IdleTurn DEF Keeping, Idle, Turns

Onward(u)     == [u EXCEPT !.pc = u.next]
Ticked(u, d)  == [u EXCEPT !.todo = u.todo \ {d}]
Failing(u, d) == [u EXCEPT !.todo = u.todo \ {d}, !.failed = TRUE]
Cleared(u)    == [u EXCEPT !.pc = "clear", !.dream = 0]

LEMMA NextTurn ==
  ASSUME NEW u \in Turns
  PROVE  Onward(u) \in Turns /\ Onward(u).pc = u.next /\ Onward(u).ask = u.ask
<1>1. u.next \in {"idle", "drop", "run", "look", "apply", "save", "clear", "keep"}
  BY DEF Turns
<1>2. Onward(u) \in Turns
  BY <1>1, Zenon DEF Turns, Onward
<1>3. QED
  BY <1>2 DEF Turns, Onward

LEMMA TodoTurn ==
  ASSUME NEW u \in Turns, NEW d
  PROVE  /\ Ticked(u, d) \in Turns /\ Ticked(u, d).pc = u.pc /\ Ticked(u, d).ask = u.ask
         /\ Ticked(u, d).todo = u.todo \ {d} /\ Ticked(u, d).failed = u.failed
<1>1. u.todo \ {d} \in SUBSET Dreams
  BY DEF Turns
<1>2. Ticked(u, d) \in Turns
  BY <1>1, Zenon DEF Turns, Ticked
<1>3. QED
  BY <1>2 DEF Turns, Ticked

LEMMA FailTurn ==
  ASSUME NEW u \in Turns, NEW d
  PROVE  /\ Failing(u, d) \in Turns /\ Failing(u, d).pc = u.pc /\ Failing(u, d).ask = u.ask
         /\ Failing(u, d).todo = u.todo \ {d} /\ Failing(u, d).failed
<1>1. u.todo \ {d} \in SUBSET Dreams /\ TRUE \in BOOLEAN
  BY DEF Turns
<1>2. Failing(u, d) \in Turns
  BY <1>1, Zenon DEF Turns, Failing
<1>3. QED
  BY <1>2 DEF Turns, Failing

LEMMA ClearTurn ==
  ASSUME NEW u \in Turns
  PROVE  Cleared(u) \in Turns /\ Cleared(u).pc = "clear" /\ Cleared(u).ask = u.ask
<1>1. "clear" \in {"idle", "drop", "run", "look", "apply", "save", "clear", "keep"} /\ 0 \in Aims
  BY DEF Aims
<1>2. Cleared(u) \in Turns
  BY <1>1, Zenon DEF Turns, Cleared
<1>3. QED
  BY <1>2 DEF Turns, Cleared

-----------------------------------------------------------------------------
(* Every step keeps the invariant.                                         *)

\* No note is written, and a batch is reported done only if it is.
LEMMA NotesStay ==
  ASSUME IInv, Recorded, UNCHANGED notes, text' = text \/ text'.pc # "apply",
         \A r \in DOMAIN asks' : asks'[r].kind = "batch" /\ asks'[r].fate = "done" =>
                                   /\ r \in DOMAIN asks
                                   /\ asks[r].fate = "done" \/ NotesOf(r) = asks[r].dreams
  PROVE  BatchNotes' /\ DoneMeansAll'
<1>1. \A r : NotesOf(r)' = NotesOf(r)
  BY DEF NotesOf
<1>2. \A r : r \notin DOMAIN asks => NotesOf(r) = {}
  BY DEF IInv, BatchNotes, NotesOf
<1>3. \A n \in notes' : n.ask \in DOMAIN asks'
  BY DEF IInv, BatchNotes, Recorded
<1>4. \A r \in DOMAIN asks' : asks'[r].kind = "batch" => NotesOf(r)' \subseteq asks'[r].dreams
  <2> TAKE r \in DOMAIN asks'
  <2>1. CASE r \in DOMAIN asks
    BY <2>1, <1>1 DEF IInv, BatchNotes, Recorded
  <2>2. CASE r \notin DOMAIN asks
    BY <2>2, <1>1, <1>2
  <2> QED
    BY <2>1, <2>2
<1>5. text'.pc = "apply" => text' = text /\ text.ask \in DOMAIN asks
  BY DEF IInv, Aware, Names
<1>6. text'.pc = "apply" =>
        /\ text'.todo \subseteq asks'[text'.ask].dreams
        /\ ~text'.failed => asks'[text'.ask].dreams \subseteq text'.todo \cup NotesOf(text.ask)'
  BY <1>1, <1>5 DEF IInv, BatchNotes, Recorded
<1>7. BatchNotes'
  BY <1>3, <1>4, <1>5, <1>6 DEF BatchNotes
<1>8. DoneMeansAll'
  BY <1>1 DEF IInv, DoneMeansAll, Recorded
<1> QED
  BY <1>7, <1>8

\* An answer: the kind leaves memory, and the fate of its request is settled.
LEMMA AnswerStep ==
  ASSUME IInv, NEW k \in Kinds, NEW r \in AskIds, r # 0 => r \in DOMAIN asks, NEW f \in Fates,
         Forget(k), SetFate(r, f), UNCHANGED <<stored, notes, voice, world>>,
         text' \in Turns, text'.pc = "drop", text'.ask = r,
         text'.next = "run" => r # 0 /\ text'.kind = "interpretation",
         f = "done" /\ r # 0 /\ asks[r].kind = "batch" => NotesOf(r) = asks[r].dreams
  PROVE  IInv'
<1>1. TypeOK /\ Placed /\ Aware
  BY DEF IInv
<1>2. /\ Recorded /\ DOMAIN asks' = DOMAIN asks
      /\ \A q \in DOMAIN asks : asks'[q].fate = IF q = r THEN f ELSE asks[q].fate
  BY <1>1, FateRecorded
<1>3. mem' = [mem EXCEPT ![k] = 0]
  BY DEF Forget
<1>4. TypeOK'
  <2>1. mem' \in [Kinds -> AskIds]
    BY <1>1, <1>3, NoAsk DEF TypeOK
  <2> QED
    BY <1>1, <1>2, <2>1 DEF TypeOK, Recorded, world
<1>5. Placed'
  BY ZenonT(60), <1>1, <1>2, <1>3 DEF TypeOK, Placed, Names, Recorded
<1>6. Aware'
  BY <1>1, <1>2 DEF Aware, Names, Recorded, Mine
<1>7. BatchNotes' /\ DoneMeansAll'
  <2>1. ASSUME NEW q \in DOMAIN asks', asks'[q].kind = "batch", asks'[q].fate = "done"
        PROVE  q \in DOMAIN asks /\ (asks[q].fate = "done" \/ NotesOf(q) = asks[q].dreams)
    BY <1>2, <2>1 DEF Recorded, AskIds
  <2>2. QED
    BY <1>2, <2>1, NotesStay
<1> QED
  BY <1>4, <1>5, <1>6, <1>7 DEF IInv

LEMMA SayYesStep == ASSUME IInv, NEW aim \in Aims, SayYes(aim) PROVE IInv'
<1> DEFINE r == Load("interpretation")
           n == IF r = 0 THEN "look" ELSE "run"
           d == IF r = 0 THEN aim ELSE 0
<1>0. TypeOK /\ Placed /\ "interpretation" \in Kinds /\ "taken" \in Fates
  BY DEF IInv, Kinds, Fates
<1>1. r \in AskIds /\ (r # 0 => r \in DOMAIN asks)
  BY <1>0, LoadFits DEF Names
<1>2. n \in {"run", "look"} /\ d \in Aims /\ (n = "run" => r # 0)
  BY DEF Aims
<1>3. /\ text' = Saying(r, n, d)
      /\ Forget("interpretation") /\ SetFate(r, "taken")
      /\ UNCHANGED <<stored, notes, voice, world>>
  BY DEF SayYes, Saying
<1> HIDE DEF n, d, r
<1>4. /\ text' \in Turns /\ text'.pc = "drop" /\ text'.ask = r
      /\ text'.kind = "interpretation" /\ text'.next = n
  BY <1>1, <1>2, <1>3, SayTurn
<1>5. QED
  BY <1>0, <1>1, <1>2, <1>3, <1>4, AnswerStep

LEMMA SayNoStep == ASSUME IInv, SayNo PROVE IInv'
<1>0. TypeOK /\ Placed /\ "declined" \in Fates
  BY DEF IInv, Fates
<1>1. PICK i \in DOMAIN Order :
        /\ Forget(Order[i]) /\ SetFate(Load(Order[i]), "declined")
        /\ text' = Dropping(Order[i], Load(Order[i]))
  BY DEF SayNo
<1> DEFINE k == Order[i]
           r == Load(k)
<1>2. k \in Kinds
  BY DEF Order, Kinds
<1>3. r \in AskIds /\ (r # 0 => r \in DOMAIN asks)
  BY <1>0, <1>2, LoadFits DEF Names
<1>4. Forget(k) /\ SetFate(r, "declined")
  BY <1>1
<1>5. text' = Dropping(k, r)
  BY <1>1
<1>6. UNCHANGED <<stored, notes, voice, world>>
  BY DEF SayNo
<1> HIDE DEF k, r
<1>7. text' \in Turns /\ text'.pc = "drop" /\ text'.ask = r /\ text'.next = "idle"
  BY <1>2, <1>3, <1>5, DropTurn
<1>8. QED
  BY <1>0, <1>2, <1>3, <1>4, <1>6, <1>7, AnswerStep

LEMMA PressNoStep == ASSUME IInv, PressNo PROVE IInv'
<1> DEFINE r == IF mem["batch"] # 0 THEN mem["batch"] ELSE stored["batch"]
<1>0. TypeOK /\ "batch" \in Kinds /\ "declined" \in Fates
  BY DEF IInv, Kinds, Fates
<1>1. r \in AskIds /\ (r # 0 => r \in DOMAIN asks)
  BY <1>0 DEF IInv, TypeOK, Placed, Names
<1>2. /\ Forget("batch") /\ SetFate(r, "declined")
      /\ text' = Dropping("batch", r)
      /\ UNCHANGED <<stored, notes, voice, world>>
  BY DEF PressNo
<1> HIDE DEF r
<1>3. text' \in Turns /\ text'.pc = "drop" /\ text'.ask = r /\ text'.next = "idle"
  BY <1>0, <1>1, <1>2, DropTurn
<1>4. QED
  BY <1>0, <1>1, <1>2, <1>3, AnswerStep

LEMMA ClearStep == ASSUME IInv, Clear PROVE IInv'
<1>0. TypeOK /\ "single" \in Kinds /\ "done" \in Fates
  BY DEF IInv, Kinds, Fates
<1>1. text.ask \in AskIds /\ text.ask \in DOMAIN asks /\ asks[text.ask].kind = "single"
  BY DEF IInv, TypeOK, Turns, Clear, Aware, Names
<1>2. /\ Forget("single") /\ SetFate(text.ask, "done")
      /\ text' = Dropping("single", text.ask)
      /\ UNCHANGED <<stored, notes, voice, world>>
  BY DEF Clear
<1>3. text' \in Turns /\ text'.pc = "drop" /\ text'.ask = text.ask /\ text'.next = "idle"
  BY <1>0, <1>1, <1>2, DropTurn
<1>4. QED
  BY <1>0, <1>1, <1>2, <1>3, AnswerStep

\* A step that leaves the requests, the notes and the voice worker alone.
LEMMA TurnStep ==
  ASSUME IInv, UNCHANGED <<asks, notes, voice, world>>, text' \in Turns,
         Placed', mem' \in [Kinds -> AskIds], stored' \in [Kinds -> AskIds],
         Aware', text' = text \/ text'.pc # "apply"
  PROVE  IInv'
<1>1. TypeOK'
  BY DEF IInv, TypeOK, world
<1>2. Recorded
  BY SameRecorded DEF IInv
<1>3. BatchNotes' /\ DoneMeansAll'
  BY <1>2, NotesStay
<1> QED
  BY <1>1, <1>3 DEF IInv

LEMMA RememberingFits ==
  ASSUME TypeOK, Placed, NEW k \in Kinds, mem' = Remembering(k), UNCHANGED <<stored, asks>>
  PROVE  Placed' /\ mem' \in [Kinds -> AskIds] /\ stored' \in [Kinds -> AskIds]
BY LoadFits DEF TypeOK, Placed, Remembering, Names

LEMMA DropStep == ASSUME IInv, Drop PROVE IInv'
<1>0. TypeOK /\ Placed /\ Aware /\ text \in Turns
  BY DEF IInv, TypeOK
<1>1. UNCHANGED <<mem, asks, notes, voice, world>>
  BY DEF Drop
<1>2. stored' = stored \/ stored' = [stored EXCEPT ![text.kind] = 0]
  BY DEF Drop
<1>3. Placed' /\ mem' \in [Kinds -> AskIds] /\ stored' \in [Kinds -> AskIds]
  BY <1>0, <1>1, <1>2, NoAsk DEF TypeOK, Placed, Names, Turns
<1>4. /\ text' \in Turns /\ text'.pc \in {"idle", "run", "look"}
      /\ text'.pc = "idle" => text'.ask = 0
      /\ text'.pc # "idle" => text'.pc = text.next /\ text'.ask = text.ask
  <2>1. CASE text.next = "idle"
    BY <2>1, IdleTurn DEF Drop
  <2>2. CASE text.next # "idle"
    <3>1. text' = Onward(text)
      BY <2>2 DEF Drop, Onward
    <3>2. text' \in Turns /\ text'.pc = text.next /\ text'.ask = text.ask
      BY <1>0, <3>1, NextTurn
    <3>3. text.next \in {"run", "look"}
      BY <1>0, <2>2 DEF Turns
    <3> QED
      BY <3>2, <3>3
  <2> QED
    BY <2>1, <2>2
<1>5. Aware'
  BY <1>0, <1>1, <1>4 DEF Aware, Names, Mine, Drop
<1>6. QED
  BY <1>1, <1>3, <1>4, <1>5, TurnStep

LEMMA StartSingleStep == ASSUME IInv, NEW aim \in Aims, StartSingle(aim) PROVE IInv'
<1> DEFINE r == Load("single")
<1>0. TypeOK /\ Placed /\ Aware /\ "single" \in Kinds
  BY DEF IInv, Kinds
<1>1. r \in AskIds /\ (r # 0 => Names(r, "single"))
  BY <1>0, LoadFits
<1>2. mem' = Remembering("single") /\ UNCHANGED <<stored, asks, notes, voice, world>>
  BY DEF StartSingle
<1>3. Placed' /\ mem' \in [Kinds -> AskIds] /\ stored' \in [Kinds -> AskIds]
  BY <1>0, <1>2, RememberingFits
<1>4. text' = IF r = 0 \/ aim = 0 THEN Idle
              ELSE Saving(r, aim)
  BY DEF StartSingle, Saving
<1> HIDE DEF r
<1>5. CASE r = 0 \/ aim = 0
  <2>1. text' \in Turns /\ text'.pc = "idle" /\ text'.ask = 0
    BY <1>4, <1>5, IdleTurn
  <2>2. Aware'
    BY <1>0, <1>2, <2>1 DEF Aware, Names, Mine
  <2> QED
    BY <1>2, <1>3, <2>1, <2>2, TurnStep
<1>6. CASE r # 0 /\ aim # 0
  <2>1. text' \in Turns /\ text'.pc = "save" /\ text'.ask = r /\ text'.dream = aim
    BY <1>1, <1>4, <1>6, SaveTurn
  <2>2. Aware'
    BY <1>0, <1>1, <1>2, <1>6, <2>1 DEF Aware, Names, Mine
  <2> QED
    BY <1>2, <1>3, <2>1, <2>2, TurnStep
<1> QED
  BY <1>5, <1>6

LEMMA StartBatchStep == ASSUME IInv, StartBatch PROVE IInv'
<1> DEFINE r == Load("batch")
<1>0. TypeOK /\ Placed /\ Aware /\ "batch" \in Kinds
  BY DEF IInv, Kinds
<1>1. r \in AskIds /\ r # 0 /\ Names(r, "batch")
  BY <1>0, LoadFits DEF StartBatch
<1>2. asks[r].dreams \in SUBSET Dreams
  <2>1. asks[r] \in Requests
    BY <1>0, <1>1 DEF TypeOK, Names
  <2> QED
    BY <2>1 DEF Requests
<1>3. /\ mem' = Remembering("batch") /\ UNCHANGED <<stored, asks, notes, voice, world>>
      /\ text' = Applying(r, asks[r].dreams)
  BY DEF StartBatch, Applying
<1> HIDE DEF r
<1>4. Placed' /\ mem' \in [Kinds -> AskIds] /\ stored' \in [Kinds -> AskIds]
  BY <1>0, <1>3, RememberingFits
<1>5. /\ text' \in Turns /\ text'.pc = "apply" /\ text'.ask = r
      /\ text'.todo = asks[r].dreams /\ ~text'.failed
  BY <1>1, <1>2, <1>3, ApplyTurn
<1>6. TypeOK'
  BY <1>0, <1>3, <1>4, <1>5 DEF TypeOK, world
<1>7. Aware'
  BY <1>0, <1>1, <1>3, <1>5 DEF Aware, Names, Mine
<1>8. \A q : NotesOf(q)' = NotesOf(q)
  BY <1>3 DEF NotesOf
<1>9. BatchNotes' /\ DoneMeansAll'
  BY <1>3, <1>5, <1>8 DEF IInv, BatchNotes, DoneMeansAll
<1> QED
  BY <1>4, <1>6, <1>7, <1>9 DEF IInv

LEMMA RunStep == ASSUME IInv, Run PROVE IInv'
<1>0. TypeOK /\ Placed /\ Aware /\ text.ask \in DOMAIN asks
  BY DEF IInv, Aware, Run
<1>1. /\ Recorded /\ DOMAIN asks' = DOMAIN asks
      /\ \A q \in DOMAIN asks : asks'[q].fate = asks[q].fate
  BY <1>0, RunRecorded
<1>2. /\ UNCHANGED <<mem, stored, notes, voice, world>>
      /\ text' \in Turns /\ text'.pc = "idle" /\ text'.ask = 0
  BY IdleTurn DEF Run, pending
<1>3. TypeOK'
  BY <1>0, <1>1, <1>2 DEF TypeOK, Recorded, world
<1>4. Placed' /\ Aware'
  BY <1>0, <1>1, <1>2 DEF Placed, Aware, Names, Recorded, Mine
<1>5. BatchNotes' /\ DoneMeansAll'
  BY <1>1, <1>2, NotesStay DEF Recorded
<1> QED
  BY <1>3, <1>4, <1>5 DEF IInv

LEMMA ApplyStep == ASSUME IInv, Apply PROVE IInv'
<1>0. TypeOK /\ Placed /\ Aware /\ BatchNotes /\ DoneMeansAll /\ text \in Turns
  BY DEF IInv, TypeOK
<1>1. /\ text.pc = "apply" /\ UNCHANGED <<mem, stored, asks, voice, world>>
      /\ text.ask \in DOMAIN asks /\ asks[text.ask].kind = "batch" /\ text.ask \in AskIds
  BY <1>0 DEF Apply, pending, Aware, Names, Turns
<1>2. PICK d \in text.todo :
        \/ /\ SaveNote(d, text.ask)
           /\ text' = Ticked(text, d)
        \/ /\ SaveNote(d, text.ask) \/ UNCHANGED notes
           /\ text' = Failing(text, d)
  BY DEF Apply, Ticked, Failing
<1>3. d \in Dreams /\ d \in asks[text.ask].dreams
  BY <1>0, <1>1 DEF Turns, BatchNotes
<1>4. /\ text' \in Turns /\ text'.pc = "apply" /\ text'.ask = text.ask
      /\ text'.todo = text.todo \ {d}
      /\ \/ text'.failed
         \/ SaveNote(d, text.ask) /\ (text'.failed <=> text.failed)
  <2>1. CASE SaveNote(d, text.ask) /\ text' = Ticked(text, d)
    BY <1>0, <1>1, <2>1, TodoTurn
  <2>2. CASE text' = Failing(text, d)
    BY <1>0, <1>1, <2>2, FailTurn
  <2> QED
    BY <1>2, <2>1, <2>2
<1>5. SaveNote(d, text.ask) \/ UNCHANGED notes
  BY <1>2
<1>6. notes' \subseteq notes \cup {[dream |-> d, ask |-> text.ask]} /\ notes \subseteq notes'
  BY <1>5 DEF SaveNote
<1>r. PICK r : r = text.ask
  OBVIOUS
<1>7. TypeOK'
  BY <1>r, <1>0, <1>1, <1>3, <1>4, <1>6 DEF TypeOK, world
<1>8. Placed' /\ Aware'
  BY <1>r, <1>0, <1>1, <1>4 DEF Placed, Aware, Names, Mine
<1>9. /\ \A q : q # r => NotesOf(q)' = NotesOf(q)
      /\ NotesOf(r)' \subseteq NotesOf(r) \cup {d}
      /\ NotesOf(r) \subseteq NotesOf(r)'
      /\ SaveNote(d, r) => d \in NotesOf(r)'
  <2>1. \A n \in notes' : n \in notes \/ (n.dream = d /\ n.ask = r)
    BY <1>r, <1>6
  <2>2. NotesOf(r)' = {n.dream : n \in {x \in notes' : x.ask = r}}
    BY DEF NotesOf
  <2>3. SaveNote(d, r) => [dream |-> d, ask |-> r] \in notes'
    BY <1>r DEF SaveNote
  <2>4. \A q : q # r => NotesOf(q)' = NotesOf(q)
    BY <1>r, <1>6, <2>1 DEF NotesOf
  <2>5. /\ NotesOf(r)' \subseteq NotesOf(r) \cup {d}
        /\ NotesOf(r) \subseteq NotesOf(r)'
    BY <1>r, <1>6, <2>1, <2>2 DEF NotesOf
  <2>6. SaveNote(d, r) => d \in NotesOf(r)'
    BY <2>2, <2>3
  <2> QED
    BY <2>4, <2>5, <2>6
<1>10. BatchNotes'
  <2>1. \A n \in notes' : n.ask \in DOMAIN asks'
    BY <1>r, <1>0, <1>1, <1>6 DEF BatchNotes
  <2>2. \A q \in DOMAIN asks' : asks'[q].kind = "batch" => NotesOf(q)' \subseteq asks'[q].dreams
    BY <1>r, <1>0, <1>1, <1>3, <1>9 DEF BatchNotes
  <2>3. /\ text'.todo \subseteq asks'[r].dreams
        /\ ~text'.failed => asks'[r].dreams \subseteq text'.todo \cup NotesOf(r)'
    BY <1>r, <1>0, <1>1, <1>4, <1>9 DEF BatchNotes
  <2> QED
    BY <1>r, <1>4, <2>1, <2>2, <2>3 DEF BatchNotes
<1>11. DoneMeansAll'
  <2> SUFFICES ASSUME NEW q \in DOMAIN asks, asks[q].kind = "batch", asks[q].fate = "done"
               PROVE  NotesOf(q)' = asks[q].dreams
    BY <1>1 DEF DoneMeansAll
  <2>1. NotesOf(q) = asks[q].dreams
    BY <1>0 DEF DoneMeansAll
  <2> QED
    BY <1>r, <1>3, <1>9, <2>1
<1> QED
  BY <1>7, <1>8, <1>10, <1>11 DEF IInv

LEMMA ApplyEndStep == ASSUME IInv, ApplyEnd PROVE IInv'
<1>0. TypeOK /\ Placed /\ Aware /\ BatchNotes /\ "batch" \in Kinds /\ "done" \in Fates
  BY DEF IInv, Kinds, Fates
<1>1. /\ text.ask \in AskIds /\ text.ask \in DOMAIN asks /\ asks[text.ask].kind = "batch"
      /\ UNCHANGED <<stored, notes, voice, world>>
  BY <1>0 DEF TypeOK, Turns, ApplyEnd, Aware, Names
<1>2. CASE text.failed
  <2>1. UNCHANGED <<mem, asks>> /\ text' \in Turns /\ text'.pc = "idle" /\ text'.ask = 0
    BY <1>2, IdleTurn DEF ApplyEnd
  <2>2. Placed' /\ Aware' /\ mem' \in [Kinds -> AskIds] /\ stored' \in [Kinds -> AskIds]
    BY <1>0, <1>1, <2>1 DEF TypeOK, Placed, Aware, Names, Mine
  <2> QED
    BY <1>1, <2>1, <2>2, TurnStep
<1>3. CASE ~text.failed
  <2>1. Forget("batch") /\ SetFate(text.ask, "done") /\ text' = Dropping("batch", text.ask)
    BY <1>3 DEF ApplyEnd
  <2>2. text' \in Turns /\ text'.pc = "drop" /\ text'.ask = text.ask /\ text'.next = "idle"
    BY <1>0, <1>1, <2>1, DropTurn
  <2>3. NotesOf(text.ask) = asks[text.ask].dreams
    BY <1>0, <1>1, <1>3 DEF BatchNotes, ApplyEnd
  <2> QED
    BY <1>0, <1>1, <2>1, <2>2, <2>3, AnswerStep
<1> QED
  BY <1>2, <1>3

LEMMA SaveStep == ASSUME IInv, Save PROVE IInv'
<1>0. TypeOK /\ Placed /\ Aware /\ BatchNotes /\ DoneMeansAll /\ text \in Turns
  BY DEF IInv, TypeOK
<1>1. /\ text.pc = "save" /\ UNCHANGED <<mem, stored, asks, voice, world>>
      /\ text.ask \in DOMAIN asks /\ asks[text.ask].kind = "single" /\ text.ask \in AskIds
      /\ text.ask # 0 /\ text.dream \in Dreams
  BY <1>0 DEF Save, pending, Aware, Names, Turns, Aims
<1>2. /\ text' \in Turns
      /\ \/ text'.pc = "clear" /\ text'.ask = text.ask
         \/ text'.pc = "idle" /\ text'.ask = 0
  <2>1. CASE text' = Cleared(text)
    BY <1>0, <2>1, ClearTurn
  <2>2. CASE text' = Idle
    BY <2>2, IdleTurn
  <2> QED
    BY <2>1, <2>2 DEF Save, Cleared
<1>3. /\ notes' \subseteq notes \cup {[dream |-> text.dream, ask |-> text.ask]}
      /\ notes \subseteq notes'
  BY DEF Save, SaveNote
<1>4. TypeOK'
  BY <1>0, <1>1, <1>2, <1>3 DEF TypeOK, world
<1>5. Placed' /\ Aware'
  BY <1>0, <1>1, <1>2 DEF Placed, Aware, Names, Mine
<1>6. \A q : q # text.ask => NotesOf(q)' = NotesOf(q)
  BY <1>3 DEF NotesOf
<1>7. BatchNotes' /\ DoneMeansAll'
  BY <1>0, <1>1, <1>2, <1>3, <1>6 DEF BatchNotes, DoneMeansAll
<1> QED
  BY <1>4, <1>5, <1>7 DEF IInv

LEMMA AskStep ==
  ASSUME IInv, NEW kind \in Kinds, NEW by \in {"text", "voice"}, NEW s \in SUBSET Dreams,
         Ask(kind, by, s)
  PROVE  IInv'
<1>0. TypeOK /\ Placed /\ Aware /\ "single" \in Kinds /\ text \in Turns
  BY DEF IInv, TypeOK, Kinds
<1>r. PICK r \in AskIds :
        /\ r = Len(asks) + 1 /\ r # 0 /\ r \notin DOMAIN asks
        /\ Recorded /\ DOMAIN asks' = DOMAIN asks \cup {r}
        /\ asks'[r] = [kind |-> kind, by |-> by, dreams |-> s, fate |-> "open", runs |-> 0]
        /\ \A q \in DOMAIN asks : asks'[q] = asks[q]
  BY <1>0, AskRecorded
<1>1. asks'[r].kind = kind /\ asks'[r].by = by /\ asks'[r].fate = "open"
  BY <1>r
<1>2. UNCHANGED <<stored, notes, world>> /\ mem' = [Heard(by) EXCEPT ![kind] = r]
  BY <1>r DEF Ask
<1>3. /\ Heard(by) \in [Kinds -> AskIds]
      /\ \A k \in Kinds : Heard(by)[k] # 0 => Names(Heard(by)[k], k)
  BY <1>0, LoadFits DEF Heard, Remembering, TypeOK, Placed
<1>4. \/ /\ by = "text" /\ UNCHANGED voice /\ text' = Keeping(kind, r)
      \/ /\ by = "voice" /\ UNCHANGED text
         /\ voice' = [pc |-> "keep", kind |-> kind, ask |-> r]
  BY <1>r DEF Ask, Keeping
<1>5. /\ text' \in Turns
      /\ voice' \in [pc : {"idle", "keep"}, ask : AskIds, kind : Kinds]
      /\ \/ /\ by = "text" /\ UNCHANGED voice
            /\ text'.pc = "keep" /\ text'.ask = r /\ text'.kind = kind
         \/ /\ by = "voice" /\ UNCHANGED text
            /\ voice'.pc = "keep" /\ voice'.ask = r /\ voice'.kind = kind
  <2>1. CASE by = "text" /\ UNCHANGED voice /\ text' = Keeping(kind, r)
    BY <1>r, <1>0, <1>1, <2>1, KeepTurn DEF TypeOK
  <2>2. CASE /\ by = "voice" /\ UNCHANGED text
             /\ voice' = [pc |-> "keep", kind |-> kind, ask |-> r]
    BY <1>r, <1>0, <1>1, <2>2
  <2> QED
    BY <1>4, <2>1, <2>2
<1>6. TypeOK'
  <2>1. mem' \in [Kinds -> AskIds]
    BY <1>r, <1>1, <1>2, <1>3
  <2> QED
    BY <1>r, <1>0, <1>1, <1>2, <1>5, <2>1 DEF TypeOK, Recorded, world
<1>7. Placed'
  BY <1>r, <1>0, <1>1, <1>2, <1>3 DEF Placed, Names
<1>8. Aware'
  BY <1>r, <1>0, <1>1, <1>5 DEF Aware, Names, Mine
<1>9. BatchNotes' /\ DoneMeansAll'
  BY <1>r, <1>1, <1>2, <1>5, NotesStay
<1> QED
  BY <1>6, <1>7, <1>8, <1>9 DEF IInv

LEMMA SayStep == ASSUME IInv, Say PROVE IInv'
<1>1. "single" \in Kinds /\ TypeOK /\ Placed /\ Aware
  BY DEF IInv, Kinds
<1>2. mem' = Remembering("single") /\ UNCHANGED <<stored, asks, notes, text, voice, world>>
  BY DEF Say, Heard
<1>3. Placed' /\ mem' \in [Kinds -> AskIds] /\ stored' \in [Kinds -> AskIds]
  BY <1>1, <1>2, RememberingFits
<1>4. Aware' /\ text' \in Turns
  BY <1>1, <1>2 DEF Aware, Names, Mine, TypeOK
<1> QED
  BY <1>2, <1>3, <1>4, TurnStep

LEMMA KeepStep == ASSUME IInv, Keep PROVE IInv'
<1>0. TypeOK /\ Placed /\ Aware /\ text \in Turns
  BY DEF IInv, TypeOK
<1>1. UNCHANGED <<mem, asks, notes, world>>
  BY DEF Keep
<1>2. PICK k \in Kinds, r \in AskIds : Names(r, k) /\ Stored(k, r)
  BY <1>0 DEF Keep, TypeOK, Turns, Aware, Names
<1>3. Placed' /\ stored' \in [Kinds -> AskIds]
  BY <1>0, <1>1, <1>2 DEF TypeOK, Placed, Names, Stored
<1>4. /\ text' \in Turns /\ voice' \in [pc : {"idle", "keep"}, ask : AskIds, kind : Kinds]
      /\ text' = text \/ (text'.pc = "idle" /\ text'.ask = 0)
      /\ voice' = voice \/ voice'.pc = "idle"
  <2>1. CASE text' = Idle /\ UNCHANGED voice
    BY <1>0, <2>1, IdleTurn DEF TypeOK
  <2>2. CASE voice' = Quiet /\ UNCHANGED text
    BY <1>0, <2>2, NoAsk DEF Quiet, Kinds
  <2> QED
    BY <2>1, <2>2 DEF Keep
<1>5. TypeOK' /\ Recorded
  BY <1>0, <1>1, <1>3, <1>4, SameRecorded DEF TypeOK, world
<1>6. Aware'
  BY <1>0, <1>1, <1>4 DEF Aware, Names, Mine
<1>7. BatchNotes' /\ DoneMeansAll'
  BY <1>1, <1>4, <1>5, NotesStay
<1> QED
  BY <1>3, <1>5, <1>6, <1>7 DEF IInv

LEMMA WorldStep == ASSUME IInv, World PROVE IInv'
<1>0. TypeOK /\ Placed /\ Aware
  BY DEF IInv
<1>1. CASE Restart
  <2>1. /\ mem' = [k \in Kinds |-> 0] /\ text' = Idle /\ voice' = Quiet
        /\ UNCHANGED <<stored, asks, notes, redisUp, outages>> /\ restarts' \in 0..MaxRestarts
    BY <1>0, <1>1, ConversationAssumption DEF Restart, TypeOK
  <2>2. /\ text' \in Turns /\ text'.pc = "idle" /\ text'.ask = 0 /\ voice'.pc = "idle"
        /\ voice' \in [pc : {"idle", "keep"}, ask : AskIds, kind : Kinds]
    BY <2>1, IdleTurn, NoAsk DEF Quiet, Kinds
  <2>3. TypeOK'
    BY <1>0, <2>1, <2>2, NoAsk DEF TypeOK
  <2>4. Placed' /\ Aware' /\ Recorded
    BY <1>0, <2>1, <2>2, SameRecorded DEF Placed, Aware, Names
  <2>5. BatchNotes' /\ DoneMeansAll'
    BY <2>1, <2>2, <2>4, NotesStay
  <2> QED
    BY <2>3, <2>4, <2>5 DEF IInv
<1>2. CASE RedisFails \/ RedisReturns
  <2>1. /\ UNCHANGED <<mem, stored, asks, notes, text, voice, restarts>>
        /\ redisUp' \in BOOLEAN /\ outages' \in 0..MaxOutages
    <3>1. MaxOutages \in Nat /\ outages \in 0..MaxOutages
      BY <1>0, ConversationAssumption DEF TypeOK
    <3>2. CASE RedisFails
      <4>1. UNCHANGED <<mem, stored, asks, notes, text, voice, restarts>>
        BY <3>2 DEF RedisFails, pending
      <4>2. redisUp' \in BOOLEAN
        BY <3>2, Zenon DEF RedisFails
      <4>3. outages' \in 0..MaxOutages
        BY <3>1, <3>2 DEF RedisFails
      <4> QED
        BY <4>1, <4>2, <4>3
    <3>3. CASE RedisReturns
      BY <3>1, <3>3 DEF RedisReturns, pending
    <3> QED
      BY <1>2, <3>2, <3>3
  <2>2. TypeOK' /\ Recorded
    BY <1>0, <2>1, SameRecorded DEF TypeOK
  <2>3. Placed' /\ Aware'
    BY <1>0, <2>1 DEF Placed, Aware, Names, Mine
  <2>4. BatchNotes' /\ DoneMeansAll'
    BY <2>1, <2>2, NotesStay
  <2> QED
    BY <2>2, <2>3, <2>4 DEF IInv
<1>3. ASSUME NEW k \in Kinds, Lapse(k) PROVE IInv'
  <2>1. /\ Recorded /\ DOMAIN asks' = DOMAIN asks
        /\ \A q \in DOMAIN asks :
             asks'[q].fate = asks[q].fate \/ (asks[q].fate = "open" /\ asks'[q].fate = "lapsed")
    BY <1>0, <1>3, LapseRecorded
  <2>2. /\ stored' = [stored EXCEPT ![k] = 0]
        /\ mem' = mem \/ mem' = [mem EXCEPT ![k] = 0]
        /\ UNCHANGED <<notes, text, voice, world>>
    BY <1>3 DEF Lapse, Forget
  <2>3. /\ mem' \in [Kinds -> AskIds] /\ stored' \in [Kinds -> AskIds]
        /\ \A j \in Kinds : mem'[j] \in {0, mem[j]} /\ stored'[j] \in {0, stored[j]}
    BY <1>0, <2>2, NoAsk DEF TypeOK
  <2>4. TypeOK'
    BY <1>0, <2>1, <2>2, <2>3 DEF TypeOK, Recorded, world
  <2>5. Placed' /\ Aware'
    BY <1>0, <2>1, <2>2, <2>3 DEF Placed, Aware, Names, Recorded, Mine
  <2>6. BatchNotes' /\ DoneMeansAll'
    BY <2>1, <2>2, NotesStay
  <2> QED
    BY <2>4, <2>5, <2>6 DEF IInv
<1> QED
  BY <1>1, <1>2, <1>3 DEF World

LEMMA InitInv == Init => IInv
<1> SUFFICES ASSUME Init PROVE IInv
  OBVIOUS
<1>1. TypeOK
  BY IdleTurn, NoAsk, ConversationAssumption DEF Init, TypeOK, Quiet, Kinds
<1>2. Placed /\ Aware
  BY IdleTurn DEF Init, Placed, Aware, Quiet
<1>3. BatchNotes /\ DoneMeansAll
  BY IdleTurn DEF Init, BatchNotes, DoneMeansAll
<1> QED
  BY <1>1, <1>2, <1>3 DEF IInv

LEMMA NextInv == IInv /\ [Next]_vars => IInv'
<1> SUFFICES ASSUME IInv, [Next]_vars PROVE IInv'
  OBVIOUS
<1>1. CASE Answering
  <2>1. CASE \E aim \in Aims : SayYes(aim) \/ SayThis(aim)
    BY <2>1, SayYesStep, StartSingleStep DEF SayThis
  <2>2. CASE Look
    <3>1. text.dream \in Aims
      BY DEF IInv, TypeOK, Turns
    <3> QED
      BY <2>2, <3>1, StartBatchStep, StartSingleStep DEF Look
  <2>3. CASE SayNo \/ PressYes \/ PressNo
    BY <2>3, SayNoStep, PressNoStep, StartBatchStep DEF PressYes
  <2>4. CASE Drop \/ Run \/ Apply \/ ApplyEnd \/ Save \/ Clear
    BY <2>4, DropStep, RunStep, ApplyStep, ApplyEndStep, SaveStep, ClearStep
  <2> QED
    BY <1>1, <2>1, <2>2, <2>3, <2>4 DEF Answering
<1>2. CASE Speaking
  <2>1. CASE \E s \in SUBSET Dreams : AskBatch(s)
    BY <2>1, AskStep DEF AskBatch, Kinds
  <2>2. CASE \E by \in {"text", "voice"} : AskInterpretation(by) \/ HoldNote(by)
    <3>1. {} \in SUBSET Dreams
      OBVIOUS
    <3> QED
      BY <2>2, <3>1, AskStep DEF AskInterpretation, HoldNote, Kinds
  <2>3. CASE Say \/ Keep
    BY <2>3, SayStep, KeepStep
  <2> QED
    BY <1>2, <2>1, <2>2, <2>3 DEF Speaking
<1>3. CASE World
  BY <1>3, WorldStep
<1>4. CASE UNCHANGED vars
  <2>1. UNCHANGED <<mem, stored, asks, notes, text, voice, redisUp, restarts, outages>>
    BY <1>4 DEF vars, pending, world
  <2>2. TypeOK' /\ Placed' /\ Aware'
    BY <2>1 DEF IInv, TypeOK, Placed, Aware, Names, Mine
  <2>3. \A q : NotesOf(q)' = NotesOf(q)
    BY <2>1 DEF NotesOf
  <2>4. UNCHANGED <<asks, notes, text>> /\ Recorded
    BY <2>1, SameRecorded DEF IInv
  <2>5. BatchNotes' /\ DoneMeansAll'
    BY <2>4, NotesStay DEF IInv, DoneMeansAll
  <2> QED
    BY <2>2, <2>5 DEF IInv
<1> QED
  BY <1>1, <1>2, <1>3, <1>4 DEF Next

THEOREM Invariance == Spec => []IInv
BY InitInv, NextInv, PTL DEF Spec

-----------------------------------------------------------------------------
(* The places where the program keeps a request hold requests of their kind, *)
(* and the history of the requests is well-formed (session.py).             *)
THEOREM TypeCorrect == Spec => []TypeOK
<1>1. IInv => TypeOK
  BY DEF IInv
<1> QED
  BY <1>1, Invariance, PTL

(* A batch answered as done has its note at every approved dream and at no   *)
(* other (_apply_pending_batch_note).                                       *)
THEOREM BatchComplete == Spec => []DoneMeansAll
<1>1. IInv => DoneMeansAll
  BY DEF IInv
<1> QED
  BY <1>1, Invariance, PTL

-----------------------------------------------------------------------------
(* How a request comes to be held or handled: only from where it is already. *)

Reaches(r) ==
  /\ \A k \in Kinds : r \in {mem'[k], stored'[k]} =>
       \/ Held(r)
       \/ text.pc = "keep" /\ text.ask = r
       \/ voice.pc = "keep" /\ voice.ask = r
  /\ text'.ask = r => text.ask = r \/ Held(r)
  /\ text.ask # r => \A d : [dream |-> d, ask |-> r] \in notes' => [dream |-> d, ask |-> r] \in notes
  /\ notes \subseteq notes'

LEMMA LoadHeld ==
  ASSUME NEW r, r # 0, NEW k \in Kinds, Load(k) = r
  PROVE  Held(r)
BY DEF Load, Held

LEMMA DropReaches ==
  ASSUME TypeOK, NEW r, r # 0, NEW k \in Kinds, NEW q \in AskIds, q = r => Held(r),
         Forget(k), text' = Dropping(k, q), UNCHANGED <<stored, notes>>
  PROVE  Reaches(r)
<1>1. text'.ask = q
  BY DropTurn
<1>2. \A j \in Kinds : mem'[j] \in {0, mem[j]} /\ stored'[j] = stored[j]
  BY DEF Forget, TypeOK
<1> QED
  BY <1>1, <1>2 DEF Reaches, Held

LEMMA AnsweringReaches ==
  ASSUME IInv, NEW r \in DOMAIN asks, Answering
  PROVE  Reaches(r)
<1>0. TypeOK /\ Placed /\ Aware /\ text \in Turns /\ r # 0 /\ text.ask \in AskIds
  BY DEF IInv, TypeOK, Turns
<1>k. "interpretation" \in Kinds /\ "batch" \in Kinds /\ "single" \in Kinds
  BY DEF Kinds
<1>1. ASSUME NEW aim \in Aims, SayYes(aim) PROVE Reaches(r)
  <2> DEFINE q == Load("interpretation")
             n == IF q = 0 THEN "look" ELSE "run"
             d == IF q = 0 THEN aim ELSE 0
  <2>1. q \in AskIds /\ (q = r => Held(r))
    BY <1>0, <1>k, LoadFits, LoadHeld
  <2>2. n \in {"run", "look"} /\ d \in Aims
    BY DEF Aims
  <2>3. text' = Saying(q, n, d) /\ Forget("interpretation") /\ UNCHANGED <<stored, notes>>
    BY <1>1 DEF SayYes, Saying
  <2> HIDE DEF q, n, d
  <2>4. text'.ask = q
    BY <2>1, <2>2, <2>3, SayTurn
  <2>5. \A j \in Kinds : mem'[j] \in {0, mem[j]} /\ stored'[j] = stored[j]
    BY <1>0, <2>3 DEF Forget, TypeOK
  <2> QED
    BY <1>0, <2>1, <2>3, <2>4, <2>5 DEF Reaches, Held
<1>2. ASSUME SayNo PROVE Reaches(r)
  <2>1. PICK i \in DOMAIN Order :
          Forget(Order[i]) /\ text' = Dropping(Order[i], Load(Order[i]))
    BY <1>2 DEF SayNo
  <2>2. Order[i] \in Kinds
    BY DEF Order, Kinds
  <2>3. Load(Order[i]) \in AskIds /\ (Load(Order[i]) = r => Held(r))
    BY <1>0, <2>2, LoadFits, LoadHeld
  <2>4. UNCHANGED <<stored, notes>>
    BY <1>2 DEF SayNo
  <2> QED
    BY <1>0, <2>1, <2>2, <2>3, <2>4, DropReaches
<1>3. ASSUME PressNo PROVE Reaches(r)
  <2> DEFINE q == IF mem["batch"] # 0 THEN mem["batch"] ELSE stored["batch"]
  <2>1. q \in AskIds /\ (q = r => Held(r))
    BY <1>0, <1>k DEF TypeOK, Held
  <2>2. Forget("batch") /\ text' = Dropping("batch", q) /\ UNCHANGED <<stored, notes>>
    BY <1>3 DEF PressNo
  <2> HIDE DEF q
  <2> QED
    BY <1>0, <1>k, <2>1, <2>2, DropReaches
<1>4. ASSUME Drop PROVE Reaches(r)
  <2>1. /\ UNCHANGED <<mem, notes>>
        /\ stored' = stored \/ stored' = [stored EXCEPT ![text.kind] = 0]
        /\ text' = Idle \/ text' = Onward(text)
    BY <1>4 DEF Drop, Onward
  <2>2. text'.ask \in {0, text.ask}
    BY <1>0, <2>1, IdleTurn, NextTurn
  <2>3. \A j \in Kinds : mem'[j] = mem[j] /\ stored'[j] \in {0, stored[j]}
    BY <1>0, <2>1 DEF TypeOK
  <2> QED
    BY <1>0, <2>1, <2>2, <2>3 DEF Reaches, Held
<1>5. ASSUME Run PROVE Reaches(r)
  BY <1>0, <1>5, IdleTurn DEF Run, Reaches, Held, pending
<1>6. ASSUME StartBatch PROVE Reaches(r)
  <2>1. /\ Load("batch") \in AskIds /\ (Load("batch") = r => Held(r))
        /\ Load("batch") # 0 /\ Names(Load("batch"), "batch")
    BY <1>0, <1>k, <1>6, LoadFits, LoadHeld DEF StartBatch
  <2>2. asks[Load("batch")].dreams \in SUBSET Dreams
    <3>1. asks[Load("batch")] \in Requests
      BY <1>0, <2>1 DEF TypeOK, Names
    <3> QED
      BY <3>1 DEF Requests
  <2>3. text' = Applying(Load("batch"), asks[Load("batch")].dreams)
    BY <1>6 DEF StartBatch, Applying
  <2>4. text'.ask = Load("batch")
    BY <2>1, <2>2, <2>3, ApplyTurn
  <2>5. mem' = Remembering("batch") /\ UNCHANGED <<stored, notes>>
    BY <1>6 DEF StartBatch
  <2>6. \A j \in Kinds : mem'[j] \in {mem[j], Load("batch")} /\ stored'[j] = stored[j]
    BY <1>0, <2>5 DEF Remembering, TypeOK
  <2> QED
    BY <2>1, <2>4, <2>5, <2>6 DEF Reaches, Held
<1>7. ASSUME NEW aim \in Aims, StartSingle(aim) PROVE Reaches(r)
  <2>1. Load("single") \in AskIds /\ (Load("single") = r => Held(r))
    BY <1>0, <1>k, LoadFits, LoadHeld
  <2>2. text' = Idle \/ text' = Saving(Load("single"), aim)
    BY <1>7 DEF StartSingle, Saving
  <2>3. text'.ask \in {0, Load("single")}
    BY <2>1, <2>2, SaveTurn, IdleTurn
  <2>4. mem' = Remembering("single") /\ UNCHANGED <<stored, notes>>
    BY <1>7 DEF StartSingle
  <2>5. \A j \in Kinds : mem'[j] \in {mem[j], Load("single")} /\ stored'[j] = stored[j]
    BY <1>0, <2>4 DEF Remembering, TypeOK
  <2> QED
    BY <1>0, <2>1, <2>3, <2>4, <2>5 DEF Reaches, Held
<1>8. ASSUME Look PROVE Reaches(r)
  <2>1. text.dream \in Aims
    BY <1>0 DEF Turns
  <2> QED
    BY <1>6, <1>7, <1>8, <2>1 DEF Look
<1>9. ASSUME Apply PROVE Reaches(r)
  <2>1. PICK d \in text.todo :
          /\ SaveNote(d, text.ask) \/ UNCHANGED notes
          /\ \/ text' = Ticked(text, d)
             \/ text' = Failing(text, d)
    BY <1>9 DEF Apply, Ticked, Failing
  <2>2. text'.ask = text.ask
    <3>1. CASE text' = Ticked(text, d)
      BY <1>0, <3>1, TodoTurn
    <3>2. CASE text' = Failing(text, d)
      BY <1>0, <3>2, FailTurn
    <3> QED
      BY <2>1, <3>1, <3>2
  <2>3. UNCHANGED <<mem, stored>>
    BY <1>9 DEF Apply, pending
  <2>4. notes' \subseteq notes \cup {[dream |-> d, ask |-> text.ask]} /\ notes \subseteq notes'
    BY <2>1 DEF SaveNote
  <2> QED
    BY <2>2, <2>3, <2>4 DEF Reaches, Held
<1>10. ASSUME ApplyEnd PROVE Reaches(r)
  <2>1. CASE text.failed
    BY <1>0, <1>10, <2>1, IdleTurn DEF ApplyEnd, Reaches, Held
  <2>2. CASE ~text.failed
    <3>1. /\ text.ask \in AskIds /\ Forget("batch") /\ text' = Dropping("batch", text.ask)
          /\ UNCHANGED <<stored, notes>>
      BY <1>0, <1>10, <2>2 DEF ApplyEnd
    <3>2. CASE text.ask = r
      BY <1>0, <1>k, <3>1, <3>2, DropTurn DEF Reaches, Forget, Held, TypeOK
    <3>3. CASE text.ask # r
      BY <1>0, <1>k, <3>1, <3>3, DropReaches
    <3> QED
      BY <3>2, <3>3
  <2> QED
    BY <2>1, <2>2
<1>11. ASSUME Save PROVE Reaches(r)
  <2>1. /\ UNCHANGED <<mem, stored>>
        /\ notes' \subseteq notes \cup {[dream |-> text.dream, ask |-> text.ask]}
        /\ notes \subseteq notes'
        /\ text' = Idle \/ text' = Cleared(text)
    BY <1>11 DEF Save, SaveNote, pending, Cleared
  <2>2. text'.ask \in {0, text.ask}
    BY <1>0, <2>1, IdleTurn, ClearTurn
  <2> QED
    BY <1>0, <2>1, <2>2 DEF Reaches, Held
<1>12. ASSUME Clear PROVE Reaches(r)
  <2>1. /\ text.ask \in AskIds /\ Forget("single") /\ text' = Dropping("single", text.ask)
        /\ UNCHANGED <<stored, notes>>
    BY <1>0, <1>12 DEF Clear
  <2>2. CASE text.ask = r
    BY <1>0, <1>k, <2>1, <2>2, DropTurn DEF Reaches, Forget, Held, TypeOK
  <2>3. CASE text.ask # r
    BY <1>0, <1>k, <2>1, <2>3, DropReaches
  <2> QED
    BY <2>2, <2>3
<1> QED
  BY <1>1, <1>2, <1>3, <1>4, <1>5, <1>6, <1>7, <1>8, <1>9, <1>10, <1>11, <1>12
     DEF Answering, SayThis, PressYes

LEMMA AskReaches ==
  ASSUME IInv, NEW r \in DOMAIN asks, NEW kind \in Kinds, NEW by \in {"text", "voice"},
         NEW s \in SUBSET Dreams, Ask(kind, by, s)
  PROVE  Reaches(r)
<1>0. TypeOK /\ Placed /\ "single" \in Kinds /\ r # 0
  BY DEF IInv, TypeOK, Kinds
<1>1. PICK q \in AskIds : q = Len(asks) + 1 /\ q \notin DOMAIN asks
  BY <1>0, AskRecorded
<1>2. UNCHANGED <<stored, notes>> /\ mem' = [Heard(by) EXCEPT ![kind] = q]
  BY <1>1 DEF Ask
<1>3. text' = text \/ text' = Keeping(kind, q)
  BY <1>1 DEF Ask, Keeping
<1>4. text'.ask \in {text.ask, q}
  BY <1>3, KeepTurn
<1>5. Load("single") = r => Held(r)
  BY <1>0, LoadHeld
<1>6. \A k \in Kinds : mem'[k] \in {mem[k], Load("single"), q} /\ stored'[k] = stored[k]
  BY <1>0, <1>2 DEF Heard, Remembering, TypeOK
<1> QED
  BY <1>1, <1>2, <1>4, <1>5, <1>6 DEF Reaches, Held

LEMMA StepReaches ==
  ASSUME IInv, [Next]_vars, NEW r \in DOMAIN asks
  PROVE  Reaches(r)
<1>0. TypeOK /\ Placed /\ r # 0 /\ "single" \in Kinds
  BY DEF IInv, TypeOK, Kinds
<1>1. CASE Answering
  BY <1>1, AnsweringReaches
<1>2. CASE Speaking
  <2>1. CASE \E s \in SUBSET Dreams : AskBatch(s)
    BY <2>1, AskReaches DEF AskBatch, Kinds
  <2>2. CASE \E by \in {"text", "voice"} : AskInterpretation(by) \/ HoldNote(by)
    <3>1. {} \in SUBSET Dreams
      OBVIOUS
    <3> QED
      BY <2>2, <3>1, AskReaches DEF AskInterpretation, HoldNote, Kinds
  <2>3. CASE Say
    <3>1. /\ mem' = Remembering("single") /\ UNCHANGED <<stored, notes, text>>
          /\ Load("single") = r => Held(r)
      BY <1>0, <2>3, LoadHeld DEF Say, Heard
    <3>2. \A k \in Kinds : mem'[k] \in {mem[k], Load("single")} /\ stored'[k] = stored[k]
      BY <1>0, <3>1 DEF Remembering, TypeOK
    <3> QED
      BY <3>1, <3>2 DEF Reaches, Held
  <2>4. CASE Keep
    <3>1. CASE text.pc = "keep" /\ Stored(text.kind, text.ask) /\ text' = Idle
      <4>1. \A k \in Kinds : stored'[k] \in {stored[k], text.ask}
        BY <1>0, <3>1 DEF Stored, TypeOK
      <4> QED
        BY <1>0, <2>4, <3>1, <4>1, IdleTurn DEF Keep, Reaches, Held
    <3>2. CASE voice.pc = "keep" /\ Stored(voice.kind, voice.ask) /\ UNCHANGED text
      <4>1. \A k \in Kinds : stored'[k] \in {stored[k], voice.ask}
        BY <1>0, <3>2 DEF Stored, TypeOK
      <4> QED
        BY <1>0, <2>4, <3>2, <4>1 DEF Keep, Reaches, Held
    <3> QED
      BY <2>4, <3>1, <3>2 DEF Keep
  <2> QED
    BY <1>2, <2>1, <2>2, <2>3, <2>4 DEF Speaking
<1>3. CASE World
  <2>1. CASE Restart
    <3>1. \A k \in Kinds : mem'[k] = 0 /\ stored'[k] = stored[k]
      BY <2>1 DEF Restart
    <3> QED
      BY <1>0, <2>1, <3>1, IdleTurn DEF Restart, Reaches, Held
  <2>2. CASE RedisFails \/ RedisReturns
    BY <2>2 DEF RedisFails, RedisReturns, Reaches, Held, pending
  <2>3. ASSUME NEW k \in Kinds, Lapse(k) PROVE Reaches(r)
    <3>1. \A j \in Kinds : mem'[j] \in {0, mem[j]} /\ stored'[j] \in {0, stored[j]}
      BY <1>0, <2>3 DEF Lapse, Forget, TypeOK
    <3> QED
      BY <1>0, <2>3, <3>1 DEF Lapse, Reaches, Held
  <2> QED
    BY <1>3, <2>1, <2>2, <2>3 DEF World
<1>4. CASE UNCHANGED vars
  BY <1>4 DEF vars, pending, Reaches, Held
<1> QED
  BY <1>1, <1>2, <1>3, <1>4 DEF Next

LEMMA OverStep ==
  IInv /\ [Next]_vars =>
    \A r \in DOMAIN asks : Answered(r) /\ ~Held(r) /\ text.ask # r =>
      text'.ask # r /\ ~Held(r)' /\ NotesOf(r)' = NotesOf(r)
<1> SUFFICES ASSUME IInv, [Next]_vars, NEW r \in DOMAIN asks,
                    Answered(r), ~Held(r), text.ask # r
             PROVE  text'.ask # r /\ ~Held(r)' /\ NotesOf(r)' = NotesOf(r)
  OBVIOUS
<1>1. Reaches(r)
  BY StepReaches
<1>2. ~(text.pc = "keep" /\ text.ask = r) /\ ~(voice.pc = "keep" /\ voice.ask = r)
  BY DEF IInv, Aware, Answered
<1>3. text'.ask # r /\ ~Held(r)'
  BY <1>1, <1>2 DEF Reaches, Held
<1>4. TypeOK /\ TypeOK'
  BY NextInv DEF IInv
<1>5. NotesOf(r)' \subseteq NotesOf(r)
  <2> SUFFICES ASSUME NEW n \in notes', n.ask = r
               PROVE  \E m \in notes : m.ask = r /\ m.dream = n.dream
    BY DEF NotesOf
  <2>1. n = [dream |-> n.dream, ask |-> r]
    BY <1>4 DEF TypeOK
  <2>2. [dream |-> n.dream, ask |-> r] \in notes
    BY <1>1, <2>1 DEF Reaches
  <2> QED
    BY <2>2
<1>6. NotesOf(r) \subseteq NotesOf(r)'
  BY <1>1 DEF Reaches, NotesOf
<1> QED
  BY <1>3, <1>5, <1>6

(* What is over stays over: an answered request that neither copy holds is   *)
(* never handled again and gets no note (the pop and delete of every handler,*)
(* against the voice worker, restarts and outages).                         *)
THEOREM NothingComesBack == Spec => OverStaysOver
<1>1. IInv /\ [Next]_vars =>
        [\A r \in DOMAIN asks : Answered(r) /\ ~Held(r) /\ text.ask # r =>
           text'.ask # r /\ ~Held(r)' /\ NotesOf(r)' = NotesOf(r)]_vars
  BY OverStep
<1> QED
  BY <1>1, Invariance, PTL DEF Spec, OverStaysOver

-----------------------------------------------------------------------------
(* An approved interpretation has left memory before it leaves Redis, and    *)
(* both before the model is called.                                         *)

Handling(r) == text.ask = r /\ (text.pc = "run" \/ (text.pc = "drop" /\ text.next = "run"))

Spent(r) ==
  /\ asks[r].runs \in {0, 1}
  /\ asks[r].runs = 1 => ~Held(r) /\ text.ask # r
  /\ Handling(r) => /\ asks[r].runs = 0 /\ asks[r].kind = "interpretation"
                    /\ text.pc = "drop" => \A k \in Kinds : mem[k] # r
                    /\ text.pc = "run" => ~Held(r)

Once == outages = 0 => redisUp /\ \A r \in DOMAIN asks : Mine(r) => Spent(r)

OnceInv == IInv /\ Once

Goes(r) ==
  \/ Handling(r) /\ text'.pc = "run" /\ \A k \in Kinds : r \notin {mem'[k], stored'[k]}
  \/ /\ Held(r) \/ (Handling(r) /\ text.pc = "drop")
     /\ asks[r].kind = "interpretation"
     /\ text'.pc = "drop" /\ \A k \in Kinds : mem'[k] # r

\* A step that calls no model leaves the count, and begins or goes on handling.
LEMMA SpentStep ==
  ASSUME IInv, NEW r \in DOMAIN asks, r \in DOMAIN asks', Reaches(r), Mine(r), Spent(r),
         asks'[r].runs = asks[r].runs, asks'[r].kind = asks[r].kind,
         Handling(r)' => Goes(r)
  PROVE  Spent(r)'
<1>1. ~(voice.pc = "keep" /\ voice.ask = r)
  BY DEF IInv, Aware
<1>2. asks'[r].runs = 1 => ~Held(r)' /\ text'.ask # r
  BY <1>1 DEF Spent, Reaches, Held
<1>3. Handling(r)' => /\ asks'[r].runs = 0 /\ asks'[r].kind = "interpretation"
                      /\ text'.pc = "drop" => \A k \in Kinds : mem'[k] # r
                      /\ text'.pc = "run" => ~Held(r)'
  BY DEF Spent, Held, Goes
<1> QED
  BY <1>2, <1>3 DEF Spent

\* Handling goes on only over what both copies have lost.
LEMMA HandlingStays ==
  ASSUME IInv, NEW r \in DOMAIN asks, Mine(r), Spent(r), Reaches(r), text' = text,
         \A k \in Kinds : mem'[k] # r \/ mem[k] = r
  PROVE  Handling(r)' => Goes(r)
<1>1. ~(voice.pc = "keep" /\ voice.ask = r)
  BY DEF IInv, Aware
<1>2. CASE Handling(r) /\ text.pc = "run"
  BY <1>1, <1>2 DEF Spent, Reaches, Held, Goes
<1>3. CASE Handling(r) /\ text.pc = "drop"
  BY <1>3 DEF Spent, Goes
<1> QED
  BY <1>2, <1>3 DEF Handling

LEMMA AnsweringGoes ==
  ASSUME IInv, redisUp, NEW r \in DOMAIN asks, Mine(r), Spent(r), Answering
  PROVE  Handling(r)' => Goes(r)
<1>0. TypeOK /\ Placed /\ Aware /\ text \in Turns /\ r # 0 /\ text.ask \in AskIds
  BY DEF IInv, TypeOK, Turns
<1>k. "interpretation" \in Kinds /\ "batch" \in Kinds /\ "single" \in Kinds
  BY DEF Kinds
<1>f. asks[r].kind = "interpretation" =>
        \A k \in Kinds : k # "interpretation" => r \notin {mem[k], stored[k]}
  BY <1>0 DEF Placed, Names
<1>1. ASSUME NEW aim \in Aims, SayYes(aim) PROVE Handling(r)' => Goes(r)
  <2> DEFINE q == Load("interpretation")
             n == IF q = 0 THEN "look" ELSE "run"
             d == IF q = 0 THEN aim ELSE 0
  <2>1. q \in AskIds /\ (q = r => Held(r) /\ asks[r].kind = "interpretation")
    BY <1>0, <1>k, LoadFits, LoadHeld DEF Names
  <2>2. n \in {"run", "look"} /\ d \in Aims
    BY DEF Aims
  <2>3. text' = Saying(q, n, d) /\ Forget("interpretation")
    BY <1>1 DEF SayYes, Saying
  <2> HIDE DEF q, n, d
  <2>4. text'.ask = q /\ text'.pc = "drop"
    BY <2>1, <2>2, <2>3, SayTurn
  <2>5. q = r => \A k \in Kinds : mem'[k] # r
    BY <1>0, <1>k, <1>f, <2>1, <2>3 DEF Forget, TypeOK
  <2> QED
    BY <2>1, <2>4, <2>5 DEF Handling, Goes
<1>2. ASSUME NEW k \in Kinds, NEW q \in AskIds, text' = Dropping(k, q)
      PROVE  ~Handling(r)'
  <2>1. text'.pc = "drop" /\ text'.next = "idle"
    BY <1>2, DropTurn
  <2> QED
    BY <2>1 DEF Handling
<1>3. ASSUME text'.pc \notin {"run", "drop"} PROVE ~Handling(r)'
  BY <1>3 DEF Handling
<1>4. ASSUME Drop PROVE Handling(r)' => Goes(r)
  <2>1. CASE text.next = "idle"
    BY <1>3, <1>4, <2>1, IdleTurn DEF Drop
  <2>2. CASE text.next # "idle"
    <3>1. text' = Onward(text)
      BY <1>4, <2>2 DEF Drop, Onward
    <3>2. text'.pc = text.next /\ text'.ask = text.ask /\ text.next \in {"run", "look"}
      <4>1. text'.pc = text.next /\ text'.ask = text.ask
        BY <1>0, <3>1, NextTurn
      <4> QED
        BY <1>0, <2>2, <4>1 DEF Turns
    <3>3. CASE text.next = "run" /\ text.ask = r
      <4>1. Handling(r) /\ text.kind = "interpretation" /\ text.pc = "drop"
        BY <1>0, <1>4, <3>3 DEF Handling, Drop, Aware
      <4>2. UNCHANGED mem /\ stored' = [stored EXCEPT !["interpretation"] = 0]
        BY <1>4, <4>1 DEF Drop
      <4>3. \A k \in Kinds : r \notin {mem'[k], stored'[k]}
        BY <1>0, <1>f, <4>1, <4>2 DEF Spent, TypeOK
      <4> QED
        BY <3>2, <3>3, <4>1, <4>3 DEF Goes
    <3> QED
      BY <3>2, <3>3 DEF Handling
  <2> QED
    BY <2>1, <2>2
<1>5. ASSUME SayNo PROVE ~Handling(r)'
  <2>1. PICK i \in DOMAIN Order : text' = Dropping(Order[i], Load(Order[i]))
    BY <1>5 DEF SayNo
  <2>2. Order[i] \in Kinds
    BY DEF Order, Kinds
  <2>3. Load(Order[i]) \in AskIds
    BY <1>0, <2>2, LoadFits
  <2> QED
    BY <1>2, <2>1, <2>2, <2>3
<1>6. ASSUME PressNo PROVE ~Handling(r)'
  <2>1. PICK q \in AskIds : text' = Dropping("batch", q)
    BY <1>0, <1>k, <1>6 DEF PressNo, TypeOK
  <2> QED
    BY <1>2, <1>k, <2>1
<1>7. ASSUME StartBatch PROVE ~Handling(r)'
  <2>1. /\ Load("batch") \in AskIds /\ Names(Load("batch"), "batch")
    BY <1>0, <1>k, <1>7, LoadFits DEF StartBatch
  <2>2. asks[Load("batch")].dreams \in SUBSET Dreams
    <3>1. asks[Load("batch")] \in Requests
      BY <1>0, <2>1 DEF TypeOK, Names
    <3> QED
      BY <3>1 DEF Requests
  <2>3. text' = Applying(Load("batch"), asks[Load("batch")].dreams)
    BY <1>7 DEF StartBatch, Applying
  <2> QED
    BY <1>3, <2>1, <2>2, <2>3, ApplyTurn
<1>8. ASSUME NEW aim \in Aims, StartSingle(aim) PROVE ~Handling(r)'
  <2>1. Load("single") \in AskIds
    BY <1>0, <1>k, LoadFits
  <2>2. text' = Idle \/ text' = Saving(Load("single"), aim)
    BY <1>8 DEF StartSingle, Saving
  <2> QED
    BY <1>3, <2>1, <2>2, SaveTurn, IdleTurn
<1>9. ASSUME Look PROVE ~Handling(r)'
  <2>1. text.dream \in Aims
    BY <1>0 DEF Turns
  <2> QED
    BY <1>7, <1>8, <1>9, <2>1 DEF Look
<1>10. ASSUME Apply PROVE ~Handling(r)'
  <2>1. PICK d \in text.todo :
          \/ text' = Ticked(text, d)
          \/ text' = Failing(text, d)
    BY <1>10 DEF Apply, Ticked, Failing
  <2>2. CASE text' = Ticked(text, d)
    BY <1>0, <1>3, <1>10, <2>2, TodoTurn DEF Apply
  <2>3. CASE text' = Failing(text, d)
    <3>1. text'.pc = text.pc
      BY <1>0, <2>3, FailTurn
    <3> QED
      BY <1>3, <1>10, <3>1 DEF Apply
  <2> QED
    BY <2>1, <2>2, <2>3
<1>11. ASSUME ApplyEnd \/ Clear PROVE ~Handling(r)'
  <2>1. text' \in {Idle, Dropping("batch", text.ask), Dropping("single", text.ask)}
    BY <1>11 DEF ApplyEnd, Clear
  <2> QED
    BY <1>0, <1>k, <1>2, <1>3, <2>1, IdleTurn
<1>12. ASSUME Save \/ Run PROVE ~Handling(r)'
  <2>1. text' = Idle \/ text' = Cleared(text)
    BY <1>12 DEF Save, Run, Cleared
  <2> QED
    BY <1>0, <1>3, <2>1, IdleTurn, ClearTurn
<1> QED
  BY <1>1, <1>4, <1>5, <1>6, <1>7, <1>8, <1>9, <1>10, <1>11, <1>12
     DEF Answering, SayThis, PressYes

\* What a step that calls no model does to a request that was made.
Kept(r) == r \in DOMAIN asks' /\ asks'[r].kind = asks[r].kind /\ asks'[r].by = asks[r].by
           /\ asks'[r].runs = asks[r].runs

LEMMA AnsweringKeeps ==
  ASSUME IInv, Answering, ~Run
  PROVE  DOMAIN asks' = DOMAIN asks /\ \A r \in DOMAIN asks : Kept(r)
<1> DEFINE Goal == DOMAIN asks' = DOMAIN asks /\ \A r \in DOMAIN asks : Kept(r)
<1>0. TypeOK /\ Placed /\ Aware /\ {"taken", "done", "declined"} \subseteq Fates
  BY DEF IInv, Fates
<1>k. "interpretation" \in Kinds /\ "batch" \in Kinds
  BY DEF Kinds
<1>1. ASSUME NEW q, q # 0 => q \in DOMAIN asks, NEW f \in Fates, SetFate(q, f)
      PROVE  Goal
  BY <1>0, <1>1, FateRecorded DEF Kept, Recorded
<1>2. ASSUME UNCHANGED asks PROVE Goal
  BY <1>2 DEF Kept
<1>3. ASSUME NEW aim \in Aims, SayYes(aim) PROVE Goal
  <2>1. Load("interpretation") # 0 => Load("interpretation") \in DOMAIN asks
    BY <1>0, <1>k, LoadFits DEF Names
  <2> QED
    BY <1>0, <1>1, <1>3, <2>1 DEF SayYes
<1>4. ASSUME SayNo PROVE Goal
  <2>1. PICK i \in DOMAIN Order : SetFate(Load(Order[i]), "declined")
    BY <1>4 DEF SayNo
  <2>2. Order[i] \in Kinds
    BY DEF Order, Kinds
  <2>3. Load(Order[i]) # 0 => Load(Order[i]) \in DOMAIN asks
    BY <1>0, <2>2, LoadFits DEF Names
  <2> QED
    BY <1>0, <1>1, <2>1, <2>3
<1>5. ASSUME PressNo PROVE Goal
  <2>1. PICK q : (q # 0 => q \in DOMAIN asks) /\ SetFate(q, "declined")
    BY <1>0, <1>k, <1>5 DEF PressNo, Placed, Names
  <2> QED
    BY <1>0, <1>1, <2>1
<1>6. ASSUME ApplyEnd \/ Clear PROVE Goal
  <2>1. text.ask \in DOMAIN asks /\ (SetFate(text.ask, "done") \/ UNCHANGED asks)
    BY <1>0, <1>6 DEF ApplyEnd, Clear, Aware, Names
  <2> QED
    BY <1>0, <1>1, <1>2, <2>1
<1>7. StartBatch \/ (\E aim \in Aims : StartSingle(aim)) \/ Drop \/ Apply \/ Save =>
        UNCHANGED asks
  BY DEF StartBatch, StartSingle, Drop, Apply, Save
<1>8. Look => UNCHANGED asks
  BY DEF Look, StartBatch, StartSingle
<1> QED
  BY <1>2, <1>3, <1>4, <1>5, <1>6, <1>7, <1>8 DEF Answering, SayThis, PressYes

LEMMA RunSpent ==
  ASSUME IInv, Run, redisUp, \A r \in DOMAIN asks : Mine(r) => Spent(r)
  PROVE  \A r \in DOMAIN asks' : Mine(r)' => Spent(r)'
<1>0. TypeOK /\ text.ask \in DOMAIN asks /\ text.pc = "run"
  BY DEF IInv, Aware, Run
<1>1. /\ Recorded /\ DOMAIN asks' = DOMAIN asks
      /\ \A q \in DOMAIN asks :
           asks'[q].runs = IF q = text.ask THEN asks[q].runs + 1 ELSE asks[q].runs
  BY <1>0, RunRecorded
<1>2. UNCHANGED <<mem, stored>> /\ text'.ask = 0 /\ text'.pc = "idle"
  BY IdleTurn DEF Run, pending
<1> SUFFICES ASSUME NEW r \in DOMAIN asks, Mine(r) PROVE Spent(r)'
  BY <1>1 DEF Mine, Recorded
<1>3. r # 0 /\ (Held(r)' => Held(r)) /\ ~Handling(r)'
  BY <1>0, <1>2 DEF TypeOK, Held, Handling
<1>4. CASE r = text.ask
  <2>1. asks[r].runs = 0 /\ ~Held(r)
    BY <1>0, <1>4 DEF Spent, Handling
  <2> QED
    BY <1>1, <1>2, <1>3, <1>4, <2>1 DEF Spent
<1>5. CASE r # text.ask
  BY <1>1, <1>2, <1>3, <1>5 DEF Spent
<1> QED
  BY <1>4, <1>5

LEMMA AskSpent ==
  ASSUME IInv, NEW kind \in Kinds, NEW by \in {"text", "voice"}, NEW s \in SUBSET Dreams,
         Ask(kind, by, s), \A r \in DOMAIN asks : Mine(r) => Spent(r)
  PROVE  \A r \in DOMAIN asks' : Mine(r)' => Spent(r)'
<1>0. TypeOK /\ Placed /\ Aware /\ "single" \in Kinds
  BY DEF IInv, Kinds
<1>1. PICK q \in AskIds :
        /\ q = Len(asks) + 1 /\ q # 0 /\ q \notin DOMAIN asks
        /\ Recorded /\ DOMAIN asks' = DOMAIN asks \cup {q}
        /\ asks'[q] = [kind |-> kind, by |-> by, dreams |-> s, fate |-> "open", runs |-> 0]
        /\ \A x \in DOMAIN asks : asks'[x] = asks[x]
  BY <1>0, AskRecorded
<1>2. /\ mem' = [Heard(by) EXCEPT ![kind] = q]
      /\ text' = text \/ (text' = Keeping(kind, q) /\ text.pc = "idle")
      /\ by = "voice" => text' = text
  BY <1>1 DEF Ask, Keeping
<1>3. Keeping(kind, q).pc = "keep" /\ Keeping(kind, q).ask = q
  BY <1>1, KeepTurn
<1>4. ASSUME NEW r \in DOMAIN asks, Mine(r) PROVE Spent(r)'
  <2>1. Reaches(r) /\ r # q /\ Spent(r)
    BY <1>1, <1>4, AskReaches
  <2>2. CASE text' = text
    <3>1. CASE text.pc = "idle"
      <4>1. ~Handling(r)'
        BY <2>2, <3>1 DEF Handling
      <4> QED
        BY <1>1, <1>4, <2>1, <4>1, SpentStep
    <3>2. CASE text.pc # "idle"
      <4>1. by = "voice"
        BY <3>2 DEF Ask
      <4>2. \A k \in Kinds : mem'[k] \in {mem[k], q}
        BY <1>0, <1>2, <4>1 DEF Heard, TypeOK
      <4>3. \A k \in Kinds : mem'[k] # r \/ mem[k] = r
        BY <2>1, <4>2
      <4>4. Handling(r)' => Goes(r)
        BY <1>4, <2>1, <2>2, <4>3, HandlingStays
      <4> QED
        BY <1>1, <1>4, <2>1, <4>4, SpentStep
    <3> QED
      BY <3>1, <3>2
  <2>3. CASE text' = Keeping(kind, q)
    <3>1. ~Handling(r)'
      BY <1>3, <2>3 DEF Handling
    <3> QED
      BY <1>1, <1>4, <2>1, <3>1, SpentStep
  <2> QED
    BY <1>2, <2>2, <2>3
<1>5. Spent(q)'
  <2>1. asks'[q].runs = 0
    BY <1>1
  <2>2. text.ask # q
    BY <1>0, <1>1 DEF Aware
  <2>3. ~Handling(q)'
    BY <1>2, <1>3, <2>2 DEF Handling
  <2> QED
    BY <2>1, <2>3 DEF Spent
<1>6. ASSUME NEW r \in DOMAIN asks, Mine(r)' PROVE Mine(r)
  BY <1>1, <1>6 DEF Mine
<1> QED
  BY <1>1, <1>4, <1>5, <1>6

\* A step of another hand leaves the handling where it is.
LEMMA OtherSpent ==
  ASSUME IInv, [Next]_vars, \A r \in DOMAIN asks : Mine(r) => Spent(r),
         \A r \in DOMAIN asks : Kept(r), DOMAIN asks' = DOMAIN asks,
         text' = text \/ text' = Idle,
         text.pc # "idle" => \A k \in Kinds : mem'[k] \in {0, mem[k]}
  PROVE  \A r \in DOMAIN asks' : Mine(r)' => Spent(r)'
<1> SUFFICES ASSUME NEW r \in DOMAIN asks, Mine(r)' PROVE Spent(r)'
  OBVIOUS
<1>1. Kept(r) /\ Reaches(r) /\ Mine(r) /\ Spent(r) /\ r # 0
  BY StepReaches DEF Kept, Mine, IInv, TypeOK
<1>2. Handling(r)' => Goes(r)
  <2>1. CASE text' = Idle \/ (text' = text /\ text.pc = "idle")
    BY <2>1, IdleTurn DEF Handling
  <2>2. CASE text' = text /\ text.pc # "idle"
    <3>1. \A k \in Kinds : mem'[k] # r \/ mem[k] = r
      BY <1>1, <2>2
    <3> QED
      BY <1>1, <2>2, <3>1, HandlingStays
  <2> QED
    BY <2>1, <2>2
<1> QED
  BY <1>1, <1>2, SpentStep DEF Kept

LEMMA OnceStep == OnceInv /\ [Next]_vars => Once'
<1> SUFFICES ASSUME OnceInv, [Next]_vars, outages' = 0
             PROVE  redisUp' /\ \A r \in DOMAIN asks' : Mine(r)' => Spent(r)'
  BY DEF Once
<1>0. TypeOK /\ Placed /\ IInv /\ outages \in Nat /\ "single" \in Kinds
  BY DEF OnceInv, IInv, TypeOK, Kinds
<1>1. UNCHANGED <<redisUp, outages>> \/ (outages' = outages + 1) \/ (redisUp' /\ UNCHANGED outages)
  BY DEF Next, Answering, Speaking, World, SayYes, SayThis, SayNo, PressYes, PressNo, Drop, Run,
         Look, Apply, ApplyEnd, Save, Clear, StartBatch, StartSingle, AskBatch, AskInterpretation,
         HoldNote, Ask, Say, Keep, Restart, RedisFails, RedisReturns, Lapse, vars, world
<1>2. redisUp /\ redisUp' /\ outages = 0 /\ \A r \in DOMAIN asks : Mine(r) => Spent(r)
  BY <1>0, <1>1 DEF OnceInv, Once
<1> DEFINE Goal == \A r \in DOMAIN asks' : Mine(r)' => Spent(r)'
<1> SUFFICES Goal
  BY <1>2
<1>3. CASE Answering
  <2>1. CASE Run
    BY <1>0, <1>2, <2>1, RunSpent
  <2>2. CASE ~Run
    <3> SUFFICES ASSUME NEW r \in DOMAIN asks', Mine(r)' PROVE Spent(r)'
      OBVIOUS
    <3>1. DOMAIN asks' = DOMAIN asks
      BY <1>0, <1>3, <2>2, AnsweringKeeps
    <3>2. Kept(r) /\ Reaches(r)
      BY <1>0, <1>3, <2>2, <3>1, AnsweringKeeps, AnsweringReaches
    <3>3. Mine(r) /\ Spent(r)
      BY <1>2, <3>1, <3>2 DEF Mine, Kept
    <3>4. Handling(r)' => Goes(r)
      BY <1>0, <1>2, <1>3, <3>1, <3>3, AnsweringGoes
    <3> QED
      BY <1>0, <3>1, <3>2, <3>3, <3>4, SpentStep DEF Kept
  <2> QED
    BY <2>1, <2>2
<1>4. ASSUME NEW kind \in Kinds, NEW by \in {"text", "voice"}, NEW s \in SUBSET Dreams,
             Ask(kind, by, s)
      PROVE  Goal
  BY <1>0, <1>2, <1>4, AskSpent
<1>5. ASSUME UNCHANGED asks, text' = text \/ text' = Idle,
             text.pc # "idle" => \A k \in Kinds : mem'[k] \in {0, mem[k]}
      PROVE  Goal
  <2>1. \A r \in DOMAIN asks : Kept(r)
    BY <1>5 DEF Kept
  <2> QED
    BY <1>0, <1>2, <1>5, <2>1, OtherSpent
<1>6. CASE Speaking
  <2>1. CASE \E s \in SUBSET Dreams : AskBatch(s)
    BY <1>4, <2>1 DEF AskBatch, Kinds
  <2>2. CASE \E by \in {"text", "voice"} : AskInterpretation(by) \/ HoldNote(by)
    <3>1. {} \in SUBSET Dreams
      OBVIOUS
    <3> QED
      BY <1>4, <2>2, <3>1 DEF AskInterpretation, HoldNote, Kinds
  <2>3. CASE Say
    BY <1>5, <2>3 DEF Say
  <2>4. CASE Keep
    BY <1>5, <2>4 DEF Keep
  <2> QED
    BY <1>6, <2>1, <2>2, <2>3, <2>4 DEF Speaking
<1>7. CASE World
  <2>1. CASE Restart
    BY <1>5, <2>1 DEF Restart
  <2>2. CASE RedisFails \/ RedisReturns
    BY <1>5, <2>2 DEF RedisFails, RedisReturns, pending
  <2>3. ASSUME NEW k \in Kinds, Lapse(k) PROVE Goal
    <3>1. \A r \in DOMAIN asks : Kept(r)
      BY <1>0, <2>3, LapseRecorded DEF Kept, Recorded
    <3>2. DOMAIN asks' = DOMAIN asks
      BY <1>0, <2>3, LapseRecorded
    <3>3. text' = text /\ \A j \in Kinds : mem'[j] \in {0, mem[j]}
      BY <1>0, <2>3 DEF Lapse, Forget, TypeOK
    <3> QED
      BY <1>0, <1>2, <3>1, <3>2, <3>3, OtherSpent
  <2> QED
    BY <1>7, <2>1, <2>2, <2>3 DEF World
<1>8. CASE UNCHANGED vars
  BY <1>5, <1>8 DEF vars, pending
<1> QED
  BY <1>3, <1>6, <1>7, <1>8 DEF Next

LEMMA OnceInit == Init => Once
BY DEF Init, Once

(* With no outage of Redis the model is called at most once for a request    *)
(* of the text handler, restarts and the voice worker notwithstanding        *)
(* (_handle_pending_interpretation_confirmation).                           *)
THEOREM CalledOnce == Spec => []RunOnce
<1>1. Init => OnceInv
  BY InitInv, OnceInit DEF OnceInv
<1>2. OnceInv /\ [Next]_vars => OnceInv'
  BY NextInv, OnceStep DEF OnceInv
<1>3. OnceInv => RunOnce
  <2> SUFFICES ASSUME OnceInv, outages = 0, NEW r \in DOMAIN asks, Mine(r)
               PROVE  asks[r].runs <= 1
    BY DEF RunOnce
  <2>1. asks[r].runs \in {0, 1}
    BY DEF OnceInv, Once, Spent
  <2> QED
    BY <2>1
<1> QED
  BY <1>1, <1>2, <1>3, PTL DEF Spec

-----------------------------------------------------------------------------
(* What Redis keeps of the last request of a kind.  Memory shows that one or  *)
(* none, and whoever is about to delete or answer in its place is at that    *)
(* very request, unless Redis was out of reach when an approval was read.    *)

AtHand(k) ==
  \/ text.pc = "drop" /\ text.kind = k
  \/ text.pc \in {"save", "clear"} /\ k = "single"
  \/ text.pc = "apply" /\ k = "batch"

Blind(k) == k = "interpretation" /\ text.ask = 0 /\ outages > 0

Shown ==
  \A k \in Kinds, r \in DOMAIN asks : stored[k] = r /\ LastOfKind(r) =>
    /\ mem[k] \in {0, r}
    /\ AtHand(k) => text.ask = r \/ Blind(k)

\* A request on its way to Redis is unanswered and the newest of the handler's.
Newest ==
  text.pc = "keep" =>
    /\ ~Answered(text.ask)
    /\ \A q \in DOMAIN asks : asks[q].kind = text.kind /\ Mine(q) => q <= text.ask
    /\ LastOfKind(text.ask) => mem[text.kind] \in {0, text.ask}

DropsAnswered == text.pc = "drop" /\ text.ask # 0 => asks[text.ask].fate # "open"

\* What was answered has left memory, and is in Redis only until it is deleted there.
Gone(r) ==
  \A k \in Kinds : /\ mem[k] # r
                   /\ stored[k] = r => text.pc = "drop" /\ text.kind = k /\ text.ask = r

AnsweredGone ==
  restarts = 0 /\ outages = 0 => \A r \in DOMAIN asks : Answered(r) => Gone(r)

Faithful == Shown /\ Newest /\ DropsAnswered /\ AnsweredGone

Lasting ==
  \A k \in Kinds, r \in DOMAIN asks :
    /\ stored[k] = r /\ (k = "interpretation" => outages' = 0)
    /\ asks'[r].fate = "open" /\ LastOfKind(r)'
    => mem'[k] \in {0, r} /\ (stored'[k] = r \/ mem'[k] = r)

LEMMA LastEarlier ==
  ASSUME Recorded, NEW r \in DOMAIN asks, LastOfKind(r)'
  PROVE  LastOfKind(r)
BY DEF LastOfKind, Recorded, Mine

\* The shape of a step that starts deleting the request q of a kind.
Begins(k, q) ==
  /\ Forget(k) /\ UNCHANGED <<stored, world>>
  /\ text'.pc = "drop" /\ text'.kind = k /\ text'.ask = q
  /\ \E f \in {"taken", "done", "declined"} : SetFate(q, f)
  /\ q # 0 => Names(q, k)
  /\ \/ text.pc = "idle" /\ q = Load(k) /\ (q # 0 \/ k = "interpretation")
     \/ text.pc = "idle" /\ q = IF mem[k] # 0 THEN mem[k] ELSE stored[k]
     \/ text.pc # "drop" /\ AtHand(k) /\ q = text.ask /\ q # 0

LEMMA BeginsFaithful ==
  ASSUME IInv, Once, Faithful, NEW k \in Kinds, NEW q \in AskIds, Begins(k, q)
  PROVE  Faithful' /\ Lasting
<1>0. TypeOK /\ Placed /\ {"taken", "done", "declined"} \subseteq Fates /\ outages \in Nat
  BY DEF IInv, Fates, TypeOK
<1>1. PICK f \in {"taken", "done", "declined"} : SetFate(q, f)
  BY DEF Begins
<1>2. /\ Recorded /\ DOMAIN asks' = DOMAIN asks
      /\ \A r \in DOMAIN asks : asks'[r].fate = IF r = q THEN f ELSE asks[r].fate
  BY <1>0, <1>1, FateRecorded DEF Begins, Names
<1>3. /\ \A j \in Kinds : mem'[j] = IF j = k THEN 0 ELSE mem[j]
      /\ stored' = stored /\ UNCHANGED <<redisUp, restarts, outages>>
  BY <1>0 DEF Begins, Forget, TypeOK, world
<1>4. text'.pc = "drop" /\ text'.kind = k /\ text'.ask = q /\ text.pc # "drop"
  BY DEF Begins
<1>5. ASSUME NEW j \in Kinds, NEW r \in DOMAIN asks, stored[j] = r, LastOfKind(r)'
      PROVE  /\ mem'[j] \in {0, r}
             /\ AtHand(j)' => q = r \/ Blind(j)'
  <2>1. mem[j] \in {0, r} /\ (AtHand(j) => text.ask = r \/ Blind(j)) /\ r # 0
    BY <1>0, <1>2, <1>5, LastEarlier DEF Faithful, Shown, TypeOK
  <2>2. AtHand(j)' => j = k
    BY <1>4 DEF AtHand
  <2>3. j = k /\ q # r => q = 0 /\ k = "interpretation" /\ ~redisUp
    BY <1>5, <2>1 DEF Begins, Load, Blind
  <2>4. ~redisUp => outages > 0
    BY <1>0 DEF Once
  <2> QED
    BY <1>3, <1>4, <2>1, <2>2, <2>3, <2>4 DEF Blind
<1>6. Shown'
  BY <1>2, <1>3, <1>4, <1>5 DEF Shown
<1>7. Newest' /\ DropsAnswered'
  BY <1>0, <1>2, <1>4 DEF Newest, DropsAnswered, Begins, Names
<1>8. ASSUME restarts' = 0, outages' = 0, NEW r \in DOMAIN asks', Answered(r)'
      PROVE  Gone(r)'
  <2>1. r # 0
    BY <1>0, <1>2 DEF TypeOK
  <2>2. CASE r = q
    BY <1>0, <1>3, <1>4, <2>1, <2>2 DEF Gone, Begins, Placed, Names
  <2>3. CASE r # q
    <3>1. Answered(r)
      BY <1>2, <1>8, <2>3 DEF Answered, Mine, Recorded
    <3>2. Gone(r)
      BY <1>2, <1>3, <1>8, <3>1 DEF Faithful, AnsweredGone
    <3> QED
      BY <1>3, <1>4, <2>1, <3>2 DEF Gone
  <2> QED
    BY <2>2, <2>3
<1>9. AnsweredGone'
  BY <1>8 DEF AnsweredGone
<1>10. Lasting
  BY <1>3, <1>5 DEF Lasting
<1> QED
  BY <1>6, <1>7, <1>9, <1>10 DEF Faithful

\* The shape of a step that reads the request of a kind into memory.
Reads(k) ==
  /\ mem' = Remembering(k) /\ UNCHANGED <<stored, asks, world>>
  /\ text.pc \in {"idle", "look"} /\ text'.pc \notin {"drop", "keep"}
  /\ \A j \in Kinds : AtHand(j)' => j = k /\ text'.ask = Load(k) /\ Load(k) # 0

LEMMA ReadsFaithful ==
  ASSUME IInv, Faithful, NEW k \in Kinds, Reads(k)
  PROVE  Faithful' /\ Lasting
<1>0. TypeOK
  BY DEF IInv
<1>1. /\ \A j \in Kinds : mem'[j] \in {mem[j]} \cup (IF j = k THEN {Load(k)} ELSE {})
      /\ UNCHANGED <<stored, asks, restarts, outages>>
      /\ Load(k) \in {0, mem[k], stored[k]}
  BY <1>0 DEF Reads, Remembering, TypeOK, world, Load
<1>2. \A r : (LastOfKind(r)' <=> LastOfKind(r)) /\ (Answered(r)' <=> Answered(r))
  BY <1>1 DEF LastOfKind, Answered, Mine
<1>3. Shown'
  <2> SUFFICES ASSUME NEW j \in Kinds, NEW r \in DOMAIN asks, stored[j] = r, LastOfKind(r)
               PROVE  mem'[j] \in {0, r} /\ (AtHand(j)' => text'.ask = r)
    BY <1>1, <1>2 DEF Shown
  <2>1. mem[j] \in {0, r}
    BY DEF Faithful, Shown
  <2> QED
    BY <1>1, <2>1 DEF Reads
<1>4. Newest' /\ DropsAnswered'
  BY DEF Newest, DropsAnswered, Reads
<1>5. AnsweredGone'
  <2> SUFFICES ASSUME restarts = 0, outages = 0, NEW r \in DOMAIN asks, Answered(r)
               PROVE  Gone(r)'
    BY <1>1, <1>2 DEF AnsweredGone
  <2>1. Gone(r) /\ r # 0
    BY <1>0 DEF Faithful, AnsweredGone, TypeOK
  <2> QED
    BY <1>1, <2>1 DEF Gone, Reads
<1>6. Lasting
  BY <1>1, <1>2, <1>3 DEF Lasting, Shown
<1> QED
  BY <1>3, <1>4, <1>5, <1>6 DEF Faithful

\* The shape of a step that leaves both copies and all answers alone.
Aside ==
  /\ UNCHANGED <<mem, stored, world>>
  /\ text'.pc \notin {"drop", "keep"} /\ text.pc # "drop"
  /\ \A j \in Kinds : AtHand(j)' => AtHand(j) /\ text'.ask = text.ask
  /\ Recorded /\ DOMAIN asks' = DOMAIN asks
  /\ \A r \in DOMAIN asks : asks'[r].fate = asks[r].fate

LEMMA AsideFaithful ==
  ASSUME IInv, Faithful, Aside
  PROVE  Faithful' /\ Lasting
<1>0. TypeOK
  BY DEF IInv
<1>1. \A r \in DOMAIN asks : /\ LastOfKind(r)' => LastOfKind(r)
                             /\ Answered(r)' => Answered(r)
  BY LastEarlier DEF Aside, Answered, Mine, Recorded
<1>2. Shown'
  BY <1>1 DEF Faithful, Shown, Aside, world, Blind
<1>3. Newest' /\ DropsAnswered'
  BY DEF Newest, DropsAnswered, Aside
<1>4. AnsweredGone'
  BY <1>1 DEF Faithful, AnsweredGone, Aside, world, Gone
<1>5. Lasting
  BY <1>1 DEF Lasting, Faithful, Shown, Aside
<1> QED
  BY <1>2, <1>3, <1>4, <1>5 DEF Faithful

LEMMA DropFaithful ==
  ASSUME IInv, Once, Faithful, Drop
  PROVE  Faithful' /\ Lasting
<1>0. TypeOK /\ text \in Turns
  BY DEF IInv, TypeOK
<1>1. /\ UNCHANGED <<mem, asks, redisUp, restarts, outages>> /\ text.pc = "drop"
      /\ \A j \in Kinds : stored'[j] = IF redisUp /\ j = text.kind THEN 0 ELSE stored[j]
  BY <1>0 DEF Drop, world, TypeOK
<1>2. text'.pc \in {"idle", "run", "look"}
  <2>1. text' = Idle \/ text' = Onward(text)
    BY DEF Drop, Onward
  <2>2. text.next \in {"idle", "run", "look"}
    BY <1>0 DEF Turns
  <2> QED
    BY <1>0, <2>1, <2>2, IdleTurn, NextTurn
<1>3. \A r : (LastOfKind(r)' <=> LastOfKind(r)) /\ (Answered(r)' <=> Answered(r))
  BY <1>1 DEF LastOfKind, Answered, Mine
<1>4. \A r \in DOMAIN asks : r # 0
  BY <1>0 DEF TypeOK
<1>5. Shown'
  BY <1>1, <1>2, <1>3, <1>4 DEF Faithful, Shown, AtHand
<1>6. Newest' /\ DropsAnswered'
  BY <1>2 DEF Newest, DropsAnswered
<1>7. AnsweredGone'
  BY <1>1, <1>2, <1>3, <1>4 DEF Faithful, AnsweredGone, Gone, Once
<1>8. Lasting
  <2> SUFFICES ASSUME NEW k \in Kinds, NEW r \in DOMAIN asks, stored[k] = r, LastOfKind(r),
                      k = "interpretation" => outages = 0, asks[r].fate = "open"
               PROVE  mem[k] \in {0, r} /\ stored'[k] = r
    BY <1>1, <1>3 DEF Lasting
  <2>1. mem[k] \in {0, r} /\ (AtHand(k) => text.ask = r \/ Blind(k))
    BY DEF Faithful, Shown
  <2>2. ~Blind(k)
    BY DEF Blind
  <2>3. text.kind # k
    BY <1>1, <1>4, <2>1, <2>2 DEF AtHand, Faithful, DropsAnswered
  <2> QED
    BY <1>1, <2>1, <2>3
<1> QED
  BY <1>5, <1>6, <1>7, <1>8 DEF Faithful

LEMMA AnsweringFaithful ==
  ASSUME IInv, Once, Faithful, Answering
  PROVE  Faithful' /\ Lasting
<1>0. TypeOK /\ Placed /\ Aware /\ text \in Turns /\ text.ask \in AskIds
  BY DEF IInv, TypeOK, Turns
<1>k. "interpretation" \in Kinds /\ "batch" \in Kinds /\ "single" \in Kinds
  BY DEF Kinds
<1>1. ASSUME NEW aim \in Aims, SayYes(aim)
      PROVE  Begins("interpretation", Load("interpretation"))
  <2> DEFINE q == Load("interpretation")
             n == IF q = 0 THEN "look" ELSE "run"
             d == IF q = 0 THEN aim ELSE 0
  <2>1. q \in AskIds /\ (q # 0 => Names(q, "interpretation"))
    BY <1>0, <1>k, LoadFits
  <2>2. n \in {"run", "look"} /\ d \in Aims
    BY DEF Aims
  <2>3. /\ text' = Saying(q, n, d) /\ Forget("interpretation") /\ UNCHANGED <<stored, world>>
        /\ SetFate(q, "taken") /\ text.pc = "idle" /\ q = Load("interpretation")
    BY <1>1 DEF SayYes, Saying
  <2> HIDE DEF q, n, d
  <2>4. text'.ask = q /\ text'.pc = "drop" /\ text'.kind = "interpretation"
    BY <2>1, <2>2, <2>3, SayTurn
  <2> QED
    BY <2>1, <2>3, <2>4 DEF Begins
<1>2. ASSUME SayNo PROVE \E k \in Kinds : Begins(k, Load(k))
  <2>1. PICK i \in DOMAIN Order :
          /\ Load(Order[i]) # 0 /\ Forget(Order[i]) /\ SetFate(Load(Order[i]), "declined")
          /\ text' = Dropping(Order[i], Load(Order[i]))
    BY <1>2 DEF SayNo
  <2>2. Order[i] \in Kinds
    BY DEF Order, Kinds
  <2>3. Load(Order[i]) \in AskIds /\ Names(Load(Order[i]), Order[i])
    BY <1>0, <2>1, <2>2, LoadFits
  <2>4. /\ text'.pc = "drop" /\ text'.kind = Order[i] /\ text'.ask = Load(Order[i])
        /\ UNCHANGED <<stored, world>> /\ text.pc = "idle"
    BY <1>2, <2>1, <2>2, <2>3, DropTurn DEF SayNo
  <2> QED
    BY <2>1, <2>2, <2>3, <2>4 DEF Begins
<1>3. ASSUME PressNo PROVE \E q \in AskIds : Begins("batch", q)
  <2> DEFINE q == IF mem["batch"] # 0 THEN mem["batch"] ELSE stored["batch"]
  <2>1. q \in AskIds /\ (q # 0 => Names(q, "batch"))
    BY <1>0, <1>k DEF TypeOK, Placed
  <2>2. /\ Forget("batch") /\ text' = Dropping("batch", q) /\ UNCHANGED <<stored, world>>
        /\ SetFate(q, "declined") /\ text.pc = "idle"
        /\ q = IF mem["batch"] # 0 THEN mem["batch"] ELSE stored["batch"]
    BY <1>3 DEF PressNo
  <2> HIDE DEF q
  <2>3. text'.pc = "drop" /\ text'.kind = "batch" /\ text'.ask = q
    BY <1>k, <2>1, <2>2, DropTurn
  <2> QED
    BY <2>1, <2>2, <2>3 DEF Begins
<1>4. ASSUME NEW k \in Kinds, AtHand(k), text.pc # "drop", Forget(k), UNCHANGED <<stored, world>>,
             text.ask # 0, SetFate(text.ask, "done"), text' = Dropping(k, text.ask),
             Names(text.ask, k)
      PROVE  Begins(k, text.ask)
  <2>1. text'.pc = "drop" /\ text'.kind = k /\ text'.ask = text.ask
    BY <1>0, <1>4, DropTurn
  <2> QED
    BY <1>4, <2>1 DEF Begins
<1>5. ASSUME Clear PROVE Begins("single", text.ask)
  BY <1>0, <1>k, <1>4, <1>5 DEF Clear, AtHand, Aware
<1>6. ASSUME ApplyEnd, ~text.failed PROVE Begins("batch", text.ask)
  BY <1>0, <1>k, <1>4, <1>6 DEF ApplyEnd, AtHand, Aware
<1>7. ASSUME ApplyEnd, text.failed PROVE Aside
  BY <1>0, <1>7, SameRecorded, IdleTurn DEF ApplyEnd, Aside, AtHand
<1>8. ASSUME StartBatch, text.pc \in {"idle", "look"} PROVE Reads("batch")
  <2>1. Load("batch") \in AskIds /\ Load("batch") # 0 /\ Names(Load("batch"), "batch")
    BY <1>0, <1>k, <1>8, LoadFits DEF StartBatch
  <2>2. asks[Load("batch")].dreams \in SUBSET Dreams
    <3>1. asks[Load("batch")] \in Requests
      BY <1>0, <2>1 DEF TypeOK, Names
    <3> QED
      BY <3>1 DEF Requests
  <2>3. text' = Applying(Load("batch"), asks[Load("batch")].dreams)
    BY <1>8 DEF StartBatch, Applying
  <2>4. text'.pc = "apply" /\ text'.ask = Load("batch")
    BY <2>1, <2>2, <2>3, ApplyTurn
  <2> QED
    BY <1>8, <2>1, <2>4 DEF StartBatch, Reads, AtHand
<1>9. ASSUME NEW aim \in Aims, StartSingle(aim), text.pc \in {"idle", "look"}
      PROVE  Reads("single")
  <2>1. Load("single") \in AskIds
    BY <1>0, <1>k, LoadFits
  <2>2. text' = Idle \/ (text' = Saving(Load("single"), aim) /\ Load("single") # 0)
    BY <1>9 DEF StartSingle, Saving
  <2>3. text'.pc = "idle" \/ (text'.pc = "save" /\ text'.ask = Load("single") /\ Load("single") # 0)
    BY <2>1, <2>2, SaveTurn, IdleTurn
  <2> QED
    BY <1>9, <2>3 DEF StartSingle, Reads, AtHand
<1>10. ASSUME Look PROVE Reads("batch") \/ Reads("single")
  <2>1. text.dream \in Aims
    BY <1>0 DEF Turns
  <2> QED
    BY <1>8, <1>9, <1>10, <2>1 DEF Look
<1>11. ASSUME Apply PROVE Aside
  <2>1. PICK d \in text.todo : text' = Ticked(text, d) \/ text' = Failing(text, d)
    BY <1>11 DEF Apply, Ticked, Failing
  <2>2. text'.pc = text.pc /\ text'.ask = text.ask
    BY <1>0, <2>1, TodoTurn, FailTurn
  <2>3. text.pc = "apply" /\ UNCHANGED <<mem, stored, asks, world>>
    BY <1>11 DEF Apply, pending
  <2> QED
    BY <1>0, <2>2, <2>3, SameRecorded DEF Aside, AtHand
<1>12. ASSUME Save PROVE Aside
  <2>1. text' = Idle \/ text' = Cleared(text)
    BY <1>12 DEF Save, Cleared
  <2>2. text'.pc = "idle" \/ (text'.pc = "clear" /\ text'.ask = text.ask)
    BY <1>0, <2>1, IdleTurn, ClearTurn
  <2>3. text.pc = "save" /\ UNCHANGED <<mem, stored, asks, world>>
    BY <1>12 DEF Save, pending
  <2> QED
    BY <1>0, <2>2, <2>3, SameRecorded DEF Aside, AtHand
<1>13. ASSUME Run PROVE Aside
  <2>1. text.pc = "run" /\ text.ask \in DOMAIN asks
    BY <1>0, <1>13 DEF Run, Aware
  <2>2. /\ Recorded /\ DOMAIN asks' = DOMAIN asks
        /\ \A q \in DOMAIN asks : asks'[q].fate = asks[q].fate
    BY <1>0, <1>13, <2>1, RunRecorded
  <2> QED
    BY <1>13, <2>1, <2>2, IdleTurn DEF Run, pending, Aside, AtHand
<1>14. \A k \in Kinds : Load(k) \in AskIds
  BY <1>0, LoadFits
<1>15. CASE \E k \in Kinds, q \in AskIds : Begins(k, q)
  BY <1>15, BeginsFaithful
<1>16. CASE \E k \in Kinds : Reads(k)
  BY <1>16, ReadsFaithful
<1>17. CASE Aside
  BY <1>17, AsideFaithful
<1>18. CASE Drop
  BY <1>18, DropFaithful
<1>19. (\E aim \in Aims : SayYes(aim)) \/ SayNo \/ PressNo \/ Clear \/ (ApplyEnd /\ ~text.failed)
         => \E k \in Kinds, q \in AskIds : Begins(k, q)
  BY <1>0, <1>k, <1>1, <1>2, <1>3, <1>5, <1>6, <1>14
<1>20. (\E aim \in Aims : SayThis(aim)) \/ PressYes \/ Look => \E k \in Kinds : Reads(k)
  BY <1>k, <1>8, <1>9, <1>10 DEF SayThis, PressYes
<1>21. Apply \/ Save \/ Run \/ (ApplyEnd /\ text.failed) => Aside
  BY <1>7, <1>11, <1>12, <1>13
<1> QED
  BY <1>15, <1>16, <1>17, <1>18, <1>19, <1>20, <1>21 DEF Answering

LEMMA AskFaithful ==
  ASSUME IInv, Faithful, NEW kind \in Kinds, NEW by \in {"text", "voice"}, NEW s \in SUBSET Dreams,
         Ask(kind, by, s)
  PROVE  Faithful' /\ Lasting
<1>0. TypeOK /\ Placed /\ Aware /\ "single" \in Kinds /\ DOMAIN asks \subseteq Nat
  BY DEF IInv, Kinds, TypeOK
<1>1. PICK q \in AskIds :
        /\ q = Len(asks) + 1 /\ q # 0 /\ q \notin DOMAIN asks
        /\ Recorded /\ DOMAIN asks' = DOMAIN asks \cup {q}
        /\ asks'[q] = [kind |-> kind, by |-> by, dreams |-> s, fate |-> "open", runs |-> 0]
        /\ \A x \in DOMAIN asks : asks'[x] = asks[x]
  BY <1>0, AskRecorded
<1>2. /\ mem' = [Heard(by) EXCEPT ![kind] = q]
      /\ UNCHANGED <<stored, redisUp, restarts, outages>>
      /\ \/ text' = text /\ by = "voice"
         \/ text' = Keeping(kind, q) /\ by = "text" /\ text.pc = "idle"
  BY <1>1 DEF Ask, Keeping, world
<1>3. \A j \in Kinds : /\ j = kind => mem'[j] = q
                       /\ j # kind => mem'[j] \in {mem[j]} \cup (IF by = "text" THEN {stored[j]} ELSE {})
  BY <1>0, <1>2 DEF Heard, Remembering, Load, TypeOK
<1>4. Keeping(kind, q).pc = "keep" /\ Keeping(kind, q).ask = q /\ Keeping(kind, q).kind = kind
  BY KeepTurn
<1>5. \A x \in DOMAIN asks : x # q /\ x < q /\ x # 0
  BY <1>0, <1>1 DEF TypeOK
<1>6. ASSUME NEW r \in DOMAIN asks, LastOfKind(r)'
      PROVE  LastOfKind(r) /\ asks[r].kind # kind
  <2>1. LastOfKind(r)
    BY <1>1, <1>6, LastEarlier
  <2>2. q <= r \/ asks[r].kind # kind
    BY <1>1, <1>6 DEF LastOfKind
  <2>3. ~(q <= r)
    BY <1>0, <1>1, <1>5
  <2> QED
    BY <2>1, <2>2, <2>3
<1>7. ASSUME NEW k \in Kinds, NEW r \in DOMAIN asks', stored[k] = r, LastOfKind(r)'
      PROVE  mem'[k] \in {0, r} /\ (AtHand(k)' => text' = text /\ AtHand(k))
             /\ r \in DOMAIN asks /\ LastOfKind(r)
  <2>1. r \in DOMAIN asks /\ asks[r].kind = k
    BY <1>0, <1>1, <1>5, <1>7 DEF Placed, Names
  <2>2. LastOfKind(r) /\ k # kind
    BY <1>6, <1>7, <2>1
  <2>3. mem[k] \in {0, r}
    BY <1>7, <2>1, <2>2 DEF Faithful, Shown
  <2> QED
    BY <1>2, <1>3, <1>4, <1>7, <2>1, <2>2, <2>3 DEF AtHand
<1>8. Shown'
  BY <1>2, <1>7 DEF Faithful, Shown, Blind
<1>9. Newest'
  <2>1. CASE text' = Keeping(kind, q) /\ by = "text"
    <3>1. \A x \in DOMAIN asks' : x <= q
      BY <1>1, <1>5, NoAsk
    <3> QED
      BY <1>1, <1>3, <1>4, <2>1, <3>1 DEF Newest, Answered
  <2>2. CASE text' = text /\ by = "voice"
    <3> SUFFICES ASSUME text.pc = "keep"
                 PROVE  /\ ~Answered(text.ask)'
                        /\ \A x \in DOMAIN asks' : asks'[x].kind = text.kind /\ Mine(x)' => x <= text.ask
                        /\ LastOfKind(text.ask)' => mem'[text.kind] \in {0, text.ask}
      BY <2>2 DEF Newest
    <3>1. text.ask \in DOMAIN asks /\ asks[text.ask].kind = text.kind /\ text.kind \in Kinds
      BY <1>0 DEF Aware, Names, TypeOK, Turns
    <3>2. ~Answered(text.ask)'
      BY <1>1, <2>2, <3>1 DEF Faithful, Newest, Answered, Mine
    <3>3. \A x \in DOMAIN asks' : asks'[x].kind = text.kind /\ Mine(x)' => x <= text.ask
      BY <1>1, <2>2 DEF Faithful, Newest, Mine
    <3>4. LastOfKind(text.ask)' => mem'[text.kind] \in {0, text.ask}
      BY <1>3, <1>6, <2>2, <3>1 DEF Faithful, Newest
    <3> QED
      BY <3>2, <3>3, <3>4
  <2> QED
    BY <1>2, <2>1, <2>2
<1>10. DropsAnswered'
  BY <1>0, <1>1, <1>2, <1>4 DEF Faithful, DropsAnswered, Aware
<1>11. AnsweredGone'
  <2> SUFFICES ASSUME restarts = 0, outages = 0, NEW r \in DOMAIN asks', Answered(r)'
               PROVE  Gone(r)'
    BY <1>2 DEF AnsweredGone
  <2>1. r \in DOMAIN asks /\ Answered(r)
    BY <1>1 DEF Answered, Mine
  <2>2. Gone(r) /\ r # q
    BY <1>1, <2>1 DEF Faithful, AnsweredGone
  <2> QED
    BY <1>2, <1>3, <2>2 DEF Gone
<1>12. Lasting
  BY <1>1, <1>2, <1>7 DEF Lasting
<1> QED
  BY <1>8, <1>9, <1>10, <1>11, <1>12 DEF Faithful

LEMMA KeepFaithful ==
  ASSUME IInv, Faithful, Keep
  PROVE  Faithful' /\ Lasting
<1>0. TypeOK /\ Placed /\ Aware
  BY DEF IInv
<1>1. /\ UNCHANGED <<mem, asks, restarts, outages>>
      /\ \A r \in DOMAIN asks : r # 0 /\ r \in Nat
  BY <1>0 DEF Keep, world, TypeOK
<1>2. \A r : (LastOfKind(r)' <=> LastOfKind(r)) /\ (Answered(r)' <=> Answered(r))
  BY <1>1 DEF LastOfKind, Answered, Mine
<1>3. CASE text.pc = "keep" /\ Stored(text.kind, text.ask) /\ text' = Idle
  <2>1. /\ text'.pc = "idle" /\ Names(text.ask, text.kind) /\ Mine(text.ask) /\ text.kind \in Kinds
        /\ \A j \in Kinds : stored'[j] \in {stored[j]} \cup (IF j = text.kind THEN {text.ask} ELSE {})
    BY <1>0, <1>3, IdleTurn DEF Aware, Stored, TypeOK, Turns
  <2>2. ASSUME NEW r \in DOMAIN asks, stored[text.kind] = r, LastOfKind(r)
        PROVE  text.ask = r
    <3>1. asks[r].kind = text.kind
      BY <1>0, <1>1, <2>1, <2>2 DEF Placed, Names
    <3>2. text.ask <= r /\ r <= text.ask
      BY <1>3, <2>1, <2>2, <3>1 DEF LastOfKind, Faithful, Newest, Names
    <3> QED
      BY <1>1, <2>1, <3>2 DEF Names
  <2>3. Shown'
    BY <1>1, <1>2, <1>3, <2>1 DEF Faithful, Shown, Newest, AtHand
  <2>4. Newest' /\ DropsAnswered'
    BY <2>1 DEF Newest, DropsAnswered
  <2>5. AnsweredGone'
    BY <1>1, <1>2, <1>3, <2>1 DEF Faithful, AnsweredGone, Newest, Gone
  <2>6. Lasting
    BY <1>1, <1>2, <2>1, <2>2 DEF Lasting, Faithful, Shown
  <2> QED
    BY <2>3, <2>4, <2>5, <2>6 DEF Faithful
<1>4. CASE voice.pc = "keep" /\ Stored(voice.kind, voice.ask) /\ UNCHANGED text
  <2>1. /\ Names(voice.ask, voice.kind) /\ ~Mine(voice.ask)
        /\ \A j \in Kinds : stored'[j] \in {stored[j]} \cup (IF j = voice.kind THEN {voice.ask} ELSE {})
    BY <1>0, <1>4 DEF Aware, Stored, TypeOK
  <2>2. ASSUME NEW k \in Kinds, NEW r \in DOMAIN asks, LastOfKind(r), r \in {stored[k], stored'[k]}
        PROVE  stored[k] = r /\ stored'[k] = r
    <3>1. r # voice.ask
      BY <2>1, <2>2 DEF LastOfKind
    <3>2. stored[k] = r
      BY <2>1, <2>2, <3>1
    <3>3. asks[r].kind = k
      BY <1>0, <1>1, <3>2 DEF Placed, Names
    <3>4. k # voice.kind
      BY <2>1, <2>2, <3>3 DEF LastOfKind, Names
    <3> QED
      BY <2>1, <3>2, <3>4
  <2>3. Shown'
    BY <1>1, <1>2, <1>4, <2>2 DEF Faithful, Shown, AtHand, Blind
  <2>4. Newest' /\ DropsAnswered'
    BY <1>1, <1>2, <1>4 DEF Faithful, Newest, DropsAnswered, Mine
  <2>5. AnsweredGone'
    BY <1>1, <1>2, <1>4, <2>1 DEF Faithful, AnsweredGone, Gone, Answered
  <2>6. Lasting
    BY <1>1, <1>2, <2>2 DEF Lasting, Faithful, Shown
  <2> QED
    BY <2>3, <2>4, <2>5, <2>6 DEF Faithful
<1> QED
  BY <1>3, <1>4 DEF Keep

LEMMA LapseFaithful ==
  ASSUME IInv, Faithful, NEW kind \in Kinds, Lapse(kind)
  PROVE  Faithful' /\ Lasting
<1>0. TypeOK /\ Aware
  BY DEF IInv
<1>1. /\ Recorded /\ DOMAIN asks' = DOMAIN asks
      /\ \A q \in DOMAIN asks :
           asks'[q].fate = asks[q].fate \/ (asks[q].fate = "open" /\ asks'[q].fate = "lapsed")
  BY <1>0, LapseRecorded
<1>2. /\ UNCHANGED <<text, restarts, outages>>
      /\ \A j \in Kinds : /\ mem'[j] \in {0, mem[j]}
                          /\ stored'[j] = IF j = kind THEN 0 ELSE stored[j]
      /\ \A r \in DOMAIN asks : r # 0
  BY <1>0 DEF Lapse, Forget, TypeOK, world
<1>3. \A r \in DOMAIN asks : /\ LastOfKind(r)' => LastOfKind(r)
                             /\ Answered(r)' => Answered(r)
  BY <1>1, LastEarlier DEF Answered, Mine, Recorded
<1>4. Shown'
  BY <1>1, <1>2, <1>3 DEF Faithful, Shown, AtHand, Blind
<1>5. Newest'
  <2> SUFFICES ASSUME text.pc = "keep"
               PROVE  /\ ~Answered(text.ask)'
                      /\ \A q \in DOMAIN asks : asks'[q].kind = text.kind /\ Mine(q)' => q <= text.ask
                      /\ LastOfKind(text.ask)' => mem'[text.kind] \in {0, text.ask}
    BY <1>1, <1>2 DEF Newest
  <2>1. text.ask \in DOMAIN asks /\ text.kind \in Kinds
    BY <1>0 DEF Aware, TypeOK, Turns
  <2> QED
    BY <1>1, <1>2, <1>3, <2>1 DEF Faithful, Newest, Recorded, Mine
<1>6. DropsAnswered'
  BY <1>0, <1>1, <1>2 DEF Faithful, DropsAnswered, Aware
<1>7. AnsweredGone'
  BY <1>1, <1>2, <1>3 DEF Faithful, AnsweredGone, Gone
<1>8. ASSUME NEW r \in DOMAIN asks, stored[kind] = r, mem'[kind] # r
      PROVE  asks'[r].fate # "open"
  <2>1. asks[r] \in Requests
    BY <1>0 DEF TypeOK
  <2>2. asks[r].fate = "open" => asks'[r] = [asks[r] EXCEPT !.fate = "lapsed"]
    BY <1>2, <1>8 DEF Lapse
  <2>3. asks[r].fate = "open" => asks'[r].fate = "lapsed"
    BY <2>1, <2>2 DEF Requests
  <2> QED
    BY <1>1, <2>3
<1>9. Lasting
  BY <1>1, <1>2, <1>3, <1>8 DEF Lasting, Faithful, Shown
<1> QED
  BY <1>4, <1>5, <1>6, <1>7, <1>9 DEF Faithful

LEMMA NextFaithful == OnceInv /\ Faithful /\ [Next]_vars => Faithful' /\ (Lasting \/ UNCHANGED vars)
<1> SUFFICES ASSUME OnceInv, Faithful, [Next]_vars PROVE Faithful' /\ (Lasting \/ UNCHANGED vars)
  OBVIOUS
<1>0. IInv /\ Once /\ TypeOK /\ outages \in Nat /\ restarts \in Nat /\ "single" \in Kinds
  BY DEF OnceInv, IInv, TypeOK, Kinds
<1>1. CASE Answering
  BY <1>0, <1>1, AnsweringFaithful
<1>2. CASE Speaking
  <2>1. CASE \E s \in SUBSET Dreams : AskBatch(s)
    BY <1>0, <2>1, AskFaithful DEF AskBatch, Kinds
  <2>2. CASE \E by \in {"text", "voice"} : AskInterpretation(by) \/ HoldNote(by)
    <3>1. {} \in SUBSET Dreams
      OBVIOUS
    <3> QED
      BY <1>0, <2>2, <3>1, AskFaithful DEF AskInterpretation, HoldNote, Kinds
  <2>3. CASE Say
    <3>1. Reads("single")
      BY <1>0, <2>3 DEF Say, Heard, Reads, AtHand
    <3> QED
      BY <1>0, <3>1, ReadsFaithful
  <2>4. CASE Keep
    BY <1>0, <2>4, KeepFaithful
  <2> QED
    BY <1>2, <2>1, <2>2, <2>3, <2>4 DEF Speaking
<1>3. CASE World
  <2>1. CASE Restart
    <3>1. /\ \A k \in Kinds : mem'[k] = 0
          /\ UNCHANGED <<stored, asks>> /\ restarts' # 0 /\ text'.pc = "idle"
      BY <1>0, <2>1, IdleTurn DEF Restart
    <3>2. \A r : LastOfKind(r)' <=> LastOfKind(r)
      BY <3>1 DEF LastOfKind, Mine
    <3> QED
      BY <3>1, <3>2 DEF Faithful, Shown, Newest, DropsAnswered, AnsweredGone, AtHand, Lasting
  <2>2. CASE RedisFails \/ RedisReturns
    <3>1. /\ UNCHANGED <<mem, stored, asks, text, restarts>>
          /\ outages' > 0 \/ UNCHANGED outages
          /\ outages > 0 => outages' > 0
      BY <1>0, <2>2 DEF RedisFails, RedisReturns, pending
    <3>2. \A r : (LastOfKind(r)' <=> LastOfKind(r)) /\ (Answered(r)' <=> Answered(r))
      BY <3>1 DEF LastOfKind, Answered, Mine
    <3>3. Shown'
      BY <3>1, <3>2 DEF Faithful, Shown, AtHand, Blind
    <3>4. Newest' /\ DropsAnswered'
      BY <3>1, <3>2 DEF Faithful, Newest, DropsAnswered, Mine
    <3>5. AnsweredGone'
      BY <1>0, <3>1, <3>2 DEF Faithful, AnsweredGone, Gone
    <3>6. Lasting
      BY <3>1, <3>2 DEF Lasting, Faithful, Shown
    <3> QED
      BY <3>3, <3>4, <3>5, <3>6 DEF Faithful
  <2>3. CASE \E k \in Kinds : Lapse(k)
    BY <1>0, <2>3, LapseFaithful
  <2> QED
    BY <1>3, <2>1, <2>2, <2>3 DEF World
<1>4. CASE UNCHANGED vars
  BY <1>4 DEF vars, pending, world, Faithful, Shown, Newest, DropsAnswered, AnsweredGone, Gone,
              AtHand, Blind, LastOfKind, Answered, Mine
<1> QED
  BY <1>1, <1>2, <1>3, <1>4 DEF Next

(* The last request of a kind stays in Redis, or in the memory that has read *)
(* it back, until it is answered or has lapsed, through restarts and outages, *)
(* and an answered one is forgotten (the two copies of session.py under the  *)
(* handlers' order of pop, delete and act).                                  *)
THEOREM OpenRequestsLast == Spec => KeptUntilAnswered
<1>1. Init => OnceInv /\ Faithful
  <2>1. Init => Faithful
    BY DEF Init, Faithful, Shown, Newest, DropsAnswered, AnsweredGone, Idle
  <2> QED
    BY <2>1, InitInv, OnceInit DEF OnceInv
<1>2. OnceInv /\ Faithful /\ [Next]_vars => (OnceInv /\ Faithful)'
  BY NextInv, OnceStep, NextFaithful DEF OnceInv
<1>3. Faithful => AnsweredForgotten
  BY DEF Faithful, AnsweredGone, AnsweredForgotten, Gone, Held
<1>4. Faithful' => AnsweredForgotten'
  BY <1>3, PTL
<1>5. OnceInv /\ Faithful /\ [Next]_vars =>
        [/\ AnsweredForgotten'
         /\ \A k \in Kinds, r \in DOMAIN asks :
              /\ stored[k] = r /\ (k = "interpretation" => outages' = 0)
              /\ asks'[r].fate = "open" /\ LastOfKind(r)'
              => mem'[k] \in {0, r} /\ (stored'[k] = r \/ mem'[k] = r)]_vars
  BY <1>4, NextFaithful DEF Lasting
<1> QED
  BY <1>1, <1>2, <1>5, PTL DEF Spec, KeptUntilAnswered

-----------------------------------------------------------------------------
(* The history of a chat (module History, which shares no state with the       *)
(* requests): its newest exchange survives stale readers, for any number of    *)
(* turns, any length of a conversation and any bound on the answers.          *)

Histories  == [told : Seq(Nat), stamp : Nat]
TurnStages == {"rest", "delete", "answer"}

HistoryTypeOK ==
  /\ row \in Histories
  /\ turn \in [TurnIds -> [at : TurnStages, told : Seq(Nat), seen : Nat]]
  /\ exchanges \in Nat /\ stamps \in Nat /\ oldest \in Nat
  /\ last \in [exchange : Nat, stamp : Nat]

(* As long as it has not expired, the row is the one that was written last.    *)
RowIsLast ==
  last.stamp # 0 /\ ~Expired(last.stamp) =>
    /\ row.stamp = last.stamp
    /\ \E i \in DOMAIN row.told : row.told[i] = last.exchange

HistoryIInv == HistoryTypeOK /\ last.stamp <= stamps /\ RowIsLast

-----------------------------------------------------------------------------
\* What is kept of a conversation ends with its newest exchange (save_history).
LEMMA NewestEndsWith ==
  ASSUME MaxKept \in Nat \ {0}, NEW s \in Seq(Nat), NEW e \in Nat
  PROVE  /\ NewestOf(Append(s, e)) \in Seq(Nat)
         /\ \E i \in DOMAIN NewestOf(Append(s, e)) : NewestOf(Append(s, e))[i] = e
<1> DEFINE t == Append(s, e)
           from == IF Len(t) > MaxKept THEN Len(t) - MaxKept + 1 ELSE 1
<1>1. t \in Seq(Nat) /\ Len(t) = Len(s) + 1 /\ Len(t) \in Nat /\ t[Len(t)] = e
  OBVIOUS
<1>2. from \in 1..Len(t)
  BY <1>1
<1>3. NewestOf(t) = SubSeq(t, from, Len(t))
  BY DEF NewestOf
<1> HIDE DEF from, t
<1>4. /\ SubSeq(t, from, Len(t)) \in Seq(Nat)
      /\ Len(SubSeq(t, from, Len(t))) = Len(t) - from + 1
      /\ SubSeq(t, from, Len(t))[Len(t) - from + 1] = t[Len(t)]
  BY <1>1, <1>2
<1>5. Len(t) - from + 1 \in DOMAIN NewestOf(t) /\ NewestOf(t)[Len(t) - from + 1] = e
  BY <1>1, <1>2, <1>3, <1>4
<1>6. QED
  BY <1>3, <1>4, <1>5 DEF t

LEMMA HistoryBegins == HistoryInit => HistoryIInv
BY DEF HistoryInit, HistoryIInv, HistoryTypeOK, Histories, TurnStages, RowIsLast, NoRow, Rest

LEMMA HistoryGoesOn ==
  ASSUME MaxKept \in Nat \ {0}, HistoryIInv, [HistoryNext]_historyVars
  PROVE  HistoryIInv'
<1> USE DEF HistoryIInv, HistoryTypeOK
<1>1. ASSUME NEW t \in TurnIds, LoadHistory(t) PROVE HistoryIInv'
  BY <1>1 DEF LoadHistory, Histories, TurnStages, RowIsLast, Expired
<1>2. ASSUME NEW t \in TurnIds, DeleteHistory(t) PROVE HistoryIInv'
  <2>1. turn' \in [TurnIds -> [at : TurnStages, told : Seq(Nat), seen : Nat]]
    BY <1>2 DEF DeleteHistory, TurnStages
  <2>2. row' \in Histories
    BY <1>2 DEF DeleteHistory, NoRow, Histories
  <2>3. RowIsLast'
    BY <1>2 DEF DeleteHistory, RowIsLast, Expired, Histories
  <2>4. QED
    BY <1>2, <2>1, <2>2, <2>3 DEF DeleteHistory
<1>3. ASSUME NEW t \in TurnIds, SaveHistory(t) PROVE HistoryIInv'
  <2>1. exchanges' \in Nat /\ stamps' \in Nat /\ turn[t].told \in Seq(Nat)
    BY <1>3 DEF SaveHistory
  <2>2. /\ row'.told \in Seq(Nat) /\ row' \in Histories /\ row'.stamp = stamps'
        /\ \E i \in DOMAIN row'.told : row'.told[i] = exchanges'
    <3>1. row' = [told |-> NewestOf(Append(turn[t].told, exchanges')), stamp |-> stamps']
      BY <1>3 DEF SaveHistory
    <3> DEFINE s == turn[t].told
               e == exchanges'
    <3>2. s \in Seq(Nat) /\ e \in Nat
      BY <2>1
    <3> HIDE DEF s, e
    <3>3. /\ NewestOf(Append(s, e)) \in Seq(Nat)
          /\ \E i \in DOMAIN NewestOf(Append(s, e)) : NewestOf(Append(s, e))[i] = e
      BY <3>2, NewestEndsWith
    <3>4. row'.told = NewestOf(Append(s, e))
      BY <3>1 DEF s, e
    <3>5. QED
      BY <2>1, <3>1, <3>3, <3>4 DEF Histories, e
  <2>3. turn' \in [TurnIds -> [at : TurnStages, told : Seq(Nat), seen : Nat]]
    BY <1>3 DEF SaveHistory, TurnStages, Rest
  <2>4. QED
    BY <1>3, <2>1, <2>2, <2>3 DEF SaveHistory, RowIsLast
<1>4. ASSUME NEW t \in TurnIds, Fails(t) PROVE HistoryIInv'
  BY <1>4 DEF Fails, Histories, TurnStages, Rest, RowIsLast, Expired
<1>5. CASE Week
  BY <1>5 DEF Week, RowIsLast, Expired
<1>6. CASE UNCHANGED historyVars
  BY <1>6 DEF historyVars, RowIsLast, Expired
<1>7. QED
  BY <1>1, <1>2, <1>3, <1>4, <1>5, <1>6 DEF HistoryNext

\* "The new history must survive instead of being removed by a stale reader"
\* (session.py): deleting by time stamp is enough, however many turns of updates and
\* of the voice worker read, delete and save at once.
THEOREM NewHistorySurvives ==
  ASSUME MaxKept \in Nat \ {0}
  PROVE  HistorySpec => []FreshHistorySurvives
<1>1. HistoryIInv /\ [HistoryNext]_historyVars => HistoryIInv'
  BY HistoryGoesOn
<1>2. HistoryIInv => FreshHistorySurvives
  BY DEF HistoryIInv, RowIsLast, FreshHistorySurvives
<1>3. QED
  BY <1>1, <1>2, HistoryBegins, PTL DEF HistorySpec

-----------------------------------------------------------------------------
(* Notes.  Who writes a line, and what the outbox knows of a note it writes:  *)
(* every line of the bot is a note that came by Telegram through the outbox,   *)
(* every job to write one is of such a note, and a job has one worker.         *)

Authors  == {ByHand} \cup Asked
DocLines == [p : Paragraphs(Nat, Nat), of : Entries, by : Authors, styled : BOOLEAN]

ByBot(n) == n \in Asked \ OldNotes /\ n \in DOMAIN noteRows /\ noteRows[n] = "telegram"

DocumentOK == doc \in Seq(DocLines) /\ \A i \in DOMAIN doc : doc[i].by # ByHand => ByBot(doc[i].by)

RowsOK == OldNotes \subseteq DOMAIN noteRows /\ \A n \in DOMAIN noteRows : n = <<n[1], n[2]>>

JobStates ==
  [status : {"pending", "running", "retryable", "succeeded", "failed"}, attempts : Nat]

JobsOK == \A j \in DOMAIN job :
  /\ j = <<j[1], j[2]>> /\ j[2] \in Stages /\ job[j] \in JobStates
  /\ j[2] = "gdocs" => ByBot(j[1])

CallsOK == call \in [Calls -> [pc : {"new"}] \cup [pc : {"insert", "end"}, note : Asked]]

Spots == 1..(Len(doc) + 1)

Busy(w) ==
  /\ run[w].job \in DOMAIN job /\ job[run[w].job].status = "running"
  /\ run[w].pc \in {"get", "put"} => run[w].job[2] = "gdocs"
  /\ run[w].pc = "put" => run[w].at \in Spots

WorkOK ==
  /\ run = [w \in Workers |-> run[w]]
  /\ \A w \in Workers : run[w].pc # "idle" => Busy(w)

OneWorker ==
  \A v, w \in Workers : run[v].pc # "idle" /\ run[w].pc # "idle" /\ run[v].job = run[w].job => v = w

AdriftOK == \A r \in adrift : ByBot(r.note) /\ r.at \in Spots

NotesIInv ==
  /\ DocumentOK /\ RowsOK /\ JobsOK /\ CallsOK
  /\ WorkOK /\ OneWorker /\ AdriftOK /\ AcceptedIsOwed

(* While a note is about to be written, it is not in the document, and no other *)
(* request writes it.                                                         *)
OnceInDoc == \A n \in Asked : \A i, k \in LinesBy(n) : i = k

OneWriter ==
  /\ \A w \in Workers : run[w].pc = "put" => ~Marked(run[w].job[1])
  /\ \A r \in adrift :
       /\ ~Marked(r.note)
       /\ \A w \in Workers : run[w].pc \in {"get", "put"} => run[w].job[1] # r.note
  /\ \A r, s \in adrift : r.note = s.note => r = s

-----------------------------------------------------------------------------
(* The document.                                                            *)

\* The least of a set of numbers: of the initial segments up to its members, the
\* smallest by inclusion.
LEMMA LeastIn ==
  ASSUME NEW T \in SUBSET Nat, T # {}
  PROVE  Least(T) \in T
<1> DEFINE upTo == {0..n : n \in T}
           within == StrictSubsetOrdering(Nat)
<1>1. IsWellFoundedOn(within, FiniteSubsetsOf(Nat))
  BY FS_StrictSubsetOrderingWellFounded
<1>2. upTo \subseteq FiniteSubsetsOf(Nat) /\ upTo # {}
  <2>1. ASSUME NEW n \in T PROVE 0..n \in FiniteSubsetsOf(Nat)
    BY FS_Interval DEF FiniteSubsetsOf
  <2> QED
    BY <2>1
<1>3. PICK s \in upTo : \A t \in upTo : <<t, s>> \notin within
  <2> HIDE DEF upTo, within
  <2> QED
    BY <1>1, <1>2, WFMin
<1>4. PICK n \in T : s = 0..n
  OBVIOUS
<1>5. ASSUME NEW m \in T, m < n PROVE FALSE
  <2>1. 0..m \subseteq 0..n /\ n \notin 0..m /\ n \in 0..n /\ 0..m \in SUBSET Nat /\ 0..n \in SUBSET Nat
    BY <1>5
  <2>2. <<0..m, 0..n>> \in within
    BY <2>1 DEF StrictSubsetOrdering
  <2> QED
    BY <1>3, <1>4, <2>2
<1>6. \A m \in T : n <= m
  BY <1>5
<1> QED
  BY <1>6 DEF Least

LEMMA DocSize ==
  ASSUME doc \in Seq(DocLines)
  PROVE  Len(doc) \in Nat /\ DOMAIN doc = 1..Len(doc) /\ doc \in [1..Len(doc) -> DocLines]
BY LenProperties

LEMMA PlacesFit ==
  ASSUME doc \in Seq(DocLines), NEW d
  PROVE  Places(d) \subseteq Spots
<1>1. Len(doc) \in Nat /\ DOMAIN doc = 1..Len(doc)
  BY DocSize
<1>2. ASSUME NEW h PROVE SectionEnd(h) \in Spots
  <2> DEFINE next == {i \in DOMAIN doc : i > h /\ doc[i].styled}
  <2>1. next \in SUBSET Nat /\ next \subseteq Spots /\ Len(doc) + 1 \in Spots
    BY <1>1 DEF Spots
  <2>2. next # {} => Least(next) \in next
    BY <2>1, LeastIn
  <2>3. SectionEnd(h) = IF next = {} THEN Len(doc) + 1 ELSE Least(next)
    BY DEF SectionEnd
  <2> HIDE DEF next
  <2> QED
    BY <2>1, <2>2, <2>3
<1> QED
  BY <1>2 DEF Places

LEMMA Indexed ==
  ASSUME doc \in Seq(DocLines), NEW date
  PROVE  InsertIndex([i \in DOMAIN doc |-> doc[i].p], date) \in Spots
<1> DEFINE ps == [i \in DOMAIN doc |-> doc[i].p]
<1>1. Len(doc) \in Nat /\ DOMAIN ps = 1..Len(doc)
  BY DocSize
<1>2. Len(ps) = Len(doc)
  BY <1>1
<1> HIDE DEF ps
<1> DEFINE S == {i \in 1..Len(ps) : \A j \in 1..i : ps[j].date <= date}
<1>3. S \in SUBSET (1..Len(doc))
  BY <1>2
<1>4. InsertIndex(ps, date) = 1 + Cardinality(S)
  BY DEF InsertIndex
<1> HIDE DEF S
<1>5. IsFiniteSet(1..Len(doc)) /\ Cardinality(1..Len(doc)) = Len(doc)
  BY <1>1, FS_Interval
<1>6. Cardinality(S) \in Nat /\ Cardinality(S) <= Len(doc)
  BY <1>3, <1>5, FS_Subset, FS_CardinalityType
<1>7. InsertIndex(ps, date) \in Spots
  BY <1>1, <1>4, <1>6 DEF Spots
<1> QED
  BY <1>7 DEF ps

\* What a line of the document was before other lines were put in at an index.
LEMMA SplicedAt ==
  ASSUME doc \in Seq(DocLines), NEW new \in Seq(DocLines), NEW at \in Spots
  PROVE  /\ Spliced(at, new) \in Seq(DocLines)
         /\ Len(Spliced(at, new)) = Len(doc) + Len(new)
         /\ \A k \in 1..(Len(doc) + Len(new)) :
              Spliced(at, new)[k] = IF k < at THEN doc[k]
                                    ELSE IF k < at + Len(new) THEN new[k - at + 1]
                                    ELSE doc[k - Len(new)]
<1> DEFINE front == SubSeq(doc, 1, at - 1)
           back  == SubSeq(doc, at, Len(doc))
<1>1. Len(doc) \in Nat /\ Len(new) \in Nat /\ at \in Nat /\ 1 <= at /\ at <= Len(doc) + 1
  BY LenProperties DEF Spots
<1>2. /\ front \in Seq(DocLines) /\ Len(front) = at - 1
      /\ \A i \in 1..(at - 1) : front[i] = doc[i]
  BY <1>1, SubSeqProperties
<1>3. /\ back \in Seq(DocLines) /\ Len(back) = Len(doc) - at + 1
      /\ \A i \in 1..(Len(doc) - at + 1) : back[i] = doc[at + i - 1]
  BY <1>1, SubSeqProperties
<1>4. Spliced(at, new) = (front \o new) \o back
  BY DEF Spliced
<1> HIDE DEF front, back
<1>5. /\ front \o new \in Seq(DocLines) /\ Len(front \o new) = at - 1 + Len(new)
      /\ \A i \in 1..(at - 1 + Len(new)) :
           (front \o new)[i] = IF i <= at - 1 THEN front[i] ELSE new[i - (at - 1)]
  BY <1>1, <1>2, ConcatProperties
<1> DEFINE most == front \o new
<1>6. most \in Seq(DocLines) /\ Len(most) = at - 1 + Len(new)
  BY <1>5
<1> HIDE DEF most
<1>7. /\ most \o back \in Seq(DocLines) /\ Len(most \o back) = Len(doc) + Len(new)
      /\ \A i \in 1..(Len(doc) + Len(new)) :
           (most \o back)[i] = IF i <= at - 1 + Len(new) THEN most[i] ELSE back[i - (at - 1 + Len(new))]
  <2>0. most \in Seq(DocLines) /\ back \in Seq(DocLines)
    BY <1>3, <1>6
  <2>1. /\ most \o back \in Seq(DocLines) /\ Len(most \o back) = Len(most) + Len(back)
        /\ \A i \in 1..(Len(most) + Len(back)) :
             (most \o back)[i] = IF i <= Len(most) THEN most[i] ELSE back[i - Len(most)]
    BY <2>0, ConcatProperties
  <2>2. Len(most) + Len(back) = Len(doc) + Len(new)
    BY <1>1, <1>3, <1>6
  <2> QED
    BY <1>6, <2>1, <2>2
<1>8. Spliced(at, new) = most \o back
  BY <1>4 DEF most
<1>9. ASSUME NEW k \in 1..(Len(doc) + Len(new))
      PROVE  (most \o back)[k] = IF k < at THEN doc[k]
                                 ELSE IF k < at + Len(new) THEN new[k - at + 1]
                                 ELSE doc[k - Len(new)]
  <2>1. CASE k < at
    <3>1. (most \o back)[k] = most[k]
      BY <1>1, <1>7, <2>1
    <3>2. most[k] = front[k]
      BY <1>1, <1>5, <2>1 DEF most
    <3> QED
      BY <1>1, <1>2, <2>1, <3>1, <3>2
  <2>2. CASE ~(k < at) /\ k < at + Len(new)
    <3>1. (most \o back)[k] = most[k]
      BY <1>1, <1>7, <2>2
    <3>2. most[k] = new[k - (at - 1)]
      BY <1>1, <1>5, <2>2 DEF most
    <3>3. k - (at - 1) = k - at + 1
      BY <1>1
    <3> QED
      BY <2>2, <3>1, <3>2, <3>3
  <2>3. CASE ~(k < at + Len(new))
    <3>1. (most \o back)[k] = back[k - (at - 1 + Len(new))]
      BY <1>1, <1>7, <2>3
    <3>2. back[k - (at - 1 + Len(new))] = doc[at + (k - (at - 1 + Len(new))) - 1]
      BY <1>1, <1>3, <2>3
    <3>3. at + (k - (at - 1 + Len(new))) - 1 = k - Len(new)
      BY <1>1
    <3>4. ~(k < at)
      BY <1>1, <2>3
    <3> QED
      BY <2>3, <3>1, <3>2, <3>3, <3>4
  <2> QED
    BY <2>1, <2>2, <2>3
<1> QED
  BY <1>7, <1>8, <1>9

\* A line of the document came from the lines put in or was there before.
LEMMA SplicedLines ==
  ASSUME doc \in Seq(DocLines), NEW new \in Seq(DocLines), NEW at \in Spots,
         doc' = Spliced(at, new)
  PROVE  /\ doc' \in Seq(DocLines) /\ Spots \subseteq Spots'
         /\ \A k \in DOMAIN doc' :
              (\E i \in DOMAIN new : doc'[k] = new[i]) \/ (\E i \in DOMAIN doc : doc'[k] = doc[i])
<1>1. Len(doc) \in Nat /\ Len(new) \in Nat /\ at \in Nat /\ 1 <= at /\ at <= Len(doc) + 1
  BY LenProperties DEF Spots
<1>2. /\ doc' \in Seq(DocLines) /\ Len(doc') = Len(doc) + Len(new)
      /\ \A k \in 1..(Len(doc) + Len(new)) :
           doc'[k] = IF k < at THEN doc[k] ELSE IF k < at + Len(new) THEN new[k - at + 1]
                     ELSE doc[k - Len(new)]
  BY SplicedAt
<1>3. DOMAIN doc = 1..Len(doc) /\ DOMAIN new = 1..Len(new) /\ DOMAIN doc' = 1..(Len(doc) + Len(new))
  BY <1>2, LenProperties
<1>4. ASSUME NEW k \in DOMAIN doc'
      PROVE  (\E i \in DOMAIN new : doc'[k] = new[i]) \/ (\E i \in DOMAIN doc : doc'[k] = doc[i])
  <2>1. CASE k < at
    BY <1>1, <1>2, <1>3, <2>1
  <2>2. CASE ~(k < at) /\ k < at + Len(new)
    <3>1. k - at + 1 \in DOMAIN new /\ doc'[k] = new[k - at + 1]
      BY <1>1, <1>2, <1>3, <2>2
    <3> QED
      BY <3>1
  <2>3. CASE ~(k < at) /\ ~(k < at + Len(new))
    <3>1. k - Len(new) \in DOMAIN doc /\ doc'[k] = doc[k - Len(new)]
      BY <1>1, <1>2, <1>3, <2>3
    <3> QED
      BY <3>1
  <2> QED
    BY <2>1, <2>2, <2>3
<1>5. Spots \subseteq Spots'
  BY <1>1, <1>2 DEF Spots
<1> QED
  BY <1>2, <1>4, <1>5

\* Lines of others leave the lines of a note as many as they were.
LEMMA SplicedKeeps ==
  ASSUME doc \in Seq(DocLines), NEW new \in Seq(DocLines), NEW at \in Spots,
         doc' = Spliced(at, new), NEW n, \A i, k \in LinesBy(n) : i = k,
         \A i \in DOMAIN new : new[i].by # n
  PROVE  \A i, k \in LinesBy(n)' : i = k
<1>1. Len(doc) \in Nat /\ Len(new) \in Nat /\ at \in Nat /\ 1 <= at /\ at <= Len(doc) + 1
  BY LenProperties DEF Spots
<1>2. /\ doc' \in Seq(DocLines) /\ Len(doc') = Len(doc) + Len(new)
      /\ \A k \in 1..(Len(doc) + Len(new)) :
           doc'[k] = IF k < at THEN doc[k] ELSE IF k < at + Len(new) THEN new[k - at + 1]
                     ELSE doc[k - Len(new)]
  BY SplicedAt
<1>3. DOMAIN doc = 1..Len(doc) /\ DOMAIN new = 1..Len(new) /\ DOMAIN doc' = 1..(Len(doc) + Len(new))
  BY <1>2, LenProperties
<1> DEFINE was(k) == IF k < at THEN k ELSE k - Len(new)
<1>4. ASSUME NEW k \in LinesBy(n)'
      PROVE  k \in Nat /\ was(k) \in LinesBy(n) /\ (k < at \/ k >= at + Len(new))
  <2>1. k \in DOMAIN doc' /\ doc'[k].by = n /\ doc'[k].p.form = "note"
    BY DEF LinesBy
  <2>2. CASE k < at
    <3>1. k \in DOMAIN doc /\ doc'[k] = doc[k]
      BY <1>1, <1>2, <1>3, <2>1, <2>2
    <3> QED
      BY <1>3, <2>1, <2>2, <3>1 DEF LinesBy
  <2>3. CASE ~(k < at) /\ k < at + Len(new)
    <3>1. k - at + 1 \in DOMAIN new /\ doc'[k] = new[k - at + 1]
      BY <1>1, <1>2, <1>3, <2>1, <2>3
    <3> QED
      BY <2>1, <3>1
  <2>4. CASE ~(k < at) /\ ~(k < at + Len(new))
    <3>1. k - Len(new) \in DOMAIN doc /\ doc'[k] = doc[k - Len(new)] /\ k \in Nat /\ k >= at + Len(new)
      BY <1>1, <1>2, <1>3, <2>1, <2>4
    <3> QED
      BY <2>1, <2>4, <3>1 DEF LinesBy
  <2> QED
    BY <2>2, <2>3, <2>4
<1>5. ASSUME NEW i \in LinesBy(n)', NEW k \in LinesBy(n)' PROVE i = k
  <2>1. was(i) = was(k)
    BY <1>4
  <2> QED
    BY <1>1, <1>4, <2>1
<1> QED
  BY <1>5

\* A note that is not in the document is there once after it was written.
LEMMA SplicedOnce ==
  ASSUME doc \in Seq(DocLines), NEW n \in Asked, NoteLines(n, n) \in Seq(DocLines), NEW at \in Spots,
         doc' = Spliced(at, NoteLines(n, n)), ~Marked(n)
  PROVE  \A i, k \in LinesBy(n)' : i = k
<1> DEFINE new == NoteLines(n, n)
<1>1. Len(doc) \in Nat /\ Len(new) \in Nat /\ at \in Nat /\ 1 <= at /\ at <= Len(doc) + 1
  BY LenProperties DEF Spots
<1>2. /\ doc' \in Seq(DocLines) /\ Len(doc') = Len(doc) + Len(new)
      /\ \A k \in 1..(Len(doc) + Len(new)) :
           doc'[k] = IF k < at THEN doc[k] ELSE IF k < at + Len(new) THEN new[k - at + 1]
                     ELSE doc[k - Len(new)]
  BY SplicedAt
<1>3. DOMAIN doc = 1..Len(doc) /\ DOMAIN new = 1..Len(new) /\ DOMAIN doc' = 1..(Len(doc) + Len(new))
  BY <1>2, LenProperties
<1>4. \A i \in DOMAIN new : new[i].p.form = "note" => i = 1
  BY DEF NoteLines, Line, NoteLine, MoreLine
<1>5. \A i \in DOMAIN doc : doc[i].by # n
  BY DEF Marked
<1> HIDE DEF new
<1>6. ASSUME NEW k \in LinesBy(n)' PROVE k = at
  <2>1. k \in DOMAIN doc' /\ doc'[k].by = n /\ doc'[k].p.form = "note"
    BY DEF LinesBy
  <2>2. CASE k < at
    <3>1. k \in DOMAIN doc /\ doc'[k] = doc[k]
      BY <1>1, <1>2, <1>3, <2>1, <2>2
    <3> QED
      BY <1>5, <2>1, <3>1
  <2>3. CASE ~(k < at) /\ k < at + Len(new)
    <3>1. k - at + 1 \in DOMAIN new /\ doc'[k] = new[k - at + 1]
      BY <1>1, <1>2, <1>3, <2>1, <2>3
    <3>2. k - at + 1 = 1
      BY <1>4, <2>1, <3>1
    <3> QED
      BY <1>1, <1>3, <2>1, <3>2
  <2>4. CASE ~(k < at) /\ ~(k < at + Len(new))
    <3>1. k - Len(new) \in DOMAIN doc /\ doc'[k] = doc[k - Len(new)]
      BY <1>1, <1>2, <1>3, <2>1, <2>4
    <3> QED
      BY <1>5, <2>1, <3>1
  <2> QED
    BY <2>2, <2>3, <2>4
<1> QED
  BY <1>6

LEMMA NoteSeq ==
  ASSUME NEW n \in Asked, NEW by \in Authors
  PROVE  /\ NoteLines(n, by) \in Seq(DocLines)
         /\ \A i \in DOMAIN NoteLines(n, by) : NoteLines(n, by)[i].by = by
<1>1. n \in Entries \X Texts /\ LinesIn \in [Texts -> Nat \ {0}] /\ Texts \subseteq Nat
  BY NotesAssumption
<1>2. n[1] \in Entries /\ n[2] \in Nat /\ LinesIn[n[2]] \in Nat
  BY <1>1
<1> DEFINE l(i) == Line(IF i = 1 THEN NoteLine(n[2]) ELSE MoreLine(n[2]), n[1], by, FALSE)
<1>3. \A i \in 1..LinesIn[n[2]] : l(i) \in DocLines /\ l(i).by = by
  BY <1>2 DEF Line, NoteLine, MoreLine, DocLines, Paragraphs
<1>4. NoteLines(n, by) = [i \in 1..LinesIn[n[2]] |-> l(i)]
  BY DEF NoteLines
<1> HIDE DEF l
<1>5. NoteLines(n, by) \in [1..LinesIn[n[2]] -> DocLines]
  BY <1>3, <1>4
<1> QED
  BY <1>2, <1>3, <1>4, <1>5

LEMMA SectionSeq ==
  ASSUME NEW d \in Entries
  PROVE  /\ Section(d) \in Seq(DocLines) /\ Len(Section(d)) = 2
         /\ \A i \in 1..2 : Section(d)[i].by = ByHand
<1>1. FirstHeads[d] \in Headings /\ BodyOf[d] \in Paragraphs(Nat, Nat)
  BY NotesAssumption
<1>2. FirstHeads[d][1] \in Nat /\ FirstHeads[d][2] \in Nat
  BY <1>1 DEF Headings
<1> DEFINE head == Line(HeadLine(FirstHeads[d]), d, ByHand, d \in Typed)
           body == Line(BodyOf[d], d, ByHand, FALSE)
<1>3. HeadLine(FirstHeads[d]) \in Paragraphs(Nat, Nat)
  BY <1>2 DEF HeadLine, Paragraphs
<1>4. (d \in Typed) \in BOOLEAN
  OBVIOUS
<1>5. head \in DocLines /\ body \in DocLines /\ head.by = ByHand /\ body.by = ByHand
  BY <1>1, <1>3, <1>4 DEF Line, DocLines, Authors
<1>6. Section(d) = <<head, body>>
  BY DEF Section
<1> HIDE DEF head, body
<1> QED
  BY <1>5, <1>6

LEMMA NotesBegin == NotesInit => NotesIInv /\ OnceInDoc /\ OneWriter
<1> SUFFICES ASSUME NotesInit PROVE NotesIInv /\ OnceInDoc /\ OneWriter
  OBVIOUS
<1>1. DocumentOK /\ \A i \in DOMAIN doc : doc[i].by = ByHand
  <2>1. PICK order \in SetToSeqs(Entries \ Undelivered) :
          doc = [i \in 1..(2 * Len(order)) |-> Section(order[(i + 1) \div 2])[2 - (i % 2)]]
    BY DEF NotesInit
  <2>2. Cardinality(Entries \ Undelivered) \in Nat
    <3>1. IsFiniteSet(Entries \ Undelivered)
      BY NotesAssumption, FS_Difference
    <3> QED
      BY <3>1, FS_CardinalityType
  <2>3. order \in [1..Cardinality(Entries \ Undelivered) -> Entries \ Undelivered]
    BY <2>1 DEF SetToSeqs
  <2>4. order \in Seq(Entries) /\ Len(order) \in Nat /\ \A k \in 1..Len(order) : order[k] \in Entries
    <3>1. PICK size \in Nat : order \in [1..size -> Entries \ Undelivered]
      BY <2>2, <2>3
    <3>2. order \in [1..size -> Entries]
      BY <3>1
    <3>3. order \in Seq(Entries)
      BY <3>2
    <3> QED
      BY <3>3, LenProperties
  <2>5. ASSUME NEW i \in 1..(2 * Len(order))
        PROVE  doc[i] \in DocLines /\ doc[i].by = ByHand
    <3>1. (i + 1) \div 2 \in 1..Len(order) /\ 2 - (i % 2) \in 1..2
      BY <2>4
    <3>2. PICK k \in 1..Len(order), h \in 1..2 : doc[i] = Section(order[k])[h]
      BY <2>1, <3>1
    <3>3. /\ Section(order[k]) \in Seq(DocLines) /\ Len(Section(order[k])) = 2
          /\ \A m \in 1..2 : Section(order[k])[m].by = ByHand
      BY <2>4, SectionSeq
    <3> QED
      BY <3>2, <3>3
  <2>6. doc = [i \in 1..(2 * Len(order)) |-> doc[i]] /\ 2 * Len(order) \in Nat
    BY <2>1, <2>4
  <2>7. doc \in [1..(2 * Len(order)) -> DocLines]
    BY <2>5, <2>6
  <2>8. doc \in Seq(DocLines) /\ DOMAIN doc = 1..(2 * Len(order))
    BY <2>6, <2>7
  <2> QED
    BY <2>5, <2>8 DEF DocumentOK
<1>2. RowsOK
  <2>1. OldNotes \subseteq Entries \X Texts
    BY NotesAssumption
  <2> QED
    BY <2>1 DEF NotesInit, RowsOK
<1>3. JobsOK
  <2>1. PICK S \in SUBSET OldNotes :
          job = [j \in S \X {"index"} |-> [status |-> "succeeded", attempts |-> 1]]
    BY DEF NotesInit
  <2>2. ASSUME NEW j \in DOMAIN job
        PROVE  j = <<j[1], j[2]>> /\ j[2] = "index" /\ job[j] \in JobStates
    BY <2>1 DEF JobStates
  <2> QED
    BY <2>2 DEF JobsOK, Stages
<1>4. CallsOK /\ AcceptedIsOwed
  <2>1. call = [c \in Calls |-> [pc |-> "new"]]
    BY DEF NotesInit
  <2> QED
    BY <2>1 DEF CallsOK, AcceptedIsOwed
<1>5. WorkOK /\ OneWorker /\ \A w \in Workers : run[w].pc = "idle"
  <2>1. run = [w \in Workers |-> Resting]
    BY DEF NotesInit
  <2> QED
    BY <2>1 DEF WorkOK, OneWorker, Resting
<1>6. adrift = {}
  BY DEF NotesInit
<1>7. AdriftOK /\ OneWriter
  BY <1>5, <1>6 DEF AdriftOK, OneWriter
<1>8. ASSUME NEW n \in Asked PROVE n # ByHand
  <2>1. n = <<n[1], n[2]>>
    BY NotesAssumption
  <2> QED
    BY <2>1 DEF ByHand
<1>9. OnceInDoc
  BY <1>1, <1>8 DEF OnceInDoc, LinesBy
<1> QED
  BY <1>1, <1>2, <1>3, <1>4, <1>5, <1>7, <1>9 DEF NotesIInv

-----------------------------------------------------------------------------
(* Calls and the outbox.  Notes and jobs are never taken away.                *)

RowsStay == \A n \in DOMAIN noteRows : n \in DOMAIN noteRows' /\ noteRows'[n] = noteRows[n]
JobsStay  == \A j \in DOMAIN job : j \in DOMAIN job'
WorkStays ==
  \A j \in DOMAIN job : j \in DOMAIN job' /\ (job[j].status = "running" => job'[j].status = "running")

LEMMA SameNotes == UNCHANGED noteRows => RowsStay
BY DEF RowsStay

LEMMA SameJobs == UNCHANGED job => WorkStays
BY DEF WorkStays

LEMMA ByBotStays == RowsStay => \A n : ByBot(n) => ByBot(n)'
BY DEF RowsStay, ByBot

LEMMA JobsKept == JobsOK /\ RowsStay /\ UNCHANGED job => JobsOK'
<1> SUFFICES ASSUME JobsOK, RowsStay, UNCHANGED job PROVE JobsOK'
  OBVIOUS
<1>1. \A n : ByBot(n) => ByBot(n)'
  BY ByBotStays
<1> QED
  BY <1>1 DEF JobsOK

LEMMA DocumentKept == DocumentOK /\ RowsStay /\ UNCHANGED doc => DocumentOK'
<1> SUFFICES ASSUME DocumentOK, RowsStay, UNCHANGED doc PROVE DocumentOK'
  OBVIOUS
<1>1. \A n : ByBot(n) => ByBot(n)'
  BY ByBotStays
<1> QED
  BY <1>1 DEF DocumentOK

LEMMA AdriftKept == AdriftOK /\ RowsStay /\ Spots \subseteq Spots' /\ adrift' \subseteq adrift => AdriftOK'
<1> SUFFICES ASSUME AdriftOK, RowsStay, Spots \subseteq Spots', adrift' \subseteq adrift
             PROVE  AdriftOK'
  OBVIOUS
<1>1. \A n : ByBot(n) => ByBot(n)'
  BY ByBotStays
<1> QED
  BY <1>1 DEF AdriftOK

LEMMA WorkKept == WorkOK /\ WorkStays /\ Spots \subseteq Spots' /\ UNCHANGED run => WorkOK'
BY DEF WorkOK, WorkStays, Busy

LEMMA AcceptedKept == AcceptedIsOwed /\ RowsStay /\ JobsStay /\ UNCHANGED call => AcceptedIsOwed'
BY DEF AcceptedIsOwed, RowsStay, JobsStay

LEMMA WorkStaysJobs == WorkStays => JobsStay
BY DEF WorkStays, JobsStay

\* A job that is put down for a note changes nothing of the others.
LEMMA FreshJob == Fresh \in JobStates
BY DEF Fresh, JobStates

LEMMA SafeJobsFit ==
  ASSUME JobsOK, NEW n, n = <<n[1], n[2]>>, job' = SafeJobs(n), UNCHANGED noteRows
  PROVE  JobsOK' /\ WorkStays /\ <<n, "index">> \in DOMAIN job'
<1> DEFINE new == <<n, "index">>
<1>1. /\ DOMAIN job' = DOMAIN job \cup {new}
      /\ \A j \in DOMAIN job : job'[j] = job[j]
      /\ new \notin DOMAIN job => job'[new] = Fresh
  BY DEF SafeJobs, Over
<1>2. new[1] = n /\ new[2] = "index" /\ new[2] \in Stages
  BY DEF Stages
<1> HIDE DEF new
<1>3. new = <<new[1], new[2]>>
  BY <1>2 DEF new
<1>4. \A k : ByBot(k) => ByBot(k)'
  BY DEF ByBot
<1>5. JobsOK'
  BY <1>1, <1>2, <1>3, <1>4, FreshJob DEF JobsOK
<1> QED
  BY <1>1, <1>5 DEF WorkStays, new

LEMMA CallFits ==
  ASSUME CallsOK, NEW c \in Calls, NEW t \in [pc : {"insert", "end"}, note : Asked],
         call' = [call EXCEPT ![c] = t]
  PROVE  CallsOK' /\ call'[c] = t /\ \A b \in Calls : b # c => call'[b] = call[b]
BY DEF CallsOK

LEMMA CallEnds ==
  ASSUME CallsOK, NEW c \in Calls, call[c].pc = "insert", End(c)
  PROVE  /\ CallsOK' /\ call[c].note \in Asked
         /\ call'[c].note = call[c].note
         /\ \A b \in Calls : b # c => call'[b] = call[b]
<1>1. call[c] \in [pc : {"insert", "end"}, note : Asked]
  BY DEF CallsOK
<1> DEFINE t == [call[c] EXCEPT !.pc = "end"]
<1>2. t \in [pc : {"insert", "end"}, note : Asked] /\ t.note = call[c].note
  BY <1>1
<1>3. call' = [call EXCEPT ![c] = t]
  BY DEF End
<1> HIDE DEF t
<1> QED
  BY <1>1, <1>2, <1>3, CallFits

LEMMA LookUpStep ==
  ASSUME NotesIInv, NEW c \in Calls, LookUp(c)
  PROVE  NotesIInv'
<1> USE DEF NotesIInv
<1>1. PICK n \in Asked :
        /\ call' = [call EXCEPT ![c] = [pc |-> IF n \in DOMAIN noteRows THEN "end" ELSE "insert", note |-> n]]
        /\ job' = IF n \in DOMAIN noteRows THEN SafeJobs(n) ELSE job
  BY DEF LookUp
<1>2. UNCHANGED <<noteRows, doc, run, adrift>> /\ RowsStay /\ Spots \subseteq Spots'
  BY SameNotes DEF LookUp, Spots
<1>3. n = <<n[1], n[2]>>
  BY NotesAssumption
<1>4. JobsOK' /\ WorkStays /\ (n \in DOMAIN noteRows => <<n, "index">> \in DOMAIN job')
  <2>1. CASE n \in DOMAIN noteRows
    BY <1>1, <1>2, <1>3, <2>1, SafeJobsFit
  <2>2. CASE n \notin DOMAIN noteRows
    BY <1>1, <1>2, <2>2, JobsKept, SameJobs
  <2> QED
    BY <2>1, <2>2
<1> DEFINE t == [pc |-> IF n \in DOMAIN noteRows THEN "end" ELSE "insert", note |-> n]
<1>5. t \in [pc : {"insert", "end"}, note : Asked] /\ t.note = n /\ (t.pc = "end" => n \in DOMAIN noteRows)
  OBVIOUS
<1>6. call' = [call EXCEPT ![c] = t]
  BY <1>1
<1> HIDE DEF t
<1>7. CallsOK' /\ call'[c] = t /\ \A b \in Calls : b # c => call'[b] = call[b]
  BY <1>5, <1>6, CallFits
<1>8. AcceptedIsOwed'
  <2>1. ASSUME NEW b \in Calls, call'[b].pc = "end"
        PROVE  call'[b].note \in DOMAIN noteRows /\ <<call'[b].note, "index">> \in DOMAIN job'
    <3>1. CASE b = c
      BY <1>4, <1>5, <1>7, <2>1, <3>1
    <3>2. CASE b # c
      BY <1>4, <1>7, <2>1, <3>2 DEF AcceptedIsOwed, WorkStays
    <3> QED
      BY <3>1, <3>2
  <2> QED
    BY <1>2, <2>1 DEF AcceptedIsOwed
<1>9. DocumentOK' /\ RowsOK' /\ WorkOK' /\ AdriftOK'
  BY <1>2, <1>4, DocumentKept, WorkKept, AdriftKept DEF RowsOK
<1>10. OneWorker'
  BY <1>2 DEF OneWorker
<1> QED
  BY <1>4, <1>7, <1>8, <1>9, <1>10

LEMMA InsertStep ==
  ASSUME NotesIInv, NEW c \in Calls, Insert(c)
  PROVE  NotesIInv'
<1> USE DEF NotesIInv
<1>1. call[c].pc = "insert" /\ End(c) /\ UNCHANGED <<doc, run, adrift>> /\ Spots \subseteq Spots'
  BY DEF Insert, Spots
<1>2. PICK n : n = call[c].note
  OBVIOUS
<1>3. /\ CallsOK' /\ n \in Asked /\ call'[c].note = n
      /\ \A b \in Calls : b # c => call'[b] = call[b]
  BY <1>1, <1>2, CallEnds
<1>4. n = <<n[1], n[2]>>
  BY <1>3, NotesAssumption
<1>5. /\ RowsStay /\ RowsOK' /\ JobsOK' /\ WorkStays
      /\ n \in DOMAIN noteRows' /\ <<n, "index">> \in DOMAIN job'
  <2>1. CASE n \in DOMAIN noteRows
    <3>1. job' = SafeJobs(n) /\ UNCHANGED noteRows
      BY <1>2, <2>1 DEF Insert
    <3> QED
      BY <1>4, <2>1, <3>1, SafeJobsFit, SameNotes DEF RowsOK
  <2>2. CASE n \notin DOMAIN noteRows
    <3>1. /\ noteRows' = Over(noteRows, [m \in {n} |-> "telegram"])
          /\ job' = Over(job, [j \in {n} \X Stages |-> Fresh])
      BY <1>2, <2>2 DEF Insert
    <3>2. /\ DOMAIN noteRows' = DOMAIN noteRows \cup {n} /\ noteRows'[n] = "telegram"
          /\ \A m \in DOMAIN noteRows : noteRows'[m] = noteRows[m]
      BY <2>2, <3>1 DEF Over
    <3>3. RowsStay /\ RowsOK'
      BY <1>4, <3>2 DEF RowsStay, RowsOK
    <3>4. ByBot(n)' /\ \A m : ByBot(m) => ByBot(m)'
      <4>1. n \notin OldNotes
        BY <2>2 DEF RowsOK
      <4> QED
        BY <1>3, <3>2, <3>3, <4>1, ByBotStays DEF ByBot
    <3>5. /\ DOMAIN job' = DOMAIN job \cup ({n} \X Stages)
          /\ \A j \in DOMAIN job : job'[j] = job[j]
          /\ \A j \in {n} \X Stages : j \notin DOMAIN job => job'[j] = Fresh
      BY <3>1 DEF Over
    <3>6. \A j \in {n} \X Stages : j = <<j[1], j[2]>> /\ j[1] = n /\ j[2] \in Stages
      OBVIOUS
    <3>7. ASSUME NEW j \in DOMAIN job'
          PROVE  /\ j = <<j[1], j[2]>> /\ j[2] \in Stages /\ job'[j] \in JobStates
                 /\ j[2] = "gdocs" => ByBot(j[1])'
      <4>1. CASE j \in DOMAIN job
        BY <3>4, <3>5, <4>1 DEF JobsOK
      <4>2. CASE j \notin DOMAIN job
        <5>1. j \in {n} \X Stages /\ job'[j] = Fresh
          BY <3>5, <4>2
        <5> QED
          BY <3>4, <3>6, <5>1, FreshJob
      <4> QED
        BY <4>1, <4>2
    <3>8. <<n, "index">> \in {n} \X Stages
      BY DEF Stages
    <3>9. JobsOK'
      BY <3>7 DEF JobsOK
    <3> QED
      BY <3>2, <3>3, <3>5, <3>8, <3>9 DEF WorkStays
  <2> QED
    BY <2>1, <2>2
<1>6. AcceptedIsOwed'
  <2>1. ASSUME NEW b \in Calls, call'[b].pc = "end"
        PROVE  call'[b].note \in DOMAIN noteRows' /\ <<call'[b].note, "index">> \in DOMAIN job'
    <3>1. CASE b = c
      BY <1>3, <1>5, <2>1, <3>1
    <3>2. CASE b # c
      BY <1>3, <1>5, <2>1, <3>2 DEF AcceptedIsOwed, WorkStays, RowsStay
    <3> QED
      BY <3>1, <3>2
  <2> QED
    BY <2>1 DEF AcceptedIsOwed
<1>7. DocumentOK' /\ WorkOK' /\ AdriftOK'
  BY <1>1, <1>5, DocumentKept, WorkKept, AdriftKept
<1>8. OneWorker'
  BY <1>1 DEF OneWorker
<1> QED
  BY <1>1, <1>3, <1>5, <1>6, <1>7, <1>8

LEMMA JobMoves ==
  ASSUME JobsOK, UNCHANGED noteRows, NEW j \in DOMAIN job, NEW s \in JobStates,
         job' = [job EXCEPT ![j] = s]
  PROVE  /\ JobsOK' /\ DOMAIN job' = DOMAIN job /\ job'[j] = s
         /\ \A k \in DOMAIN job : k # j => job'[k] = job[k]
<1>1. /\ DOMAIN job' = DOMAIN job /\ job'[j] = s
      /\ \A k \in DOMAIN job : k # j => job'[k] = job[k]
  OBVIOUS
<1>2. \A n : ByBot(n) => ByBot(n)'
  BY DEF ByBot
<1>3. JobsOK'
  BY <1>1, <1>2 DEF JobsOK
<1> QED
  BY <1>1, <1>3

\* A worker goes on with its job, or leaves it.
LEMMA WorkerMoves ==
  ASSUME WorkOK, OneWorker, NEW w \in Workers, run[w].pc # "idle",
         NEW t, run' = [run EXCEPT ![w] = t],
         t.pc # "idle" => t.job = run[w].job,
         t.pc \in {"get", "put"} => run[w].pc \in {"get", "put"},
         t.pc = "put" => t.at \in Spots',
         Spots \subseteq Spots',
         \A j \in DOMAIN job :
           /\ j \in DOMAIN job'
           /\ job[j].status = "running" /\ (t.pc = "idle" => j # run[w].job) => job'[j].status = "running"
  PROVE  /\ WorkOK' /\ OneWorker' /\ run'[w] = t
         /\ \A v \in Workers : v # w => run'[v] = run[v]
<1>1. run'[w] = t /\ \A v \in Workers : v # w => run'[v] = run[v]
  BY DEF WorkOK
<1>2. run' = [v \in Workers |-> run'[v]]
  BY DEF WorkOK
<1>3. ASSUME NEW v \in Workers, run'[v].pc # "idle" PROVE Busy(v)'
  <2>1. CASE v = w
    <3>1. Busy(w) /\ run'[v] = t /\ t.job = run[w].job /\ t.pc # "idle"
      BY <1>1, <1>3, <2>1 DEF WorkOK
    <3>2. t.job \in DOMAIN job' /\ job'[t.job].status = "running"
      BY <3>1 DEF Busy
    <3>3. t.pc \in {"get", "put"} => t.job[2] = "gdocs"
      BY <3>1 DEF Busy
    <3> QED
      BY <3>1, <3>2, <3>3 DEF Busy
  <2>2. CASE v # w
    <3>1. run'[v] = run[v] /\ run[v].pc # "idle" /\ Busy(v) /\ run[v].job # run[w].job
      BY <1>1, <1>3, <2>2 DEF WorkOK, OneWorker
    <3> QED
      BY <3>1 DEF Busy
  <2> QED
    BY <2>1, <2>2
<1>4. OneWorker'
  BY <1>1 DEF OneWorker
<1> QED
  BY <1>1, <1>2, <1>3, <1>4 DEF WorkOK

LEMMA ClaimStep ==
  ASSUME NotesIInv, NEW w \in Workers, Claim(w)
  PROVE  NotesIInv'
<1> USE DEF NotesIInv
<1>1. run[w].pc = "idle" /\ UNCHANGED <<noteRows, doc, call, adrift>> /\ RowsStay /\ Spots \subseteq Spots'
  BY SameNotes DEF Claim, Spots
<1>2. PICK j \in DOMAIN job :
        /\ Waiting(j) \/ Abandoned(j)
        /\ job' = [job EXCEPT ![j] = [status |-> "running", attempts |-> @.attempts + 1]]
        /\ run' = [run EXCEPT ![w] = [pc |-> IF j[2] = "index" THEN "index" ELSE "get", job |-> j]]
  BY DEF Claim
<1>3. job[j] \in JobStates /\ j[2] \in Stages
  BY DEF JobsOK
<1> DEFINE s == [status |-> "running", attempts |-> job[j].attempts + 1]
           t == [pc |-> IF j[2] = "index" THEN "index" ELSE "get", job |-> j]
<1>4. s \in JobStates /\ s.status = "running"
  BY <1>3 DEF JobStates
<1>5. job' = [job EXCEPT ![j] = s] /\ run' = [run EXCEPT ![w] = t]
  BY <1>2
<1>6. t.job = j /\ t.pc \in {"index", "get"} /\ (t.pc = "get" => j[2] = "gdocs")
  BY <1>3 DEF Stages
<1> HIDE DEF s, t
<1>7. /\ JobsOK' /\ DOMAIN job' = DOMAIN job /\ job'[j] = s
      /\ \A k \in DOMAIN job : k # j => job'[k] = job[k]
  BY <1>1, <1>4, <1>5, JobMoves
<1>8. run'[w] = t /\ (\A v \in Workers : v # w => run'[v] = run[v]) /\ run' = [v \in Workers |-> run'[v]]
  BY <1>5 DEF WorkOK
<1>9. ASSUME NEW v \in Workers, run[v].pc # "idle" PROVE run[v].job # j
  <2>1. Waiting(j) => job[j].status # "running"
    BY DEF Waiting
  <2>2. Abandoned(j) => v \notin Holders(j)
    BY DEF Abandoned
  <2> QED
    BY <1>2, <1>9, <2>1, <2>2 DEF WorkOK, Busy, Holders
<1>10. WorkOK'
  <2>1. ASSUME NEW v \in Workers, run'[v].pc # "idle" PROVE Busy(v)'
    <3>1. CASE v = w
      BY <1>4, <1>6, <1>7, <1>8, <3>1 DEF Busy
    <3>2. CASE v # w
      <4>1. run'[v] = run[v] /\ Busy(v) /\ run[v].job # j
        BY <1>8, <1>9, <2>1, <3>2 DEF WorkOK
      <4> QED
        BY <1>1, <1>7, <4>1 DEF Busy
    <3> QED
      BY <3>1, <3>2
  <2> QED
    BY <1>8, <2>1 DEF WorkOK
<1>11. OneWorker'
  BY <1>6, <1>8, <1>9 DEF OneWorker
<1>12. JobsStay
  BY <1>7 DEF JobsStay
<1>13. DocumentOK' /\ RowsOK' /\ AdriftOK' /\ CallsOK' /\ AcceptedIsOwed'
  BY <1>1, <1>12, DocumentKept, AdriftKept, AcceptedKept DEF RowsOK, CallsOK
<1> QED
  BY <1>7, <1>10, <1>11, <1>13

LEMMA SweepStep ==
  ASSUME NotesIInv, SweepExhausted
  PROVE  NotesIInv'
<1> USE DEF NotesIInv
<1>1. UNCHANGED <<noteRows, doc, call, run, adrift>> /\ RowsStay /\ Spots \subseteq Spots'
  BY SameNotes DEF SweepExhausted, Spots
<1>2. PICK j \in DOMAIN job : Abandoned(j) /\ job' = [job EXCEPT ![j].status = "failed"]
  BY DEF SweepExhausted
<1> DEFINE s == [job[j] EXCEPT !.status = "failed"]
<1>3. s \in JobStates
  BY DEF JobsOK, JobStates
<1>4. job' = [job EXCEPT ![j] = s]
  BY <1>2
<1> HIDE DEF s
<1>5. /\ JobsOK' /\ DOMAIN job' = DOMAIN job
      /\ \A k \in DOMAIN job : k # j => job'[k] = job[k]
  BY <1>1, <1>3, <1>4, JobMoves
<1>6. \A v \in Workers : run[v].pc # "idle" => run[v].job # j
  BY <1>2 DEF Abandoned, Holders
<1>7. WorkOK'
  BY <1>1, <1>5, <1>6 DEF WorkOK, Busy
<1>8. JobsStay
  BY <1>5 DEF JobsStay
<1>9. DocumentOK' /\ RowsOK' /\ AdriftOK' /\ CallsOK' /\ AcceptedIsOwed'
  BY <1>1, <1>8, DocumentKept, AdriftKept, AcceptedKept DEF RowsOK, CallsOK
<1>10. OneWorker'
  BY <1>1 DEF OneWorker
<1> QED
  BY <1>5, <1>7, <1>9, <1>10

\* A step of a worker that leaves jobs, notes and calls alone.
LEMMA WorkerStep ==
  ASSUME NotesIInv, NEW w \in Workers, run[w].pc # "idle", UNCHANGED <<noteRows, job, call>>,
         DocumentOK', AdriftOK', Spots \subseteq Spots',
         NEW t, run' = [run EXCEPT ![w] = t],
         t.pc # "idle" => t.job = run[w].job,
         t.pc \in {"get", "put"} => run[w].pc \in {"get", "put"},
         t.pc = "put" => t.at \in Spots'
  PROVE  NotesIInv'
<1> USE DEF NotesIInv
<1>1. RowsStay /\ WorkStays
  BY SameNotes, SameJobs
<1>2. \A j \in DOMAIN job :
        /\ j \in DOMAIN job'
        /\ job[j].status = "running" /\ (t.pc = "idle" => j # run[w].job) => job'[j].status = "running"
  BY <1>1 DEF WorkStays
<1>3. WorkOK' /\ OneWorker'
  BY <1>2, WorkerMoves
<1>4. RowsOK' /\ JobsOK' /\ CallsOK' /\ AcceptedIsOwed'
  BY <1>1, JobsKept, WorkStaysJobs, AcceptedKept DEF RowsOK, CallsOK
<1> QED
  BY <1>3, <1>4

\* One that leaves the document and the requests alone, too.
LEMMA QuietStep ==
  ASSUME NotesIInv, NEW w \in Workers, run[w].pc # "idle",
         UNCHANGED <<noteRows, job, call, doc, adrift>>, NEW pc \in {"ok", "error"}, Goto(w, pc)
  PROVE  NotesIInv'
<1> USE DEF NotesIInv
<1> DEFINE t == [pc |-> pc, job |-> run[w].job]
<1>1. run' = [run EXCEPT ![w] = t]
  BY DEF Goto
<1>2. RowsStay /\ Spots \subseteq Spots'
  BY SameNotes DEF Spots
<1>3. DocumentOK' /\ AdriftOK'
  BY <1>2, DocumentKept, AdriftKept
<1>4. t.pc = pc /\ t.job = run[w].job
  OBVIOUS
<1> HIDE DEF t
<1> QED
  BY <1>1, <1>2, <1>3, <1>4, WorkerStep

LEMMA ReadStep ==
  ASSUME NotesIInv, NEW w \in Workers, ReadDocument(w)
  PROVE  NotesIInv'
<1> USE DEF NotesIInv
<1>1. run[w].pc = "get" /\ UNCHANGED <<noteRows, job, call, doc, adrift>>
  BY DEF ReadDocument
<1>2. CASE \E pc \in {"ok", "error"} : Goto(w, pc)
  BY <1>1, <1>2, QuietStep
<1>3. CASE \E at \in Places(run[w].job[1][1]) :
             run' = [run EXCEPT ![w] = [pc |-> "put", job |-> @.job, at |-> at, seen |-> doc]]
  <2>1. PICK at \in Places(run[w].job[1][1]) :
          run' = [run EXCEPT ![w] = [pc |-> "put", job |-> run[w].job, at |-> at, seen |-> doc]]
    BY <1>3
  <2>2. at \in Spots
    BY PlacesFit DEF DocumentOK
  <2> DEFINE t == [pc |-> "put", job |-> run[w].job, at |-> at, seen |-> doc]
  <2>3. t.pc = "put" /\ t.job = run[w].job /\ t.at = at
    OBVIOUS
  <2>4. RowsStay /\ Spots' = Spots
    BY <1>1, SameNotes DEF Spots
  <2>5. DocumentOK' /\ AdriftOK'
    BY <1>1, <2>4, DocumentKept, AdriftKept
  <2>6. run' = [run EXCEPT ![w] = t]
    BY <2>1
  <2> HIDE DEF t
  <2> QED
    BY <1>1, <2>2, <2>3, <2>4, <2>5, <2>6, WorkerStep
<1> QED
  BY <1>2, <1>3 DEF ReadDocument

\* Where lines of the bot, or of people, are put in, the document stays in order.
LEMMA DocumentTakes ==
  ASSUME DocumentOK, UNCHANGED noteRows, NEW new \in Seq(DocLines), NEW at \in Spots,
         doc' = Spliced(at, new), \A i \in DOMAIN new : new[i].by # ByHand => ByBot(new[i].by)
  PROVE  DocumentOK' /\ Spots \subseteq Spots'
<1>1. /\ doc' \in Seq(DocLines) /\ Spots \subseteq Spots'
      /\ \A k \in DOMAIN doc' :
           (\E i \in DOMAIN new : doc'[k] = new[i]) \/ (\E i \in DOMAIN doc : doc'[k] = doc[i])
  BY SplicedLines DEF DocumentOK
<1>2. \A n : ByBot(n) => ByBot(n)'
  BY DEF ByBot
<1> QED
  BY <1>1, <1>2 DEF DocumentOK

LEMMA NoteLands ==
  ASSUME DocumentOK, UNCHANGED noteRows, NEW n, ByBot(n), NEW at \in Spots, NEW seen,
         Lands(n, at, seen)
  PROVE  DocumentOK' /\ Spots \subseteq Spots'
<1>1. n \in Asked /\ n \in Authors
  BY DEF ByBot, Authors
<1>2. /\ NoteLines(n, n) \in Seq(DocLines)
      /\ \A i \in DOMAIN NoteLines(n, n) : NoteLines(n, n)[i].by = n
  BY <1>1, NoteSeq
<1> QED
  BY <1>2, DocumentTakes DEF Lands

\* What is about to be written came by Telegram.
LEMMA PutFits ==
  ASSUME NotesIInv, NEW w \in Workers, run[w].pc \in {"get", "put"}
  PROVE  ByBot(run[w].job[1]) /\ (run[w].pc = "put" => run[w].at \in Spots)
BY DEF NotesIInv, WorkOK, Busy, JobsOK

LEMMA WriteStep ==
  ASSUME NotesIInv, NEW w \in Workers, WriteNote(w)
  PROVE  NotesIInv'
<1>1. /\ run[w].pc = "put" /\ UNCHANGED <<noteRows, job, call, adrift>>
      /\ Lands(run[w].job[1], run[w].at, run[w].seen)
  BY DEF WriteNote
<1>2. ByBot(run[w].job[1]) /\ run[w].at \in Spots
  BY <1>1, PutFits
<1>3. DocumentOK' /\ Spots \subseteq Spots'
  BY <1>1, <1>2, NoteLands DEF NotesIInv
<1>4. AdriftOK'
  BY <1>1, <1>3, AdriftKept, SameNotes DEF NotesIInv
<1>5. PICK answer \in {"ok", "error"} : Goto(w, answer)
  BY DEF WriteNote
<1> DEFINE t == [pc |-> answer, job |-> run[w].job]
<1>6. run' = [run EXCEPT ![w] = t]
  BY <1>5 DEF Goto
<1>7. t.pc = answer /\ t.job = run[w].job
  OBVIOUS
<1> HIDE DEF t
<1> QED
  BY <1>1, <1>3, <1>4, <1>6, <1>7, WorkerStep

\* A request that is cut may still arrive.
LEMMA CutFits ==
  ASSUME NotesIInv, NEW w \in Workers, Cut(w), UNCHANGED <<noteRows, doc>>
  PROVE  AdriftOK'
<1>1. \A n : ByBot(n) => ByBot(n)'
  BY DEF ByBot
<1>2. Spots' = Spots
  BY DEF Spots
<1>3. AdriftOK
  BY DEF NotesIInv
<1>4. CASE run[w].pc = "put"
  <2> DEFINE r == [note |-> run[w].job[1], at |-> run[w].at, seen |-> run[w].seen]
  <2>1. ByBot(r.note) /\ r.at \in Spots
    BY <1>4, PutFits
  <2>2. adrift' = adrift \cup {r}
    BY <1>4 DEF Cut
  <2> HIDE DEF r
  <2> QED
    BY <1>1, <1>2, <1>3, <2>1, <2>2 DEF AdriftOK
<1>5. CASE run[w].pc # "put"
  BY <1>1, <1>2, <1>3, <1>5 DEF AdriftOK, Cut
<1> QED
  BY <1>4, <1>5

LEMMA CutStep ==
  ASSUME NotesIInv, NEW w \in Workers, TimeOut(w) \/ Crash(w)
  PROVE  NotesIInv'
<1>1. run[w].pc # "idle" /\ Cut(w) /\ UNCHANGED <<noteRows, job, call, doc>>
  BY DEF TimeOut, Crash
<1>2. AdriftOK'
  BY <1>1, CutFits
<1>3. DocumentOK' /\ Spots \subseteq Spots'
  BY <1>1, SameNotes, DocumentKept DEF NotesIInv, Spots
<1>4. CASE TimeOut(w)
  <2> DEFINE t == [pc |-> "error", job |-> run[w].job]
  <2>1. run' = [run EXCEPT ![w] = t]
    BY <1>4 DEF TimeOut, Goto
  <2>2. t.pc = "error" /\ t.job = run[w].job
    OBVIOUS
  <2> HIDE DEF t
  <2> QED
    BY <1>1, <1>2, <1>3, <2>1, <2>2, WorkerStep
<1>5. CASE Crash(w)
  <2>1. run' = [run EXCEPT ![w] = Resting] /\ Resting.pc = "idle"
    BY <1>5 DEF Crash, Resting
  <2> QED
    BY <1>1, <1>2, <1>3, <2>1, WorkerStep
<1> QED
  BY <1>4, <1>5

LEMMA ArriveStep ==
  ASSUME NotesIInv, Arrive
  PROVE  NotesIInv'
<1> USE DEF NotesIInv
<1>1. UNCHANGED <<noteRows, job, call, run>> /\ RowsStay /\ WorkStays
  BY SameNotes, SameJobs DEF Arrive
<1>2. PICK r \in adrift : adrift' = adrift \ {r} /\ (Lands(r.note, r.at, r.seen) \/ UNCHANGED <<doc, torn>>)
  BY DEF Arrive
<1>3. DocumentOK' /\ Spots \subseteq Spots'
  <2>1. CASE Lands(r.note, r.at, r.seen)
    <3>1. ByBot(r.note) /\ r.at \in Spots
      BY DEF AdriftOK
    <3> QED
      BY <1>1, <2>1, <3>1, NoteLands
  <2>2. CASE UNCHANGED <<doc, torn>>
    BY <1>1, <2>2, DocumentKept DEF Spots
  <2> QED
    BY <1>2, <2>1, <2>2
<1>4. AdriftOK' /\ WorkOK' /\ OneWorker'
  BY <1>1, <1>2, <1>3, AdriftKept, WorkKept DEF OneWorker
<1>5. RowsOK' /\ JobsOK' /\ CallsOK' /\ AcceptedIsOwed'
  BY <1>1, JobsKept, WorkStaysJobs, AcceptedKept DEF RowsOK, CallsOK
<1> QED
  BY <1>3, <1>4, <1>5

LEMMA SettleStep ==
  ASSUME NotesIInv, NEW w \in Workers, Settle(w)
  PROVE  NotesIInv'
<1> USE DEF NotesIInv
<1>1. /\ run[w].pc \in {"ok", "error"} /\ UNCHANGED <<noteRows, doc, call, adrift>>
      /\ RowsStay /\ Spots \subseteq Spots' /\ run' = [run EXCEPT ![w] = Resting] /\ Resting.pc = "idle"
  BY SameNotes DEF Settle, Resting, Spots
<1>2. PICK j : j = run[w].job
  OBVIOUS
<1>3. j \in DOMAIN job
  BY <1>1, <1>2 DEF WorkOK, Busy
<1> DEFINE status == IF run[w].pc = "ok" THEN "succeeded"
                     ELSE IF job[j].attempts = MaxAttempts THEN "failed" ELSE "retryable"
           s == [job[j] EXCEPT !.status = status]
<1>4. job' = [job EXCEPT ![j] = s]
  BY <1>2 DEF Settle
<1>5. s \in JobStates
  BY <1>3 DEF JobsOK, JobStates
<1> HIDE DEF s, status
<1>6. /\ JobsOK' /\ DOMAIN job' = DOMAIN job
      /\ \A k \in DOMAIN job : k # j => job'[k] = job[k]
  BY <1>1, <1>3, <1>4, <1>5, JobMoves
<1>7. \A k \in DOMAIN job :
        k \in DOMAIN job' /\ (job[k].status = "running" /\ k # run[w].job => job'[k].status = "running")
  BY <1>2, <1>6
<1>8. WorkOK' /\ OneWorker'
  BY <1>1, <1>7, WorkerMoves
<1>9. JobsStay
  BY <1>6 DEF JobsStay
<1>10. DocumentOK' /\ RowsOK' /\ AdriftOK' /\ CallsOK' /\ AcceptedIsOwed'
  BY <1>1, <1>9, DocumentKept, AdriftKept, AcceptedKept DEF RowsOK, CallsOK
<1> QED
  BY <1>6, <1>8, <1>10

LEMMA RetryStep ==
  ASSUME NotesIInv, Retry
  PROVE  NotesIInv'
<1> USE DEF NotesIInv
<1>1. UNCHANGED <<noteRows, doc, call, run, adrift>> /\ RowsStay /\ Spots \subseteq Spots'
  BY SameNotes DEF Retry, Spots
<1>2. PICK n \in DOMAIN noteRows, S \in {Stages, {"index"}, {"gdocs"}} :
        job' = Over([j \in {j \in DOMAIN job : j \in {n} \X S /\ job[j].status = "failed"} |->
                        [status |-> "retryable", attempts |-> 0]], job)
  BY DEF Retry
<1>3. ASSUME NEW j \in DOMAIN job
      PROVE  /\ j \in DOMAIN job' /\ job'[j] \in JobStates
             /\ job[j].status = "running" => job'[j] = job[j]
  <2>1. job[j] \in JobStates /\ [status |-> "retryable", attempts |-> 0] \in JobStates
    BY DEF JobsOK, JobStates
  <2> QED
    BY <1>2, <2>1 DEF Over
<1>4. DOMAIN job' = DOMAIN job
  BY <1>2 DEF Over
<1>5. \A k : ByBot(k) => ByBot(k)'
  BY <1>1, ByBotStays
<1>6. JobsOK'
  BY <1>3, <1>4, <1>5 DEF JobsOK
<1>7. WorkStays
  BY <1>3 DEF WorkStays
<1>8. DocumentOK' /\ RowsOK' /\ AdriftOK' /\ CallsOK' /\ AcceptedIsOwed' /\ WorkOK' /\ OneWorker'
  BY <1>1, <1>7, DocumentKept, AdriftKept, WorkStaysJobs, AcceptedKept, WorkKept DEF RowsOK, CallsOK, OneWorker
<1> QED
  BY <1>6, <1>8

-----------------------------------------------------------------------------
(* The other writers, and the ingest.                                        *)

LEMMA DocumentStep ==
  ASSUME NotesIInv, DocumentOK', Spots \subseteq Spots', UNCHANGED <<noteRows, job, call, run, adrift>>
  PROVE  NotesIInv'
<1> USE DEF NotesIInv
<1>1. RowsStay /\ WorkStays
  BY SameNotes, SameJobs
<1> QED
  BY <1>1, JobsKept, WorkKept, AdriftKept, WorkStaysJobs, AcceptedKept DEF RowsOK, CallsOK, OneWorker

LEMMA DeliverFits ==
  ASSUME DocumentOK, DeliverDream
  PROVE  \E new \in Seq(DocLines), at \in Spots :
           doc' = Spliced(at, new) /\ \A i \in DOMAIN new : new[i].by = ByHand
<1>1. PICK d \in Undelivered :
        doc' = Spliced(InsertIndex([i \in DOMAIN doc |-> doc[i].p], FirstHeads[d][1]), Section(d))
  BY DEF DeliverDream
<1>2. d \in Entries
  BY NotesAssumption
<1>3. /\ Section(d) \in Seq(DocLines) /\ Len(Section(d)) = 2
      /\ \A i \in 1..2 : Section(d)[i].by = ByHand
  BY <1>2, SectionSeq
<1>4. \A i \in DOMAIN Section(d) : Section(d)[i].by = ByHand
  BY <1>3, LenProperties
<1>5. InsertIndex([i \in DOMAIN doc |-> doc[i].p], FirstHeads[d][1]) \in Spots
  BY Indexed DEF DocumentOK
<1> QED
  BY <1>1, <1>3, <1>4, <1>5

LEMMA TypeFits ==
  ASSUME DocumentOK, NEW n \in Asked, TypeNote(n)
  PROVE  \E new \in Seq(DocLines), at \in Spots :
           doc' = Spliced(at, new) /\ \A i \in DOMAIN new : new[i].by = ByHand
<1>1. Len(doc) \in Nat /\ DOMAIN doc = 1..Len(doc)
  BY DocSize DEF DocumentOK
<1> DEFINE own == {i \in DOMAIN doc : doc[i].of = n[1]}
           after == {i \in 1..(Len(doc) + 1) : \A k \in own : k < i}
<1>2. doc' = Spliced(Least(after), NoteLines(n, ByHand))
  BY DEF TypeNote
<1>3. after \in SUBSET Nat /\ after \subseteq Spots /\ Len(doc) + 1 \in after
  BY <1>1 DEF Spots
<1> HIDE DEF own, after
<1>4. Least(after) \in Spots
  BY <1>3, LeastIn
<1>5. /\ NoteLines(n, ByHand) \in Seq(DocLines)
      /\ \A i \in DOMAIN NoteLines(n, ByHand) : NoteLines(n, ByHand)[i].by = ByHand
  BY NoteSeq DEF Authors
<1> QED
  BY <1>2, <1>4, <1>5

\* Another heading: the line stays where it is, and whose it is.
LEMMA RetitleFits ==
  ASSUME DocumentOK, NEW d, NEW h \in NewHeads, Retitle(d, h)
  PROVE  /\ doc' \in Seq(DocLines) /\ Len(doc') = Len(doc) /\ DOMAIN doc' = DOMAIN doc
         /\ \A i \in DOMAIN doc :
              doc'[i].by = doc[i].by /\ (doc[i].by # ByHand => doc'[i] = doc[i])
<1>1. PICK i \in HeadAt(d) : doc' = [doc EXCEPT ![i].p = HeadLine(h)]
  BY DEF Retitle
<1>2. i \in DOMAIN doc /\ doc[i].by = ByHand
  BY <1>1 DEF HeadAt
<1>3. h \in Nat \X Nat
  BY NotesAssumption DEF Headings
<1>4. HeadLine(h) \in Paragraphs(Nat, Nat)
  BY <1>3 DEF HeadLine, Paragraphs
<1>5. /\ Len(doc) \in Nat /\ DOMAIN doc = 1..Len(doc) /\ doc \in [1..Len(doc) -> DocLines]
      /\ doc[i] \in DocLines
  BY <1>2, DocSize DEF DocumentOK
<1> DEFINE l == [doc[i] EXCEPT !.p = HeadLine(h)]
<1>6. l \in DocLines /\ l.by = ByHand
  BY <1>2, <1>4, <1>5 DEF DocLines
<1>7. doc' = [doc EXCEPT ![i] = l]
  BY <1>1
<1> HIDE DEF l
<1>8. doc' \in [1..Len(doc) -> DocLines]
  BY <1>5, <1>6, <1>7
<1>9. doc' \in Seq(DocLines) /\ Len(doc') = Len(doc) /\ DOMAIN doc' = DOMAIN doc
  BY <1>5, <1>8
<1>10. ASSUME NEW k \in DOMAIN doc
       PROVE  doc'[k].by = doc[k].by /\ (doc[k].by # ByHand => doc'[k] = doc[k])
  BY <1>2, <1>6, <1>7
<1> QED
  BY <1>9, <1>10

LEMMA HandStep ==
  ASSUME NotesIInv, DeliverDream \/ Edit
  PROVE  NotesIInv'
<1>1. UNCHANGED <<noteRows, job, call, run, adrift>>
  BY DEF DeliverDream, Edit
<1>2. DocumentOK
  BY DEF NotesIInv
<1>3. DocumentOK' /\ Spots \subseteq Spots'
  <2>1. ASSUME NEW new \in Seq(DocLines), NEW at \in Spots,
               doc' = Spliced(at, new), \A i \in DOMAIN new : new[i].by = ByHand
        PROVE  DocumentOK' /\ Spots \subseteq Spots'
    BY <1>1, <1>2, <2>1, DocumentTakes
  <2>2. CASE DeliverDream
    BY <1>2, <2>1, <2>2, DeliverFits
  <2>3. CASE \E n \in Asked : TypeNote(n)
    BY <1>2, <2>1, <2>3, TypeFits
  <2>4. CASE \E d \in Entries, h \in NewHeads : Retitle(d, h)
    <3>1. /\ doc' \in Seq(DocLines) /\ Len(doc') = Len(doc) /\ DOMAIN doc' = DOMAIN doc
          /\ \A i \in DOMAIN doc :
               doc'[i].by = doc[i].by /\ (doc[i].by # ByHand => doc'[i] = doc[i])
      BY <1>2, <2>4, RetitleFits
    <3>2. \A n : ByBot(n) => ByBot(n)'
      BY <1>1 DEF ByBot
    <3> QED
      BY <1>2, <3>1, <3>2 DEF DocumentOK, Spots
  <2> QED
    BY <2>2, <2>3, <2>4 DEF Edit
<1> QED
  BY <1>1, <1>3, DocumentStep

\* A table that fills up another keeps what that has.
LEMMA OverKeeps ==
  ASSUME NEW f, NEW g
  PROVE  /\ DOMAIN Over(f, g) = DOMAIN f \cup DOMAIN g
         /\ \A x \in DOMAIN f : Over(f, g)[x] = f[x]
BY DEF Over

LEMMA StoreStep ==
  ASSUME NotesIInv, Store
  PROVE  NotesIInv'
<1> USE DEF NotesIInv
<1>1. UNCHANGED <<doc, call, run, adrift>> /\ Spots \subseteq Spots'
  BY DEF Store, Spots
<1>2. noteRows' = Over(noteRows, [n \in ReadNotes |-> "google_doc"]) /\ job' = ImportedJobs
  BY DEF Store
<1>3. \A n \in ReadNotes : n = <<n[1], n[2]>>
  BY DEF ReadNotes, NotesIn
<1>4. DOMAIN noteRows' = DOMAIN noteRows \cup ReadNotes /\ RowsStay
  <2> DEFINE g == [n \in ReadNotes |-> "google_doc"]
  <2>1. DOMAIN g = ReadNotes /\ noteRows' = Over(noteRows, g)
    BY <1>2
  <2> HIDE DEF g
  <2> QED
    BY <2>1, OverKeeps DEF RowsStay
<1>5. RowsOK'
  BY <1>3, <1>4 DEF RowsOK
<1>6. \A k : ByBot(k) => ByBot(k)'
  BY <1>4, ByBotStays
<1> DEFINE S == {n \in ReadNotes : ChunkOf(n) # "ready"}
<1>7. job' = [j \in DOMAIN job \cup (S \X {"index"}) |->
                IF j \notin DOMAIN job THEN Fresh
                ELSE IF j[1] \in S /\ j[2] = "index" THEN Repaired(j) ELSE job[j]]
  BY <1>2 DEF ImportedJobs
<1> HIDE DEF S
<1>8. ASSUME NEW j \in DOMAIN job
      PROVE  /\ job'[j] \in JobStates /\ (job[j].status = "running" => job'[j].status = "running")
  <2>1. job[j] \in JobStates /\ Repaired(j) \in JobStates
        /\ (job[j].status = "running" => Repaired(j) = job[j])
    BY DEF JobsOK, JobStates, Repaired
  <2> QED
    BY <1>7, <2>1
<1>9. ASSUME NEW j \in DOMAIN job', j \notin DOMAIN job
      PROVE  j = <<j[1], j[2]>> /\ j[2] = "index" /\ job'[j] = Fresh
  BY <1>7, <1>9
<1>10. JobsOK'
  <2>1. ASSUME NEW j \in DOMAIN job'
        PROVE  /\ j = <<j[1], j[2]>> /\ j[2] \in Stages /\ job'[j] \in JobStates
               /\ j[2] = "gdocs" => ByBot(j[1])'
    <3>1. CASE j \in DOMAIN job
      BY <1>6, <1>8, <3>1 DEF JobsOK
    <3>2. CASE j \notin DOMAIN job
      BY <1>9, <3>2, FreshJob DEF Stages
    <3> QED
      BY <3>1, <3>2
  <2> QED
    BY <2>1 DEF JobsOK
<1>11. WorkStays
  BY <1>7, <1>8 DEF WorkStays
<1> QED
  BY <1>1, <1>4, <1>5, <1>10, <1>11, DocumentKept, AdriftKept, WorkStaysJobs, AcceptedKept, WorkKept
     DEF CallsOK, OneWorker

LEMMA NotesGoOn == NotesIInv /\ [NotesNext]_notesVars => NotesIInv'
<1> SUFFICES ASSUME NotesIInv, [NotesNext]_notesVars PROVE NotesIInv'
  OBVIOUS
<1>1. ASSUME NEW c \in Calls, LookUp(c) \/ Insert(c) PROVE NotesIInv'
  BY <1>1, LookUpStep, InsertStep
<1>2. ASSUME NEW w \in Workers, Claim(w) \/ IndexNote(w) \/ ReadDocument(w) \/ WriteNote(w)
                                  \/ StageRaises(w) \/ TimeOut(w) \/ Crash(w) \/ Settle(w)
      PROVE  NotesIInv'
  <2>1. CASE IndexNote(w) \/ StageRaises(w)
    <3>1. /\ run[w].pc # "idle" /\ UNCHANGED <<noteRows, job, call, doc, adrift>>
          /\ \E pc \in {"ok", "error"} : Goto(w, pc)
      BY <2>1 DEF IndexNote, StageRaises
    <3> QED
      BY <3>1, QuietStep
  <2> QED
    BY <1>2, <2>1, ClaimStep, ReadStep, WriteStep, CutStep, SettleStep
<1>3. CASE SweepExhausted \/ Arrive \/ Retry \/ DeliverDream \/ Edit \/ Store
  BY <1>3, SweepStep, ArriveStep, RetryStep, HandStep, StoreStep
<1>4. CASE Fetch \/ Refuse \/ UNCHANGED notesVars
  <2>1. UNCHANGED <<doc, noteRows, job, call, run, adrift>> /\ Spots \subseteq Spots'
    BY <1>4 DEF Fetch, Refuse, notesVars, Spots
  <2>2. DocumentOK'
    BY <2>1, SameNotes, DocumentKept DEF NotesIInv
  <2> QED
    BY <2>1, <2>2, DocumentStep
<1> QED
  BY <1>1, <1>2, <1>3, <1>4 DEF NotesNext

\* Notes: whose lines the document has, which jobs the outbox has and who works on
\* them, and where a note may be written.
THEOREM NotesInvariance == NotesSpec => []NotesIInv
<1>1. NotesInit => NotesIInv
  BY NotesBegin
<1> QED
  BY <1>1, NotesGoOn, PTL DEF NotesSpec

\* No note that a person wrote into the document, and none from before the outbox, is
\* written there by the bot, whatever races of capture, ingest, retries and crashes.
THEOREM NoteEchoes == NotesSpec => []NeverEchoed
<1>1. NotesIInv => NeverEchoed
  BY DEF NotesIInv, DocumentOK, ByBot, NeverEchoed
<1> QED
  BY <1>1, NotesInvariance, PTL

\* A note that was accepted is never forgotten, and an ingest that read a note without
\* a vector leaves it a job.
THEOREM NotesAreOwed == NotesSpec => NotesOwed
<1>1. NotesIInv' => AcceptedIsOwed'
  BY DEF NotesIInv
<1>2. ASSUME NotesIInv, [NotesNext]_notesVars PROVE ReadIsOwed
  <2>1. SUFFICES ASSUME sync.pc = "store", sync'.pc = "idle", ~Refused,
                        NEW n \in ReadNotes, ChunkOf(n) # "ready"
                 PROVE  job'[<<n, "index">>].status # "succeeded"
    BY DEF ReadIsOwed
  <2>2. Store
    <3>1. sync' # sync
      BY <2>1
    <3>2. Store \/ Fetch \/ Refuse
      BY <1>2, <3>1 DEF NotesNext, notesVars, LookUp, Insert, Claim, IndexNote, ReadDocument,
        WriteNote, StageRaises, TimeOut, Crash, Settle, SweepExhausted, Arrive, Retry,
        DeliverDream, Edit
    <3> QED
      BY <2>1, <3>2 DEF Fetch, Refuse
  <2> DEFINE S == {m \in ReadNotes : ChunkOf(m) # "ready"}
             j == <<n, "index">>
  <2>3. job' = [k \in DOMAIN job \cup (S \X {"index"}) |->
                  IF k \notin DOMAIN job THEN Fresh
                  ELSE IF k[1] \in S /\ k[2] = "index" THEN Repaired(k) ELSE job[k]]
    BY <2>2 DEF Store, ImportedJobs
  <2>4. n \in S /\ j \in S \X {"index"} /\ j[1] = n /\ j[2] = "index"
    BY <2>1
  <2> HIDE DEF S, j
  <2>5. job'[j] = Fresh \/ job'[j] = Repaired(j)
    BY <2>3, <2>4
  <2>6. Fresh.status # "succeeded" /\ Repaired(j).status # "succeeded"
    BY DEF Fresh, Repaired
  <2> QED
    BY <2>5, <2>6 DEF j
<1>3. NotesIInv /\ NotesIInv' /\ [NotesNext]_notesVars => [AcceptedIsOwed' /\ ReadIsOwed]_notesVars
  BY <1>1, <1>2
<1> QED
  BY <1>3, NotesInvariance, PTL DEF NotesSpec, NotesOwed

-----------------------------------------------------------------------------
(* A note is written once, if cancelled requests end before the retry.        *)

LEMMA NoteIsNoHand == ASSUME NEW n \in Asked PROVE n # ByHand
<1>1. n = <<n[1], n[2]>>
  BY NotesAssumption
<1> QED
  BY <1>1 DEF ByHand

LEMMA SameDocument == UNCHANGED doc => \A n : LinesBy(n)' = LinesBy(n) /\ (Marked(n)' <=> Marked(n))
BY DEF LinesBy, Marked

LEMMA OnceStays == OnceInDoc /\ UNCHANGED doc => OnceInDoc'
BY SameDocument DEF OnceInDoc

\* Whoever reads or writes has another note than everyone else.
LEMMA OwnNote ==
  ASSUME NotesIInv, NEW v \in Workers, NEW w \in Workers,
         run[v].pc \in {"get", "put"}, run[w].pc \in {"get", "put"}, run[v].job[1] = run[w].job[1]
  PROVE  v = w
<1>1. /\ run[v].job[2] = "gdocs" /\ run[w].job[2] = "gdocs"
      /\ run[v].job = <<run[v].job[1], run[v].job[2]>> /\ run[w].job = <<run[w].job[1], run[w].job[2]>>
  BY DEF NotesIInv, WorkOK, Busy, JobsOK
<1>2. run[v].job = run[w].job
  BY <1>1
<1> QED
  BY <1>2 DEF NotesIInv, OneWorker

\* Lines of one author change nothing for the notes of others.
LEMMA MarksStay ==
  ASSUME DocumentOK, NEW new \in Seq(DocLines), NEW at \in Spots, doc' = Spliced(at, new),
         NEW a, \A i \in DOMAIN new : new[i].by = a, NEW n, n # a
  PROVE  Marked(n)' => Marked(n)
BY SplicedLines DEF DocumentOK, Marked

LEMMA HandWrites ==
  ASSUME NotesIInv, DeliverDream \/ Edit, NEW n \in Asked
  PROVE  /\ Marked(n)' => Marked(n)
         /\ (\A i, k \in LinesBy(n) : i = k) => \A i, k \in LinesBy(n)' : i = k
<1>1. DocumentOK /\ n # ByHand
  BY NoteIsNoHand DEF NotesIInv
<1>2. ASSUME NEW new \in Seq(DocLines), NEW at \in Spots,
             doc' = Spliced(at, new), \A i \in DOMAIN new : new[i].by = ByHand
      PROVE  /\ Marked(n)' => Marked(n)
             /\ (\A i, k \in LinesBy(n) : i = k) => \A i, k \in LinesBy(n)' : i = k
  <2>1. \A i \in DOMAIN new : new[i].by # n
    BY <1>1, <1>2
  <2>2. doc \in Seq(DocLines)
    BY <1>1 DEF DocumentOK
  <2>3. Marked(n)' => Marked(n)
    BY <1>1, <1>2, MarksStay
  <2> QED
    BY <1>2, <2>1, <2>2, <2>3, SplicedKeeps
<1>3. CASE DeliverDream
  BY <1>1, <1>2, <1>3, DeliverFits
<1>4. CASE \E m \in Asked : TypeNote(m)
  BY <1>1, <1>2, <1>4, TypeFits
<1>5. CASE \E d \in Entries, h \in NewHeads : Retitle(d, h)
  <2>1. /\ DOMAIN doc' = DOMAIN doc
        /\ \A i \in DOMAIN doc : doc'[i].by = doc[i].by /\ (doc[i].by # ByHand => doc'[i] = doc[i])
    BY <1>1, <1>5, RetitleFits
  <2>2. \A i \in DOMAIN doc : doc'[i].by = n => doc'[i] = doc[i]
    BY <1>1, <2>1
  <2> QED
    BY <2>1, <2>2 DEF Marked, LinesBy
<1> QED
  BY <1>3, <1>4, <1>5 DEF Edit

\* A note that lands: only it has lines more, and it has one.
LEMMA NoteWritten ==
  ASSUME NotesIInv, OnceInDoc, NEW n \in Asked, ~Marked(n), NEW at \in Spots, NEW seen,
         Lands(n, at, seen)
  PROVE  OnceInDoc' /\ \A m : m # n => (Marked(m)' => Marked(m))
<1>1. /\ NoteLines(n, n) \in Seq(DocLines)
      /\ \A i \in DOMAIN NoteLines(n, n) : NoteLines(n, n)[i].by = n
  BY NoteSeq DEF Authors
<1>2. doc' = Spliced(at, NoteLines(n, n)) /\ doc \in Seq(DocLines) /\ DocumentOK
  BY DEF Lands, NotesIInv, DocumentOK
<1>3. ASSUME NEW m \in Asked, m # n PROVE \A i, k \in LinesBy(m)' : i = k
  <2>1. \A i, k \in LinesBy(m) : i = k
    BY DEF OnceInDoc
  <2>2. \A i \in DOMAIN NoteLines(n, n) : NoteLines(n, n)[i].by # m
    BY <1>1, <1>3
  <2> QED
    BY <1>1, <1>2, <2>1, <2>2, SplicedKeeps
<1>4. \A i, k \in LinesBy(n)' : i = k
  BY <1>1, <1>2, SplicedOnce
<1>5. OnceInDoc'
  <2>1. \A m \in Asked : \A i, k \in LinesBy(m)' : i = k
    BY <1>3, <1>4
  <2> QED
    BY <2>1 DEF OnceInDoc
<1>6. ASSUME NEW m, m # n PROVE Marked(m)' => Marked(m)
  BY <1>1, <1>2, <1>6, MarksStay
<1> QED
  BY <1>5, <1>6

\* The writers of a worker that goes on to t, of a document and requests as they were.
LEMMA WriterMoves ==
  ASSUME NotesIInv, OneWriter, OnceInDoc, UNCHANGED <<doc, adrift>>,
         NEW w \in Workers, NEW t, run' = [run EXCEPT ![w] = t],
         t.pc = "put" => ~Marked(t.job[1]),
         t.pc \in {"get", "put"} => \A r \in adrift : t.job[1] # r.note
  PROVE  OneWriter' /\ OnceInDoc'
<1>1. OnceInDoc' /\ \A n : Marked(n)' <=> Marked(n)
  BY OnceStays, SameDocument
<1>2. run'[w] = t /\ \A v \in Workers : v # w => run'[v] = run[v]
  BY DEF NotesIInv, WorkOK
<1>3. ASSUME NEW v \in Workers PROVE run'[v].pc = "put" => ~Marked(run'[v].job[1])
  <2>1. CASE v = w
    BY <1>2, <2>1
  <2>2. CASE v # w
    BY <1>2, <2>2 DEF OneWriter
  <2> QED
    BY <2>1, <2>2
<1>4. ASSUME NEW r \in adrift, NEW v \in Workers
      PROVE  run'[v].pc \in {"get", "put"} => run'[v].job[1] # r.note
  <2>1. CASE v = w
    BY <1>2, <2>1
  <2>2. CASE v # w
    BY <1>2, <2>2 DEF OneWriter
  <2> QED
    BY <2>1, <2>2
<1>5. \A r \in adrift : ~Marked(r.note)'
  BY <1>1 DEF OneWriter
<1>6. \A r, s \in adrift : r.note = s.note => r = s
  BY DEF OneWriter
<1>7. adrift' = adrift
  OBVIOUS
<1>8. \A v \in Workers : run'[v].pc = "put" => \A i \in DOMAIN doc' : doc'[i].by # run'[v].job[1]
  BY <1>3 DEF Marked
<1>9. OneWriter'
  BY <1>4, <1>5, <1>6, <1>7, <1>8 DEF OneWriter, Marked
<1> QED
  BY <1>1, <1>9

\* A worker that claims, indexes, reads or settles.
LEMMA ReaderSteps ==
  ASSUME NotesIInv, OneWriter, OnceInDoc, ~LateThreads, NEW w \in Workers,
         Claim(w) \/ IndexNote(w) \/ ReadDocument(w) \/ StageRaises(w) \/ Settle(w)
  PROVE  OneWriter' /\ OnceInDoc'
<1>1. UNCHANGED <<doc, adrift>>
  BY DEF Claim, IndexNote, ReadDocument, StageRaises, Settle
<1>2. CASE Claim(w)
  <2>1. PICK j \in DOMAIN job :
          /\ \A r \in adrift : r.note # j[1]
          /\ run' = [run EXCEPT ![w] = [pc |-> IF j[2] = "index" THEN "index" ELSE "get", job |-> j]]
    BY <1>2 DEF Claim
  <2> DEFINE t == [pc |-> IF j[2] = "index" THEN "index" ELSE "get", job |-> j]
  <2>2. run' = [run EXCEPT ![w] = t] /\ t.pc # "put" /\ t.job = j
    BY <2>1
  <2> HIDE DEF t
  <2> QED
    BY <1>1, <2>1, <2>2, WriterMoves
<1>3. CASE \E pc \in {"ok", "error"} : Goto(w, pc)
  <2>1. PICK pc \in {"ok", "error"} : Goto(w, pc)
    BY <1>3
  <2> DEFINE t == [pc |-> pc, job |-> run[w].job]
  <2>2. run' = [run EXCEPT ![w] = t] /\ t.pc \notin {"get", "put"}
    BY <2>1 DEF Goto
  <2> HIDE DEF t
  <2> QED
    BY <1>1, <2>2, WriterMoves
<1>4. CASE Settle(w)
  <2>1. run' = [run EXCEPT ![w] = Resting] /\ Resting.pc \notin {"get", "put"}
    BY <1>4 DEF Settle, Resting
  <2> QED
    BY <1>1, <2>1, WriterMoves
<1>5. CASE /\ run[w].pc = "get" /\ ~Marked(run[w].job[1])
           /\ \E at : run' = [run EXCEPT ![w] = [pc |-> "put", job |-> @.job, at |-> at, seen |-> doc]]
  <2>1. PICK at : run' = [run EXCEPT ![w] = [pc |-> "put", job |-> run[w].job, at |-> at, seen |-> doc]]
    BY <1>5
  <2> DEFINE t == [pc |-> "put", job |-> run[w].job, at |-> at, seen |-> doc]
  <2>2. run' = [run EXCEPT ![w] = t] /\ t.job = run[w].job
    BY <2>1
  <2>3. \A r \in adrift : run[w].job[1] # r.note
    BY <1>5 DEF OneWriter
  <2> HIDE DEF t
  <2> QED
    BY <1>1, <1>5, <2>2, <2>3, WriterMoves
<1>6. ReadDocument(w) =>
        \/ \E pc \in {"ok", "error"} : Goto(w, pc)
        \/ /\ run[w].pc = "get" /\ ~Marked(run[w].job[1])
           /\ \E at : run' = [run EXCEPT ![w] = [pc |-> "put", job |-> @.job, at |-> at, seen |-> doc]]
  BY DEF ReadDocument
<1>7. IndexNote(w) \/ StageRaises(w) => \E pc \in {"ok", "error"} : Goto(w, pc)
  BY DEF IndexNote, StageRaises
<1> QED
  BY <1>2, <1>3, <1>4, <1>5, <1>6, <1>7

LEMMA WriterStep ==
  ASSUME NotesIInv, OneWriter, OnceInDoc, NEW w \in Workers, WriteNote(w)
  PROVE  OneWriter' /\ OnceInDoc'
<1>1. PICK n, at, seen : n = run[w].job[1] /\ at = run[w].at /\ seen = run[w].seen
  OBVIOUS
<1>2. run[w].pc = "put" /\ Lands(n, at, seen) /\ UNCHANGED adrift
  BY <1>1 DEF WriteNote
<1>3. n \in Asked /\ at \in Spots
  BY <1>1, <1>2, PutFits DEF ByBot
<1>4. ~Marked(n) /\ \A r \in adrift : r.note # n
  BY <1>1, <1>2 DEF OneWriter
<1>5. OnceInDoc' /\ \A m : m # n => (Marked(m)' => Marked(m))
  BY <1>2, <1>3, <1>4, NoteWritten
<1>6. PICK answer \in {"ok", "error"} : Goto(w, answer)
  BY DEF WriteNote
<1>7. run'[w].pc = answer /\ \A v \in Workers : v # w => run'[v] = run[v]
  BY <1>6 DEF Goto, NotesIInv, WorkOK
<1>8. ASSUME NEW v \in Workers, run'[v].pc = "put"
      PROVE  \A i \in DOMAIN doc' : doc'[i].by # run'[v].job[1]
  <2>1. v # w /\ run'[v] = run[v] /\ run[v].pc = "put"
    BY <1>7, <1>8
  <2>2. PICK m : m = run[v].job[1]
    OBVIOUS
  <2>3. m # n
    BY <1>1, <1>2, <2>1, <2>2, OwnNote
  <2>4. ~Marked(m)
    BY <2>1, <2>2 DEF OneWriter
  <2>5. ~Marked(m)'
    BY <1>5, <2>3, <2>4
  <2> QED
    BY <2>1, <2>2, <2>5 DEF Marked
<1>9. ASSUME NEW r \in adrift
      PROVE  /\ \A i \in DOMAIN doc' : doc'[i].by # r.note
             /\ \A v \in Workers : run'[v].pc \in {"get", "put"} => run'[v].job[1] # r.note
  <2>1. r.note # n /\ ~Marked(r.note)
    BY <1>4 DEF OneWriter
  <2>2. PICK m : m = r.note
    OBVIOUS
  <2>3. ~Marked(m)'
    BY <1>5, <2>1, <2>2
  <2>4. \A v \in Workers : run'[v].pc \in {"get", "put"} => run'[v].job[1] # r.note
    BY <1>7 DEF OneWriter
  <2> QED
    BY <2>2, <2>3, <2>4 DEF Marked
<1>10. \A r, s \in adrift : r.note = s.note => r = s
  BY DEF OneWriter
<1>11. OneWriter'
  BY <1>2, <1>8, <1>9, <1>10 DEF OneWriter, Marked
<1> QED
  BY <1>5, <1>11

\* A worker that is cut off hands its note over to the request that is adrift.
LEMMA CutWriter ==
  ASSUME NotesIInv, OneWriter, OnceInDoc, NEW w \in Workers, TimeOut(w) \/ Crash(w)
  PROVE  OneWriter' /\ OnceInDoc'
<1>1. Cut(w) /\ UNCHANGED doc
  BY DEF TimeOut, Crash
<1>2. OnceInDoc' /\ \A n : Marked(n)' <=> Marked(n)
  BY <1>1, OnceStays, SameDocument
<1>3. run'[w].pc \notin {"get", "put"} /\ \A v \in Workers : v # w => run'[v] = run[v]
  BY DEF TimeOut, Crash, Goto, Resting, NotesIInv, WorkOK
<1>4. \A v \in Workers : run'[v].pc = "put" => ~Marked(run'[v].job[1])
  BY <1>3 DEF OneWriter
<1>5. ASSUME NEW r \in adrift'
      PROVE  /\ ~Marked(r.note)
             /\ \A v \in Workers : run'[v].pc \in {"get", "put"} => run'[v].job[1] # r.note
  <2>1. CASE r \in adrift
    BY <1>3, <2>1 DEF OneWriter
  <2>2. CASE r \notin adrift
    <3>1. run[w].pc = "put" /\ r.note = run[w].job[1]
      BY <1>1, <1>5, <2>2 DEF Cut
    <3>2. ~Marked(r.note)
      BY <3>1 DEF OneWriter
    <3>3. ASSUME NEW v \in Workers, run'[v].pc \in {"get", "put"} PROVE run'[v].job[1] # r.note
      BY <1>3, <3>1, <3>3, OwnNote
    <3> QED
      BY <3>2, <3>3
  <2> QED
    BY <2>1, <2>2
<1>6. ASSUME NEW r \in adrift', NEW s \in adrift', r.note = s.note PROVE r = s
  <2> DEFINE new == [note |-> run[w].job[1], at |-> run[w].at, seen |-> run[w].seen]
  <2>1. adrift' = adrift \/ (run[w].pc = "put" /\ adrift' = adrift \cup {new})
    BY <1>1 DEF Cut
  <2>2. run[w].pc = "put" => \A x \in adrift : x.note # new.note
    BY DEF OneWriter
  <2> HIDE DEF new
  <2> QED
    BY <1>6, <2>1, <2>2 DEF OneWriter
<1>7. \A v \in Workers : run'[v].pc = "put" => \A i \in DOMAIN doc' : doc'[i].by # run'[v].job[1]
  BY <1>1, <1>4 DEF Marked
<1>8. \A r \in adrift' : \A i \in DOMAIN doc' : doc'[i].by # r.note
  BY <1>1, <1>5 DEF Marked
<1>9. OneWriter'
  BY <1>5, <1>6, <1>7, <1>8 DEF OneWriter, Marked
<1> QED
  BY <1>2, <1>9

LEMMA ArriveWriter ==
  ASSUME NotesIInv, OneWriter, OnceInDoc, Arrive
  PROVE  OneWriter' /\ OnceInDoc'
<1>1. PICK r \in adrift : adrift' = adrift \ {r} /\ (Lands(r.note, r.at, r.seen) \/ UNCHANGED <<doc, torn>>)
  BY DEF Arrive
<1>2. PICK n, at, seen : n = r.note /\ at = r.at /\ seen = r.seen
  OBVIOUS
<1>3. n \in Asked /\ at \in Spots /\ ~Marked(n) /\ UNCHANGED run
  BY <1>2 DEF NotesIInv, AdriftOK, ByBot, OneWriter, Arrive
<1>4. OnceInDoc' /\ \A m : m # n => (Marked(m)' => Marked(m))
  <2>1. CASE Lands(n, at, seen)
    BY <1>3, <2>1, NoteWritten
  <2>2. CASE UNCHANGED doc
    BY <2>2, OnceStays, SameDocument
  <2> QED
    BY <1>1, <1>2, <2>1, <2>2
<1>5. ASSUME NEW m, m # n, ~Marked(m) PROVE \A i \in DOMAIN doc' : doc'[i].by # m
  <2>1. ~Marked(m)'
    BY <1>4, <1>5
  <2> QED
    BY <2>1 DEF Marked
<1>6. ASSUME NEW v \in Workers, run[v].pc = "put"
      PROVE  \A i \in DOMAIN doc' : doc'[i].by # run[v].job[1]
  <2>1. run[v].job[1] # n /\ ~Marked(run[v].job[1])
    BY <1>2, <1>6 DEF OneWriter
  <2> QED
    BY <1>5, <2>1
<1>7. ASSUME NEW s \in adrift' PROVE \A i \in DOMAIN doc' : doc'[i].by # s.note
  <2>1. s \in adrift /\ s.note # n /\ ~Marked(s.note)
    BY <1>1, <1>2 DEF OneWriter
  <2> QED
    BY <1>5, <2>1
<1>8. OneWriter'
  BY <1>1, <1>3, <1>6, <1>7 DEF OneWriter, Marked
<1> QED
  BY <1>4, <1>8

LEMMA HandWriter ==
  ASSUME NotesIInv, OneWriter, OnceInDoc, DeliverDream \/ Edit
  PROVE  OneWriter' /\ OnceInDoc'
<1>1. UNCHANGED <<run, adrift>>
  BY DEF DeliverDream, Edit
<1>2. ASSUME NEW n \in Asked, ~Marked(n) PROVE \A i \in DOMAIN doc' : doc'[i].by # n
  <2>1. ~Marked(n)'
    BY <1>2, HandWrites
  <2> QED
    BY <2>1 DEF Marked
<1>3. OnceInDoc'
  <2>1. ASSUME NEW n \in Asked PROVE \A i, k \in LinesBy(n)' : i = k
    BY HandWrites DEF OnceInDoc
  <2> QED
    BY <2>1 DEF OnceInDoc
<1>4. ASSUME NEW v \in Workers, run[v].pc = "put"
      PROVE  \A i \in DOMAIN doc' : doc'[i].by # run[v].job[1]
  <2>1. run[v].job[1] \in Asked /\ ~Marked(run[v].job[1])
    BY <1>4, PutFits DEF ByBot, OneWriter
  <2> QED
    BY <1>2, <2>1
<1>5. ASSUME NEW r \in adrift PROVE \A i \in DOMAIN doc' : doc'[i].by # r.note
  <2>1. r.note \in Asked /\ ~Marked(r.note)
    BY DEF NotesIInv, AdriftOK, ByBot, OneWriter
  <2> QED
    BY <1>2, <2>1
<1>6. OneWriter'
  BY <1>1, <1>4, <1>5 DEF OneWriter, Marked
<1> QED
  BY <1>3, <1>6

LEMMA WritersGoOn ==
  ASSUME ~LateThreads, NotesIInv, OneWriter, OnceInDoc, [NotesNext]_notesVars
  PROVE  OneWriter' /\ OnceInDoc'
<1>1. CASE UNCHANGED <<doc, run, adrift>>
  <2>1. OnceInDoc'
    BY <1>1, OnceStays
  <2> QED
    BY <1>1, <2>1 DEF OneWriter, Marked
<1>2. \/ UNCHANGED <<doc, run, adrift>>
      \/ \E w \in Workers :
           \/ Claim(w) \/ IndexNote(w) \/ ReadDocument(w) \/ StageRaises(w) \/ Settle(w)
           \/ WriteNote(w) \/ TimeOut(w) \/ Crash(w)
      \/ Arrive \/ DeliverDream \/ Edit
  BY DEF NotesNext, notesVars, LookUp, Insert, SweepExhausted, Retry, Fetch, Store, Refuse
<1> QED
  BY <1>1, <1>2, ReaderSteps, WriterStep, CutWriter, ArriveWriter, HandWriter

\* However often a note is written again after lost answers, timeouts and crashes,
\* the document holds it once, if a cancelled request ends before the retry.
THEOREM NoteOnce == ~LateThreads => (NotesSpec => []WrittenOnce)
<1>1. NotesIInv /\ OneWriter /\ OnceInDoc => WrittenOnce
  <2>1. SUFFICES ASSUME NotesIInv, OnceInDoc, NEW n \in DOMAIN noteRows
                 PROVE  Cardinality(LinesBy(n)) <= 1
    BY DEF WrittenOnce
  <2>2. CASE LinesBy(n) = {}
    BY <2>2, FS_EmptySet
  <2>3. CASE LinesBy(n) # {}
    <3>1. PICK i : i \in LinesBy(n)
      BY <2>3
    <3>2. n # ByHand
      <4>1. n = <<n[1], n[2]>>
        BY <2>1 DEF NotesIInv, RowsOK
      <4> QED
        BY <4>1 DEF ByHand
    <3>3. n \in Asked
      BY <2>1, <3>1, <3>2 DEF LinesBy, NotesIInv, DocumentOK, ByBot
    <3>4. LinesBy(n) = {i}
      BY <2>1, <3>1, <3>3 DEF OnceInDoc
    <3>5. Cardinality({i}) = 1
      BY FS_Singleton
    <3> QED
      BY <3>4, <3>5
  <2> QED
    BY <2>2, <2>3
<1>2. NotesInit => NotesIInv /\ OneWriter /\ OnceInDoc
  BY NotesBegin
<1>3. ~LateThreads => (NotesIInv /\ OneWriter /\ OnceInDoc /\ [NotesNext]_notesVars
                         => NotesIInv' /\ OneWriter' /\ OnceInDoc')
  BY NotesGoOn, WritersGoOn
<1>4. ASSUME ~LateThreads PROVE NotesSpec => []WrittenOnce
  <2>1. NotesIInv /\ OneWriter /\ OnceInDoc /\ [NotesNext]_notesVars
          => NotesIInv' /\ OneWriter' /\ OnceInDoc'
    BY <1>3, <1>4
  <2> QED
    BY <1>1, <1>2, <2>1, PTL DEF NotesSpec
<1> QED
  BY <1>4

=============================================================================
