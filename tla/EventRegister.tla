---------------------------- MODULE EventRegister ----------------------------
(* What capture promises about the events of a chat: the first text that an  *)
(* event brings is kept under one number for good, its repetitions are told   *)
(* that number, and another text is refused.                                  *)

CONSTANTS Events, Numbers, Bodies

VARIABLES
  register,   \* per event: {} or {<<number, text>>}
  said        \* the answers: <<event, text, verdict, number>>

Say(e, b, verdict, r) == said' = said \cup {<<e, b, verdict, r>>}

Keep(e, b, r) ==
  /\ register[e] = {}
  /\ register' = [register EXCEPT ![e] = {<<r, b>>}]
  /\ Say(e, b, "created", r)

Repeat(e, b, r) ==
  /\ <<r, b>> \in register[e]
  /\ Say(e, b, "existing", r)
  /\ UNCHANGED register

Contradict(e, b, r) ==
  /\ \E kept \in register[e] : kept[1] = r /\ kept[2] # b
  /\ Say(e, b, "conflict", r)
  /\ UNCHANGED register

Init == register = [e \in Events |-> {}] /\ said = {}

Next == \E e \in Events, b \in Bodies, r \in Numbers :
          Keep(e, b, r) \/ Repeat(e, b, r) \/ Contradict(e, b, r)

Spec == Init /\ [][Next]_<<register, said>>
=============================================================================
