------------------------------ MODULE MCCuration ------------------------------
(* Instances side by side, of which a behaviour takes one: themes and their  *)
(* versions (ThemeCuration), motifs and their evidence (MotifReview), and    *)
(* the memory graph with controls of a dream and of an edge (DreamMemory).   *)
EXTENDS ThemeCuration, MotifReview, DreamMemory, TLC

CONSTANTS d1, d2   \* dreams

VARIABLE part

mcvars == <<part, vars, motifVars, memoryVars>>

Orders == {<<"stair", "sea">>, <<"sea", "stair">>, <<"sea">>}
Quotes == {<<"stair">>}
Repeated == {[type |-> "dream", of |-> <<d1>>], Repeats(1, 2)}

Symmetry == Permutations(Requests)

PartsInit ==
  /\ part \in {"themes", "motifs", "memory"}
  /\ Init /\ ReviewInit /\ MemoryInit

PartsNext ==
  /\ UNCHANGED part
  /\ \/ part = "themes" /\ Next /\ UNCHANGED <<motifVars, memoryVars>>
     \/ part = "motifs" /\ ReviewNext /\ UNCHANGED <<vars, memoryVars>>
     \/ part = "memory" /\ MemoryNext /\ UNCHANGED <<vars, motifVars>>

PartsSpec == PartsInit /\ [][PartsNext]_mcvars
=============================================================================
