------------------------- MODULE CurationParameters -------------------------
(* The constants that themes, motifs and the memory graph share.             *)
CONSTANTS
  Dreams,    \* dreams of the archive
  Motifs,    \* numbers, which stand for the ids of motif rows
  Requests   \* requests and background runs at once
=============================================================================
