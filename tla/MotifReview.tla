----------------------------- MODULE MotifReview -----------------------------
(***************************************************************************)
(* Motifs of a dream: services/motif_service.py proposes drafts with       *)
(* quotations, api/motifs.py lets the user rename, confirm and reject them *)
(* and keeps a version of every decision.  The text of a stored dream      *)
(* stays: an ingest that meets another one refuses (ingest.py).            *)
(***************************************************************************)
EXTENDS CurationParameters, Evidence

CONSTANTS
  Interpreted, \* dreams whose motifs are induced and reviewed
  Texts,       \* what a dream may say
  Names,       \* names of motifs
  Words,       \* what a model may quote
  MaxReviews   \* bound: decisions of the user

\* A text is a sequence, and a dream says something.
Characters == UNION {{s[i] : i \in DOMAIN s} : s \in Texts}
ASSUME TextAssumption == Texts \subseteq Seq(Characters) \ {<<>>}

VARIABLES
  text,    \* [Interpreted -> Texts or NoText]
  motif,   \* [Motifs -> row or NoMotif]
  log,     \* [Motifs -> Seq], the versions of each motif
  work,    \* [Requests -> what each has read]
  reviews  \* decisions so far

motifVars == <<text, motif, log, work, reviews>>

NoText == <<>>
NoMotif == [status |-> "none"]
MotifStatuses == {"draft", "confirmed", "rejected"}
Resting == [op |-> "idle"]
Stored(m) == motif[m] # NoMotif

ReviewInit ==
  /\ text = [d \in Interpreted |-> NoText]
  /\ motif = [m \in Motifs |-> NoMotif]
  /\ log = [m \in Motifs |-> <<>>]
  /\ work = [r \in Requests |-> Resting]
  /\ reviews = 0

-----------------------------------------------------------------------------
\* A capture or an ingest stores a dream.
Capture(d) ==
  /\ text[d] = NoText
  /\ \E s \in Texts : text' = [text EXCEPT ![d] = s]
  /\ UNCHANGED <<motif, log, work, reviews>>

-----------------------------------------------------------------------------
(* Induction, by an outbox job or after an ingest.                         *)

\* The dream is loaded, and one that has motifs is left alone.
StartInduction(r) ==
  /\ work[r] = Resting
  /\ \E d \in Interpreted :
       /\ text[d] # NoText
       /\ \A m \in Motifs : Stored(m) => motif[m].dream # d
       /\ work' = [work EXCEPT ![r] = [op |-> "induce", dream |-> d]]
  /\ UNCHANGED <<text, motif, log, reviews>>

\* What the first model answers in the end: quotations within the text.
Proposals(s) ==
  {f \in [text : Words, from : 0..Len(s), to : 0..Len(s)] : Acceptable(f, s)}

\* What the second makes of them: labels, each with one of them to support it.
Candidates(ids, s) == [ids -> [label : Names, support : Proposals(s)]]

AutoConfirmed(d, label, s, support) ==                      \* mutant of DraftMotif
  [dream |-> d, label |-> label, identity |-> label, status |-> "confirmed",
   fragments |-> {f \in support : Grounded(f, s)}]
\* One row per label whose support could be verified.
DraftMotif(d, label, s, support) ==
  [dream |-> d, label |-> label, identity |-> label, status |-> "draft",
   fragments |-> {f \in support : Grounded(f, s)}]

\* The rows of a run are one transaction; a row of the dream with the same
\* normalized label makes it fail (uq_motif_inductions_dream_normalized_label).
StoreMotifs(r) ==
  /\ work[r].op = "induce"
  /\ LET d == work[r].dream
         s == text[d]
     IN  \E ids \in SUBSET {m \in Motifs : ~Stored(m)} :
         \E answer \in Candidates(ids, s) :
           LET new(m) == DraftMotif(d, answer[m].label, s, {answer[m].support})
           IN  /\ \A m, n \in ids : answer[m].label = answer[n].label => m = n
               /\ \A m \in ids : new(m).fragments # {}
               /\ \A m \in ids, n \in Motifs : Stored(n) /\ motif[n].dream = d =>
                    motif[n].identity # answer[m].label
               /\ motif' = [m \in Motifs |-> IF m \in ids THEN new(m) ELSE motif[m]]
  /\ work' = [work EXCEPT ![r] = Resting]
  /\ UNCHANGED <<text, log, reviews>>

-----------------------------------------------------------------------------
(* Review.                                                                 *)

DecisionOf(row) == [label |-> row.label, status |-> row.status]

AnyRow(m) == TRUE                                           \* mutant of Lockable
\* SELECT ... FOR UPDATE waits until the row is free.
Lockable(m) == \A r \in Requests : work[r].op = "review" => work[r].motif # m

\* update_motif_status up to its check that something changes.
LoadMotif(r) ==
  /\ work[r] = Resting
  /\ \E m \in Motifs, label \in Names, status \in MotifStatuses :
       /\ Stored(m) /\ Lockable(m)
       /\ [label |-> label, status |-> status] # DecisionOf(motif[m])
       /\ work' = [work EXCEPT ![r] =
                     [op |-> "review", motif |-> m, seen |-> DecisionOf(motif[m]),
                      want |-> [label |-> label, status |-> status]]]
  /\ UNCHANGED <<text, motif, log, reviews>>

\* A confirmation carries receipts, made from the state after it.
Receipt(seen, want) ==
  IF seen.status # "confirmed" /\ want.status = "confirmed" THEN {want.label} ELSE {}

CommitReview(r) ==
  /\ work[r].op = "review" /\ reviews < MaxReviews
  /\ LET m == work[r].motif
         seen == work[r].seen
         want == work[r].want
     IN  /\ log' = [log EXCEPT ![m] =
                      Append(@, [before |-> seen, after |-> want,
                                 receipts |-> Receipt(seen, want)])]
         /\ motif' = [motif EXCEPT
              ![m].label  = IF want.label # seen.label THEN want.label ELSE @,
              ![m].status = IF want.status # seen.status THEN want.status ELSE @]
  /\ work' = [work EXCEPT ![r] = Resting]
  /\ reviews' = reviews + 1
  /\ UNCHANGED text

\* A provider fails, a run finds its labels taken, a connection or process ends.
GiveUp(r) ==
  /\ work[r] # Resting
  /\ work' = [work EXCEPT ![r] = Resting]
  /\ UNCHANGED <<text, motif, log, reviews>>

ReviewNext ==
  \/ \E d \in Interpreted : Capture(d)
  \/ \E r \in Requests :
       \/ StartInduction(r) \/ StoreMotifs(r)
       \/ LoadMotif(r) \/ CommitReview(r) \/ GiveUp(r)

ReviewSpec == ReviewInit /\ [][ReviewNext]_motifVars

-----------------------------------------------------------------------------
(* Properties.                                                             *)

\* The decisions on a motif form one chain from the draft to the row, however many
\* requests decide on it at once: each version starts where the one before ended,
\* and the last one is what the motif is.
MotifChain ==
  \A m \in Motifs : Stored(m) =>
    LET first == [label |-> motif[m].identity, status |-> "draft"]
        StateAt(i) == IF i = 0 THEN first ELSE log[m][i].after
    IN  /\ \A i \in 1..Len(log[m]) : log[m][i].before = StateAt(i - 1)
        /\ StateAt(Len(log[m])) = DecisionOf(motif[m])

\* "Expose only excerpts that can be checked byte-for-byte against the dream"
\* (api/motifs.py): what the grounder lets a motif keep is what the review shows, all
\* of it and where the model found it, and none is left without evidence.
EvidenceVerbatim ==
  \A m \in Motifs : Stored(m) =>
    LET now == text[motif[m].dream]
        fragments == motif[m].fragments
    IN  /\ fragments # {} /\ Reviewed(fragments, now) = fragments
        /\ \A f \in fragments : f.text = Slice(now, f.from, f.to)

\* What a motif is, is what was decided of it, and what it shows is what its dream
\* says.
MotifsWarranted == MotifChain /\ EvidenceVerbatim

(* The shelf.                                                              *)
Captures == {d \in Interpreted : text[d] # NoText}
Entries == [m \in Motifs |-> IF Stored(m)
                             THEN [dream |-> motif[m].dream, label |-> motif[m].label,
                                   status |-> motif[m].status]
                             ELSE NoMotif]
Shelf == INSTANCE MotifShelf WITH
  Dreams <- Interpreted, Labels <- Names, dreams <- Captures, shelf <- Entries
\* Readers of the shelf may rely on MotifShelf: drafts of captured dreams that keep
\* their dream and change by decisions only, whatever runs at once.
ImplementsShelf == Shelf!ShelfSpec
=============================================================================
