---------------------------- MODULE CurationProofs ----------------------------
(***************************************************************************)
(* The history of themes, for any archive, any categories and any number of   *)
(* requests at once: it is complete, signed, and all of it can be restored.   *)
(***************************************************************************)
EXTENDS ThemeCuration, MotifReview, DreamMemory, FiniteSetTheorems, TLAPS

(* A category is no theme.                                                  *)
Apart == Categories \cap Themes = {}

TypeOK ==
  /\ theme \in [Themes -> Row \cup {NoRow}]
  /\ past \in [Themes -> SUBSET Row]
  /\ DOMAIN tx = Requests
  /\ commits \in Nat
  /\ \A v \in history : v.at \in Nat /\ v.at <= commits

(* A theme has been what it is, and one that has been is.                    *)
Lived ==
  \A t \in Themes : (Exists(t) => theme[t] \in past[t]) /\ (past[t] # {} => Exists(t))

(* What a request knows: what it has read has been, and only an analysis finds *)
(* a category without a row.                                                 *)
Sighted(q) ==
  /\ q.over \subseteq Themes
  /\ \A t \in q.over : q.seen[t] \in past[t] \/ (q.op = "analysed" /\ q.seen[t] = NoRow)
Known(q) ==
  /\ q.op = "asking" => q.over \subseteq Themes
  /\ q.op = "analysed" => Sighted(q) /\ q.found \in [q.over -> Reading]
  /\ q.op = "transition" => Sighted(q) /\ q.to \in Statuses
  /\ q.op = "rollback" => Sighted(q) /\ q.version \in history /\ q.over = {q.version.of}
  /\ q.op = "category" => q.of \in Categories

IInv ==
  /\ TypeOK /\ Lived /\ AuditComplete /\ RestorableWasReal
  /\ \A r \in Requests : Known(tx[r])

(* Versions that a commit may store.                                         *)
Sound(versions) ==
  /\ \A v, w \in versions : v.of = w.of => v = w
  /\ \A v \in versions :
       /\ v.of \in Themes /\ v.kind \in Kinds /\ v.at = commits + 1 /\ v.after \in Row
       /\ Born(v) => ~Exists(v.of)
       /\ ~Born(v) => v.before \in past[v.of]
       /\ v.kind = "rollback" => v.after \in past[v.of]
       /\ v.kind = "update" => v.after.status = v.before.status
       /\ v.kind \in {"transition", "rollback"} => v.by = "user"

-----------------------------------------------------------------------------
(* Rows.                                                                   *)

LEMMA NoRowIsNone == NoRow \notin Row
<1>1. SUFFICES ASSUME NoRow \in Row PROVE FALSE
  OBVIOUS
<1>2. NoRow.status \in Statuses
  BY <1>1 DEF Row
<1>3. QED
  BY <1>2 DEF NoRow, Statuses

\* An UPDATE leaves a row, of which every column is as it was or as wanted; what was
\* not to change is as it was.
LEMMA WrittenIsRow ==
  ASSUME NEW now \in Row, NEW seen \in Row, NEW want \in Row
  PROVE  /\ Written(now, seen, want) \in Row
         /\ \A a \in Attributes : Written(now, seen, want)[a] \in {now[a], want[a]}
         /\ want.status = seen.status => Written(now, seen, want).status = now.status
<1> DEFINE w == Written(now, seen, want)
<1>1. DOMAIN want = {"status", "salience", "grounds", "deprecated"}
  BY DEF Row
<1>2. w = [a \in {"status", "salience", "grounds", "deprecated"} |->
             IF want[a] # seen[a] THEN want[a] ELSE now[a]]
  BY <1>1 DEF Written
<1>3. \A a \in {"status", "salience", "grounds", "deprecated"} : w[a] \in {now[a], want[a]}
  BY <1>2
<1>4. w = [status |-> w.status, salience |-> w.salience, grounds |-> w.grounds,
           deprecated |-> w.deprecated]
  BY <1>2
<1>5. /\ w.status \in Statuses /\ w.salience \in Saliences /\ w.grounds \in Grounds
      /\ w.deprecated \in BOOLEAN
  BY <1>3 DEF Row
<1>6. w \in Row
  BY <1>4, <1>5 DEF Row
<1>7. want.status = seen.status => w.status = now.status
  BY <1>2
<1>8. QED
  BY <1>3, <1>6, <1>7 DEF Attributes

-----------------------------------------------------------------------------
(* A commit of sound versions.                                              *)

LEMMA Committed ==
  ASSUME TypeOK, Lived, AuditComplete, RestorableWasReal,
         NEW r, NEW versions, Sound(versions), Commit(r, versions), DOMAIN tx' = Requests
  PROVE  /\ TypeOK' /\ Lived' /\ AuditComplete' /\ RestorableWasReal' /\ SignedStep
         /\ \A t \in Themes : past[t] \subseteq past'[t]
         /\ history \subseteq history'
<1> USE DEF TypeOK
<1> DEFINE of(t) == CHOOSE v \in versions : v.of = t
<1>1. \A v \in versions : of(v.of) = v
  BY DEF Sound
<1>2. \A v \in versions :
        theme'[v.of] = IF Born(v) THEN v.after ELSE Written(theme[v.of], v.before, v.after)
  <2> TAKE v \in versions
  <2>1. v.of \in Themes /\ \E w \in versions : w.of = v.of
    BY DEF Sound
  <2>2. QED
    BY <1>1, <2>1 DEF Commit
<1>3. \A t \in Themes : (\A v \in versions : v.of # t) => theme'[t] = theme[t]
  BY DEF Commit
<1>4. \A v \in versions : ~Born(v) => theme[v.of] \in Row /\ v.before \in Row /\ v.after \in Row
  BY NoRowIsNone DEF Sound, Lived, Exists
<1>5. \A v \in versions :
        /\ theme'[v.of] \in Row
        /\ \A a \in Attributes : theme'[v.of][a] = v.after[a]
             \/ (~Born(v) /\ theme'[v.of][a] = theme[v.of][a])
        /\ ~Born(v) /\ v.after.status = v.before.status
             => theme'[v.of].status = theme[v.of].status
  <2> TAKE v \in versions
  <2>1. CASE Born(v)
    BY <1>2, <2>1 DEF Sound
  <2>2. CASE ~Born(v)
    <3>1. theme[v.of] \in Row /\ v.before \in Row /\ v.after \in Row
      BY <1>4, <2>2
    <3>2. theme'[v.of] = Written(theme[v.of], v.before, v.after)
      BY <1>2, <2>2
    <3>3. QED
      BY <3>1, <3>2, <2>2, WrittenIsRow
  <2>3. QED
    BY <2>1, <2>2
<1>6. \A t \in Themes : theme'[t] \in Row \cup {NoRow}
  BY <1>3, <1>5
<1>7. /\ theme' = [t \in Themes |-> theme'[t]] /\ past' = [t \in Themes |-> past'[t]]
      /\ \A t \in Themes : past'[t] = past[t] \cup (IF theme'[t] = NoRow THEN {} ELSE {theme'[t]})
      /\ history' = history \cup versions /\ commits' = commits + 1
  BY DEF Commit
<1>8. TypeOK'
  <2>1. past' \in [Themes -> SUBSET Row]
    <3>1. \A t \in Themes : past'[t] \in SUBSET Row
      BY <1>6, <1>7
    <3>2. QED
      BY <1>7, <3>1
  <2>2. theme' \in [Themes -> Row \cup {NoRow}]
    BY <1>6, <1>7
  <2>3. \A v \in history' : v.at \in Nat /\ v.at <= commits'
    BY <1>7 DEF Sound
  <2>4. QED
    BY <1>7, <2>1, <2>2, <2>3
<1>9. \A t \in Themes : past[t] \subseteq past'[t]
  BY <1>7
<1>10. Lived'
  <2> SUFFICES ASSUME NEW t \in Themes
               PROVE  /\ theme'[t] # NoRow => theme'[t] \in past'[t]
                      /\ past'[t] # {} => theme'[t] # NoRow
    BY DEF Lived, Exists
  <2>1. theme'[t] # NoRow => theme'[t] \in past'[t]
    BY <1>7
  <2>2. CASE \A v \in versions : v.of # t
    <3>1. theme'[t] = theme[t]
      BY <1>3, <2>2
    <3>2. QED
      BY <3>1, <2>1, <1>7 DEF Lived, Exists
  <2>3. CASE \E v \in versions : v.of = t
    BY <2>1, <2>3, <1>5, NoRowIsNone
  <2>4. QED
    BY <2>2, <2>3
<1>11. AuditComplete'
  <2> SUFFICES ASSUME NEW t \in Themes, theme'[t] # NoRow, NEW a \in Attributes
               PROVE  \E v \in history' : v.of = t /\ v.after[a] = theme'[t][a]
    BY DEF AuditComplete, Exists
  <2>1. CASE theme[t] # NoRow /\ theme'[t][a] = theme[t][a]
    <3>1. \E v \in history : v.of = t /\ v.after[a] = theme[t][a]
      BY <2>1 DEF AuditComplete, Exists
    <3>2. QED
      BY <3>1, <2>1, <1>7
  <2>2. CASE ~(theme[t] # NoRow /\ theme'[t][a] = theme[t][a])
    <3>1. PICK v \in versions : v.of = t
      BY <2>2, <1>3
    <3>2. ~Born(v) => theme[t] # NoRow
      BY <3>1, <1>4, NoRowIsNone
    <3>3. theme'[t][a] = v.after[a]
      BY <3>1, <3>2, <2>2, <1>5
    <3>4. QED
      BY <3>1, <3>3, <1>7
  <2>3. QED
    BY <2>1, <2>2
<1>12. RestorableWasReal'
  <2> SUFFICES ASSUME NEW v \in history', v.of \in Themes PROVE Restorable(v) \in past'[v.of]
    BY DEF RestorableWasReal
  <2>1. CASE v \in history
    BY <2>1, <1>9 DEF RestorableWasReal
  <2>2. CASE v \in versions /\ Born(v)
    <3>1. theme'[v.of] = v.after /\ v.after \in Row
      BY <2>2, <1>2 DEF Sound
    <3>2. v.after \in past'[v.of]
      BY <3>1, <1>7, NoRowIsNone
    <3>3. QED
      BY <2>2, <3>2 DEF Restorable, Born
  <2>3. CASE v \in versions /\ ~Born(v)
    <3>1. Restorable(v) \in past[v.of]
      BY <2>3 DEF Restorable, Sound, Born
    <3>2. QED
      BY <3>1, <1>9
  <2>4. QED
    BY <2>1, <2>2, <2>3, <1>7
<1>13. SignedStep
  <2> SUFFICES ASSUME NEW t \in Themes, theme[t] # NoRow, theme'[t].status # theme[t].status
               PROVE  \E v \in history' \ history : /\ v.of = t /\ v.by = "user"
                                                    /\ v.after.status = theme'[t].status
    BY DEF SignedStep, Exists
  <2>1. PICK v \in versions : v.of = t
    BY <1>3
  <2>2. ~Born(v)
    BY <2>1 DEF Sound, Exists
  <2>3. v.kind \in {"transition", "rollback"}
    BY <2>1, <2>2, <1>5 DEF Sound, Born, Kinds
  <2>4. v.by = "user" /\ v \notin history /\ v \in history'
    BY <2>3, <1>7 DEF Sound
  <2>5. theme'[t].status = v.after.status
    BY <2>1, <1>5 DEF Attributes
  <2>6. QED
    BY <2>1, <2>4, <2>5
<1>14. QED
  BY <1>7, <1>8, <1>9, <1>10, <1>11, <1>12, <1>13

-----------------------------------------------------------------------------
(* Steps that leave the themes alone.                                       *)

\* A step of one request, or of none, that leaves the rows and their history.
LEMMA Quietly ==
  ASSUME IInv, UNCHANGED <<theme, history, commits, past>>,
         \/ tx' = tx
         \/ \E r \in Requests : \E q : tx' = [tx EXCEPT ![r] = q] /\ Known(q)
  PROVE  IInv' /\ SignedStep
<1> USE DEF IInv
<1>1. TypeOK'
  BY DEF TypeOK
<1>2. Lived' /\ AuditComplete' /\ RestorableWasReal'
  BY DEF Lived, AuditComplete, RestorableWasReal, Exists
<1>3. ASSUME NEW s \in Requests PROVE Known(tx[s])'
  <2>1. \A q : Known(q) => Known(q)'
    BY DEF Known, Sighted
  <2>2. Known(tx'[s])
    BY DEF TypeOK
  <2>3. QED
    BY <2>2 DEF Known, Sighted
<1>4. SignedStep
  BY DEF SignedStep
<1>5. QED
  BY <1>1, <1>2, <1>3, <1>4

LEMMA IdleKnowsNothing == Known(Idle) /\ Known(Idle)'
BY DEF Known, Idle

\* A request commits and is over.
LEMMA CommitIsSafe ==
  ASSUME IInv, NEW r \in Requests, NEW versions, Sound(versions), Commit(r, versions), Finish(r)
  PROVE  IInv' /\ SignedStep
<1>1. DOMAIN tx' = Requests /\ \A s \in Requests : tx'[s] = IF s = r THEN Idle ELSE tx[s]
  BY DEF IInv, TypeOK, Finish
<1>2. /\ TypeOK' /\ Lived' /\ AuditComplete' /\ RestorableWasReal' /\ SignedStep
      /\ \A t \in Themes : past[t] \subseteq past'[t]
      /\ history \subseteq history'
  BY <1>1, Committed DEF IInv
<1>3. ASSUME NEW s \in Requests PROVE Known(tx[s])'
  <2>1. CASE s = r
    BY <2>1, <1>1 DEF Known, Idle
  <2>2. CASE s # r
    <3>1. tx'[s] = tx[s] /\ Known(tx[s])
      BY <1>1, <2>2 DEF IInv
    <3>2. QED
      BY <3>1, <1>2 DEF Known, Sighted, IInv, TypeOK
  <2>3. QED
    BY <2>1, <2>2
<1>4. QED
  BY <1>2, <1>3 DEF IInv

-----------------------------------------------------------------------------
(* The versions of each request are sound.                                  *)

LEMMA AnalysisIsSound ==
  ASSUME IInv, NEW r \in Requests, tx[r].op = "analysed",
         \A t \in tx[r].over : tx[r].seen[t] = NoRow => ~Exists(t)
  PROVE  Sound(AnalysisVersions(tx[r]))
<1> DEFINE q == tx[r]
<1>1. Sighted(q) /\ q.found \in [q.over -> Reading]
  BY DEF IInv, Known
<1>2. ASSUME NEW v \in AnalysisVersions(q)
      PROVE  /\ v.of \in q.over /\ v.at = commits + 1
             /\ \/ /\ v = CreationVersion(v.of, Draft(q.found[v.of])) /\ q.seen[v.of] = NoRow
                \/ /\ v = UpdateVersion(v.of, q.seen[v.of], q.found[v.of])
                   /\ q.seen[v.of] # NoRow
  <2>1. CASE \E t \in q.over : q.seen[t] = NoRow /\ v = CreationVersion(t, Draft(q.found[t]))
    BY <2>1 DEF CreationVersion, Version
  <2>2. CASE \E t \in q.over : q.seen[t] # NoRow /\ v = UpdateVersion(t, q.seen[t], q.found[t])
    BY <2>2 DEF UpdateVersion, Version
  <2>3. QED
    BY <2>1, <2>2 DEF AnalysisVersions
<1>3. \A v, w \in AnalysisVersions(q) : v.of = w.of => v = w
  BY <1>2
<1>4. ASSUME NEW v \in AnalysisVersions(q), q.seen[v.of] = NoRow
      PROVE  /\ v.kind = "creation" /\ v.after \in Row /\ ~Exists(v.of)
  <2>1. v.of \in q.over /\ v = CreationVersion(v.of, Draft(q.found[v.of]))
    BY <1>2, <1>4
  <2>2. q.found[v.of] \in Reading
    BY <1>1, <2>1
  <2>3. v.kind = "creation" /\ v.after = Draft(q.found[v.of])
    BY <2>1 DEF CreationVersion, Version
  <2>4. Draft(q.found[v.of]) \in Row
    BY <2>2 DEF Draft, Reading, Row, Statuses
  <2>5. QED
    BY <2>1, <2>3, <2>4, <1>4
<1>5. ASSUME NEW v \in AnalysisVersions(q), q.seen[v.of] # NoRow
      PROVE  /\ v.kind = "update" /\ v.before \in past[v.of] /\ v.after \in Row
             /\ v.after.status = v.before.status
  <2>1. v.of \in q.over /\ v = UpdateVersion(v.of, q.seen[v.of], q.found[v.of])
    BY <1>2, <1>5
  <2>2. q.found[v.of] \in Reading /\ q.seen[v.of] \in past[v.of] /\ q.seen[v.of] \in Row
    BY <1>1, <2>1, <1>5 DEF Sighted, IInv, TypeOK
  <2>3. /\ v.kind = "update" /\ v.before = q.seen[v.of]
        /\ v.after = [q.seen[v.of] EXCEPT !.salience = q.found[v.of].salience,
                                          !.grounds = q.found[v.of].grounds]
    BY <2>1 DEF UpdateVersion, Version
  <2>4. QED
    BY <2>2, <2>3 DEF Row, Reading
<1>6. \A v \in AnalysisVersions(q) : v.of \in Themes /\ v.at = commits + 1
  BY <1>1, <1>2 DEF Sighted
<1>7. QED
  BY <1>3, <1>4, <1>5, <1>6 DEF Sound, Born, Kinds

LEMMA TransitionIsSound ==
  ASSUME IInv, NEW r \in Requests, tx[r].op = "transition"
  PROVE  Sound({TransitionVersion(t, tx[r].seen[t], tx[r].to) : t \in tx[r].over})
<1> DEFINE q == tx[r]
           V == {TransitionVersion(t, q.seen[t], q.to) : t \in q.over}
<1>1. Sighted(q) /\ q.to \in Statuses
  BY DEF IInv, Known
<1>2. ASSUME NEW v \in V
      PROVE  v.of \in q.over /\ v = TransitionVersion(v.of, q.seen[v.of], q.to)
  BY DEF TransitionVersion, Version
<1>3. \A v, w \in V : v.of = w.of => v = w
  BY <1>2
<1>4. ASSUME NEW v \in V
      PROVE  /\ v.of \in Themes /\ v.kind = "transition" /\ v.at = commits + 1 /\ v.by = "user"
             /\ v.before \in past[v.of] /\ v.after \in Row
  <2>1. q.seen[v.of] \in past[v.of] /\ v.of \in Themes /\ q.seen[v.of] \in Row
    BY <1>1, <1>2 DEF Sighted, IInv, TypeOK
  <2>2. /\ v.kind = "transition" /\ v.at = commits + 1 /\ v.by = "user"
        /\ v.before = q.seen[v.of] /\ v.after = [q.seen[v.of] EXCEPT !.status = q.to]
    BY <1>2 DEF TransitionVersion, Version
  <2>3. QED
    BY <2>1, <2>2, <1>1 DEF Row
<1> HIDE DEF V
<1>5. Sound(V)
  BY <1>3, <1>4 DEF Sound, Born, Kinds
<1>6. QED
  BY <1>5 DEF V

LEMMA RollbackIsSound ==
  ASSUME IInv, NEW r \in Requests, tx[r].op = "rollback"
  PROVE  LET v == tx[r].version
         IN  Sound({RollbackVersion(v.of, tx[r].seen[v.of], Restorable(v))})
<1> DEFINE q == tx[r]
           t == q.version.of
           v == RollbackVersion(t, q.seen[t], Restorable(q.version))
<1>1. q.version \in history /\ t \in Themes /\ q.seen[t] \in past[t]
  BY DEF IInv, Known, Sighted
<1>2. Restorable(q.version) \in past[t] /\ past[t] \subseteq Row
  BY <1>1 DEF IInv, RestorableWasReal, TypeOK
<1>3. /\ v.of = t /\ v.kind = "rollback" /\ v.at = commits + 1 /\ v.by = "user"
      /\ v.before = q.seen[t] /\ v.after = Restorable(q.version)
  BY DEF RollbackVersion, Version
<1> HIDE DEF v, t, q
<1>4. Sound({v})
  BY <1>1, <1>2, <1>3 DEF Sound, Born, Kinds
<1>5. QED
  BY <1>4 DEF v, t, q

-----------------------------------------------------------------------------
(* Categories.                                                             *)

\* The version of a category is none of a theme's.
LEMMA CategoryVersionApart ==
  ASSUME Apart, TypeOK, NEW c \in Categories, NEW by, NEW before, NEW after,
         CommitCategory(c, by, before, after)
  PROVE  /\ commits' \in Nat /\ \A v \in history' : v.at \in Nat /\ v.at <= commits'
         /\ history \subseteq history'
         /\ \A v \in history' : v.of \in Themes => v \in history
<1> DEFINE w == CategoryVersion(c, by, before, after)
<1>1. w.at = commits + 1 /\ w.of = c
  BY DEF CategoryVersion
<1> HIDE DEF w
<1>2. history' = history \cup {w} /\ commits' = commits + 1
  BY DEF CommitCategory, w
<1>3. QED
  BY <1>1, <1>2 DEF TypeOK, Apart

\* A category that changes leaves themes as they were, but for the mark.
LEMMA CategoryIsSafe ==
  ASSUME Apart, IInv, NEW c \in Categories, NEW by, NEW before, NEW after,
         CommitCategory(c, by, before, after),
         tx' = tx \/ \E r \in Requests : Finish(r),
         theme' \in [Themes -> Row \cup {NoRow}], past' \in [Themes -> SUBSET Row],
         \A t \in Themes :
           /\ past[t] \subseteq past'[t] /\ (Exists(t) <=> Exists(t)')
           /\ Exists(t) => /\ theme'[t] \in past'[t]
                            /\ \A a \in Attributes : theme'[t][a] = theme[t][a]
           /\ ~Exists(t) => past'[t] = {}
  PROVE  IInv' /\ SignedStep
<1> USE DEF IInv
<1>1. /\ commits' \in Nat /\ \A v \in history' : v.at \in Nat /\ v.at <= commits'
      /\ history \subseteq history'
      /\ \A v \in history' : v.of \in Themes => v \in history
  BY CategoryVersionApart
<1>2. DOMAIN tx' = Requests /\ \A s \in Requests : tx'[s] \in {tx[s], Idle}
  BY DEF TypeOK, Finish
<1>3. TypeOK'
  BY <1>1, <1>2 DEF TypeOK
<1>4. Lived'
  BY DEF Lived, Exists
<1>5. AuditComplete'
  <2> SUFFICES ASSUME NEW t \in Themes, Exists(t)', NEW a \in Attributes
               PROVE  \E v \in history' : v.of = t /\ v.after[a] = theme'[t][a]
    BY DEF AuditComplete
  <2>1. Exists(t) /\ theme'[t][a] = theme[t][a]
    OBVIOUS
  <2>2. \E v \in history : v.of = t /\ v.after[a] = theme[t][a]
    BY <2>1 DEF AuditComplete
  <2>3. QED
    BY <2>1, <2>2, <1>1
<1>6. RestorableWasReal'
  <2> SUFFICES ASSUME NEW v \in history', v.of \in Themes PROVE Restorable(v) \in past'[v.of]
    BY DEF RestorableWasReal
  <2>1. Restorable(v) \in past[v.of]
    BY <1>1 DEF RestorableWasReal
  <2>2. QED
    BY <2>1
<1>7. ASSUME NEW s \in Requests PROVE Known(tx[s])'
  <2>1. CASE tx'[s] = Idle
    BY <2>1 DEF Known, Idle
  <2>2. CASE tx'[s] = tx[s]
    <3>1. Known(tx[s])
      OBVIOUS
    <3>2. QED
      BY <3>1, <2>2, <1>1 DEF Known, Sighted
  <2>3. QED
    BY <1>2, <2>1, <2>2
<1>8. SignedStep
  BY DEF SignedStep, Attributes
<1>9. QED
  BY <1>3, <1>4, <1>5, <1>6, <1>7, <1>8

LEMMA DeprecateIsSafe ==
  ASSUME Apart, IInv, NEW r \in Requests, DeprecateCategory(r)
  PROVE  IInv' /\ SignedStep
<1>1. tx[r].of \in Categories /\ CommitCategory(tx[r].of, "system", "active", "deprecated")
      /\ Finish(r)
  BY DEF DeprecateCategory, IInv, Known
<1>2. ASSUME NEW t \in Themes
      PROVE  /\ past'[t] = past[t] \cup (IF Exists(t) THEN {theme'[t]} ELSE {})
             /\ Exists(t) => /\ theme[t] \in Row /\ theme'[t] \in Row
                             /\ \A a \in Attributes : theme'[t][a] = theme[t][a]
             /\ ~Exists(t) => theme'[t] = theme[t]
  <2>1. theme[t] \in Row \cup {NoRow}
    BY DEF IInv, TypeOK
  <2>2. theme'[t] = IF Exists(t) /\ t.category = tx[r].of
                    THEN [theme[t] EXCEPT !.deprecated = TRUE] ELSE theme[t]
    BY DEF DeprecateCategory
  <2>3. past'[t] = past[t] \cup (IF Exists(t) THEN {theme'[t]} ELSE {})
    BY DEF DeprecateCategory
  <2>4. ASSUME NEW row \in Row
        PROVE  /\ [row EXCEPT !.deprecated = TRUE] \in Row
               /\ \A a \in Attributes : [row EXCEPT !.deprecated = TRUE][a] = row[a]
    BY DEF Row, Attributes
  <2>5. QED
    BY <2>1, <2>2, <2>3, <2>4 DEF Exists
<1>3. theme' = [t \in Themes |-> theme'[t]] /\ past' = [t \in Themes |-> past'[t]]
  BY DEF DeprecateCategory
<1>4. \A t \in Themes : /\ theme'[t] \in Row \cup {NoRow} /\ past'[t] \in SUBSET Row
                        /\ (Exists(t) <=> theme'[t] # NoRow)
  BY <1>2, NoRowIsNone DEF Exists, IInv, TypeOK
<1>5. theme' \in [Themes -> Row \cup {NoRow}] /\ past' \in [Themes -> SUBSET Row]
  BY <1>3, <1>4
<1>6. \A t \in Themes :
        /\ past[t] \subseteq past'[t] /\ (Exists(t) <=> Exists(t)')
        /\ Exists(t) => /\ theme'[t] \in past'[t]
                         /\ \A a \in Attributes : theme'[t][a] = theme[t][a]
        /\ ~Exists(t) => past'[t] = {}
  BY <1>2, <1>4 DEF Exists, IInv, Lived
<1>7. QED
  BY <1>1, <1>5, <1>6, CategoryIsSafe

-----------------------------------------------------------------------------
(* The steps.                                                              *)

\* What is read of themes that exist has been.
LEMMA ReadIsReal ==
  ASSUME Lived, NEW T \in SUBSET Themes, NEW t \in T
  PROVE  Read(T)[t] = theme[t] /\ (Exists(t) => Read(T)[t] \in past[t])
BY DEF Lived, Read

LEMMA DraftsAreKnown ==
  ASSUME IInv, NEW drafts \in SUBSET Themes, NEW to \in Statuses,
         \A t \in drafts : Exists(t)
  PROVE  Known([op |-> "transition", over |-> drafts, seen |-> Read(drafts), to |-> to])
BY DEF IInv, Lived, Known, Sighted, Read

LEMMA StepIsSafe ==
  ASSUME Apart, IInv, NEW r \in Requests, RequestStep(r)
  PROVE  IInv' /\ SignedStep
<1>1. CASE StartAnalysis(r)
  <2>1. PICK d \in Dreams :
          tx' = [tx EXCEPT ![r] =
                   [op |-> "asking",
                    over |-> {t \in Themes : t.dream = d /\ category[t.category] = "active"}]]
    BY <1>1 DEF StartAnalysis
  <2>2. Known([op |-> "asking",
               over |-> {t \in Themes : t.dream = d /\ category[t.category] = "active"}])
    BY DEF Known
  <2>3. UNCHANGED <<theme, history, commits, past>>
    BY <1>1 DEF StartAnalysis
  <2>4. QED
    BY <2>1, <2>2, <2>3, Quietly
<1>2. CASE LoadThemes(r)
  <2>0. PICK T \in SUBSET tx[r].over : \E found \in [T -> Reading] :
          tx' = [tx EXCEPT ![r] = [op |-> "analysed", over |-> T, seen |-> Read(T),
                                   found |-> found]]
    BY <1>2 DEF LoadThemes, Assignments, Groundings
  <2>1. PICK found \in [T -> Reading] :
          tx' = [tx EXCEPT ![r] = [op |-> "analysed", over |-> T, seen |-> Read(T),
                                   found |-> found]]
    BY <2>0
  <2>2. T \subseteq Themes
    BY <1>2, <2>1 DEF LoadThemes, IInv, Known
  <2>3. \A t \in T : Read(T)[t] \in past[t] \/ Read(T)[t] = NoRow
    BY <2>2 DEF IInv, Lived, Exists, Read
  <2>4. Known([op |-> "analysed", over |-> T, seen |-> Read(T), found |-> found])
    BY <2>2, <2>3 DEF Known, Sighted
  <2>5. UNCHANGED <<theme, history, commits, past>>
    BY <1>2 DEF LoadThemes
  <2>6. QED
    BY <2>1, <2>4, <2>5, Quietly
<1>3. CASE CommitAnalysis(r)
  <2>1. Sound(AnalysisVersions(tx[r]))
    BY <1>3, AnalysisIsSound DEF CommitAnalysis
  <2>2. QED
    BY <1>3, <2>1, CommitIsSafe DEF CommitAnalysis
<1>4. CASE LoadTheme(r)
  <2>1. PICK t \in Themes, to \in {"confirmed", "rejected"} :
          /\ Curatable(t)
          /\ tx' = [tx EXCEPT ![r] = [op |-> "transition", over |-> {t},
                                      seen |-> Read({t}), to |-> to]]
    BY <1>4 DEF LoadTheme
  <2>2. Known([op |-> "transition", over |-> {t}, seen |-> Read({t}), to |-> to])
    BY <2>1, DraftsAreKnown DEF Curatable, Statuses
  <2>3. UNCHANGED <<theme, history, commits, past>>
    BY <1>4 DEF LoadTheme
  <2>4. QED
    BY <2>1, <2>2, <2>3, Quietly
<1>5. ASSUME NEW D, LoadDrafts(r, D), UNCHANGED <<theme, history, commits, past>>
      PROVE  IInv' /\ SignedStep
  <2> DEFINE drafts == {t \in Themes : t.dream \in D /\ Curatable(t)}
  <2>1. tx' = [tx EXCEPT ![r] = [op |-> "transition", over |-> drafts, seen |-> Read(drafts),
                                to |-> "confirmed"]]
    BY <1>5 DEF LoadDrafts
  <2>2. drafts \in SUBSET Themes /\ \A t \in drafts : Exists(t)
    BY DEF Curatable
  <2> HIDE DEF drafts
  <2>3. Known([op |-> "transition", over |-> drafts, seen |-> Read(drafts), to |-> "confirmed"])
    BY <2>2, DraftsAreKnown DEF Statuses
  <2>4. QED
    BY <2>1, <2>3, <1>5, Quietly
<1>6. CASE ConfirmDream(r)
  BY <1>5, <1>6 DEF ConfirmDream
<1>7. CASE Approve(r)
  <2>1. Known([op |-> "approved", dreams |-> token])
    BY DEF Known
  <2>2. QED
    BY <1>7, <2>1, Quietly DEF Approve
<1>8. CASE LoadApproved(r)
  BY <1>5, <1>8 DEF LoadApproved
<1>9. CASE CommitTransition(r)
  <2>1. Sound({TransitionVersion(t, tx[r].seen[t], tx[r].to) : t \in tx[r].over})
    BY <1>9, TransitionIsSound DEF CommitTransition
  <2>2. QED
    BY <1>9, <2>1, CommitIsSafe DEF CommitTransition
<1>10. CASE LoadVersion(r)
  <2>1. PICK v \in history :
          /\ v.of \in Themes
          /\ tx' = [tx EXCEPT ![r] = [op |-> "rollback", over |-> {v.of},
                                      seen |-> Read({v.of}), version |-> v]]
    BY <1>10 DEF LoadVersion
  <2>2. Exists(v.of)
    BY <2>1 DEF IInv, RestorableWasReal, Lived
  <2>3. Read({v.of})[v.of] \in past[v.of]
    BY <2>1, <2>2, ReadIsReal DEF IInv
  <2>4. Known([op |-> "rollback", over |-> {v.of}, seen |-> Read({v.of}), version |-> v])
    BY <2>1, <2>3 DEF Known, Sighted
  <2>5. UNCHANGED <<theme, history, commits, past>>
    BY <1>10 DEF LoadVersion
  <2>6. QED
    BY <2>1, <2>4, <2>5, Quietly
<1>11. CASE CommitRollback(r)
  <2>1. LET v == tx[r].version
        IN  Sound({RollbackVersion(v.of, tx[r].seen[v.of], Restorable(v))})
    BY <1>11, RollbackIsSound DEF CommitRollback
  <2>2. QED
    BY <1>11, <2>1, CommitIsSafe DEF CommitRollback
<1>12. CASE LoadCategory(r)
  <2>1. PICK c \in Categories :
          tx' = [tx EXCEPT ![r] = [op |-> "category", of |-> c, from |-> category[c]]]
    BY <1>12 DEF LoadCategory
  <2>2. Known([op |-> "category", of |-> c, from |-> category[c]])
    BY DEF Known
  <2>3. UNCHANGED <<theme, history, commits, past>>
    BY <1>12 DEF LoadCategory
  <2>4. QED
    BY <2>1, <2>2, <2>3, Quietly
<1>13. CASE ApproveCategory(r)
  <2>1. /\ tx[r].of \in Categories /\ CommitCategory(tx[r].of, "user", "suggested", "active")
        /\ Finish(r) /\ theme' = theme /\ past' = past
    BY <1>13 DEF ApproveCategory, IInv, Known
  <2>2. QED
    BY <2>1, CategoryIsSafe DEF IInv, TypeOK, Lived, Exists
<1>14. CASE DeprecateCategory(r)
  BY <1>14, DeprecateIsSafe
<1>15. CASE Abandon(r)
  BY <1>15, Quietly, IdleKnowsNothing DEF Abandon
<1>16. QED
  BY <1>1, <1>2, <1>3, <1>4, <1>6, <1>7, <1>8, <1>9, <1>10, <1>11, <1>12, <1>13, <1>14, <1>15
  DEF RequestStep

LEMMA NextIInv == ASSUME Apart, IInv, [Next]_vars PROVE IInv' /\ [SignedStep]_vars
<1>1. CASE \E r \in Requests : RequestStep(r)
  BY <1>1, StepIsSafe
<1>2. ASSUME NEW c \in Categories, CreateCategory(c) PROVE IInv' /\ SignedStep
  <2>1. /\ CommitCategory(c, "system", "none", "suggested")
        /\ tx' = tx /\ theme' = theme /\ past' = past
    BY <1>2 DEF CreateCategory
  <2>2. QED
    BY <2>1, CategoryIsSafe DEF IInv, TypeOK, Lived, Exists
<1>3. CASE RequestBulk \/ TokenGone
  BY <1>3, Quietly DEF RequestBulk, TokenGone
<1>4. CASE UNCHANGED vars
  BY <1>4, Quietly DEF vars
<1>5. QED
  BY <1>1, <1>2, <1>3, <1>4 DEF Next

LEMMA InitIInv == Init => IInv
<1> SUFFICES ASSUME Init PROVE IInv
  OBVIOUS
<1>1. TypeOK
  BY DEF Init, TypeOK
<1>2. Lived /\ AuditComplete /\ RestorableWasReal
  BY DEF Init, Lived, AuditComplete, RestorableWasReal, Exists
<1>3. \A r \in Requests : Known(tx[r])
  BY DEF Init, Known, Idle
<1>4. QED
  BY <1>1, <1>2, <1>3 DEF IInv

-----------------------------------------------------------------------------
(* The theorems.                                                           *)

\* Rows and the states they have had are well typed, and versions are numbered by the
\* transactions that wrote them.
THEOREM TypeCorrect == ASSUME Apart PROVE Spec => []TypeOK
<1>1. IInv /\ [Next]_vars => IInv'
  BY NextIInv
<1>2. IInv => TypeOK
  BY DEF IInv
<1>3. QED
  BY <1>1, <1>2, InitIInv, PTL DEF Spec

\* "Every mutation writes an AnnotationVersion": what a theme says of itself is what
\* some version says it was changed to, for any requests that interleave.
THEOREM HistoryComplete == ASSUME Apart PROVE Spec => []AuditComplete
<1>1. IInv /\ [Next]_vars => IInv'
  BY NextIInv
<1>2. IInv => AuditComplete
  BY DEF IInv
<1>3. QED
  BY <1>1, <1>2, InitIInv, PTL DEF Spec

\* A rollback to any version of any theme restores a state it once had
\* (rollback_annotation_version), also if the version was written from a stale read.
THEOREM UndoIsSafe == ASSUME Apart PROVE Spec => []RestorableWasReal
<1>1. IInv /\ [Next]_vars => IInv'
  BY NextIInv
<1>2. IInv => RestorableWasReal
  BY DEF IInv
<1>3. QED
  BY <1>1, <1>2, InitIInv, PTL DEF Spec

\* No analysis, late or not, moves a theme between draft, confirmed and rejected: that
\* takes a decision of the user, which the same transaction records.
THEOREM OnlyTheUserDecides == ASSUME Apart PROVE Spec => DecisionsSigned
<1>1. IInv /\ [Next]_vars => IInv' /\ [SignedStep]_vars
  BY NextIInv
<1>2. QED
  BY <1>1, InitIInv, PTL DEF Spec, DecisionsSigned

(* Motifs: rows, decisions, and what a request knows.                       *)

MotifRow ==
  [dream : Interpreted, label : Names, identity : Names, status : MotifStatuses,
   fragments : SUBSET [text : Words, from : Nat, to : Nat]]
Decision == [label : Names, status : MotifStatuses]
Recorded == [before : Decision, after : Decision, receipts : SUBSET Names]
Induction == [op : {"induce"}, dream : Interpreted]
Review == [op : {"review"}, motif : Motifs, seen : Decision, want : Decision]

MotifTypeOK ==
  /\ text \in [Interpreted -> Texts \cup {NoText}]
  /\ motif \in [Motifs -> MotifRow \cup {NoMotif}]
  /\ log \in [Motifs -> Seq(Recorded)]
  /\ work \in [Requests -> {Resting} \cup Induction \cup Review]

(* The dream of an induction or of a motif has been captured.               *)
TextKnown ==
  /\ \A r \in Requests : work[r].op = "induce" => text[work[r].dream] # NoText
  /\ \A m \in Motifs : Stored(m) => text[motif[m].dream] # NoText

(* What a motif quotes is in the text of its dream.                         *)
Quotable(row, s) ==
  row.fragments # {} /\ \A f \in row.fragments : Acceptable(f, s) /\ Grounded(f, s)
Quoting(m) == Quotable(motif[m], text[motif[m].dream])

(* The row lock: a request that has loaded a motif holds it alone, and what *)
(* it has seen is what the motif is.                                        *)
RowLocked ==
  /\ \A r \in Requests : work[r].op = "review" =>
       Stored(work[r].motif) /\ work[r].seen = DecisionOf(motif[work[r].motif])
  /\ \A r, q \in Requests :
       work[r].op = "review" /\ work[q].op = "review" /\ work[r].motif = work[q].motif => r = q

ReviewIInv ==
  /\ MotifTypeOK /\ TextKnown /\ RowLocked /\ MotifChain
  /\ \A m \in Motifs : IF Stored(m) THEN Quoting(m) ELSE log[m] = <<>>

-----------------------------------------------------------------------------
LEMMA MotifRows ==
  /\ NoMotif \notin MotifRow
  /\ \A row \in MotifRow : DecisionOf(row) \in Decision
  /\ Resting \notin Induction \cup Review
  /\ \A w \in {Resting} \cup Induction \cup Review :
       /\ w.op = "induce" => w \in Induction
       /\ w.op = "review" => w \in Review
<1>1. ASSUME NoMotif \in MotifRow PROVE FALSE
  <2>1. NoMotif.status \in MotifStatuses
    BY <1>1 DEF MotifRow
  <2> QED
    BY <2>1 DEF NoMotif, MotifStatuses
<1>2. \A row \in MotifRow : DecisionOf(row) \in Decision
  BY DEF MotifRow, DecisionOf, Decision
<1>3. \A w \in Induction : w.op = "induce"
  BY DEF Induction
<1>4. \A w \in Review : w.op = "review"
  BY DEF Review
<1>5. Resting.op = "idle"
  BY DEF Resting
<1> QED
  BY <1>1, <1>2, <1>3, <1>4, <1>5

\* A request that rests or that reads the text of a captured dream holds no row.
LEMMA Reassigned ==
  ASSUME ReviewIInv, NEW r \in Requests, NEW w \in {Resting} \cup Induction,
         w.op = "induce" => text[w.dream] # NoText,
         work' = [work EXCEPT ![r] = w], UNCHANGED <<text, motif, log>>
  PROVE  ReviewIInv'
<1>0. w.op # "review"
  BY MotifRows DEF Review, Induction, Resting
<1>1. work' \in [Requests -> {Resting} \cup Induction \cup Review]
  BY DEF ReviewIInv, MotifTypeOK
<1>2. work'[r] = w /\ \A q \in Requests \ {r} : work'[q] = work[q]
  BY DEF ReviewIInv, MotifTypeOK
<1>3. MotifTypeOK'
  BY <1>1 DEF ReviewIInv, MotifTypeOK
<1>4. TextKnown'
  BY <1>2 DEF ReviewIInv, TextKnown, Stored
<1>5. RowLocked'
  BY <1>0, <1>2 DEF ReviewIInv, RowLocked, Stored
<1>6. MotifChain'
  BY DEF ReviewIInv, MotifChain, Stored
<1>7. \A m \in Motifs : IF Stored(m)' THEN Quoting(m)' ELSE log'[m] = <<>>
  BY DEF ReviewIInv, Stored, Quoting
<1> QED
  BY <1>3, <1>4, <1>5, <1>6, <1>7 DEF ReviewIInv

\* A dream without a text gets one, and no motif is of it.
LEMMA CaptureSafe ==
  ASSUME TextAssumption, ReviewIInv, NEW d \in Interpreted, Capture(d)
  PROVE  ReviewIInv'
<1>1. PICK s \in Texts : text' = [text EXCEPT ![d] = s]
  BY DEF Capture
<1>2. UNCHANGED <<motif, log, work>> /\ text[d] = NoText /\ s # NoText
  BY TextAssumption DEF Capture, NoText
<1>3. /\ text' \in [Interpreted -> Texts \cup {NoText}]
      /\ text'[d] = s /\ \A e \in Interpreted \ {d} : text'[e] = text[e]
  BY <1>1 DEF ReviewIInv, MotifTypeOK
<1>4. MotifTypeOK'
  BY <1>2, <1>3 DEF ReviewIInv, MotifTypeOK
<1>5. \A m \in Motifs : Stored(m) => motif[m].dream \in Interpreted \ {d}
  BY <1>2 DEF ReviewIInv, MotifTypeOK, MotifRow, TextKnown, Stored
<1>6. TextKnown'
  <2>1. \A r \in Requests : work[r].op = "induce" => work[r].dream \in Interpreted
    BY MotifRows DEF ReviewIInv, MotifTypeOK, Induction
  <2> QED
    BY <1>2, <1>3, <1>5, <2>1 DEF ReviewIInv, TextKnown, Stored
<1>7. RowLocked' /\ MotifChain'
  BY <1>2 DEF ReviewIInv, RowLocked, MotifChain, Stored
<1>8. \A m \in Motifs : IF Stored(m)' THEN Quoting(m)' ELSE log'[m] = <<>>
  BY <1>2, <1>3, <1>5 DEF ReviewIInv, Stored, Quoting
<1> QED
  BY <1>4, <1>6, <1>7, <1>8 DEF ReviewIInv

-----------------------------------------------------------------------------
(* The chain of one motif.                                                 *)

AsDrafted(row) == [label |-> row.identity, status |-> "draft"]
StateAfter(row, versions, i) == IF i = 0 THEN AsDrafted(row) ELSE versions[i].after
Chained(row, versions) ==
  /\ \A i \in 1..Len(versions) : versions[i].before = StateAfter(row, versions, i - 1)
  /\ StateAfter(row, versions, Len(versions)) = DecisionOf(row)

LEMMA ChainOfEach ==
  MotifChain <=> \A m \in Motifs : Stored(m) => Chained(motif[m], log[m])
BY DEF MotifChain, Chained, StateAfter, AsDrafted

\* A draft without versions.
LEMMA ChainStarts ==
  ASSUME NEW row, DecisionOf(row) = AsDrafted(row)
  PROVE  Chained(row, <<>>)
BY DEF Chained, StateAfter

\* A decision that starts from what the motif is.
LEMMA ChainGrows ==
  ASSUME NEW row, NEW decided, NEW versions \in Seq(Recorded), NEW v \in Recorded,
         Chained(row, versions), v.before = DecisionOf(row), v.after = DecisionOf(decided),
         decided.identity = row.identity
  PROVE  Chained(decided, Append(versions, v))
<1> DEFINE n == Len(versions)
           more == Append(versions, v)
<1>1. /\ n \in Nat /\ Len(more) = n + 1 /\ more[n + 1] = v
      /\ \A i \in 1..n : more[i] = versions[i]
  OBVIOUS
<1> HIDE DEF n, more
<1>2. \A i \in 0..n : StateAfter(decided, more, i) = StateAfter(row, versions, i)
  BY <1>1 DEF StateAfter, AsDrafted
<1>3. StateAfter(decided, more, n + 1) = DecisionOf(decided)
  BY <1>1 DEF StateAfter, AsDrafted
<1>4. \A i \in 1..n : versions[i].before = StateAfter(row, versions, i - 1)
  BY DEF Chained, n
<1>5. StateAfter(row, versions, n) = DecisionOf(row)
  BY DEF Chained, n
<1>6. ASSUME NEW i \in 1..(n + 1) PROVE more[i].before = StateAfter(decided, more, i - 1)
  <2>1. i - 1 \in 0..n /\ (i \in 1..n \/ i = n + 1) /\ n \in 0..n /\ n + 1 - 1 = n
    BY <1>1
  <2>2. StateAfter(decided, more, i - 1) = StateAfter(row, versions, i - 1)
    BY <1>2, <2>1
  <2>3. CASE i \in 1..n
    BY <1>1, <1>4, <2>2, <2>3
  <2>4. CASE i = n + 1
    BY <1>1, <1>5, <2>1, <2>2, <2>4
  <2> QED
    BY <2>1, <2>3, <2>4
<1>7. Chained(decided, more)
  BY <1>1, <1>3, <1>6 DEF Chained
<1> QED
  BY <1>7 DEF more

-----------------------------------------------------------------------------
(* What a run stores.                                                      *)

(* A draft of a dream under a label, with something to quote for it.        *)
DraftOf(row, d, label) ==
  /\ row \in MotifRow /\ Quotable(row, text[d]) /\ row # NoMotif
  /\ row.dream = d /\ DecisionOf(row) = AsDrafted(row) /\ row.identity = label

\* A draft that verification leaves a fragment for quotes its text.
LEMMA Drafted ==
  ASSUME NEW d \in Interpreted, NEW label \in Names, NEW s, s = text[d], Len(s) \in Nat,
         NEW f \in Proposals(s), NEW row, row = DraftMotif(d, label, s, {f}), row.fragments # {}
  PROVE  DraftOf(row, d, label)
<1>1. /\ row.dream = d /\ row.label = label /\ row.identity = label /\ row.status = "draft"
      /\ row.fragments = {g \in {f} : Grounded(g, s)}
      /\ row = [dream |-> row.dream, label |-> row.label, identity |-> row.identity,
                status |-> row.status, fragments |-> row.fragments]
  BY DEF DraftMotif
<1>2. f \in [text : Words, from : Nat, to : Nat] /\ Acceptable(f, s)
  BY DEF Proposals
<1>3. row \in MotifRow
  <2>1. row.fragments \in SUBSET [text : Words, from : Nat, to : Nat]
    BY <1>1, <1>2
  <2>2. "draft" \in MotifStatuses
    BY DEF MotifStatuses
  <2> QED
    BY <1>1, <2>1, <2>2 DEF MotifRow
<1>4. Quotable(row, text[d])
  BY <1>1, <1>2 DEF Quotable
<1>5. row # NoMotif
  BY <1>3, MotifRows
<1>6. DecisionOf(row) = AsDrafted(row)
  BY <1>1 DEF DecisionOf, AsDrafted
<1> QED
  BY <1>1, <1>3, <1>4, <1>5, <1>6 DEF DraftOf

\* The rows of a run: new ones for some ids, of the dream it has read.
LEMMA MotifsStored ==
  ASSUME TextAssumption, ReviewIInv, NEW r \in Requests, StoreMotifs(r)
  PROVE  \E ids \in SUBSET {m \in Motifs : ~Stored(m)} : \E label \in [ids -> Names] :
           /\ DOMAIN motif' = Motifs
           /\ \A m \in Motifs \ ids : motif'[m] = motif[m]
           /\ \A m \in ids : DraftOf(motif'[m], work[r].dream, label[m])
<1>1. work[r] \in Induction
  BY MotifRows DEF StoreMotifs, ReviewIInv, MotifTypeOK
<1> DEFINE d == work[r].dream
           s == text[d]
<1>2. d \in Interpreted /\ s \in Texts
  BY <1>1 DEF Induction, ReviewIInv, MotifTypeOK, TextKnown, StoreMotifs
<1>3. Len(s) \in Nat
  BY <1>2, TextAssumption
<1>4. PICK ids \in SUBSET {m \in Motifs : ~Stored(m)} : \E answer \in Candidates(ids, s) :
        /\ \A m \in ids : DraftMotif(d, answer[m].label, s, {answer[m].support}).fragments # {}
        /\ motif' = [m \in Motifs |->
                       IF m \in ids THEN DraftMotif(d, answer[m].label, s, {answer[m].support})
                                    ELSE motif[m]]
  BY DEF StoreMotifs
<1>5. PICK answer \in Candidates(ids, s) :
        /\ \A m \in ids : DraftMotif(d, answer[m].label, s, {answer[m].support}).fragments # {}
        /\ motif' = [m \in Motifs |->
                       IF m \in ids THEN DraftMotif(d, answer[m].label, s, {answer[m].support})
                                    ELSE motif[m]]
  BY <1>4
<1>6. \A m \in ids : answer[m].label \in Names /\ answer[m].support \in Proposals(s)
  BY DEF Candidates
<1> DEFINE label == [m \in ids |-> answer[m].label]
<1>7. label \in [ids -> Names]
  BY <1>6
<1>8. DOMAIN motif' = Motifs /\ \A m \in Motifs \ ids : motif'[m] = motif[m]
  BY <1>5
<1>9. ASSUME NEW m \in ids PROVE DraftOf(motif'[m], d, label[m])
  <2>1. /\ motif'[m] = DraftMotif(d, answer[m].label, s, {answer[m].support})
        /\ DraftMotif(d, answer[m].label, s, {answer[m].support}).fragments # {}
    BY <1>5
  <2>2. label[m] = answer[m].label
    OBVIOUS
  <2>3. s = text[d]
    OBVIOUS
  <2> HIDE DEF d, s, label
  <2> QED
    BY <1>2, <1>3, <1>6, <2>1, <2>2, <2>3, Drafted
<1> HIDE DEF label
<1> QED
  BY <1>7, <1>8, <1>9

LEMMA StoreMotifsSafe ==
  ASSUME TextAssumption, ReviewIInv, NEW r \in Requests, StoreMotifs(r)
  PROVE  ReviewIInv'
<1>1. PICK ids \in SUBSET {m \in Motifs : ~Stored(m)} :
        /\ DOMAIN motif' = Motifs
        /\ \A m \in Motifs \ ids : motif'[m] = motif[m]
        /\ \A m \in ids :
             /\ motif'[m] \in MotifRow /\ motif'[m].dream = work[r].dream
             /\ Quotable(motif'[m], text[work[r].dream])
             /\ DecisionOf(motif'[m]) = AsDrafted(motif'[m]) /\ motif'[m] # NoMotif
  BY MotifsStored DEF DraftOf
<1>2. /\ work' = [work EXCEPT ![r] = Resting] /\ text' = text /\ log' = log
      /\ work[r].op = "induce"
  BY DEF StoreMotifs
<1>3. /\ work'[r] = Resting /\ \A q \in Requests \ {r} : work'[q] = work[q]
      /\ Resting.op = "idle"
  BY <1>2 DEF ReviewIInv, MotifTypeOK, Resting
<1>4. MotifTypeOK'
  <2>1. motif' \in [Motifs -> MotifRow \cup {NoMotif}]
    <3>1. motif' = [m \in Motifs |-> motif'[m]]
      BY DEF StoreMotifs
    <3>2. \A m \in Motifs : motif'[m] \in MotifRow \cup {NoMotif}
      BY <1>1 DEF ReviewIInv, MotifTypeOK
    <3> QED
      BY <3>1, <3>2
  <2> QED
    BY <1>2, <2>1 DEF ReviewIInv, MotifTypeOK
<1>5. TextKnown'
  BY <1>1, <1>2, <1>3 DEF ReviewIInv, TextKnown, Stored
<1>6. ASSUME NEW q \in Requests, work'[q].op = "review"
      PROVE  /\ work'[q] = work[q] /\ q # r /\ Stored(work[q].motif)
             /\ motif'[work[q].motif] = motif[work[q].motif]
  <2>1. work'[q] = work[q] /\ q # r
    BY <1>3, <1>6
  <2>2. work[q].motif \in Motifs
    BY <1>6, <2>1, MotifRows DEF ReviewIInv, MotifTypeOK, Review
  <2> QED
    BY <1>1, <1>6, <2>1, <2>2 DEF ReviewIInv, RowLocked
<1>7. RowLocked'
  BY <1>6 DEF ReviewIInv, RowLocked, Stored
<1>8. ASSUME NEW m \in Motifs
      PROVE  /\ Stored(m)' => Chained(motif'[m], log'[m])
             /\ IF Stored(m)' THEN Quoting(m)' ELSE log'[m] = <<>>
  <2>1. CASE m \in ids
    <3>1. log'[m] = <<>>
      BY <1>2, <2>1 DEF ReviewIInv
    <3> QED
      BY <1>1, <1>2, <2>1, <3>1, ChainStarts DEF Stored, Quoting
  <2>2. CASE m \notin ids
    BY <1>1, <1>2, <2>2, ChainOfEach DEF ReviewIInv, Stored, Quoting
  <2> QED
    BY <2>1, <2>2
<1>9. MotifChain'
  BY <1>8 DEF MotifChain, Chained, StateAfter, AsDrafted
<1> QED
  BY <1>4, <1>5, <1>7, <1>8, <1>9 DEF ReviewIInv

-----------------------------------------------------------------------------
(* Review.                                                                 *)

LEMMA LoadMotifSafe ==
  ASSUME ReviewIInv, NEW r \in Requests, LoadMotif(r)
  PROVE  ReviewIInv'
<1>1. PICK m \in Motifs, label \in Names, status \in MotifStatuses :
        /\ Stored(m) /\ Lockable(m)
        /\ work' = [work EXCEPT ![r] =
                      [op |-> "review", motif |-> m, seen |-> DecisionOf(motif[m]),
                       want |-> [label |-> label, status |-> status]]]
  BY DEF LoadMotif
<1> DEFINE w == [op |-> "review", motif |-> m, seen |-> DecisionOf(motif[m]),
                 want |-> [label |-> label, status |-> status]]
<1>2. UNCHANGED <<text, motif, log>>
  BY DEF LoadMotif
<1>3. w \in Review
  <2>1. motif[m] \in MotifRow
    BY <1>1 DEF ReviewIInv, MotifTypeOK, Stored
  <2>2. DecisionOf(motif[m]) \in Decision /\ [label |-> label, status |-> status] \in Decision
    BY <2>1, MotifRows DEF Decision
  <2> QED
    BY <2>2 DEF Review
<1>4. w.op = "review" /\ w.motif = m /\ w.seen = DecisionOf(motif[m])
  OBVIOUS
<1>5. work' = [work EXCEPT ![r] = w]
  BY <1>1
<1> HIDE DEF w
<1>6. /\ work' \in [Requests -> {Resting} \cup Induction \cup Review]
      /\ work'[r] = w /\ \A q \in Requests \ {r} : work'[q] = work[q]
  BY <1>3, <1>5 DEF ReviewIInv, MotifTypeOK
<1>7. MotifTypeOK'
  BY <1>2, <1>6 DEF ReviewIInv, MotifTypeOK
<1>8. TextKnown'
  BY <1>2, <1>4, <1>6 DEF ReviewIInv, TextKnown, Stored
<1>9. RowLocked'
  <2>1. \A q \in Requests : work'[q].op = "review" =>
          motif'[work'[q].motif] # NoMotif /\ work'[q].seen = DecisionOf(motif'[work'[q].motif])
    BY <1>1, <1>2, <1>4, <1>6 DEF ReviewIInv, RowLocked, Stored
  <2>2. \A q \in Requests \ {r} : work'[q].op = "review" => work'[q].motif # m
    BY <1>1, <1>6 DEF Lockable
  <2>3. \A q, p \in Requests :
          work'[q].op = "review" /\ work'[p].op = "review" /\ work'[q].motif = work'[p].motif
            => q = p
    BY <1>4, <1>6, <2>2 DEF ReviewIInv, RowLocked
  <2> QED
    BY <2>1, <2>3 DEF RowLocked, Stored
<1>10. MotifChain' /\ \A n \in Motifs : IF Stored(n)' THEN Quoting(n)' ELSE log'[n] = <<>>
  <2>1. MotifChain'
    BY <1>2 DEF ReviewIInv, MotifChain, Stored
  <2>2. \A n \in Motifs : IF Stored(n)' THEN Quoting(n)' ELSE log'[n] = <<>>
    BY <1>2 DEF ReviewIInv, Stored, Quoting
  <2> QED
    BY <2>1, <2>2
<1> QED
  BY <1>7, <1>8, <1>9, <1>10 DEF ReviewIInv

(* A decision on a motif as it is, whatever the request has read of it.      *)
Decides(r, m, want) ==
  /\ work[r].op = "review" /\ work[r].motif = m /\ work' = [work EXCEPT ![r] = Resting]
  /\ Stored(m) /\ text' = text /\ DecisionOf(motif'[m]) = want
  /\ motif' = [motif EXCEPT ![m].label = want.label, ![m].status = want.status]
  /\ log' = [log EXCEPT ![m] =
       Append(@, [before |-> DecisionOf(motif[m]), after |-> want,
                  receipts |-> Receipt(DecisionOf(motif[m]), want)])]

\* A review commits the decision it wants on the row as it has seen it.
LEMMA Reviews ==
  ASSUME ReviewIInv, NEW r \in Requests, CommitReview(r)
  PROVE  \E m \in Motifs, want \in Decision : Decides(r, m, want)
<1>1. work[r] \in Review /\ work[r].op = "review"
  BY MotifRows DEF CommitReview, ReviewIInv, MotifTypeOK
<1>2. PICK m \in Motifs, seen \in Decision, want \in Decision :
        m = work[r].motif /\ seen = work[r].seen /\ want = work[r].want
  BY <1>1 DEF Review
<1>3. Stored(m) /\ seen = DecisionOf(motif[m])
  BY <1>1, <1>2 DEF ReviewIInv, RowLocked
<1>4. seen.label = motif[m].label /\ seen.status = motif[m].status
  BY <1>3 DEF DecisionOf
<1>5. /\ log' = [log EXCEPT ![m] = Append(@, [before |-> seen, after |-> want,
                                              receipts |-> Receipt(seen, want)])]
      /\ motif' = [motif EXCEPT
           ![m].label  = IF want.label # seen.label THEN want.label ELSE @,
           ![m].status = IF want.status # seen.status THEN want.status ELSE @]
      /\ work' = [work EXCEPT ![r] = Resting] /\ text' = text
  BY <1>2 DEF CommitReview
<1>6. motif[m] \in MotifRow
  BY <1>3 DEF ReviewIInv, MotifTypeOK, Stored
<1>7. motif' = [motif EXCEPT ![m].label = want.label, ![m].status = want.status]
  BY <1>4, <1>5, <1>6 DEF MotifRow
<1>8. DecisionOf(motif'[m]) = want
  BY Zenon, <1>6, <1>7 DEF ReviewIInv, MotifTypeOK, MotifRow, DecisionOf, Decision
<1> QED
  BY <1>1, <1>2, <1>3, <1>5, <1>7, <1>8 DEF Decides

LEMMA CommitReviewSafe ==
  ASSUME ReviewIInv, NEW r \in Requests, CommitReview(r)
  PROVE  ReviewIInv'
<1>0. PICK m \in Motifs, want \in Decision : Decides(r, m, want)
  BY Reviews
<1>1. /\ work[r].op = "review" /\ work[r].motif = m /\ work' = [work EXCEPT ![r] = Resting]
      /\ Stored(m) /\ text' = text /\ DecisionOf(motif'[m]) = want
      /\ motif' = [motif EXCEPT ![m].label = want.label, ![m].status = want.status]
      /\ log' = [log EXCEPT ![m] =
           Append(@, [before |-> DecisionOf(motif[m]), after |-> want,
                      receipts |-> Receipt(DecisionOf(motif[m]), want)])]
  BY <1>0 DEF Decides
<1>2. motif[m] \in MotifRow /\ DOMAIN motif = Motifs
  BY <1>1 DEF ReviewIInv, MotifTypeOK, Stored
<1>3. /\ DOMAIN motif' = Motifs /\ \A n \in Motifs \ {m} : motif'[n] = motif[n]
      /\ motif'[m] \in MotifRow
      /\ motif'[m].dream = motif[m].dream /\ motif'[m].identity = motif[m].identity
      /\ motif'[m].fragments = motif[m].fragments
  <2>1. /\ DOMAIN motif' = Motifs /\ \A n \in Motifs \ {m} : motif'[n] = motif[n]
        /\ motif'[m] = [motif[m] EXCEPT !.label = want.label, !.status = want.status]
    BY <1>1, <1>2
  <2>2. motif'[m] \in MotifRow
    BY <1>2, <2>1 DEF MotifRow, Decision
  <2> QED
    BY <1>2, <2>1, <2>2 DEF MotifRow
<1>4. motif' = [n \in Motifs |-> motif'[n]] /\ motif'[m] # NoMotif
  BY <1>1, <1>2, <1>3, MotifRows
<1> DEFINE v == [before |-> DecisionOf(motif[m]), after |-> want,
                 receipts |-> Receipt(DecisionOf(motif[m]), want)]
<1>5. v \in Recorded /\ v.before = DecisionOf(motif[m]) /\ v.after = want
  <2>1. DecisionOf(motif[m]) \in Decision
    BY <1>2, MotifRows
  <2>2. Receipt(DecisionOf(motif[m]), want) \in SUBSET Names
    BY DEF Receipt, Decision
  <2> QED
    BY <2>1, <2>2 DEF Recorded
<1>6. log' = [log EXCEPT ![m] = Append(@, v)]
  BY <1>1
<1> HIDE DEF v
<1>7. /\ log' \in [Motifs -> Seq(Recorded)] /\ log'[m] = Append(log[m], v)
      /\ log[m] \in Seq(Recorded) /\ \A n \in Motifs \ {m} : log'[n] = log[n]
  BY <1>5, <1>6 DEF ReviewIInv, MotifTypeOK
<1>8. /\ work' \in [Requests -> {Resting} \cup Induction \cup Review]
      /\ work'[r] = Resting /\ \A q \in Requests \ {r} : work'[q] = work[q]
      /\ Resting.op = "idle"
  BY <1>1 DEF ReviewIInv, MotifTypeOK, Resting
<1>9. MotifTypeOK'
  <2>1. motif' \in [Motifs -> MotifRow \cup {NoMotif}]
    <3>1. \A n \in Motifs : motif'[n] \in MotifRow \cup {NoMotif}
      BY <1>3 DEF ReviewIInv, MotifTypeOK
    <3> QED
      BY <1>4, <3>1
  <2> QED
    BY <1>1, <1>7, <1>8, <2>1 DEF ReviewIInv, MotifTypeOK
<1>10. TextKnown'
  BY <1>1, <1>3, <1>8 DEF ReviewIInv, TextKnown, Stored
<1>11. ASSUME NEW q \in Requests, work'[q].op = "review"
       PROVE  work'[q] = work[q] /\ work[q].motif \in Motifs \ {m}
  <2>1. work'[q] = work[q] /\ q # r
    BY <1>8, <1>11
  <2>2. work[q].motif \in Motifs
    BY <1>11, <2>1, MotifRows DEF ReviewIInv, MotifTypeOK, Review
  <2> QED
    BY <1>1, <1>11, <2>1, <2>2 DEF ReviewIInv, RowLocked
<1>12. RowLocked'
  BY <1>3, <1>11 DEF ReviewIInv, RowLocked, Stored
<1>13. ASSUME NEW n \in Motifs
       PROVE  /\ Stored(n)' => Chained(motif'[n], log'[n])
              /\ IF Stored(n)' THEN Quoting(n)' ELSE log'[n] = <<>>
  <2>1. CASE n = m
    <3>1. Chained(motif[m], log[m]) /\ Quoting(m)
      BY <1>1, ChainOfEach DEF ReviewIInv
    <3>2. PICK row, decided : row = motif[m] /\ decided = motif'[m]
      OBVIOUS
    <3>3. /\ Chained(row, log[m]) /\ v.before = DecisionOf(row) /\ v.after = DecisionOf(decided)
          /\ decided.identity = row.identity
      BY <1>1, <1>3, <1>5, <3>1, <3>2
    <3>4. Chained(decided, Append(log[m], v))
      BY <1>5, <1>7, <3>3, ChainGrows
    <3>5. Quoting(m)'
      BY <1>1, <1>3, <3>1 DEF Quoting, Quotable
    <3> QED
      BY <1>4, <1>7, <2>1, <3>2, <3>4, <3>5 DEF Stored
  <2>2. CASE n # m
    BY <1>1, <1>3, <1>7, <2>2, ChainOfEach DEF ReviewIInv, Stored, Quoting
  <2> QED
    BY <2>1, <2>2
<1>14. MotifChain'
  BY <1>13 DEF MotifChain, Chained, StateAfter, AsDrafted
<1> QED
  BY <1>9, <1>10, <1>12, <1>13, <1>14 DEF ReviewIInv

-----------------------------------------------------------------------------
LEMMA ReviewIInvInit == ReviewInit => ReviewIInv
<1> SUFFICES ASSUME ReviewInit PROVE ReviewIInv
  OBVIOUS
<1>1. MotifTypeOK
  BY DEF ReviewInit, MotifTypeOK
<1>2. \A m \in Motifs : ~Stored(m) /\ log[m] = <<>>
  BY DEF ReviewInit, Stored
<1>3. \A r \in Requests : work[r].op = "idle"
  BY DEF ReviewInit, Resting
<1> QED
  BY <1>1, <1>2, <1>3 DEF ReviewIInv, TextKnown, RowLocked, MotifChain

LEMMA ReviewIInvNext ==
  ASSUME TextAssumption, ReviewIInv, [ReviewNext]_motifVars
  PROVE  ReviewIInv'
<1>1. ASSUME NEW r \in Requests, StartInduction(r) PROVE ReviewIInv'
  <2>1. PICK d \in Interpreted :
          /\ text[d] # NoText
          /\ work' = [work EXCEPT ![r] = [op |-> "induce", dream |-> d]]
          /\ UNCHANGED <<text, motif, log>>
    BY <1>1 DEF StartInduction
  <2> DEFINE w == [op |-> "induce", dream |-> d]
  <2>2. w \in Induction /\ w.dream = d
    BY <2>1 DEF ReviewIInv, MotifTypeOK, Induction
  <2>3. work' = [work EXCEPT ![r] = w]
    BY <2>1
  <2> HIDE DEF w
  <2> QED
    BY <2>1, <2>2, <2>3, Reassigned
<1>2. ASSUME NEW r \in Requests, GiveUp(r) PROVE ReviewIInv'
  BY <1>2, Reassigned DEF GiveUp, Resting
<1>3. CASE UNCHANGED motifVars
  BY <1>3 DEF motifVars, ReviewIInv, MotifTypeOK, TextKnown, RowLocked, MotifChain, Stored, Quoting
<1> QED
  BY <1>1, <1>2, <1>3, CaptureSafe, StoreMotifsSafe, LoadMotifSafe, CommitReviewSafe DEF ReviewNext

-----------------------------------------------------------------------------
(* Numbers: a set of them has a least one, which stands for induction over   *)
(* them.  Initial segments are finite sets, which inclusion orders well.     *)

LEMMA LeastNumber ==
  ASSUME NEW T \in SUBSET Nat, T # {}
  PROVE  \E n \in T : \A m \in T : n <= m
<1> DEFINE segments == {0..n : n \in T}
           before == StrictSubsetOrdering(Nat)
<1>1. IsWellFoundedOn(before, FiniteSubsetsOf(Nat))
  BY FS_StrictSubsetOrderingWellFounded
<1>2. segments \subseteq FiniteSubsetsOf(Nat) /\ segments # {}
  <2>1. ASSUME NEW n \in T PROVE 0..n \in FiniteSubsetsOf(Nat)
    BY FS_Interval DEF FiniteSubsetsOf
  <2> QED
    BY <2>1
<1>3. PICK s \in segments : \A t \in segments : <<t, s>> \notin before
  <2> HIDE DEF segments, before
  <2> QED
    BY <1>1, <1>2, WFMin
<1>4. PICK n \in T : s = 0..n
  OBVIOUS
<1>5. ASSUME NEW m \in T, m < n PROVE FALSE
  <2>1. 0..m \subseteq 0..n /\ n \notin 0..m /\ n \in 0..n /\ 0..m \in SUBSET Nat /\ 0..n \in SUBSET Nat
    BY <1>5
  <2>2. <<0..m, 0..n>> \in before
    BY <2>1 DEF StrictSubsetOrdering
  <2> QED
    BY <1>3, <1>4, <2>2
<1> QED
  BY <1>5

-----------------------------------------------------------------------------
(* Evidence.                                                               *)

\* The review shows every quotation of a motif as the motif has it.
LEMMA WarrantedEvidence ==
  ASSUME ReviewIInv
  PROVE  EvidenceVerbatim
<1> SUFFICES ASSUME NEW m \in Motifs, Stored(m)
             PROVE  LET now == text[motif[m].dream]
                        fragments == motif[m].fragments
                    IN  /\ fragments # {} /\ Reviewed(fragments, now) = fragments
                        /\ \A f \in fragments : f.text = Slice(now, f.from, f.to)
  BY DEF EvidenceVerbatim
<1> DEFINE now == text[motif[m].dream]
           fragments == motif[m].fragments
<1>1. fragments # {} /\ \A f \in fragments : Acceptable(f, now) /\ Grounded(f, now)
  BY DEF ReviewIInv, Quoting, Quotable
<1> HIDE DEF now, fragments
<1>2. {f \in fragments : Acceptable(f, now) /\ Grounded(f, now)} = fragments
  BY <1>1
<1>3. Reviewed(fragments, now) = fragments
  BY <1>2 DEF Reviewed
<1>4. \A f \in fragments : f.text = Slice(now, f.from, f.to)
  BY <1>1 DEF Grounded
<1> QED
  BY <1>1, <1>3, <1>4 DEF now, fragments

-----------------------------------------------------------------------------
(* The shelf.                                                              *)

EntryOf(row) == [dream |-> row.dream, label |-> row.label, status |-> row.status]
Relabelled(e, l, s) == [e EXCEPT !.label = l, !.status = s]

LEMMA EntryShown ==
  /\ \A m \in Motifs : Entries[m] = IF Stored(m) THEN EntryOf(motif[m]) ELSE NoMotif
  /\ \A row \in MotifRow : EntryOf(row) # NoMotif
<1>1. ASSUME NEW row \in MotifRow PROVE EntryOf(row) # NoMotif
  <2>1. EntryOf(row).status \in MotifStatuses
    BY DEF EntryOf, MotifRow
  <2> QED
    BY <2>1 DEF NoMotif, MotifStatuses
<1> QED
  BY <1>1 DEF Entries, EntryOf

LEMMA EntryDecided ==
  ASSUME NEW now, NEW later, NEW l, NEW s,
         later.dream = now.dream, later.label = l, later.status = s
  PROVE  EntryOf(later) = Relabelled(EntryOf(now), l, s)
<1> DEFINE S == [dream : {now.dream}, label : {now.label, l}, status : {now.status, s}]
<1>1. EntryOf(now) \in S
  BY DEF EntryOf
<1>2. PICK y : y = [EntryOf(now) EXCEPT !.label = l, !.status = s]
  OBVIOUS
<1>3. y \in S
  BY <1>1, <1>2
<1>4. y.dream = now.dream /\ y.label = l /\ y.status = s
  BY <1>1, <1>2, <1>3
<1>5. y = EntryOf(later)
  BY <1>3, <1>4 DEF EntryOf
<1> QED
  BY <1>2, <1>5 DEF Relabelled

LEMMA ShelfStarts == ReviewInit => Shelf!ShelfInit
BY DEF ReviewInit, Shelf!ShelfInit, Captures, Entries, Stored, NoMotif, Shelf!NoEntry

LEMMA ShelfSame ==
  ASSUME UNCHANGED <<text, motif>>
  PROVE  UNCHANGED Shelf!shelfVars
BY DEF Shelf!shelfVars, Captures, Entries, Stored

LEMMA ShelfCaptured ==
  ASSUME TextAssumption, ReviewIInv, NEW d \in Interpreted, Capture(d)
  PROVE  Shelf!Captured(d)
<1>1. PICK s \in Texts : text' = [text EXCEPT ![d] = s]
  BY DEF Capture
<1>2. s # NoText /\ text[d] = NoText /\ motif' = motif
  BY TextAssumption DEF Capture, NoText
<1>3. Captures' = Captures \cup {d} /\ d \notin Captures
  BY <1>1, <1>2 DEF Captures, ReviewIInv, MotifTypeOK
<1>4. Entries' = Entries
  BY <1>2 DEF Entries, Stored
<1> QED
  BY <1>3, <1>4 DEF Shelf!Captured

LEMMA ShelfProposed ==
  ASSUME TextAssumption, ReviewIInv, NEW r \in Requests, StoreMotifs(r)
  PROVE  Shelf!Proposed(work[r].dream) \/ UNCHANGED Shelf!shelfVars
<1>0. PICK ids \in SUBSET {m \in Motifs : ~Stored(m)} : \E label \in [ids -> Names] :
        /\ \A m \in Motifs \ ids : motif'[m] = motif[m]
        /\ \A m \in ids : DraftOf(motif'[m], work[r].dream, label[m])
  BY MotifsStored
<1>1. PICK label \in [ids -> Names] :
        /\ \A m \in Motifs \ ids : motif'[m] = motif[m]
        /\ \A m \in ids : DraftOf(motif'[m], work[r].dream, label[m])
  BY <1>0
<1>2. text' = text /\ work[r] \in Induction /\ work[r].dream \in Captures
  BY MotifRows DEF StoreMotifs, ReviewIInv, MotifTypeOK, TextKnown, Captures, Induction
<1>3. Captures' = Captures
  BY <1>2 DEF Captures
<1> DEFINE d == work[r].dream
<1>4. Entries' = [m \in Motifs |->
                    IF m \in ids THEN [dream |-> d, label |-> label[m], status |-> "draft"]
                                 ELSE Entries[m]]
  <2>1. ASSUME NEW m \in ids
        PROVE  Entries'[m] = [dream |-> d, label |-> label[m], status |-> "draft"]
    <3>1. PICK row : row = motif'[m]
      OBVIOUS
    <3>2. /\ row \in MotifRow /\ row # NoMotif /\ row.dream = d
          /\ row.label = label[m] /\ row.status = "draft"
      BY <1>1, <3>1 DEF DraftOf, DecisionOf, AsDrafted
    <3>3. Entries'[m] = EntryOf(row)
      BY <1>1, <3>1, <3>2 DEF Entries, Stored, EntryOf
    <3> QED
      BY <3>2, <3>3 DEF EntryOf
  <2>2. ASSUME NEW m \in Motifs \ ids PROVE Entries'[m] = Entries[m]
    BY <1>1 DEF Entries, Stored
  <2>3. Entries' = [m \in Motifs |-> Entries'[m]]
    BY DEF Entries
  <2> HIDE DEF d
  <2> QED
    BY <2>1, <2>2, <2>3
<1>5. CASE ids = {}
  <2>1. Entries' = Entries
    BY <1>4, <1>5 DEF Entries
  <2> QED
    BY <1>3, <2>1 DEF Shelf!shelfVars
<1>6. CASE ids # {}
  <2>1. ids \in (SUBSET {m \in Motifs : ~Shelf!Shelved(m)}) \ {{}}
    BY <1>6, EntryShown DEF Shelf!Shelved, Shelf!NoEntry, NoMotif
  <2> QED
    BY <1>2, <1>3, <1>4, <2>1 DEF Shelf!Proposed
<1> QED
  BY <1>5, <1>6

LEMMA ShelfDecided ==
  ASSUME ReviewIInv, NEW r \in Requests, CommitReview(r)
  PROVE  Shelf!Decided(work[r].motif) /\ work[r].motif \in Motifs
<1>0. PICK m \in Motifs, want \in Decision : Decides(r, m, want)
  BY Reviews
<1>1. /\ work[r].motif = m /\ Stored(m) /\ text' = text
      /\ motif' = [motif EXCEPT ![m].label = want.label, ![m].status = want.status]
  BY <1>0 DEF Decides
<1>2. motif[m] \in MotifRow /\ DOMAIN motif = Motifs
  BY <1>1 DEF ReviewIInv, MotifTypeOK, Stored
<1>3. /\ \A n \in Motifs \ {m} : motif'[n] = motif[n]
      /\ motif'[m] = [motif[m] EXCEPT !.label = want.label, !.status = want.status]
  BY <1>1, <1>2
<1>4. motif'[m] \in MotifRow
  BY <1>2, <1>3 DEF MotifRow, Decision
<1>5. /\ motif'[m] # NoMotif /\ motif'[m].dream = motif[m].dream
      /\ motif'[m].label = want.label /\ motif'[m].status = want.status
  BY <1>2, <1>3, <1>4, MotifRows DEF MotifRow
<1>6. Entries' = [Entries EXCEPT ![m].label = want.label, ![m].status = want.status]
  <2>1. Entries[m] = EntryOf(motif[m]) /\ DOMAIN Entries = Motifs
    BY <1>1, EntryShown DEF Entries
  <2>2. Entries'[m] = EntryOf(motif'[m])
    BY <1>5 DEF Entries, Stored, EntryOf
  <2>3. Entries'[m] = [Entries[m] EXCEPT !.label = want.label, !.status = want.status]
    <3>1. PICK now, later : now = motif[m] /\ later = motif'[m]
      OBVIOUS
    <3>2. later.dream = now.dream /\ later.label = want.label /\ later.status = want.status
      BY <1>5, <3>1
    <3>3. Entries[m] = EntryOf(now) /\ Entries'[m] = EntryOf(later)
      BY <2>1, <2>2, <3>1
    <3>4. EntryOf(later) = Relabelled(EntryOf(now), want.label, want.status)
      BY <3>2, EntryDecided
    <3> QED
      BY <3>3, <3>4 DEF Relabelled
  <2>4. \A n \in Motifs \ {m} : Entries'[n] = Entries[n]
    BY <1>3 DEF Entries, Stored
  <2>5. Entries' = [n \in Motifs |-> Entries'[n]] /\ Entries = [n \in Motifs |-> Entries[n]]
    BY DEF Entries
  <2> QED
    BY <2>1, <2>3, <2>4, <2>5
<1>7. Captures' = Captures
  BY <1>1 DEF Captures
<1>8. Shelf!Shelved(m)
  BY <1>1, <1>2, EntryShown DEF Shelf!Shelved, Shelf!NoEntry, NoMotif
<1>9. want.label \in Names /\ want.status \in Shelf!ShelfStatuses
  BY DEF Decision, MotifStatuses, Shelf!ShelfStatuses
<1> QED
  BY <1>1, <1>6, <1>7, <1>8, <1>9 DEF Shelf!Decided

LEMMA ShelfStep ==
  ASSUME TextAssumption, ReviewIInv, [ReviewNext]_motifVars
  PROVE  [Shelf!ShelfNext]_(Shelf!shelfVars)
<1>1. ASSUME NEW d \in Interpreted, Capture(d) PROVE Shelf!ShelfNext
  BY <1>1, ShelfCaptured DEF Shelf!ShelfNext
<1>2. ASSUME NEW r \in Requests, StartInduction(r) \/ LoadMotif(r) \/ GiveUp(r)
      PROVE  UNCHANGED Shelf!shelfVars
  BY <1>2, ShelfSame DEF StartInduction, LoadMotif, GiveUp
<1>3. ASSUME NEW r \in Requests, StoreMotifs(r) PROVE Shelf!ShelfNext \/ UNCHANGED Shelf!shelfVars
  <2>1. work[r].dream \in Interpreted
    BY <1>3, MotifRows DEF StoreMotifs, ReviewIInv, MotifTypeOK, Induction
  <2> QED
    BY <1>3, <2>1, ShelfProposed DEF Shelf!ShelfNext
<1>4. ASSUME NEW r \in Requests, CommitReview(r) PROVE Shelf!ShelfNext
  BY <1>4, ShelfDecided DEF Shelf!ShelfNext
<1>5. CASE UNCHANGED motifVars
  BY <1>5, ShelfSame DEF motifVars
<1> QED
  BY <1>1, <1>2, <1>3, <1>4, <1>5 DEF ReviewNext

-----------------------------------------------------------------------------
(* The theorems about motifs.                                              *)

\* Rows, versions and what requests have read of them are well typed.
THEOREM MotifsTypeCorrect == ReviewSpec => []MotifTypeOK
<1>1. ReviewIInv /\ [ReviewNext]_motifVars => ReviewIInv'
  BY ReviewIInvNext, TextAssumption
<1>2. ReviewIInv => MotifTypeOK
  BY DEF ReviewIInv
<1> QED
  BY <1>1, <1>2, ReviewIInvInit, PTL DEF ReviewSpec

\* However many inductions and reviews interleave, the versions of a motif are a chain
\* from its draft to what it is now (update_motif_status), and the review shows all that
\* the grounder let it keep, where it is in the dream (_verified_review_fragments).
THEOREM MotifsAreWarranted == ReviewSpec => []MotifsWarranted
<1>1. ReviewIInv /\ [ReviewNext]_motifVars => ReviewIInv'
  BY ReviewIInvNext, TextAssumption
<1>2. ReviewIInv => MotifsWarranted
  BY WarrantedEvidence DEF ReviewIInv, MotifsWarranted
<1> QED
  BY <1>1, <1>2, ReviewIInvInit, PTL DEF ReviewSpec

\* What induction and review do to motif rows is a behaviour of the shelf that the
\* memory graph reads: each of their steps is one of its steps, or none.
THEOREM ReviewImplementsShelf == ReviewSpec => ImplementsShelf
<1>1. ReviewIInv /\ [ReviewNext]_motifVars => ReviewIInv'
  BY ReviewIInvNext, TextAssumption
<1>2. ReviewIInv /\ [ReviewNext]_motifVars => [Shelf!ShelfNext]_(Shelf!shelfVars)
  BY ShelfStep, TextAssumption
<1> QED
  BY <1>1, <1>2, ReviewIInvInit, ShelfStarts, PTL
  DEF ReviewSpec, ImplementsShelf, Shelf!ShelfSpec

-----------------------------------------------------------------------------
(* The replay of controls: what it computes, by induction over the rows.    *)

\* Induction over an interval, from the least number that is not in the set.
LEMMA Upwards ==
  ASSUME NEW a \in Nat, NEW b \in Nat, NEW S, a \in S,
         \A i \in (a + 1)..b : i - 1 \in S => i \in S
  PROVE  a..b \subseteq S
<1> DEFINE T == {i \in a..b : i \notin S}
<1>1. SUFFICES ASSUME T # {} PROVE FALSE
  OBVIOUS
<1>2. PICK n \in T : \A m \in T : n <= m
  <2>1. T \in SUBSET Nat
    OBVIOUS
  <2> HIDE DEF T
  <2> QED
    BY <1>1, <2>1, LeastNumber
<1>3. n \in (a + 1)..b /\ n - 1 \in a..b /\ n - 1 \notin T
  BY <1>2
<1> QED
  BY <1>2, <1>3

OwnRows(s, rows) == {c \in rows : c.subject = s}
Step(own, mark, i) ==
  IF \E c \in own : c.at = i THEN Effect(mark, (CHOOSE c \in own : c.at = i).action) ELSE mark
Replays(f, own, n) ==
  f = [i \in 0..n |-> IF i = 0 THEN Unmarked ELSE Step(own, f[i - 1], i)]

LEMMA ReplayExists ==
  ASSUME NEW own, NEW n \in Nat
  PROVE  \E f : Replays(f, own, n)
<1> DEFINE S == {k \in Nat : \E f : Replays(f, own, k)}
<1>1. 0 \in S
  <2>1. Replays([i \in 0..0 |-> Unmarked], own, 0)
    BY DEF Replays
  <2> QED
    BY <2>1
<1>2. ASSUME NEW k \in 1..n, k - 1 \in S PROVE k \in S
  <2>1. PICK f : Replays(f, own, k - 1)
    BY <1>2
  <2> DEFINE g == [i \in 0..k |-> IF i = k THEN Step(own, f[k - 1], k) ELSE f[i]]
  <2>2. \A i \in 0..k : g[i] = IF i = 0 THEN Unmarked ELSE Step(own, g[i - 1], i)
    <3> TAKE i \in 0..k
    <3>1. CASE i = k
      <4>1. i # 0 /\ i - 1 = k - 1 /\ k - 1 \in 0..k /\ k - 1 # k
        BY <3>1
      <4>2. g[i] = Step(own, f[k - 1], k) /\ g[i - 1] = f[k - 1]
        BY <3>1, <4>1
      <4> HIDE DEF g
      <4> QED
        BY <3>1, <4>1, <4>2
    <3>2. CASE i # k
      <4>1. i \in 0..(k - 1) /\ (i # 0 => i - 1 \in 0..k /\ i - 1 # k)
        BY <3>2
      <4>2. f[i] = IF i = 0 THEN Unmarked ELSE Step(own, f[i - 1], i)
        BY <2>1, <4>1 DEF Replays
      <4>3. g[i] = f[i] /\ (i # 0 => g[i - 1] = f[i - 1])
        BY <3>2, <4>1
      <4> HIDE DEF g
      <4> QED
        BY <4>2, <4>3
    <3> QED
      BY <3>1, <3>2
  <2>3. g = [i \in 0..k |-> g[i]]
    OBVIOUS
  <2> HIDE DEF g
  <2>4. Replays(g, own, k)
    BY <2>2, <2>3 DEF Replays
  <2> QED
    BY <2>4
<1> HIDE DEF S
<1>3. 0..n \subseteq S
  BY <1>1, <1>2, Upwards
<1> QED
  BY <1>3 DEF S

LEMMA Replayed ==
  ASSUME ControlAssumption, NEW s, NEW rows
  PROVE  \E f : /\ f[0] = Unmarked /\ Marks(s, rows) = f[MaxControls]
                /\ \A i \in 1..MaxControls : f[i] = Step(OwnRows(s, rows), f[i - 1], i)
<1> DEFINE f == CHOOSE f : Replays(f, OwnRows(s, rows), MaxControls)
<1>1. MaxControls \in Nat
  BY ControlAssumption
<1>2. Marks(s, rows) = f[MaxControls]
  BY DEF Marks, Replays, Step, OwnRows
<1>3. Replays(f, OwnRows(s, rows), MaxControls)
  BY <1>1, ReplayExists
<1> HIDE DEF f
<1>4. f[0] = Unmarked /\ \A i \in 1..MaxControls : f[i] = Step(OwnRows(s, rows), f[i - 1], i)
  BY <1>1, <1>3 DEF Replays
<1> QED
  BY <1>2, <1>4

-----------------------------------------------------------------------------
(* Marks.                                                                  *)

Verbs == {"delete", "hide", "restore", "reject"}
Marking == [deleted : BOOLEAN, hidden : BOOLEAN, rejected : BOOLEAN]
Gone(mark) == mark.deleted = TRUE \/ mark.rejected = TRUE
Away(mark) == Gone(mark) \/ mark.hidden = TRUE
AtMostOne(mark) ==
  /\ mark \in Marking
  /\ ~(mark.deleted /\ mark.hidden) /\ ~(mark.deleted /\ mark.rejected)
  /\ ~(mark.hidden /\ mark.rejected)

\* A row marks a subject once, keeps what is deleted or rejected away for good and, if
\* it does not restore, what is hidden.
LEMMA EffectMarks ==
  ASSUME NEW mark, AtMostOne(mark), NEW action \in Verbs
  PROVE  /\ AtMostOne(Effect(mark, action))
         /\ Gone(mark) \/ action \in {"delete", "reject"} => Gone(Effect(mark, action))
         /\ (Away(mark) /\ action # "restore") \/ action = "hide" => Away(Effect(mark, action))
<1>1. CASE action = "delete"
  BY <1>1 DEF Effect, AtMostOne, Marking, Gone, Away
<1>2. CASE action = "hide"
  <2>1. CASE mark.deleted \/ mark.rejected
    BY <1>2, <2>1 DEF Effect, AtMostOne, Marking, Gone, Away
  <2>2. CASE ~(mark.deleted \/ mark.rejected)
    <3>1. Effect(mark, action) = [mark EXCEPT !.hidden = TRUE]
      BY <1>2, <2>2 DEF Effect
    <3> QED
      BY <1>2, <2>2, <3>1 DEF AtMostOne, Marking, Gone, Away
  <2> QED
    BY <2>1, <2>2
<1>3. CASE action = "restore"
  <2>1. Effect(mark, action) = [mark EXCEPT !.hidden = FALSE]
    BY <1>3 DEF Effect
  <2> QED
    BY <1>3, <2>1 DEF AtMostOne, Marking, Gone, Away
<1>4. CASE action = "reject"
  <2>1. CASE mark.deleted
    BY <1>4, <2>1 DEF Effect, AtMostOne, Marking, Gone, Away
  <2>2. CASE ~mark.deleted
    <3>1. Effect(mark, action) = [mark EXCEPT !.rejected = TRUE, !.hidden = FALSE]
      BY <1>4, <2>2 DEF Effect
    <3>2. /\ Effect(mark, action) \in Marking /\ Effect(mark, action).rejected = TRUE
          /\ Effect(mark, action).hidden = FALSE /\ Effect(mark, action).deleted = mark.deleted
      BY <3>1 DEF AtMostOne, Marking
    <3> QED
      BY <1>4, <2>2, <3>2 DEF AtMostOne, Marking, Gone, Away
  <2> QED
    BY <2>1, <2>2
<1> QED
  BY <1>1, <1>2, <1>3, <1>4 DEF Verbs

LEMMA OneMarkConsistent ==
  ASSUME NEW mark, AtMostOne(mark)
  PROVE  Consistent(mark)
<1> DEFINE A == {a \in {"deleted", "hidden", "rejected"} : mark[a]}
<1>1. A = {} \/ \E a : A = {a}
  <2>1. CASE mark.deleted
    <3>1. A = {"deleted"}
      BY <2>1 DEF AtMostOne, Marking
    <3> QED
      BY <3>1
  <2>2. CASE mark.hidden
    <3>1. A = {"hidden"}
      BY <2>2 DEF AtMostOne, Marking
    <3> QED
      BY <3>1
  <2>3. CASE mark.rejected
    <3>1. A = {"rejected"}
      BY <2>3 DEF AtMostOne, Marking
    <3> QED
      BY <3>1
  <2>4. CASE ~mark.deleted /\ ~mark.hidden /\ ~mark.rejected
    BY <2>4
  <2> QED
    BY <2>1, <2>2, <2>3, <2>4
<1> HIDE DEF A
<1>2. Cardinality(A) \in {0, 1}
  BY <1>1, FS_EmptySet, FS_Singleton
<1> QED
  BY <1>2 DEF Consistent, A

-----------------------------------------------------------------------------
(* Rows of the table: numbered as they began, one by one.                   *)

Entry == [dream : Dreams, label : Labels, status : ShelfStatuses]
Control == [at : Nat, subject : Targets, action : Verbs]
Sighting ==
  {NoView} \cup [stage : {1}, dreams : SUBSET Dreams]
  \cup [stage : {2}, dreams : SUBSET Dreams, motifs : [Motifs -> Entry \cup {NoEntry}]]

MemoryTypeOK ==
  /\ dreams \in SUBSET Dreams
  /\ shelf \in [Motifs -> Entry \cup {NoEntry}]
  /\ controls \in SUBSET Control /\ posting \in SUBSET Control
  /\ view \in Sighting

Numbered ==
  /\ IsFiniteSet(Rows) /\ Cardinality(Rows) <= MaxControls
  /\ \A c \in Rows : c.at \in 1..Cardinality(Rows)
  /\ \A c, k \in Rows : c.at = k.at => c = k

MemoryIInv == MemoryTypeOK /\ Numbered

LEMMA MemoryStarts == ASSUME ControlAssumption PROVE MemoryInit => MemoryIInv
<1> SUFFICES ASSUME MemoryInit PROVE MemoryIInv
  OBVIOUS
<1>1. MemoryTypeOK
  BY DEF MemoryInit, ShelfInit, MemoryTypeOK, Sighting
<1>2. Rows = {}
  BY DEF MemoryInit, Rows
<1>3. Numbered
  BY <1>2, FS_EmptySet, ControlAssumption DEF Numbered
<1> QED
  BY <1>1, <1>3 DEF MemoryIInv

LEMMA CountedSetsAreFinite == ASSUME Numbered PROVE Cardinality(Rows) \in Nat /\ IsFiniteSet(Rows)
BY FS_CardinalityType DEF Numbered

LEMMA ActionsAreVerbs == ASSUME NEW s PROVE Actions(s) \subseteq Verbs
BY DEF Actions, Verbs

LEMMA RowBegun ==
  ASSUME ControlAssumption, MemoryIInv, BeginControl
  PROVE  MemoryIInv'
<1>0. PICK s \in Targets : \E a \in Actions(s) :
        posting' = posting \cup {[at |-> Cardinality(Rows) + 1, subject |-> s, action |-> a]}
  BY DEF BeginControl
<1>1. PICK a \in Actions(s) :
        posting' = posting \cup {[at |-> Cardinality(Rows) + 1, subject |-> s, action |-> a]}
  BY <1>0
<1> DEFINE c == [at |-> Cardinality(Rows) + 1, subject |-> s, action |-> a]
<1>2. Cardinality(Rows) \in Nat /\ IsFiniteSet(Rows) /\ MaxControls \in Nat
  BY CountedSetsAreFinite, ControlAssumption DEF MemoryIInv
<1>3. c \in Control /\ c.at = Cardinality(Rows) + 1
  BY <1>2, ActionsAreVerbs DEF Control
<1> HIDE DEF c
<1>4. MemoryTypeOK'
  BY <1>1, <1>3 DEF BeginControl, MemoryIInv, MemoryTypeOK, shelfVars, c
<1>5. Rows' = Rows \cup {c} /\ c \notin Rows
  <2>1. Rows' = Rows \cup {c}
    BY <1>1 DEF Rows, BeginControl, c
  <2>2. c \notin Rows
    BY <1>2, <1>3 DEF MemoryIInv, Numbered
  <2> QED
    BY <2>1, <2>2
<1>6. IsFiniteSet(Rows') /\ Cardinality(Rows') = Cardinality(Rows) + 1
  BY <1>2, <1>5, FS_AddElement
<1>7. Numbered'
  <2>1. Cardinality(Rows') <= MaxControls
    BY <1>2, <1>6 DEF BeginControl
  <2>2. \A k \in Rows' : k.at \in 1..Cardinality(Rows')
    BY <1>2, <1>3, <1>5, <1>6 DEF MemoryIInv, Numbered
  <2>3. \A k, l \in Rows' : k.at = l.at => k = l
    BY <1>2, <1>3, <1>5 DEF MemoryIInv, Numbered
  <2> QED
    BY <1>6, <2>1, <2>2, <2>3 DEF Numbered
<1> QED
  BY <1>4, <1>7 DEF MemoryIInv

LEMMA SameRows ==
  ASSUME MemoryIInv, MemoryTypeOK', Rows' = Rows
  PROVE  MemoryIInv'
BY DEF MemoryIInv, Numbered

LEMMA ShelfSteps ==
  ASSUME MemoryTypeOK, ShelfNext, UNCHANGED <<controls, posting, view>>
  PROVE  MemoryTypeOK'
<1>1. dreams' \in SUBSET Dreams
  BY DEF ShelfNext, Captured, Proposed, Decided, MemoryTypeOK
<1>2. shelf' \in [Motifs -> Entry \cup {NoEntry}]
  <2>1. ASSUME NEW d \in Dreams, Captured(d) PROVE shelf' \in [Motifs -> Entry \cup {NoEntry}]
    BY <2>1 DEF Captured, MemoryTypeOK
  <2>2. ASSUME NEW d \in Dreams, Proposed(d) PROVE shelf' \in [Motifs -> Entry \cup {NoEntry}]
    BY <2>2 DEF Proposed, MemoryTypeOK, Entry, ShelfStatuses
  <2>3. ASSUME NEW m \in Motifs, Decided(m) PROVE shelf' \in [Motifs -> Entry \cup {NoEntry}]
    <3>1. PICK l \in Labels, s \in ShelfStatuses :
            shelf' = [shelf EXCEPT ![m].label = l, ![m].status = s]
      BY <2>3 DEF Decided
    <3>2. shelf[m] \in Entry
      BY <2>3 DEF Decided, Shelved, MemoryTypeOK
    <3>3. [shelf[m] EXCEPT !.label = l, !.status = s] \in Entry
      BY <3>2 DEF Entry
    <3> QED
      BY <3>1, <3>3 DEF MemoryTypeOK
  <2> QED
    BY <2>1, <2>2, <2>3 DEF ShelfNext
<1> QED
  BY <1>1, <1>2 DEF MemoryTypeOK

LEMMA Loads ==
  ASSUME MemoryTypeOK, LoadDreams \/ LoadMotifs \/ LoadControls
  PROVE  MemoryTypeOK' /\ Rows' = Rows
<1>1. view' \in Sighting
  <2>1. CASE LoadDreams
    BY <2>1 DEF LoadDreams, MemoryTypeOK, Sighting
  <2>2. CASE LoadMotifs
    <3>1. view \in [stage : {1}, dreams : SUBSET Dreams]
      BY <2>2 DEF LoadMotifs, MemoryTypeOK, Sighting, NoView
    <3> QED
      BY <2>2, <3>1 DEF LoadMotifs, MemoryTypeOK, Sighting
  <2>3. CASE LoadControls
    BY <2>3 DEF LoadControls, Sighting
  <2> QED
    BY <2>1, <2>2, <2>3
<1> QED
  BY <1>1 DEF LoadDreams, LoadMotifs, LoadControls, MemoryTypeOK, shelfVars, Rows

LEMMA MemoryIInvNext ==
  ASSUME ControlAssumption, MemoryIInv, [MemoryNext]_memoryVars
  PROVE  MemoryIInv'
<1>1. CASE ShelfNext /\ UNCHANGED <<controls, posting, view>>
  BY <1>1, ShelfSteps, SameRows DEF Rows, MemoryIInv
<1>2. CASE BeginControl
  BY <1>2, RowBegun
<1>3. CASE CommitControl
  <2>1. Rows' = Rows
    BY <1>3 DEF CommitControl, Rows
  <2>2. MemoryTypeOK'
    BY <1>3 DEF CommitControl, MemoryIInv, MemoryTypeOK, shelfVars
  <2> QED
    BY <2>1, <2>2, SameRows
<1>4. CASE LoadDreams \/ LoadMotifs \/ LoadControls
  BY <1>4, Loads, SameRows DEF MemoryIInv
<1>5. CASE UNCHANGED memoryVars
  BY <1>5 DEF memoryVars, shelfVars, MemoryIInv, MemoryTypeOK, Numbered, Rows
<1> QED
  BY <1>1, <1>2, <1>3, <1>4, <1>5 DEF MemoryNext

-----------------------------------------------------------------------------
(* What the replay of committed rows leaves of a subject.                  *)

LEMMA StepMarks ==
  ASSUME NEW own \in SUBSET Control, NEW mark, AtMostOne(mark), NEW i \in Nat
  PROVE  /\ AtMostOne(Step(own, mark, i))
         /\ Gone(mark) => Gone(Step(own, mark, i))
         /\ Away(mark) /\ (\A c \in own : c.at = i => c.action # "restore")
              => Away(Step(own, mark, i))
<1>1. CASE \E c \in own : c.at = i
  <2>1. PICK c \in own : c.at = i /\ c = CHOOSE k \in own : k.at = i
    BY <1>1
  <2>2. Step(own, mark, i) = Effect(mark, c.action) /\ c.action \in Verbs
    BY <1>1, <2>1 DEF Step, Control
  <2> QED
    BY <2>1, <2>2, EffectMarks
<1>2. CASE ~\E c \in own : c.at = i
  BY <1>2 DEF Step
<1> QED
  BY <1>1, <1>2

LEMMA OwnRow ==
  ASSUME ControlAssumption, MemoryIInv, NEW c \in controls
  PROVE  /\ c \in OwnRows(c.subject, controls) /\ c.at \in 1..MaxControls /\ c.at \in Nat
         /\ c.action \in Verbs /\ \A k \in OwnRows(c.subject, controls) : k.at = c.at => k = c
<1>1. c \in Rows /\ c \in Control /\ Cardinality(Rows) \in Nat /\ MaxControls \in Nat
  BY CountedSetsAreFinite, ControlAssumption DEF MemoryIInv, MemoryTypeOK, Rows
<1>2. c.at \in 1..MaxControls
  BY <1>1 DEF MemoryIInv, Numbered
<1> QED
  BY <1>1, <1>2 DEF MemoryIInv, Numbered, OwnRows, Rows, Control

LEMMA MarkedOnce ==
  ASSUME ControlAssumption, MemoryIInv, NEW s, NEW f, f[0] = Unmarked,
         \A i \in 1..MaxControls : f[i] = Step(OwnRows(s, controls), f[i - 1], i)
  PROVE  \A i \in 0..MaxControls : AtMostOne(f[i])
<1> DEFINE S == {i \in Nat : AtMostOne(f[i])}
<1>1. MaxControls \in Nat /\ OwnRows(s, controls) \in SUBSET Control
  BY ControlAssumption DEF OwnRows, MemoryIInv, MemoryTypeOK
<1>2. 0 \in S
  <2>1. AtMostOne(Unmarked)
    BY DEF Unmarked, AtMostOne, Marking
  <2> QED
    BY <2>1
<1>3. ASSUME NEW i \in 1..MaxControls, i - 1 \in S PROVE i \in S
  <2>1. f[i] = Step(OwnRows(s, controls), f[i - 1], i) /\ AtMostOne(f[i - 1]) /\ i \in Nat
    BY <1>1, <1>3
  <2>2. AtMostOne(f[i])
    BY <1>1, <2>1, StepMarks
  <2> QED
    BY <2>1, <2>2
<1> HIDE DEF S
<1>4. 0..MaxControls \subseteq S
  BY <1>1, <1>2, <1>3, Upwards
<1> QED
  BY <1>4 DEF S

LEMMA NobodyLockedOut == ASSUME ControlAssumption, MemoryIInv PROVE NeverLockedOut
<1> SUFFICES ASSUME NEW s \in Targets PROVE Consistent(Marks(s, controls))
  BY DEF NeverLockedOut
<1>1. PICK f : /\ f[0] = Unmarked /\ Marks(s, controls) = f[MaxControls]
               /\ \A i \in 1..MaxControls : f[i] = Step(OwnRows(s, controls), f[i - 1], i)
  BY ControlAssumption, Replayed
<1>2. \A i \in 0..MaxControls : AtMostOne(f[i])
  BY <1>1, ControlAssumption, MarkedOnce
<1>3. AtMostOne(Marks(s, controls))
  BY <1>1, <1>2, ControlAssumption DEF ControlAssumption
<1> QED
  BY <1>3, OneMarkConsistent

LEMMA TakenAway ==
  ASSUME ControlAssumption, MemoryIInv, NEW c \in controls, c.action # "restore",
         c.action = "hide" =>
           \A k \in OwnRows(c.subject, controls) : k.at > c.at => k.action # "restore"
  PROVE  Withheld(c.subject, controls)
<1> DEFINE s == c.subject  own == OwnRows(s, controls)
<1>1. PICK f : /\ f[0] = Unmarked /\ Marks(s, controls) = f[MaxControls]
               /\ \A i \in 1..MaxControls : f[i] = Step(own, f[i - 1], i)
  BY ControlAssumption, Replayed
<1>2. \A i \in 0..MaxControls : AtMostOne(f[i])
  BY <1>1, ControlAssumption, MarkedOnce
<1>3. /\ MaxControls \in Nat /\ own \in SUBSET Control
      /\ c \in own /\ c.at \in 1..MaxControls /\ c.at \in Nat /\ c.action \in Verbs
      /\ \A k \in own : k.at = c.at => k = c
  BY OwnRow, ControlAssumption DEF ControlAssumption, OwnRows, MemoryIInv, MemoryTypeOK
<1> HIDE DEF own
<1>4. f[c.at] = Effect(f[c.at - 1], c.action)
  <2>1. (CHOOSE k \in own : k.at = c.at) = c
    BY <1>3
  <2> QED
    BY <1>1, <1>3, <2>1 DEF Step
<1>5. AtMostOne(f[c.at - 1])
  BY <1>2, <1>3
<1>6. CASE c.action = "hide"
  <2> DEFINE S == {i \in Nat : Away(f[i])}
  <2>1. c.at \in S
    BY <1>3, <1>4, <1>5, <1>6, EffectMarks
  <2>2. ASSUME NEW i \in (c.at + 1)..MaxControls, i - 1 \in S PROVE i \in S
    <3>1. /\ i \in Nat /\ i \in 1..MaxControls /\ i - 1 \in 0..MaxControls
          /\ i > c.at /\ Away(f[i - 1])
      BY <1>3, <2>2
    <3>2. \A k \in own : k.at = i => k.action # "restore"
      BY <1>6, <3>1 DEF own
    <3>3. Away(f[i])
      BY <1>1, <1>2, <1>3, <3>1, <3>2, StepMarks
    <3> QED
      BY <3>1, <3>3
  <2> HIDE DEF S
  <2>3. c.at..MaxControls \subseteq S
    BY <1>3, <2>1, <2>2, Upwards
  <2>4. Away(Marks(s, controls))
    BY <1>1, <1>3, <2>3 DEF S
  <2> QED
    BY <2>4 DEF Withheld, Away, Gone
<1>7. CASE c.action # "hide"
  <2> DEFINE S == {i \in Nat : Gone(f[i])}
  <2>1. c.at \in S
    BY <1>3, <1>4, <1>5, <1>7, EffectMarks DEF Verbs
  <2>2. ASSUME NEW i \in (c.at + 1)..MaxControls, i - 1 \in S PROVE i \in S
    <3>1. /\ i \in Nat /\ i \in 1..MaxControls /\ i - 1 \in 0..MaxControls /\ Gone(f[i - 1])
      BY <1>3, <2>2
    <3>2. Gone(f[i])
      BY <1>1, <1>2, <1>3, <3>1, StepMarks
    <3> QED
      BY <3>1, <3>2
  <2> HIDE DEF S
  <2>3. c.at..MaxControls \subseteq S
    BY <1>3, <2>1, <2>2, Upwards
  <2>4. Gone(Marks(s, controls))
    BY <1>1, <1>3, <2>3 DEF S
  <2> QED
    BY <2>4 DEF Withheld, Gone
<1> QED
  BY <1>6, <1>7

LEMMA ShownIsNotWithheld ==
  ASSUME NEW s \in Shown(Loaded)
  PROVE  ~Withheld(s, controls)
<1>1. Loaded.controls = controls
  BY DEF Loaded
<1> QED
  BY <1>1 DEF Shown, VisibleDreams, VisibleNodes, VisibleEdges, EdgeIsVisible

LEMMA StaysAway == ASSUME ControlAssumption, MemoryIInv PROVE TakenAwayStaysAway
<1> SUFFICES ASSUME NEW c \in controls, c.subject \in Shown(Loaded), c.action # "restore"
             PROVE  /\ c.action = "hide"
                    /\ \E k \in controls :
                         k.subject = c.subject /\ k.action = "restore" /\ k.at > c.at
  BY DEF TakenAwayStaysAway
<1>1. ~Withheld(c.subject, controls)
  BY ShownIsNotWithheld
<1>2. /\ c.action = "hide"
      /\ \E k \in OwnRows(c.subject, controls) : k.at > c.at /\ k.action = "restore"
  BY <1>1, TakenAway, ControlAssumption
<1> QED
  BY <1>2 DEF OwnRows

LEMMA Closed == OutputClosed
<1> SUFFICES ASSUME NEW e \in VisibleEdges(Loaded)
             PROVE  /\ Ends(Loaded, e) \subseteq Shown(Loaded)
                    /\ \A d \in Quoted(Loaded, e) : DreamItself(d) \in Shown(Loaded)
  BY DEF OutputClosed
<1> QED
  BY DEF VisibleEdges, EdgeIsVisible, Shown

-----------------------------------------------------------------------------
(* The theorems about memory.                                              *)

\* The table, the shelf and what a reader holds of them are well typed, and the rows of
\* create_dream_memory_*_control are numbered one by one in the order they began.
THEOREM MemoryTypeCorrect == MemorySpec => [](MemoryTypeOK /\ Numbered)
<1>1. MemoryIInv /\ [MemoryNext]_memoryVars => MemoryIInv'
  BY MemoryIInvNext, ControlAssumption
<1>2. MemoryInit => MemoryIInv
  BY MemoryStarts, ControlAssumption
<1> QED
  BY <1>1, <1>2, PTL DEF MemorySpec, MemoryIInv

\* Whatever is posted after it, and in whatever order the transactions commit, a
\* committed deletion or rejection keeps its subject out of every later answer, and a
\* hiding does until a later request restores it (_privacy_controls_from_rows).
THEOREM MemoryForgets == MemorySpec => []TakenAwayStaysAway
<1>1. MemoryIInv /\ [MemoryNext]_memoryVars => MemoryIInv'
  BY MemoryIInvNext, ControlAssumption
<1>2. MemoryInit => MemoryIInv
  BY MemoryStarts, ControlAssumption
<1>3. MemoryIInv => TakenAwayStaysAway
  BY StaysAway, ControlAssumption
<1> QED
  BY <1>1, <1>2, <1>3, PTL DEF MemorySpec

\* No sequence of controls makes DreamGraphPrivacyControls raise for every reader, and
\* an answer never holds an edge without its ends or a quotation of a dream outside it
\* (_edge_is_visible).
THEOREM MemoryAnswers == MemorySpec => []AlwaysAnswered
<1>1. MemoryIInv /\ [MemoryNext]_memoryVars => MemoryIInv'
  BY MemoryIInvNext, ControlAssumption
<1>2. MemoryInit => MemoryIInv
  BY MemoryStarts, ControlAssumption
<1>3. MemoryIInv => AlwaysAnswered
  BY NobodyLockedOut, Closed, ControlAssumption DEF AlwaysAnswered
<1> QED
  BY <1>1, <1>2, <1>3, PTL DEF MemorySpec

=============================================================================
