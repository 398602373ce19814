---------------------------- MODULE ThemeCuration ----------------------------
(***************************************************************************)
(* Theme rows, their categories and the versions that record every change: *)
(* the analysis that proposes drafts (services/analysis.py), confirm,      *)
(* reject and bulk confirm (api/themes.py), rollback and history           *)
(* (services/versioning.py), and the life of a category                    *)
(* (services/taxonomy.py).                                                 *)
(*                                                                         *)
(* A request reads in one step and commits in another; nothing locks the   *)
(* rows in between, and what a commit writes is what the mapper found      *)
(* changed against what it had read.                                       *)
(***************************************************************************)
EXTENDS CurationParameters, Integers, FiniteSets

CONSTANTS
  Categories,  \* theme categories
  Seeded,      \* those of them that migration 003 made active
  Saliences,   \* what a reading says of a theme's weight and kind of match
  Grounds,     \* what a reading quotes for it
  MaxCommits   \* bound: transactions that write versions

VARIABLES
  theme,     \* [Themes -> Row], the row of a dream and a category
  category,  \* [Categories -> Standing]
  history,   \* the committed versions
  commits,   \* transactions that have written versions so far
  token,     \* dreams of the bulk confirmation that waits in Redis, {} for none
  tx,        \* [Requests -> request], what each request has read
  past       \* [Themes -> SUBSET Row], rows as they have been, history

vars == <<theme, category, history, commits, token, tx, past>>

Themes == [dream : Dreams, category : Categories]
Standing == {"none", "suggested", "active", "deprecated"}
Statuses == {"draft", "confirmed", "rejected"}
Row == [status : Statuses, salience : Saliences, grounds : Grounds,
        deprecated : BOOLEAN]
NoRow == [status |-> "none"]
Exists(t) == theme[t] # NoRow

Idle == [op |-> "idle"]
Kinds == {"creation", "transition", "update", "rollback"}

Init ==
  /\ theme = [t \in Themes |-> NoRow]
  /\ category = [c \in Categories |-> IF c \in Seeded THEN "active" ELSE "none"]
  /\ history = {}
  /\ commits = 0
  /\ token = {}
  /\ tx = [r \in Requests |-> Idle]
  /\ past = [t \in Themes |-> {}]

-----------------------------------------------------------------------------
(* Versions, and what a commit does.                                       *)

\* build_dream_theme_*_version: the state before and the state after; the plain
\* columns of the snapshot are those of `before`, except where there is none.
Version(t, kind, by, before, after) ==
  [of |-> t, at |-> commits + 1, kind |-> kind, by |-> by,
   before |-> before, after |-> after]

CreationVersion(t, row) == Version(t, "creation", "system", NoRow, row)
TransitionVersion(t, row, to) ==
  Version(t, "transition", "user", row, [row EXCEPT !.status = to])
UpdateReopens(t, row, found) ==                             \* mutant of UpdateVersion
  Version(t, "update", "system", row,
          [row EXCEPT !.status = "draft", !.salience = found.salience])
UpdateVersion(t, row, found) ==
  Version(t, "update", "system", row,
          [row EXCEPT !.salience = found.salience, !.grounds = found.grounds])
RollbackVersion(t, row, restored) == Version(t, "rollback", "user", row, restored)

RestoresAfter(v) ==                                       \* mutant of Restorable
  v.after
\* _dream_theme_state_from_snapshot: a rollback to a version restores what the row
\* was before the change it records, or what a creation or a rollback made of it.
Restorable(v) == IF v.kind \in {"creation", "rollback"} THEN v.after ELSE v.before

\* The UPDATE names the columns whose value differs from the one that was read.
Written(now, seen, want) ==
  [a \in DOMAIN want |-> IF want[a] # seen[a] THEN want[a] ELSE now[a]]

Born(v) == v.kind = "creation"

UpdateLeavesNoVersion(r, versions) ==                       \* mutant of Commit
  /\ commits < MaxCommits
  /\ commits' = commits + 1
  /\ history' = history \cup {v \in versions : v.kind # "update"}
  /\ theme' = [t \in Themes |->
                 IF \E v \in versions : v.of = t
                 THEN LET v == CHOOSE v \in versions : v.of = t
                      IN  IF Born(v) THEN v.after
                          ELSE Written(theme[t], v.before, v.after)
                 ELSE theme[t]]
  /\ past' = [t \in Themes |->
                past[t] \cup (IF theme'[t] = NoRow THEN {} ELSE {theme'[t]})]
\* Versions and rows are one transaction.  No row has two versions in it.
Commit(r, versions) ==
  /\ commits < MaxCommits
  /\ commits' = commits + 1
  /\ history' = history \cup versions
  /\ theme' = [t \in Themes |->
                 IF \E v \in versions : v.of = t
                 THEN LET v == CHOOSE v \in versions : v.of = t
                      IN  IF Born(v) THEN v.after
                          ELSE Written(theme[t], v.before, v.after)
                 ELSE theme[t]]
  /\ past' = [t \in Themes |->
                past[t] \cup (IF theme'[t] = NoRow THEN {} ELSE {theme'[t]})]

\* A request fails: 404, 409, 410, a provider that gives no valid answer, a lost
\* connection, a crash.  Its transaction leaves nothing.
Abandon(r) ==
  /\ tx[r] # Idle
  /\ tx' = [tx EXCEPT ![r] = Idle]
  /\ UNCHANGED <<theme, category, history, commits, token, past>>

Finish(r) == tx' = [tx EXCEPT ![r] = Idle]
Read(T) == [t \in T |-> theme[t]]

-----------------------------------------------------------------------------
(* Analysis: categories are read before the models are asked, rows after.  *)

StartAnalysis(r) ==
  /\ tx[r] = Idle
  /\ \E d \in Dreams :
       tx' = [tx EXCEPT ![r] =
                [op |-> "asking",
                 over |-> {t \in Themes : t.dream = d /\ category[t.category] = "active"}]]
  /\ UNCHANGED <<theme, category, history, commits, token, past>>

\* ThemeExtractor: categories out of those it was given; an answer with any other is
\* refused as a whole.
Assignments(offered) == SUBSET offered
\* Grounder: a weight and quotations for each of them.
Reading == [salience : Saliences, grounds : Grounds]
Groundings(T) == [T -> Reading]

LoadThemes(r) ==
  /\ tx[r].op = "asking"
  /\ \E T \in Assignments(tx[r].over) : \E found \in Groundings(T) :
       tx' = [tx EXCEPT ![r] = [op |-> "analysed", over |-> T, seen |-> Read(T),
                                found |-> found]]
  /\ UNCHANGED <<theme, category, history, commits, token, past>>

Draft(reading) == [status |-> "draft", salience |-> reading.salience,
                   grounds |-> reading.grounds, deprecated |-> FALSE]
SameReading(row, reading) ==
  row.salience = reading.salience /\ row.grounds = reading.grounds
AnalysisVersions(q) ==
  {CreationVersion(t, Draft(q.found[t])) : t \in {t \in q.over : q.seen[t] = NoRow}}
  \cup {UpdateVersion(t, q.seen[t], q.found[t]) :
          t \in {t \in q.over : /\ q.seen[t] # NoRow
                                /\ ~SameReading(q.seen[t], q.found[t])}}

\* An insert of a row that came to be meanwhile violates uq_dream_themes_dream_category.
CommitAnalysis(r) ==
  /\ tx[r].op = "analysed"
  /\ \A t \in tx[r].over : tx[r].seen[t] = NoRow => ~Exists(t)
  /\ AnalysisVersions(tx[r]) # {}
  /\ Commit(r, AnalysisVersions(tx[r]))
  /\ Finish(r)
  /\ UNCHANGED <<category, token>>

-----------------------------------------------------------------------------
(* Confirm, reject and bulk confirm.                                       *)

Curatable(t) == Exists(t) /\ theme[t].status = "draft" /\ ~theme[t].deprecated

\* confirm_theme, reject_theme up to the check of the status.
LoadTheme(r) ==
  /\ tx[r] = Idle
  /\ \E t \in Themes, to \in {"confirmed", "rejected"} :
       /\ Curatable(t)
       /\ tx' = [tx EXCEPT ![r] = [op |-> "transition", over |-> {t},
                                   seen |-> Read({t}), to |-> to]]
  /\ UNCHANGED <<theme, category, history, commits, token, past>>

LoadDrafts(r, D) ==
  LET drafts == {t \in Themes : t.dream \in D /\ Curatable(t)}
  IN  tx' = [tx EXCEPT ![r] = [op |-> "transition", over |-> drafts,
                               seen |-> Read(drafts), to |-> "confirmed"]]

\* A bulk request for one dream needs no approval.
ConfirmDream(r) ==
  /\ tx[r] = Idle
  /\ \E d \in Dreams : LoadDrafts(r, {d})
  /\ UNCHANGED <<theme, category, history, commits, token, past>>

RequestBulk ==
  /\ token = {}
  /\ \E D \in SUBSET Dreams : Cardinality(D) > 1 /\ token' = D
  /\ UNCHANGED <<theme, category, history, commits, tx, past>>

\* The key expires, or an approval deletes it at its end.
TokenGone ==
  /\ token # {}
  /\ token' = {}
  /\ UNCHANGED <<theme, category, history, commits, tx, past>>

\* approve_bulk_confirm reads the token and then, in a transaction, the drafts.
Approve(r) ==
  /\ tx[r] = Idle /\ token # {}
  /\ tx' = [tx EXCEPT ![r] = [op |-> "approved", dreams |-> token]]
  /\ UNCHANGED <<theme, category, history, commits, token, past>>

LoadApproved(r) ==
  /\ tx[r].op = "approved"
  /\ LoadDrafts(r, tx[r].dreams)
  /\ UNCHANGED <<theme, category, history, commits, token, past>>

CommitTransition(r) ==
  /\ tx[r].op = "transition" /\ tx[r].over # {}
  /\ Commit(r, {TransitionVersion(t, tx[r].seen[t], tx[r].to) : t \in tx[r].over})
  /\ Finish(r)
  /\ UNCHANGED <<category, token>>

-----------------------------------------------------------------------------
(* Rollback.                                                               *)

LoadVersion(r) ==
  /\ tx[r] = Idle
  /\ \E v \in history :
       /\ v.of \in Themes
       /\ tx' = [tx EXCEPT ![r] = [op |-> "rollback", over |-> {v.of},
                                   seen |-> Read({v.of}), version |-> v]]
  /\ UNCHANGED <<theme, category, history, commits, token, past>>

CommitRollback(r) ==
  /\ tx[r].op = "rollback"
  /\ LET t == tx[r].version.of
     IN  Commit(r, {RollbackVersion(t, tx[r].seen[t], Restorable(tx[r].version))})
  /\ Finish(r)
  /\ UNCHANGED <<category, token>>

-----------------------------------------------------------------------------
(* Categories.                                                             *)

CategoryVersion(c, by, before, after) ==
  [of |-> c, at |-> commits + 1, kind |-> "category", by |-> by,
   before |-> [status |-> before], after |-> [status |-> after]]

CommitCategory(c, by, before, after) ==
  /\ commits < MaxCommits
  /\ commits' = commits + 1
  /\ history' = history \cup {CategoryVersion(c, by, before, after)}
  /\ category' = [category EXCEPT ![c] = after]

CreateCategory(c) ==
  /\ category[c] = "none"
  /\ CommitCategory(c, "system", "none", "suggested")
  /\ UNCHANGED <<theme, token, tx, past>>

\* _transition_category: from suggested to active, or from active to deprecated.
LoadCategory(r) ==
  /\ tx[r] = Idle
  /\ \E c \in Categories :
       /\ category[c] \in {"suggested", "active"}
       /\ tx' = [tx EXCEPT ![r] = [op |-> "category", of |-> c, from |-> category[c]]]
  /\ UNCHANGED <<theme, category, history, commits, token, past>>

ApproveCategory(r) ==
  /\ tx[r].op = "category" /\ tx[r].from = "suggested"
  /\ CommitCategory(tx[r].of, "user", "suggested", "active")
  /\ Finish(r)
  /\ UNCHANGED <<theme, token, past>>

\* The rows of the category are marked by a statement of its own, without versions.
DeprecateCategory(r) ==
  /\ tx[r].op = "category" /\ tx[r].from = "active"
  /\ CommitCategory(tx[r].of, "system", "active", "deprecated")
  /\ theme' = [t \in Themes |-> IF Exists(t) /\ t.category = tx[r].of
                                THEN [theme[t] EXCEPT !.deprecated = TRUE] ELSE theme[t]]
  /\ past' = [t \in Themes |-> past[t] \cup (IF Exists(t) THEN {theme'[t]} ELSE {})]
  /\ Finish(r)
  /\ UNCHANGED token

-----------------------------------------------------------------------------
RequestStep(r) ==
  \/ StartAnalysis(r) \/ LoadThemes(r) \/ CommitAnalysis(r)
  \/ LoadTheme(r) \/ ConfirmDream(r) \/ Approve(r) \/ LoadApproved(r)
  \/ CommitTransition(r)
  \/ LoadVersion(r) \/ CommitRollback(r)
  \/ LoadCategory(r) \/ ApproveCategory(r) \/ DeprecateCategory(r)
  \/ Abandon(r)

Next ==
  \/ \E r \in Requests : RequestStep(r)
  \/ \E c \in Categories : CreateCategory(c)
  \/ RequestBulk \/ TokenGone

Spec == Init /\ [][Next]_vars

-----------------------------------------------------------------------------
(* Properties.                                                             *)

\* The audit trail is complete (docs/IMPLEMENTATION_CONTRACT.md: every mutation
\* writes an AnnotationVersion): whatever confirmations, analyses and rollbacks
\* interleave, each attribute of a theme is what some version of it says it was
\* changed to.  The marking of a deprecated category is the one change without.
Attributes == {"status", "salience", "grounds"}
AuditComplete ==
  \A t \in Themes : Exists(t) =>
    \A a \in Attributes : \E v \in history : v.of = t /\ v.after[a] = theme[t][a]

\* Undo is safe: a rollback to any version, also to one whose author had read the
\* row before others changed it, restores a state that the theme really was in.
RestorableWasReal ==
  \A v \in history : v.of \in Themes => Restorable(v) \in past[v.of]

\* Curation is the user's: the status of an existing theme only changes in a
\* transaction that records the change, to this status, under the user's name; an
\* analysis that finishes late never moves a decided theme back to draft.
SignedStep ==
  \A t \in Themes : Exists(t) /\ theme'[t].status # theme[t].status =>
    \E v \in history' \ history : /\ v.of = t /\ v.by = "user"
                                  /\ v.after.status = theme'[t].status
DecisionsSigned == [][SignedStep]_vars
=============================================================================
