--------------------------- MODULE SourceSyncProofs ---------------------------
(***************************************************************************)
(* Proofs about Sources, SourceSync and Archive.  The processes agree on the  *)
(* connected documents, whatever documents there are and however many         *)
(* changes, failed writes and restarts; what is recorded of a sync is true    *)
(* and stays, for any number of jobs, workers, pollers, edits and crashes;    *)
(* and for any document, any messages and any number of overlapping ingests,  *)
(* capture keeps one text for an event, and an ingest stores its whole        *)
(* snapshot under keys that nobody else has.                                 *)
(***************************************************************************)
EXTENDS Sources, SourceSync, Archive, JobRowProofs, FiniteSetTheorems

Configured == Own \in Docs /\ Given \subseteq Docs /\ Legacy \subseteq Docs /\ None \notin Docs

Layers == [primary : Docs \cup {None}, listed : BOOLEAN, extras : SUBSET Docs]

SourcesTypeOK ==
  /\ file \in Layers /\ memory \in Layers /\ connected \subseteq Docs
  /\ asked \in [at : {"done", "name", "read", "write"}, op : {None, "add", "find", "remove"},
                doc : Docs \cup {None}, extras : SUBSET Docs]
  /\ asked.at # "done" => asked.doc \in Docs

(* Every write names a target and a list.                                   *)
Complete == file.primary # None => file.listed

(* What was accepted is read by a process that knows the file only, and by    *)
(* the bot; also by the bot after the list it is about to write.            *)
SeenByAll == connected \subseteq All(Empty)
SeenByBot == connected \subseteq All(memory)
SeenAfter ==
  asked.at = "write" =>
    connected \subseteq {Own, Target(memory)} \cup asked.extras
                        \cup {d \in {asked.doc} : asked.op = "remove"}

SourcesIInv == SourcesTypeOK /\ Complete /\ SeenByAll /\ SeenByBot /\ SeenAfter

-----------------------------------------------------------------------------
LEMMA SourcesInitIInv == ASSUME Configured, SourcesInit PROVE SourcesIInv
<1>1. SourcesTypeOK
  <2>1. file \in Layers /\ memory \in Layers /\ connected \subseteq Docs
    <3>1. Empty \in Layers /\ ~Empty.listed
      BY DEF Empty, Layer, Layers
    <3>2. Layer(None, TRUE, Legacy) \in Layers
      BY DEF Layer, Layers, Configured
    <3>3. QED
      BY <3>1, <3>2 DEF SourcesInit, Configured
  <2>2. asked \in [at : {"done", "name", "read", "write"}, op : {None, "add", "find", "remove"},
                   doc : Docs \cup {None}, extras : SUBSET Docs] /\ asked.at = "done"
    BY DEF SourcesInit, Done
  <2>3. QED
    BY <2>1, <2>2 DEF SourcesTypeOK
<1>2. Complete /\ SeenByAll /\ SeenByBot /\ SeenAfter
  BY DEF SourcesInit, Complete, SeenByAll, SeenByBot, SeenAfter, All, Target, Extras, Empty, Layer,
         Done, None
<1>3. QED
  BY <1>1, <1>2 DEF SourcesIInv

-----------------------------------------------------------------------------
LEMMA SourcesNextIInv == ASSUME Configured, SourcesIInv, [SourcesNext]_sourceVars PROVE SourcesIInv'
<1> USE DEF SourcesIInv, SourcesTypeOK
<1>1. ASSUME NEW d \in Docs, SetSource(d) PROVE SourcesIInv'
  <2>1. /\ memory' = [memory EXCEPT !.primary = d] /\ memory' \in Layers /\ asked' = asked
        /\ memory'.primary = d /\ memory'.listed = memory.listed
        /\ memory'.extras = memory.extras /\ asked.at = "done"
    BY <1>1 DEF SetSource, Layers
  <2>2. CASE /\ file' = Persisted(memory', Layer(d, FALSE, {}))
             /\ connected' = Kept \cup {d}
    <3>1. /\ file' \in Layers /\ file'.listed /\ file'.primary = d
          /\ file'.extras = (Extras(memory') \cup {Own}) \ {d}
      BY <2>1, <2>2 DEF Configured, Persisted, Layer, Layers, Target, Extras
    <3>2. QED
      BY ZenonT(60), <2>1, <2>2, <3>1
      DEF Configured, Complete, SeenByAll, SeenByBot, SeenAfter, Kept, All, Target, Extras, Empty,
          Layer, Layers
  <2>3. CASE file' = file /\ connected' = IF file.primary = None THEN Kept ELSE connected
    BY <2>1, <2>3
    DEF Configured, Complete, SeenByAll, SeenByBot, SeenAfter, Kept, All, Target, Extras, Empty,
        Layer, Layers
  <2>4. QED
    BY <1>1, <2>2, <2>3 DEF SetSource
<1>2. ASSUME NEW d \in Docs, CanarySets(d) PROVE SourcesIInv'
  <2>1. /\ file' \in Layers /\ file'.listed /\ file'.primary = d
        /\ file'.extras = (Extras(Layer(d, FALSE, {})) \cup {Own}) \ {d}
    BY <1>2 DEF CanarySets, Configured, Persisted, Layer, Layers, Target, Extras
  <2>2. memory' = memory /\ asked' = asked /\ connected' = Kept \cup {d}
    BY <1>2 DEF CanarySets
  <2>3. QED
    BY <2>1, <2>2
    DEF Configured, Complete, SeenByAll, SeenByBot, SeenAfter, Kept, All, Target, Extras, Empty,
        Layer, Layers
<1>3. ASSUME NEW d \in Docs, NEW op \in {"add", "find", "remove"}, Ask(op, d) PROVE SourcesIInv'
  BY ZenonT(60), <1>3 DEF Ask, Done, None, Complete, SeenByAll, SeenByBot, SeenAfter, All, Target, Extras
<1>4. CASE Name
  <2>1. /\ memory' = memory /\ connected' = connected
        /\ asked' = [asked EXCEPT !.at = "read"]
    BY <1>4 DEF Name
  <2>2. CASE file' = file
    BY <2>1, <2>2, <1>4 DEF Name, Complete, SeenByAll, SeenByBot, SeenAfter, All, Target, Extras
  <2>3. CASE file' = Persisted(memory, Empty)
    <3>1. /\ file' \in Layers /\ file'.listed /\ file'.primary = Target(memory)
          /\ file'.primary # None
          /\ file'.extras = (Extras(memory) \cup {Own}) \ {Target(memory)}
      BY <2>3 DEF Configured, Persisted, Empty, Layer, Layers, Target, Extras
    <3>2. QED
      BY <2>1, <3>1, <1>4
      DEF Name, Configured, Complete, SeenByAll, SeenByBot, SeenAfter, All, Target, Extras
  <2>4. QED
    BY <1>4, <2>2, <2>3 DEF Name
<1>5. CASE Read
  BY ZenonT(60), <1>5
  DEF Read, Configured, Layers, Complete, SeenByAll, SeenByBot, SeenAfter, All, Target, Extras
<1>6. CASE Write
  <2>1. /\ memory' = [memory EXCEPT !.listed = TRUE, !.extras = asked.extras]
        /\ memory' \in Layers /\ memory'.primary = memory.primary
        /\ memory'.listed /\ memory'.extras = asked.extras
        /\ asked' = Done /\ asked.at = "write"
        /\ connected' = IF asked.op = "remove" THEN connected \ {asked.doc}
             ELSE connected \cup ({asked.doc} \cap (IF file' = file THEN {} ELSE All(memory)'))
    BY <1>6 DEF Write, Layers
  <2>2. CASE file' = file
    BY <2>1, <2>2
    DEF Done, None, Complete, SeenByAll, SeenByBot, SeenAfter, All, Target, Extras, Layers
  <2>3. CASE file' = Persisted(memory', Layer(None, TRUE, asked.extras))
    <3>1. /\ file' \in Layers /\ file'.listed /\ file'.primary = Target(memory)
          /\ file'.primary # None
          /\ file'.extras = (asked.extras \cup {Own}) \ {file'.primary}
      BY <2>1, <2>3 DEF Configured, Persisted, Layer, Layers, Target
    <3>2. QED
      BY <2>1, <3>1
      DEF Configured, Done, None, Complete, SeenByAll, SeenByBot, SeenAfter, All, Target, Extras,
          Layers
  <2>4. QED
    BY <1>6, <2>2, <2>3 DEF Write
<1>7. CASE Restart
  BY <1>7
  DEF Restart, Configured, Layers, Layer, Empty, Done, None, Complete, SeenByAll, SeenByBot,
      SeenAfter, All, Target, Extras
<1>8. CASE UNCHANGED sourceVars
  BY <1>8 DEF sourceVars, Complete, SeenByAll, SeenByBot, SeenAfter, All, Target, Extras
<1>9. QED
  BY <1>1, <1>2, <1>3, <1>4, <1>5, <1>6, <1>7, <1>8 DEF SourcesNext

-----------------------------------------------------------------------------
(* The theorems.                                                           *)

\* Every layer is well typed, and what the bot is about to write are documents.
THEOREM SourcesTypeCorrect == ASSUME Configured PROVE SourcesSpec => []SourcesTypeOK
<1>1. SourcesInit => SourcesIInv
  BY SourcesInitIInv
<1>2. SourcesIInv /\ [SourcesNext]_sourceVars => SourcesIInv'
  BY SourcesNextIInv
<1>3. SourcesIInv => SourcesTypeOK
  BY DEF SourcesIInv
<1>4. QED
  BY <1>1, <1>2, <1>3, PTL DEF SourcesSpec

\* Bot, API and auto-sync write to one document and read the same ones once the shared
\* file has been written, and no document that was accepted is missing (get_all_doc_ids,
\* _persist_extra_docs): for any documents and any number of changes.
THEOREM SameSources == ASSUME Configured PROVE SourcesSpec => []SourcesAgree
<1>1. SourcesInit => SourcesIInv
  BY SourcesInitIInv
<1>2. SourcesIInv /\ [SourcesNext]_sourceVars => SourcesIInv'
  BY SourcesNextIInv
<1>3. SourcesIInv => SourcesAgree
  BY DEF SourcesIInv, Complete, SeenByAll, SourcesAgree, All, Target, Extras
<1>4. QED
  BY <1>1, <1>2, <1>3, PTL DEF SourcesSpec

-----------------------------------------------------------------------------
(* SourceSync: the inductive invariant.                                      *)

\* A worker that is doing something does it for a job that was created; a job that was
\* not is a new row.
Busy      == \A w \in Workers : act[w].pc # "idle" => act[w].job \in created
Uncreated == \A j \in Jobs \ created : row[j] = NewRow

\* What an ingest is about to store was fetched.
HasFetched == \A a \in Actors : act[a].pc = "store" => act[a].snap # 0

\* A poll asks for the revision before it fetches the document, so that what it stores
\* is as new as the marker it will leave.
Ingested(m) == m # 0 => \E s \in seen : s >= m

Polled ==
  created = {} /\ refused = {} =>
    /\ Ingested(auto.marker)
    /\ \A p \in Pollers :
         /\ Ingested(act[p].before.marker)
         /\ act[p].marker <= rev
         /\ act[p].pc = "store" => act[p].marker <= act[p].snap
         /\ act[p].pc \in {"stored", "synced"} => Ingested(act[p].marker)
         /\ act[p].pc # "refused"

\* While a job has been claimed once, the one worker that is at it knows what became of
\* the ingest, and nobody else writes the public status but the job's creator.
Claims ==
  /\ \A w \in Workers : act[w].pc # "idle" => row[act[w].job].attempts # 0
  /\ \A v, w \in Workers :
       act[v].pc # "idle" /\ act[w].pc # "idle" /\ act[v].job = act[w].job
         /\ row[act[w].job].attempts = 1
       => v = w

Knows(i, pub, done, hid) ==
  /\ i.pc = "stored" => i.job \in done
  /\ i.pc = "returned" => i.job \in done \cup hid \/ pub[i.job] = "failed"
  /\ i.pc \in {"marker", "tellsynced", "markok"} => i.job \in done \cup hid

Told ==
  ~RedisFailures =>
    \A w \in Workers : act[w].pc # "idle" /\ row[act[w].job].attempts = 1
                       => Knows(act[w], public, stored, hidden)

SyncIInv ==
  TypeOK /\ HasFetched /\ Busy /\ Uncreated /\ Polled /\ Claims /\ Told
    /\ (RedisFailures \/ FirstClaimStored)

-----------------------------------------------------------------------------
(* How an actor moves.                                                       *)

Moves(a, i) == act' = [act EXCEPT ![a] = i]

LEMMA NothingType == Nothing \in Doings /\ Nothing.pc = "idle" /\ Nothing.marker = 0 /\ Nothing.before = Never
BY BudgetAssumption, SwitchAssumption DEF Nothing, Never, Doings, Steps, Records, Markers

LEMMA MovesType ==
  ASSUME TypeOK, NEW a \in Actors, NEW i \in Doings, Moves(a, i)
  PROVE  act' \in [Actors -> Doings] /\ act'[a] = i /\ \A b \in Actors \ {a} : act'[b] = act[b]
BY DEF TypeOK, Moves

LEMMA GotoMoves ==
  ASSUME TypeOK, NEW a \in Actors, NEW pc \in Steps, Goto(a, pc)
  PROVE  \E i \in Doings : /\ Moves(a, i) /\ i.pc = pc /\ i.job = act[a].job /\ i.attempt = act[a].attempt
                           /\ i.before = act[a].before /\ i.marker = act[a].marker
                           /\ i.snap = act[a].snap
<1> DEFINE i == [act[a] EXCEPT !.pc = pc]
<1>1. act[a] \in Doings
  BY DEF TypeOK
<1>2. i \in Doings
  BY <1>1, Zenon DEF Doings
<1>3. Moves(a, i)
  BY DEF Goto, Moves
<1>4. i.pc = pc /\ i.job = act[a].job /\ i.attempt = act[a].attempt /\ i.before = act[a].before
        /\ i.marker = act[a].marker /\ i.snap = act[a].snap
  BY <1>1 DEF Doings
<1> QED
  BY <1>2, <1>3, <1>4

LEMMA FetchMoves ==
  ASSUME TypeOK, NEW a \in Actors, Fetch(a)
  PROVE  \E i \in Doings : /\ Moves(a, i) /\ i.pc = "store" /\ i.job = act[a].job
                           /\ i.before = act[a].before /\ i.marker = act[a].marker /\ i.snap = rev
<1> DEFINE i == [act[a] EXCEPT !.pc = "store", !.snap = rev]
<1>1. act[a] \in Doings /\ rev \in Markers /\ "store" \in Steps
  BY DEF TypeOK, Revs, Markers, Steps
<1>2. i \in Doings
  BY <1>1, Zenon DEF Doings
<1>3. Moves(a, i)
  BY Zenon DEF Fetch, Moves
<1>4. i.pc = "store" /\ i.job = act[a].job /\ i.before = act[a].before
        /\ i.marker = act[a].marker /\ i.snap = rev
  BY <1>1 DEF Doings
<1> QED
  BY <1>2, <1>3, <1>4

-----------------------------------------------------------------------------
(* What the steps of a worker, of a poller and of nobody keep.               *)

\* What the invariant says of jobs and workers, and of the marker.
OfJobs == Busy /\ Uncreated /\ Claims /\ Told /\ (RedisFailures \/ FirstClaimStored)

\* A worker goes on, or stops, and no row changes.
LEMMA WorkerKeeps ==
  ASSUME SyncIInv, NEW w \in Workers, NEW i \in Doings, Moves(w, i),
         act[w].pc # "idle", i.pc # "idle" => i.job = act[w].job,
         UNCHANGED <<row, created, hidden>>, stored \subseteq stored',
         \A j \in Jobs : j # act[w].job => public'[j] = public[j],
         ~RedisFailures /\ i.pc # "idle" /\ row[i.job].attempts = 1 => Knows(i, public', stored', hidden')
  PROVE  OfJobs' /\ Polled'
<1>0. TypeOK /\ Busy /\ Uncreated /\ Claims /\ Told /\ w \in Actors /\ created \subseteq Jobs
  BY DEF SyncIInv, TypeOK, Actors
<1>1. act'[w] = i /\ \A v \in Workers \ {w} : act'[v] = act[v]
  BY <1>0, MovesType DEF Actors
<1>2. Busy' /\ Uncreated' /\ Claims'
  BY <1>0, <1>1 DEF Busy, Uncreated, Claims
<1>3. Told'
  <2> SUFFICES ASSUME ~RedisFailures, NEW v \in Workers, act'[v].pc # "idle",
                      row[act'[v].job].attempts = 1
               PROVE  Knows(act'[v], public', stored', hidden')
    BY DEF Told, Knows
  <2>1. CASE v = w
    BY <1>1, <2>1
  <2>2. CASE v # w
    <3>1. act'[v] = act[v] /\ act[v].job \in Jobs /\ Knows(act[v], public, stored, hidden)
      BY <1>0, <1>1, <2>2 DEF Busy, Told
    <3>2. act[v].job # act[w].job
      BY <1>0, <2>2, <3>1 DEF Claims
    <3> QED
      BY <3>1, <3>2 DEF Knows
  <2> QED
    BY <2>1, <2>2
<1>4. RedisFailures \/ FirstClaimStored'
  BY DEF SyncIInv, FirstClaimStored
<1>5. Polled'
  BY <1>0 DEF Polled, Busy
<1> QED
  BY <1>2, <1>3, <1>4, <1>5 DEF OfJobs

\* Nobody's doings but those of a poller change.
LEMMA PollerKeeps ==
  ASSUME SyncIInv, NEW p \in Pollers, NEW i, Moves(p, i), UNCHANGED <<row, created, stored, hidden, public>>
  PROVE  OfJobs'
<1>1. \A v \in Workers : act'[v] = act[v]
  BY WorkerAssumption DEF SyncIInv, TypeOK, Moves, Actors
<1> QED
  BY <1>1 DEF SyncIInv, OfJobs, Busy, Uncreated, Claims, Told, Knows, FirstClaimStored

\* What a poller knows of the marker that it read and of what it fetched.
Honest(i, s) ==
  /\ Ingested(i.before.marker) /\ i.marker <= s
  /\ i.pc = "store" => i.marker <= i.snap
  /\ i.pc \in {"stored", "synced"} => Ingested(i.marker)
  /\ i.pc # "refused"

LEMMA PolledHonest ==
  ASSUME NEW p \in Pollers, Polled, created = {}, refused = {}
  PROVE  Honest(act[p], rev) /\ Ingested(auto.marker)
BY DEF Polled, Honest

\* A poller goes on, with the document as it is.
LEMMA PollerHonest ==
  ASSUME SyncIInv, NEW p \in Pollers, NEW i, Moves(p, i), UNCHANGED <<rev, created>>,
         seen \subseteq seen', refused \subseteq refused',
         Polled /\ created = {} /\ refused' = {} => Honest(i, rev)' /\ Ingested(auto.marker)'
  PROVE  Polled'
<1> SUFFICES ASSUME created = {}, refused' = {}
             PROVE  /\ Ingested(auto.marker)'
                    /\ \A q \in Pollers : Honest(act[q], rev)'
  BY DEF Polled, Honest
<1>1. Polled /\ refused = {} /\ p \in Actors /\ act \in [Actors -> Doings]
  BY DEF SyncIInv, TypeOK, Actors
<1>2. act'[p] = i /\ \A q \in Pollers \ {p} : act'[q] = act[q]
  BY <1>1 DEF Moves, Actors
<1>3. \A q \in Pollers \ {p} : Honest(act[q], rev)'
  BY <1>1, <1>2, PolledHonest DEF Honest, Ingested
<1> QED
  BY <1>1, <1>2, <1>3 DEF Honest, Ingested

-----------------------------------------------------------------------------
(* The steps of an ingest.                                                   *)

LEMMA RecordType ==
  ASSUME NEW m \in Markers, NEW s \in {"never", "running", "synced", "failed"}
  PROVE  Record(m, s) \in Records /\ Record(m, s).marker = m
BY DEF Record, Records

LEMMA DoingFields ==
  ASSUME TypeOK, NEW a \in Actors
  PROVE  /\ act[a] \in Doings /\ act[a].pc \in Steps /\ act[a].before \in Records
         /\ act[a].marker \in Markers /\ act[a].snap \in Markers /\ act[a].before.marker \in Markers
         /\ act[a].attempt \in 0..MaxAttempts
BY DEF TypeOK, Doings, Records

\* A worker that is busy, and its job.
LEMMA WorkerBusy ==
  ASSUME SyncIInv, NEW w \in Workers, act[w].pc # "idle"
  PROVE  act[w].job \in created /\ act[w].job \in Jobs /\ created # {}
BY DEF SyncIInv, Busy, TypeOK

LEMMA PublicType ==
  ASSUME TypeOK, NEW j \in Jobs, NEW v \in Public, SetPublic(j, v)
  PROVE  /\ public' \in [Jobs -> Public] /\ \A k \in Jobs \ {j} : public'[k] = public[k]
         /\ ~RedisFailures => public'[j] = v
BY DEF TypeOK, SetPublic, BestEffort

LEMMA AutoType ==
  ASSUME TypeOK, NEW m \in Markers, NEW s \in {"never", "running", "synced", "failed"},
         SetAuto(Record(m, s))
  PROVE  auto' \in Records
BY RecordType DEF TypeOK, SetAuto, BestEffort

\* An actor moves among its doings.
LEMMA MovesTyped ==
  ASSUME SyncIInv, NEW a \in Actors, NEW i \in Doings, Moves(a, i), i.pc = "store" => i.snap # 0
  PROVE  act' \in [Actors -> Doings] /\ HasFetched'
BY MovesType DEF SyncIInv, HasFetched

LEMMA FetchKeeps ==
  ASSUME SyncIInv, NEW a \in Actors, Fetch(a)
  PROVE  SyncIInv'
<1>0. TypeOK
  BY DEF SyncIInv
<1>1. PICK i \in Doings : /\ Moves(a, i) /\ i.pc = "store" /\ i.job = act[a].job
                          /\ i.before = act[a].before /\ i.marker = act[a].marker /\ i.snap = rev
  BY <1>0, FetchMoves
<1>2. /\ UNCHANGED <<rev, seen, auto, row, created, queuing, stored, refused, hidden, crashes>> /\ act[a].pc = "fetch"
      /\ IF IsJob(a) THEN SetPublic(act[a].job, "running") ELSE public' = public
  BY DEF Fetch
<1>3. act' \in [Actors -> Doings] /\ HasFetched'
  BY <1>0, <1>1, MovesTyped DEF TypeOK, Revs
<1>4. CASE a \in Workers
  <2>1. act[a].job \in Jobs /\ "running" \in Public
    BY <1>2, <1>4, WorkerBusy DEF Public
  <2>2. public' \in [Jobs -> Public] /\ \A k \in Jobs \ {act[a].job} : public'[k] = public[k]
    BY <1>0, <1>2, <1>4, <2>1, PublicType DEF IsJob
  <2>3. OfJobs' /\ Polled'
    BY <1>1, <1>2, <1>4, <2>2, WorkerKeeps DEF Knows
  <2> QED
    BY <1>0, <1>2, <1>3, <2>2, <2>3 DEF SyncIInv, OfJobs, TypeOK
<1>5. CASE a \notin Workers
  <2>1. a \in Pollers /\ public' = public
    BY <1>2, <1>5 DEF Actors, IsJob
  <2>2. OfJobs'
    BY <1>1, <1>2, <2>1, PollerKeeps
  <2>3. ASSUME Polled, created = {}, refused' = {}
        PROVE  Honest(i, rev)' /\ Ingested(auto.marker)'
    <3>1. Honest(act[a], rev) /\ Ingested(auto.marker)
      BY <1>2, <2>1, <2>3, PolledHonest
    <3> QED
      BY <1>1, <1>2, <3>1 DEF Honest, Ingested
  <2>4. Polled'
    BY <1>1, <1>2, <2>1, <2>3, PollerHonest
  <2> QED
    BY <1>0, <1>2, <1>3, <2>1, <2>2, <2>4 DEF SyncIInv, OfJobs, TypeOK
<1> QED
  BY <1>4, <1>5

LEMMA StoreSnapshotKeeps ==
  ASSUME SyncIInv, NEW a \in Actors, StoreSnapshot(a)
  PROVE  SyncIInv'
<1>0. TypeOK /\ act[a].pc = "store" /\ act[a].snap # 0
  BY DEF SyncIInv, StoreSnapshot, HasFetched
<1>1. PICK i \in Doings : /\ Moves(a, i) /\ i.pc \in {"stored", "broken"} /\ i.job = act[a].job
                          /\ i.before = act[a].before /\ i.marker = act[a].marker /\ i.snap = act[a].snap
  <2>1. "stored" \in Steps /\ "broken" \in Steps
    BY DEF Steps
  <2> QED
    BY <1>0, <2>1, GotoMoves DEF StoreSnapshot
<1>2. /\ UNCHANGED <<rev, auto, public, row, created, queuing, refused, hidden, crashes>>
      /\ seen' = seen \cup {act[a].snap}
      /\ stored' = stored \cup (IF IsJob(a) THEN {act[a].job} ELSE {})
  BY DEF StoreSnapshot
<1>3. act' \in [Actors -> Doings] /\ HasFetched'
  BY <1>1, MovesTyped
<1>4. act[a].snap \in Revs
  BY <1>0, DoingFields, SwitchAssumption DEF Revs, Markers
<1>5. CASE a \in Workers
  <2>1. act[a].job \in created /\ act[a].job \in Jobs /\ stored' = stored \cup {act[a].job}
    BY <1>0, <1>2, <1>5, WorkerBusy DEF IsJob
  <2>2. OfJobs' /\ Polled'
    BY <1>0, <1>1, <1>2, <1>5, <2>1, WorkerKeeps DEF Knows
  <2> QED
    BY <1>0, <1>2, <1>3, <1>4, <2>1, <2>2 DEF SyncIInv, OfJobs, TypeOK
<1>6. CASE a \notin Workers
  <2>1. a \in Pollers /\ stored' = stored
    BY <1>2, <1>6 DEF Actors, IsJob
  <2>2. OfJobs'
    BY <1>1, <1>2, <2>1, PollerKeeps
  <2>3. ASSUME Polled, created = {}, refused' = {}
        PROVE  Honest(i, rev)' /\ Ingested(auto.marker)'
    <3>1. Honest(act[a], rev) /\ Ingested(auto.marker)
      BY <1>2, <2>1, <2>3, PolledHonest
    <3> QED
      BY <1>0, <1>1, <1>2, <3>1 DEF Honest, Ingested
  <2>4. Polled'
    BY <1>1, <1>2, <2>1, <2>3, PollerHonest
  <2> QED
    BY <1>0, <1>2, <1>3, <1>4, <2>1, <2>2, <2>4 DEF SyncIInv, OfJobs, TypeOK
<1> QED
  BY <1>5, <1>6

LEMMA RefuseKeeps ==
  ASSUME SyncIInv, NEW a \in Actors, Refuse(a)
  PROVE  SyncIInv'
<1>0. TypeOK /\ act[a].pc = "store" /\ act[a].snap # 0 /\ "refused" \in Steps
  BY DEF SyncIInv, Refuse, HasFetched, Steps
<1>1. PICK i \in Doings : Moves(a, i) /\ i.pc = "refused" /\ i.job = act[a].job
  BY <1>0, GotoMoves DEF Refuse
<1>2. /\ UNCHANGED <<rev, seen, auto, public, row, created, queuing, stored, hidden, crashes>>
      /\ refused' = refused \cup {act[a].snap}
  BY DEF Refuse
<1>3. act' \in [Actors -> Doings] /\ HasFetched'
  BY <1>1, MovesTyped
<1>4. act[a].snap \in Revs
  BY <1>0, DoingFields, SwitchAssumption DEF Revs, Markers
<1>5. OfJobs'
  <2>1. CASE a \in Workers
    BY <1>0, <1>1, <1>2, <2>1, WorkerKeeps DEF Knows
  <2> QED
    BY <1>1, <1>2, <2>1, PollerKeeps DEF Actors
<1>6. Polled'
  BY <1>2 DEF Polled
<1> QED
  BY <1>0, <1>2, <1>3, <1>4, <1>5, <1>6 DEF SyncIInv, OfJobs, TypeOK

LEMMA BreakKeeps ==
  ASSUME SyncIInv, NEW a \in Actors, Break(a)
  PROVE  SyncIInv'
<1>0. TypeOK /\ act[a].pc = "store" /\ "broken" \in Steps
  BY DEF SyncIInv, Break, Steps
<1>1. PICK i \in Doings : /\ Moves(a, i) /\ i.pc = "broken" /\ i.job = act[a].job
                          /\ i.before = act[a].before /\ i.marker = act[a].marker
  BY <1>0, GotoMoves DEF Break
<1>2. UNCHANGED <<rev, seen, auto, public, row, created, queuing, stored, refused, hidden, crashes>>
  BY DEF Break
<1>3. act' \in [Actors -> Doings] /\ HasFetched'
  BY <1>1, MovesTyped
<1>4. OfJobs' /\ Polled'
  <2>1. CASE a \in Workers
    BY <1>0, <1>1, <1>2, <2>1, WorkerKeeps DEF Knows
  <2>2. CASE a \in Pollers
    <3>1. ASSUME Polled, created = {}, refused' = {}
          PROVE  Honest(i, rev)' /\ Ingested(auto.marker)'
      <4>1. Honest(act[a], rev) /\ Ingested(auto.marker)
        BY <1>2, <2>2, <3>1, PolledHonest
      <4> QED
        BY <1>1, <1>2, <4>1 DEF Honest, Ingested
    <3> QED
      BY <1>1, <1>2, <2>2, <3>1, PollerKeeps, PollerHonest
  <2> QED
    BY <2>1, <2>2 DEF Actors
<1> QED
  BY <1>0, <1>2, <1>3, <1>4 DEF SyncIInv, OfJobs, TypeOK

LEMMA ReportKeeps ==
  ASSUME SyncIInv, NEW a \in Actors, Report(a)
  PROVE  SyncIInv'
<1>0. TypeOK /\ act[a].pc \in {"stored", "refused", "broken"}
  BY DEF SyncIInv, Report
<1>1. /\ UNCHANGED <<rev, seen, auto, row, created, queuing, stored, refused, hidden, crashes>>
      /\ \/ /\ public' = IF IsJob(a) THEN [public EXCEPT ![act[a].job] =
                                             IF act[a].pc = "stored" THEN "done" ELSE "failed"]
                                     ELSE public
            /\ Goto(a, IF act[a].pc = "broken" THEN OnRaise(a) ELSE OnResult(a))
         \/ RedisFailures /\ public' = public /\ Goto(a, OnRaise(a))
  BY DEF Report
<1>2. CASE a \in Workers
  <2>1. act[a].job \in Jobs /\ {"returned", "tellfailed"} \subseteq Steps /\ {"done", "failed"} \subseteq Public
    BY <1>0, <1>2, WorkerBusy DEF Public, Steps
  <2>2. PICK i \in Doings : /\ Moves(a, i) /\ i.job = act[a].job
                            /\ i.pc \in {"returned", "tellfailed"}
                            /\ ~RedisFailures =>
                                 i.pc = IF act[a].pc = "broken" THEN "tellfailed" ELSE "returned"
    BY <1>0, <1>1, <1>2, <2>1, GotoMoves DEF OnRaise, OnResult, IsJob
  <2>3. /\ public' \in [Jobs -> Public] /\ \A k \in Jobs \ {act[a].job} : public'[k] = public[k]
        /\ ~RedisFailures => public'[act[a].job] = IF act[a].pc = "stored" THEN "done" ELSE "failed"
    BY <1>0, <1>1, <1>2, <2>1 DEF TypeOK, IsJob
  <2>4. ~RedisFailures /\ row[i.job].attempts = 1 => Knows(i, public', stored', hidden')
    <3>1. ~RedisFailures /\ row[i.job].attempts = 1 => Knows(act[a], public, stored, hidden)
      BY <1>0, <1>2, <2>2 DEF SyncIInv, Told
    <3> QED
      BY <1>0, <1>1, <2>2, <2>3, <3>1 DEF Knows
  <2>5. act' \in [Actors -> Doings] /\ HasFetched'
    BY <2>2, MovesTyped
  <2>6. OfJobs' /\ Polled'
    BY <1>0, <1>1, <1>2, <2>2, <2>3, <2>4, WorkerKeeps
  <2> QED
    BY <1>0, <1>1, <2>3, <2>5, <2>6 DEF SyncIInv, OfJobs, TypeOK
<1>3. CASE a \notin Workers
  <2>1. a \in Pollers /\ public' = public /\ {"synced", "failed"} \subseteq Steps
    BY <1>1, <1>3 DEF Actors, IsJob, Steps
  <2>2. PICK i \in Doings : /\ Moves(a, i) /\ i.before = act[a].before /\ i.marker = act[a].marker
                            /\ i.pc \in {"synced", "failed"}
                            /\ i.pc = "synced" => act[a].pc # "broken"
    BY <1>0, <1>1, <1>3, <2>1, GotoMoves DEF OnRaise, OnResult, IsJob
  <2>3. act' \in [Actors -> Doings] /\ HasFetched'
    BY <2>2, MovesTyped
  <2>4. ASSUME Polled, created = {}, refused' = {}
        PROVE  Honest(i, rev)' /\ Ingested(auto.marker)'
    <3>1. Honest(act[a], rev) /\ Ingested(auto.marker)
      BY <1>1, <2>1, <2>4, PolledHonest
    <3> QED
      BY <1>0, <1>1, <2>2, <3>1 DEF Honest, Ingested
  <2>5. OfJobs' /\ Polled'
    BY <1>1, <2>1, <2>2, <2>4, PollerKeeps, PollerHonest
  <2> QED
    BY <1>0, <1>1, <2>1, <2>3, <2>5 DEF SyncIInv, OfJobs, TypeOK
<1> QED
  BY <1>2, <1>3

LEMMA IngestStepKeeps ==
  ASSUME SyncIInv, NEW a \in Actors, IngestStep(a)
  PROVE  SyncIInv'
BY FetchKeeps, StoreSnapshotKeeps, RefuseKeeps, BreakKeeps, ReportKeeps DEF IngestStep

-----------------------------------------------------------------------------
(* The steps of a worker between its claim and its settlement.               *)

LEMMA WorkerGoesOn ==
  ASSUME SyncIInv, NEW w \in Workers,
         \/ ReadBefore(w) \/ TellRunning(w) \/ CancelIngest(w) \/ ReadReport(w) \/ ReadMarker(w)
         \/ TellOutcome(w)
  PROVE  SyncIInv'
<1>0. /\ TypeOK /\ w \in Actors /\ w \in Workers
      /\ {"announce", "fetch", "tellfailed", "tellrefused", "marker", "tellsynced", "markok",
          "markfailed", "markrefused"} \subseteq Steps
  BY DEF SyncIInv, Actors, Steps
<1>1. /\ act[w] \in Doings /\ act[w].before \in Records /\ act[w].before.marker \in Markers
      /\ act[w].marker \in Markers /\ rev \in Markers
  BY <1>0, DoingFields DEF TypeOK, Revs, Markers
<1>2. UNCHANGED <<rev, seen, public, row, created, queuing, stored, refused, hidden, crashes>>
  BY DEF ReadBefore, TellRunning, CancelIngest, ReadReport, ReadMarker, TellOutcome
<1>3. auto' \in Records
  BY <1>0, <1>1, AutoType
  DEF ReadBefore, TellRunning, CancelIngest, ReadReport, ReadMarker, TellOutcome, TypeOK
<1>4. \E i \in Doings :
        /\ Moves(w, i) /\ i.job = act[w].job /\ i.pc \notin {"idle", "store", "stored", "returned"}
        /\ i.pc = "markok" => act[w].pc = "tellsynced"
        /\ i.pc = "tellsynced" => act[w].pc = "marker"
        /\ i.pc = "marker" => act[w].pc = "returned" /\ (~RedisFailures => public[act[w].job] # "failed")
  <2>1. CASE ReadBefore(w)
    <3>1. PICK m \in BestEffort(auto.marker, 0) :
            act' = [act EXCEPT ![w].pc = "announce", ![w].before = Record(m, "never")]
      BY <2>1 DEF ReadBefore
    <3> DEFINE i == [act[w] EXCEPT !.pc = "announce", !.before = Record(m, "never")]
    <3>2. Record(m, "never") \in Records
      <4>1. m \in Markers
        BY <1>0, <3>1, SwitchAssumption DEF TypeOK, Records, Markers, BestEffort
      <4> QED
        BY <4>1, RecordType
    <3>3. i \in Doings
      BY <1>0, <1>1, <3>2, Zenon DEF Doings
    <3>4. Moves(w, i)
      BY <3>1, Zenon DEF Moves
    <3>5. i.pc = "announce" /\ i.job = act[w].job
      BY <1>1 DEF Doings
    <3> QED
      BY <3>3, <3>4, <3>5
  <2>2. CASE TellRunning(w)
    BY <1>0, <2>2, GotoMoves DEF TellRunning
  <2>3. CASE CancelIngest(w)
    BY <1>0, <2>3, GotoMoves DEF CancelIngest
  <2>4. CASE ReadReport(w)
    BY <1>0, <2>4, GotoMoves DEF ReadReport, BestEffort
  <2>5. CASE ReadMarker(w)
    <3>1. PICK m \in Markers : act' = [act EXCEPT ![w].pc = "tellsynced", ![w].marker = m]
      BY <1>1, <2>5 DEF ReadMarker
    <3> DEFINE i == [act[w] EXCEPT !.pc = "tellsynced", !.marker = m]
    <3>3. i \in Doings
      BY <1>0, <1>1, Zenon DEF Doings
    <3>4. Moves(w, i)
      BY <3>1, Zenon DEF Moves
    <3>5. i.pc = "tellsynced" /\ i.job = act[w].job
      BY <1>1 DEF Doings
    <3> QED
      BY <2>5, <3>3, <3>4, <3>5 DEF ReadMarker
  <2>6. CASE TellOutcome(w)
    BY <1>0, <2>6, GotoMoves DEF TellOutcome
  <2> QED
    BY <2>1, <2>2, <2>3, <2>4, <2>5, <2>6
<1>5. PICK i \in Doings :
        /\ Moves(w, i) /\ i.job = act[w].job /\ i.pc \notin {"idle", "store", "stored", "returned"}
        /\ i.pc = "markok" => act[w].pc = "tellsynced"
        /\ i.pc = "tellsynced" => act[w].pc = "marker"
        /\ i.pc = "marker" => act[w].pc = "returned" /\ (~RedisFailures => public[act[w].job] # "failed")
  BY <1>4
<1>6. act[w].pc # "idle"
  BY DEF ReadBefore, TellRunning, CancelIngest, ReadReport, ReadMarker, TellOutcome
<1>7. ~RedisFailures /\ row[i.job].attempts = 1 => Knows(i, public', stored', hidden')
  <2>1. ~RedisFailures /\ row[i.job].attempts = 1 => Knows(act[w], public, stored, hidden)
    BY <1>5, <1>6 DEF SyncIInv, Told
  <2> QED
    BY <1>2, <1>5, <2>1 DEF Knows
<1>8. OfJobs' /\ Polled'
  BY <1>2, <1>5, <1>6, <1>7, WorkerKeeps
<1>9. act' \in [Actors -> Doings] /\ HasFetched'
  BY <1>0, <1>5, MovesTyped
<1> QED
  BY <1>0, <1>2, <1>3, <1>8, <1>9 DEF SyncIInv, OfJobs, TypeOK

-----------------------------------------------------------------------------
(* Claims and settlements.                                                   *)

\* The sweep ends rows that are running and leaves the others alone.
LEMMA SweptRows ==
  ASSUME TypeOK
  PROVE  /\ Swept \in [Jobs -> Rows]
         /\ \A j \in Jobs : /\ Swept[j].attempts = row[j].attempts
                            /\ Swept[j] = row[j] \/ (row[j].status = "running" /\ Swept[j].status = "failed")
                            /\ ~Exhausted(row[j]) => Swept[j] = row[j]
<1>1. ASSUME NEW j \in Jobs
      PROVE  /\ Swept[j] \in Rows /\ Swept[j].attempts = row[j].attempts
             /\ Swept[j] = row[j] \/ (row[j].status = "running" /\ Swept[j].status = "failed")
             /\ ~Exhausted(row[j]) => Swept[j] = row[j]
  <2>1. row[j] \in Rows /\ "failed" \in Statuses
    BY DEF TypeOK, Statuses
  <2>2. Swept[j] = IF Exhausted(row[j]) THEN Closed(row[j], "failed") ELSE row[j]
    BY DEF Swept
  <2>3. CASE Exhausted(row[j])
    <3>1. /\ Closed(row[j], "failed") \in Rows /\ Closed(row[j], "failed").status = "failed"
          /\ Closed(row[j], "failed").attempts = row[j].attempts /\ row[j].status = "running"
      BY <2>1, <2>3, ClosedType DEF Exhausted, Stale
    <3> QED
      BY <2>2, <2>3, <3>1
  <2>4. CASE ~Exhausted(row[j])
    BY <2>1, <2>2, <2>4
  <2> QED
    BY <2>3, <2>4
<1>2. DOMAIN Swept = Jobs /\ Swept = [j \in Jobs |-> Swept[j]]
  BY DEF Swept
<1> QED
  BY <1>1, <1>2

\* Rows that are swept, or aged, keep what the invariant says of jobs.
LEMMA RowsKeep ==
  ASSUME SyncIInv, row' \in [Jobs -> Rows],
         \A j \in Jobs : /\ row'[j].attempts = row[j].attempts
                         /\ row'[j] = row[j] \/ (row[j].status = "running" /\ row'[j].status # "succeeded"),
         UNCHANGED <<act, created, stored, hidden, public>>
  PROVE  OfJobs'
<1>1. \A w \in Workers : act[w].pc # "idle" => act[w].job \in Jobs
  BY WorkerBusy
<1>2. Busy' /\ Claims' /\ Told'
  BY <1>1 DEF SyncIInv, Busy, Claims, Told, Knows
<1>3. Uncreated'
  BY DEF SyncIInv, Uncreated, NewRow
<1>4. RedisFailures \/ FirstClaimStored'
  BY DEF SyncIInv, FirstClaimStored, TypeOK
<1> QED
  BY <1>2, <1>3, <1>4 DEF OfJobs

LEMMA ClaimJobKeeps ==
  ASSUME SyncIInv, NEW w \in Workers, ClaimJob(w)
  PROVE  SyncIInv'
<1>0. TypeOK /\ Busy /\ Uncreated /\ Claims /\ Told /\ w \in Actors /\ w \in Nat /\ created \subseteq Jobs
  BY WorkerAssumption DEF SyncIInv, Actors, TypeOK
<1>1. UNCHANGED <<rev, seen, auto, public, created, queuing, stored, refused, hidden, crashes>> /\ act[w].pc = "idle"
  BY DEF ClaimJob
<1>2. CASE row' = Swept /\ act' = act
  <2>1. row' \in [Jobs -> Rows] /\ OfJobs'
    BY <1>0, <1>1, <1>2, SweptRows, RowsKeep
  <2>2. Polled' /\ HasFetched'
    BY <1>1, <1>2 DEF SyncIInv, Polled, Ingested, HasFetched
  <2> QED
    BY <1>0, <1>1, <1>2, <2>1, <2>2 DEF SyncIInv, OfJobs, TypeOK
<1>3. ASSUME NEW j \in created, Eligible(row[j]), row' = [Swept EXCEPT ![j] = Claimed(@, w)],
             act' = [act EXCEPT ![w] = [Nothing EXCEPT !.pc = "claimed", !.job = j,
                                                       !.attempt = row[j].attempts + 1]]
      PROVE  SyncIInv'
  <2> DEFINE i == [Nothing EXCEPT !.pc = "claimed", !.job = j, !.attempt = row[j].attempts + 1]
  <2>1. j \in Jobs /\ row[j] \in Rows /\ row[j].attempts < MaxAttempts /\ row[j].attempts \in Nat
    BY <1>0, <1>3 DEF Eligible, Rows, TypeOK
  <2>2. i \in Doings /\ i.pc = "claimed" /\ i.job = j
    <3>1. row[j].attempts + 1 \in 0..MaxAttempts
      BY <2>1, BudgetAssumption
    <3>3. "claimed" \in Steps
      BY DEF Steps
    <3>2. i \in Doings
      BY <2>1, <3>1, <3>3, NothingType, Zenon DEF Doings
    <3>4. PICK n \in Doings : n = Nothing
      BY NothingType
    <3>5. [n EXCEPT !.pc = "claimed", !.job = j, !.attempt = row[j].attempts + 1].pc = "claimed"
      BY <3>4 DEF Doings
    <3>6. [n EXCEPT !.pc = "claimed", !.job = j, !.attempt = row[j].attempts + 1].job = j
      BY <3>4 DEF Doings
    <3> QED
      BY <3>2, <3>4, <3>5, <3>6
  <2> HIDE DEF i
  <2>3. /\ act' \in [Actors -> Doings] /\ act'[w] = i /\ \A v \in Actors \ {w} : act'[v] = act[v]
        /\ HasFetched'
    BY <1>0, <1>3, <2>2, MovesType, MovesTyped DEF Moves, i
  <2>4. Swept[j] = row[j]
    <3>1. ~Exhausted(row[j])
      BY <2>1, BudgetAssumption DEF Exhausted
    <3> QED
      BY <1>0, <2>1, <3>1, SweptRows
  <2>5. /\ row' \in [Jobs -> Rows] /\ row'[j].status = "running"
        /\ row'[j].attempts = row[j].attempts + 1
        /\ \A k \in Jobs \ {j} : row'[k] = Swept[k]
    BY <1>0, <1>3, <2>1, <2>4, SweptRows, ClaimedType
  <2>6. Busy'
    BY <1>0, <1>1, <2>2, <2>3 DEF Busy, Actors
  <2>7. Uncreated'
    <3> SUFFICES ASSUME NEW k \in Jobs \ created PROVE row'[k] = NewRow
      BY <1>1 DEF Uncreated
    <3>1. k # j /\ row[k] = NewRow /\ ~Exhausted(row[k])
      BY <1>0 DEF Uncreated, Exhausted, Stale, NewRow
    <3> QED
      BY <1>0, <2>5, <3>1, SweptRows
  <2>8. \A v \in Workers \ {w} : act'[v] = act[v] /\ (act[v].pc # "idle" => act[v].job \in Jobs)
    BY <2>3, WorkerBusy DEF Actors
  <2>9. \A v \in Workers \ {w} : act[v].pc # "idle" /\ act[v].job = j => row'[j].attempts # 1
    BY <1>0, <2>1, <2>5 DEF Claims
  <2>10. \A v \in Workers \ {w} :
           act[v].pc # "idle" => row'[act[v].job].attempts # 0
             /\ (row'[act[v].job].attempts = 1 => act[v].job # j /\ row[act[v].job].attempts = 1)
    BY <1>0, <2>1, <2>5, <2>8, <2>9, SweptRows DEF Claims
  <2>11. Claims'
    BY <1>0, <2>1, <2>2, <2>3, <2>5, <2>8, <2>10 DEF Claims
  <2>12. Told'
    BY <1>0, <1>1, <2>2, <2>3, <2>8, <2>10 DEF Told, Knows
  <2>13. RedisFailures \/ FirstClaimStored'
    <3>1. \A k \in created : row'[k].status = "succeeded" => k # j /\ row'[k] = row[k]
      BY <1>0, <2>5, SweptRows
    <3> QED
      BY <1>1, <3>1 DEF SyncIInv, FirstClaimStored
  <2>14. Polled'
    BY <1>1 DEF Polled
  <2> QED
    BY <1>0, <1>1, <2>3, <2>5, <2>6, <2>7, <2>11, <2>12, <2>13, <2>14 DEF SyncIInv, TypeOK
<1> QED
  BY <1>2, <1>3 DEF ClaimJob

\* The row is settled while its worker is still busy, or the worker finds it lost.
LEMMA SettleKeeps ==
  ASSUME SyncIInv, NEW w \in Workers, Settle(w)
  PROVE  SyncIInv'
<1>0. /\ TypeOK /\ Claims /\ w \in Actors
      /\ act[w].pc \in {"markok", "markfailed", "markrefused"}
  BY DEF SyncIInv, Actors, Settle, Shown
<1>1. PICK j \in Jobs : j = act[w].job /\ j \in created
  BY <1>0, WorkerBusy
<1>2. /\ UNCHANGED <<rev, seen, auto, public, created, queuing, stored, refused, hidden, crashes>>
      /\ IF HeldBy(row[j], w) THEN row' = [row EXCEPT ![j] = SettledRow(w)]
                              ELSE row' = row
  BY <1>1 DEF Settle
<1>3. /\ row[j] \in Rows /\ act[w].attempt \in 0..MaxAttempts /\ Nothing \in Doings
      /\ Nothing.pc = "idle"
  BY <1>0, DoingFields, NothingType DEF TypeOK
<1>4. PICK i \in Doings :
        Moves(w, i) /\ i.pc \in {"idle", "showok", "showrefused", "showfailed"}
          /\ (i.pc # "idle" => i.job = j)
  <2>1. CASE HeldBy(row[j], w)
    <3>1. /\ Shown[act[w].pc] \in {"showok", "showrefused", "showfailed"}
          /\ Shown[act[w].pc] \in Steps /\ Goto(w, Shown[act[w].pc])
      BY <1>0, <1>1, <2>1 DEF Settle, Shown, Steps
    <3> QED
      BY <1>0, <1>1, <3>1, GotoMoves
  <2>2. CASE ~HeldBy(row[j], w)
    BY <1>1, <1>3, <2>2 DEF Settle, Stop, Moves
  <2> QED
    BY <2>1, <2>2
<1>5. /\ SettledRow(w) \in Rows /\ SettledRow(w).attempts = row[j].attempts
      /\ SettledRow(w).status = "succeeded" => act[w].pc = "markok"
  BY <1>0, <1>1, <1>3, ClosedType, FailedAttemptType DEF SettledRow, Statuses
<1>6. /\ row' \in [Jobs -> Rows] /\ row'[j].attempts = row[j].attempts
      /\ \A k \in Jobs \ {j} : row'[k] = row[k]
      /\ row'[j].status = "succeeded" => row'[j] = row[j] \/ act[w].pc = "markok"
  BY <1>0, <1>2, <1>3, <1>5 DEF TypeOK
<1>7. /\ act' \in [Actors -> Doings] /\ act'[w] = i
      /\ \A v \in Actors \ {w} : act'[v] = act[v]
      /\ HasFetched'
  BY <1>0, <1>4, MovesType, MovesTyped
<1>8. \A v \in Workers : act'[v].pc # "idle" =>
        /\ act'[v].job = act[v].job /\ act[v].pc # "idle" /\ act[v].job \in Jobs
        /\ row'[act[v].job].attempts = row[act[v].job].attempts
        /\ v # w => act'[v] = act[v]
  <2> TAKE v \in Workers
  <2> HAVE act'[v].pc # "idle"
  <2>1. /\ act'[v].job = act[v].job /\ act[v].pc # "idle" /\ act[v].job \in Jobs
        /\ v # w => act'[v] = act[v]
    BY <1>0, <1>1, <1>4, <1>7, WorkerBusy DEF Actors
  <2> QED
    BY <1>6, <2>1
<1>9. Busy' /\ Uncreated'
  BY <1>1, <1>2, <1>6, <1>8 DEF SyncIInv, Busy, Uncreated
<1>10. Claims'
  BY <1>8 DEF SyncIInv, Claims
<1>11. Told'
  <2> SUFFICES ASSUME ~RedisFailures, NEW v \in Workers, act'[v].pc # "idle",
                      row'[act'[v].job].attempts = 1
               PROVE  Knows(act'[v], public, stored, hidden)
    BY <1>2 DEF Told, Knows
  <2>1. CASE v = w
    BY <1>4, <1>7, <2>1 DEF Knows
  <2>2. CASE v # w
    BY <1>8, <2>2 DEF SyncIInv, Told
  <2> QED
    BY <2>1, <2>2
<1>12. RedisFailures \/ FirstClaimStored'
  <2> SUFFICES ASSUME ~RedisFailures, NEW k \in created, row'[k].status = "succeeded",
                      row'[k].attempts = 1
               PROVE  k \in stored \cup hidden
    BY <1>2 DEF FirstClaimStored
  <2>1. k \in Jobs /\ FirstClaimStored /\ Told
    BY <1>0 DEF TypeOK, SyncIInv
  <2>2. CASE row'[k] = row[k]
    BY <2>1, <2>2 DEF FirstClaimStored
  <2>3. CASE k = j /\ act[w].pc = "markok"
    BY <1>1, <1>6, <2>1, <2>3 DEF Told, Knows
  <2> QED
    BY <1>6, <2>1, <2>2, <2>3
<1>13. Polled'
  BY <1>1, <1>2 DEF Polled
<1> QED
  BY <1>0, <1>2, <1>6, <1>7, <1>9, <1>10, <1>11, <1>12, <1>13 DEF SyncIInv, TypeOK

LEMMA ShowSettledKeeps ==
  ASSUME SyncIInv, NEW w \in Workers, ShowSettled(w)
  PROVE  SyncIInv'
<1>0. TypeOK /\ w \in Actors /\ {"done", "failed", "queued"} \subseteq Public
  BY DEF SyncIInv, Actors, Public
<1>1. /\ UNCHANGED <<rev, seen, auto, row, created, queuing, stored, refused, hidden, crashes>>
      /\ Moves(w, Nothing) /\ act[w].pc # "idle"
      /\ \E v \in {"done", "failed", "queued"} : SetPublic(act[w].job, v)
  BY DEF ShowSettled, Stop, Moves
<1>2. act[w].job \in Jobs /\ Nothing \in Doings /\ Nothing.pc = "idle"
  BY <1>1, WorkerBusy, NothingType
<1>3. public' \in [Jobs -> Public] /\ \A k \in Jobs \ {act[w].job} : public'[k] = public[k]
  BY <1>0, <1>1, <1>2, PublicType
<1>4. act' \in [Actors -> Doings] /\ HasFetched'
  BY <1>0, <1>1, <1>2, MovesTyped
<1>5. OfJobs' /\ Polled'
  BY <1>1, <1>2, <1>3, WorkerKeeps
<1> QED
  BY <1>0, <1>1, <1>3, <1>4, <1>5 DEF SyncIInv, OfJobs, TypeOK

-----------------------------------------------------------------------------
(* The poll, and the environment.                                            *)

LEMMA PollStepKeeps ==
  ASSUME SyncIInv, NEW p \in Pollers, PollStep(p)
  PROVE  SyncIInv'
<1>0. /\ TypeOK /\ p \in Actors /\ p \notin Workers /\ auto \in Records /\ rev \in Markers
      /\ {"poll", "unchanged", "announce", "fetch"} \subseteq Steps
  BY WorkerAssumption DEF SyncIInv, Actors, TypeOK, Revs, Markers, Steps
<1>1. /\ act[p] \in Doings /\ act[p].before \in Records /\ act[p].before.marker \in Markers
      /\ act[p].marker \in Markers
  BY <1>0, DoingFields
<1>2. UNCHANGED <<rev, seen, public, row, created, queuing, stored, refused, hidden, crashes>>
  BY DEF PollStep, PollMarker, PollRead, PollUnchanged, PollAnnounce, PollOutcome
<1>3. auto' \in Records
  BY <1>0, <1>1, RecordType DEF PollStep, PollMarker, PollRead, PollUnchanged, PollAnnounce, PollOutcome
<1>4. \E i \in Doings :
        /\ Moves(p, i) /\ i.pc \notin {"store", "stored", "synced", "refused"}
        /\ i.before.marker \in {act[p].before.marker, auto.marker, 0}
        /\ i.marker \in {act[p].marker, rev, 0}
  <2>1. CASE PollMarker(p)
    <3> DEFINE i == [act[p] EXCEPT !.pc = "poll", !.marker = rev]
    <3>1. i \in Doings
      BY <1>0, <1>1, Zenon DEF Doings
    <3>2. Moves(p, i)
      BY <2>1, Zenon DEF PollMarker, Moves
    <3>3. i.pc = "poll" /\ i.before = act[p].before /\ i.marker = rev
      BY <1>1 DEF Doings
    <3> QED
      BY <3>1, <3>2, <3>3
  <2>2. CASE PollRead(p)
    <3>1. PICK pc \in {"unchanged", "announce"} : act' = [act EXCEPT ![p].before = auto, ![p].pc = pc]
      BY <2>2 DEF PollRead
    <3> DEFINE i == [act[p] EXCEPT !.before = auto, !.pc = pc]
    <3>2. i \in Doings
      <4>1. pc \in Steps
        BY <1>0
      <4> QED
        BY <1>0, <1>1, <4>1, Zenon DEF Doings
    <3>3. Moves(p, i)
      BY <3>1, Zenon DEF Moves
    <3>4. i.pc = pc /\ i.before = auto /\ i.marker = act[p].marker
      BY <1>1 DEF Doings
    <3> QED
      BY <3>2, <3>3, <3>4
  <2>3. CASE PollAnnounce(p)
    BY <1>0, <2>3, GotoMoves DEF PollAnnounce
  <2>4. CASE PollUnchanged(p) \/ PollOutcome(p)
    <3>1. Moves(p, Nothing) /\ Nothing.before.marker = 0
      BY <2>4, NothingType DEF PollUnchanged, PollOutcome, Stop, Moves, Never
    <3> QED
      BY <3>1, NothingType
  <2> QED
    BY <2>1, <2>2, <2>3, <2>4 DEF PollStep
<1>5. PICK i \in Doings :
        /\ Moves(p, i) /\ i.pc \notin {"store", "stored", "synced", "refused"}
        /\ i.before.marker \in {act[p].before.marker, auto.marker, 0}
        /\ i.marker \in {act[p].marker, rev, 0}
  BY <1>4
<1>6. act' \in [Actors -> Doings] /\ HasFetched'
  BY <1>0, <1>5, MovesTyped
<1>7. ASSUME Polled, created = {}, refused' = {}
      PROVE  Honest(i, rev)' /\ Ingested(auto.marker)'
  <2>1. Honest(act[p], rev) /\ Ingested(auto.marker) /\ rev \in Nat
    BY <1>0, <1>2, <1>7, PolledHonest DEF TypeOK, Revs
  <2>2. auto'.marker \in {auto.marker, act[p].before.marker}
          \/ (act[p].pc = "synced" /\ auto'.marker = act[p].marker)
    BY <1>1, RecordType DEF PollStep, PollMarker, PollRead, PollUnchanged, PollAnnounce, PollOutcome
  <2>3. Ingested(auto'.marker)
    BY <2>1, <2>2 DEF Honest
  <2> QED
    BY <1>2, <1>5, <2>1, <2>3 DEF Honest, Ingested
<1>8. OfJobs' /\ Polled'
  BY <1>2, <1>5, <1>7, PollerKeeps, PollerHonest
<1> QED
  BY <1>0, <1>2, <1>3, <1>6, <1>8 DEF SyncIInv, OfJobs, TypeOK

LEMMA CrashKeeps ==
  ASSUME SyncIInv, NEW a \in Actors, Crash(a)
  PROVE  SyncIInv'
<1>0. TypeOK /\ act[a].pc # "idle" /\ crashes' \in 0..MaxCrashes
  BY SwitchAssumption DEF SyncIInv, Crash, TypeOK
<1>1. UNCHANGED <<rev, seen, auto, public, row, created, queuing, stored, refused, hidden>> /\ Moves(a, Nothing)
  BY DEF Crash, Stop, Moves
<1>2. Nothing \in Doings /\ Nothing.pc = "idle" /\ Nothing.marker = 0 /\ Nothing.before.marker = 0
  BY NothingType DEF Never
<1>3. act' \in [Actors -> Doings] /\ HasFetched'
  BY <1>1, <1>2, MovesTyped
<1>4. OfJobs' /\ Polled'
  <2>1. CASE a \in Workers
    BY <1>0, <1>1, <1>2, <2>1, WorkerKeeps
  <2>2. CASE a \in Pollers
    <3>1. ASSUME Polled, created = {}, refused' = {}
          PROVE  Honest(Nothing, rev)' /\ Ingested(auto.marker)'
      <4>1. Honest(act[a], rev) /\ Ingested(auto.marker) /\ rev \in Nat
        BY <1>0, <1>1, <2>2, <3>1, PolledHonest DEF TypeOK, Revs
      <4> QED
        BY <1>1, <1>2, <4>1 DEF Honest, Ingested
    <3>2. PICK i : i = Nothing
      OBVIOUS
    <3> QED
      BY <1>1, <2>2, <3>1, <3>2, PollerKeeps, PollerHonest
  <2> QED
    BY <2>1, <2>2 DEF Actors
<1> QED
  BY <1>0, <1>1, <1>3, <1>4 DEF SyncIInv, OfJobs, TypeOK

LEMMA CreateJobKeeps ==
  ASSUME SyncIInv, NEW j \in Jobs, CreateJob(j)
  PROVE  SyncIInv'
<1>0. TypeOK /\ Uncreated
  BY DEF SyncIInv
<1>1. /\ UNCHANGED <<rev, seen, auto, public, row, act, stored, refused, hidden, crashes>>
      /\ j \notin created /\ created' = created \cup {j} /\ queuing' = queuing \cup {j}
  BY DEF CreateJob
<1>2. RedisFailures \/ FirstClaimStored'
  BY <1>0, <1>1 DEF SyncIInv, FirstClaimStored, Uncreated, NewRow
<1>3. Polled' /\ Busy' /\ Uncreated' /\ Claims' /\ Told' /\ HasFetched'
  BY <1>1 DEF SyncIInv, Polled, Busy, Uncreated, Claims, Told, Knows, HasFetched
<1> QED
  BY <1>0, <1>1, <1>2, <1>3 DEF SyncIInv, TypeOK

\* What the creator's late write takes from a worker is remembered as hidden.
LEMMA TellQueuedKeeps ==
  ASSUME SyncIInv, NEW j \in Jobs, TellQueued(j)
  PROVE  SyncIInv'
<1>0. TypeOK /\ "queued" \in Public
  BY DEF SyncIInv, Public
<1>1. /\ UNCHANGED <<rev, seen, auto, row, created, act, stored, refused, crashes>>
      /\ SetPublic(j, "queued") /\ queuing' = queuing \ {j}
      /\ hidden' \subseteq Jobs /\ hidden \subseteq hidden'
      /\ public[j] = "failed" => j \in hidden'
  BY <1>0 DEF TellQueued, TypeOK
<1>2. public' \in [Jobs -> Public] /\ \A k \in Jobs \ {j} : public'[k] = public[k]
  BY <1>0, <1>1, PublicType
<1>3. Told'
  <2> SUFFICES ASSUME ~RedisFailures, NEW w \in Workers, act[w].pc # "idle",
                      row[act[w].job].attempts = 1
               PROVE  Knows(act[w], public', stored, hidden')
    BY <1>1 DEF Told, Knows
  <2>1. Knows(act[w], public, stored, hidden) /\ act[w].job \in Jobs
    BY WorkerBusy DEF SyncIInv, Told
  <2> QED
    BY <1>1, <1>2, <2>1 DEF Knows
<1>4. Polled' /\ Busy' /\ Uncreated' /\ Claims' /\ HasFetched'
  BY <1>1 DEF SyncIInv, Polled, Ingested, Busy, Uncreated, Claims, HasFetched
<1>5. RedisFailures \/ FirstClaimStored'
  BY <1>1 DEF SyncIInv, FirstClaimStored
<1> QED
  BY <1>0, <1>1, <1>2, <1>3, <1>4, <1>5 DEF SyncIInv, TypeOK

LEMMA LeaseExpiresKeeps ==
  ASSUME SyncIInv, NEW j \in Jobs, LeaseExpires(j)
  PROVE  SyncIInv'
<1>0. TypeOK /\ row[j] \in Rows /\ row[j].status = "running"
  BY DEF SyncIInv, LeaseExpires, TypeOK
<1>1. /\ UNCHANGED <<rev, seen, auto, public, created, queuing, act, stored, refused, hidden, crashes>>
      /\ row' = [row EXCEPT ![j] = Aged(row[j])]
  BY DEF LeaseExpires
<1>2. /\ row' \in [Jobs -> Rows] /\ row'[j].attempts = row[j].attempts /\ row'[j].status = "running"
      /\ \A k \in Jobs \ {j} : row'[k] = row[k]
  BY <1>0, <1>1, AgedType DEF TypeOK
<1>3. OfJobs'
  BY <1>0, <1>1, <1>2, RowsKeep
<1>4. Polled' /\ HasFetched'
  <2>1. Polled /\ HasFetched
    BY DEF SyncIInv
  <2> QED
    BY <1>1, <2>1 DEF Polled, Ingested, HasFetched
<1> QED
  BY <1>0, <1>1, <1>2, <1>3, <1>4 DEF SyncIInv, OfJobs, TypeOK

LEMMA WorldKeeps ==
  ASSUME SyncIInv, RunningGrowsOld \/ Edit
  PROVE  SyncIInv'
<1>1. /\ UNCHANGED <<seen, public, row, created, queuing, act, stored, refused, hidden, crashes>>
      /\ auto' \in Records /\ auto'.marker = auto.marker /\ rev' \in Revs /\ rev' >= rev
  <2>1. auto \in Records /\ rev \in Revs
    BY DEF SyncIInv, TypeOK
  <2>2. CASE RunningGrowsOld
    <3>1. auto' = [auto EXCEPT !.old = TRUE] /\ rev' = rev
      BY <2>2 DEF RunningGrowsOld
    <3>2. auto' \in Records /\ auto'.marker = auto.marker
      BY <2>1, <3>1 DEF Records
    <3> QED
      BY <2>1, <2>2, <3>1, <3>2 DEF RunningGrowsOld, Revs
  <2>3. CASE Edit
    BY <2>1, <2>3, SwitchAssumption DEF Edit, Revs
  <2> QED
    BY <2>2, <2>3
<1>2. OfJobs' /\ HasFetched'
  BY <1>1
  DEF SyncIInv, OfJobs, Busy, Uncreated, Claims, Told, Knows, FirstClaimStored, HasFetched
<1>3. Polled'
  <2>1. rev \in Nat /\ rev' \in Nat /\ \A p \in Pollers : act[p].marker \in Nat
    BY <1>1, DoingFields DEF SyncIInv, TypeOK, Revs, Markers, Actors
  <2> QED
    BY <1>1, <2>1 DEF SyncIInv, Polled, Ingested
<1> QED
  BY <1>1, <1>2, <1>3 DEF SyncIInv, OfJobs, TypeOK

-----------------------------------------------------------------------------
(* The theorems about SourceSync.                                            *)

LEMMA InitKeeps == Init => SyncIInv
<1> SUFFICES ASSUME Init PROVE SyncIInv
  OBVIOUS
<1>1. TypeOK
  <2>1. Never \in Records /\ 1 \in Revs /\ "none" \in Public
    BY SwitchAssumption DEF Never, Records, Markers, Revs, Public
  <2> QED
    BY <2>1, NothingType, NewRowType, SwitchAssumption DEF Init, TypeOK
<1>2. \A a \in Actors : act[a] = Nothing
  BY DEF Init
<1>3. Busy /\ HasFetched /\ Claims /\ Told
  BY <1>2, NothingType DEF Busy, HasFetched, Claims, Told, Actors
<1>4. Uncreated /\ FirstClaimStored
  BY DEF Init, Uncreated, FirstClaimStored
<1>5. Polled
  BY <1>2, NothingType DEF Polled, Ingested, Init, Never, Actors
<1> QED
  BY <1>1, <1>3, <1>4, <1>5 DEF SyncIInv

LEMMA NextKeeps == SyncIInv /\ [Next]_vars => SyncIInv'
<1> SUFFICES ASSUME SyncIInv, [Next]_vars PROVE SyncIInv'
  OBVIOUS
<1>1. ASSUME NEW w \in Workers, WorkerStep(w) PROVE SyncIInv'
  BY <1>1, ClaimJobKeeps, SettleKeeps, ShowSettledKeeps, WorkerGoesOn DEF WorkerStep
<1>2. CASE UNCHANGED vars
  BY <1>2
  DEF vars, SyncIInv, TypeOK, HasFetched, Busy, Uncreated, Polled, Ingested, Claims, Told, Knows,
      FirstClaimStored
<1> QED
  BY <1>1, <1>2, PollStepKeeps, IngestStepKeeps, CrashKeeps, CreateJobKeeps, TellQueuedKeeps,
     LeaseExpiresKeeps, WorldKeeps
  DEF Next

LEMMA SettledRows == SyncIInv /\ [Next]_vars => KeepsSettled
<1> SUFFICES ASSUME SyncIInv, [Next]_vars, NEW j \in created, Terminal(row[j])
             PROVE  row'[j].status = row[j].status
  BY DEF KeepsSettled
<1>1. TypeOK /\ j \in Jobs /\ row[j].status # "running" /\ row[j] \in Rows
  BY DEF SyncIInv, TypeOK, Terminal
<1>2. Swept[j] = row[j] /\ ~Eligible(row[j])
  BY <1>1, SweptRows DEF Terminal, Eligible, Waiting, Stale, Exhausted
<1>3. ASSUME NEW w \in Workers, ClaimJob(w) PROVE row'[j] = row[j]
  <2>1. CASE row' = Swept
    BY <1>2, <2>1
  <2>2. ASSUME NEW k \in created, Eligible(row[k]), row' = [Swept EXCEPT ![k] = Claimed(@, w)]
        PROVE  row'[j] = row[j]
    BY <1>1, <1>2, <2>2, SweptRows
  <2> QED
    BY <1>3, <2>1, <2>2 DEF ClaimJob
<1>4. ASSUME NEW w \in Workers, Settle(w) PROVE row'[j] = row[j]
  BY <1>1, <1>4 DEF Settle, HeldBy, TypeOK
<1>5. ASSUME NEW k \in Jobs, LeaseExpires(k) PROVE row'[j] = row[j]
  BY <1>1, <1>5 DEF LeaseExpires, TypeOK
<1>6. row' = row \/ (\E w \in Workers : ClaimJob(w) \/ Settle(w)) \/ (\E k \in Jobs : LeaseExpires(k))
  BY DEF Next, vars, WorkerStep, PollStep, IngestStep, ReadBefore, TellRunning, CancelIngest, ReadReport,
         ReadMarker, TellOutcome, PollMarker, PollRead, PollUnchanged, PollAnnounce, PollOutcome, Fetch,
         StoreSnapshot, Refuse, Break, Report, Crash, CreateJob, TellQueued, ShowSettled,
         RunningGrowsOld, Edit
<1> QED
  BY <1>3, <1>4, <1>5, <1>6

\* Rows, Redis records and what every process is doing are well typed: no attempt budget is
\* exceeded and nothing is stored that was not fetched.
THEOREM SyncTypeCorrect == Spec => []TypeOK
<1>1. SyncIInv => TypeOK
  BY DEF SyncIInv
<1> QED
  BY <1>1, InitKeeps, NextKeeps, PTL DEF Spec

\* What is recorded of a sync is true and stays: run_auto_sync_once never leaves a marker
\* ahead of the archive, however often it dies and whatever Redis command fails, as long as
\* no ingest is refused and no manual job writes the same record; a job that
\* its first claim ended as succeeded was ingested, unless the delayed "queued" of
\* create_manual_sync_job hid a failure from _run_claimed_job; a settled job is never reopened.
THEOREM RecordsAreTrue == Spec => RecordsStand
<1>1. SyncIInv /\ [Next]_vars =>
        [/\ KeepsSettled
         /\ created' = {} /\ refused' = {} => MarkerIngested'
         /\ RedisFailures \/ FirstClaimStored']_vars
  <2> SUFFICES ASSUME SyncIInv, [Next]_vars
               PROVE  /\ KeepsSettled
                      /\ created' = {} /\ refused' = {} => MarkerIngested'
                      /\ RedisFailures \/ FirstClaimStored'
    OBVIOUS
  <2>1. SyncIInv' /\ KeepsSettled
    BY NextKeeps, SettledRows
  <2> QED
    BY <2>1 DEF SyncIInv, Polled, Ingested, MarkerIngested
<1> QED
  BY <1>1, InitKeeps, NextKeeps, PTL DEF Spec, RecordsStand

-----------------------------------------------------------------------------
-----------------------------------------------------------------------------
(* The archive.                                                              *)

(* The document and what is read from it are sequences.                     *)

IsSeq(s) == s \in Seq({s[i] : i \in DOMAIN s})

LEMMA SeqBounds ==
  ASSUME NEW s, IsSeq(s)
  PROVE  Len(s) \in Nat /\ DOMAIN s = 1..Len(s)
BY DEF IsSeq

LEMMA SomeSeq ==
  ASSUME NEW S, NEW s \in Seq(S)
  PROVE  IsSeq(s)
<1>1. Len(s) \in Nat /\ s \in [1..Len(s) -> S] /\ DOMAIN s = 1..Len(s)
  OBVIOUS
<1>2. s \in [1..Len(s) -> {s[i] : i \in DOMAIN s}]
  BY <1>1
<1> QED
  BY SMTT(30), <1>1, <1>2 DEF IsSeq

LEMMA BuiltSeq ==
  ASSUME NEW n \in Nat, NEW f, f = [i \in 1..n |-> f[i]]
  PROVE  IsSeq(f) /\ Len(f) = n
<1>1. f \in [1..n -> {f[i] : i \in 1..n}]
  OBVIOUS
<1>2. f \in Seq({f[i] : i \in 1..n}) /\ Len(f) = n
  BY <1>1
<1> QED
  BY <1>2, SomeSeq

LEMMA JoinedSeq ==
  ASSUME NEW s, NEW t, IsSeq(s), IsSeq(t)
  PROVE  IsSeq(s \o t)
<1> DEFINE S == {s[i] : i \in DOMAIN s} \cup {t[i] : i \in DOMAIN t}
<1>1. s \in Seq(S) /\ t \in Seq(S)
  <2>1. s \in [1..Len(s) -> S] /\ t \in [1..Len(t) -> S] /\ Len(s) \in Nat /\ Len(t) \in Nat
    BY SeqBounds DEF IsSeq
  <2> QED
    BY <2>1
<1> HIDE DEF S
<1>2. s \o t \in Seq(S)
  BY <1>1
<1> QED
  BY <1>2, SomeSeq

LEMMA PartOfSeq ==
  ASSUME NEW s, IsSeq(s), NEW m \in 1..(Len(s) + 1), NEW n \in 0..Len(s)
  PROVE  IsSeq(SubSeq(s, m, n))
<1> DEFINE S == {s[i] : i \in DOMAIN s}
<1>1. s \in Seq(S) /\ Len(s) \in Nat
  BY DEF IsSeq
<1> HIDE DEF S
<1>2. SubSeq(s, m, n) \in Seq(S)
  BY <1>1
<1> QED
  BY <1>2, SomeSeq

LEMMA SomeIndexes ==
  ASSUME NEW n \in Nat, NEW S \in SUBSET (1..n)
  PROVE  IsFiniteSet(S) /\ Cardinality(S) \in Nat /\ Cardinality(S) <= n
<1>1. IsFiniteSet(1..n) /\ Cardinality(1..n) = n
  BY FS_Interval
<1> QED
  BY <1>1, FS_Subset, FS_CardinalityType

LEMMA RankedSeq ==
  ASSUME NEW n \in Nat, NEW S \in SUBSET (1..n)
  PROVE  IsSeq(Ranked(S))
<1> DEFINE e(k) == CHOOSE i \in S : Cardinality({j \in S : j < i}) = k - 1
<1>1. Cardinality(S) \in Nat
  BY SomeIndexes
<1>2. Ranked(S) = [k \in 1..Cardinality(S) |-> e(k)]
  BY DEF Ranked
<1> HIDE DEF e
<1>3. Ranked(S) = [k \in 1..Cardinality(S) |-> Ranked(S)[k]]
  BY <1>2
<1> QED
  BY <1>1, <1>3, BuiltSeq

\* A sequence as long as another one.
LEMMA MappedSeq ==
  ASSUME NEW s, IsSeq(s), NEW t, t = [i \in DOMAIN s |-> t[i]]
  PROVE  IsSeq(t) /\ Len(t) = Len(s)
BY SeqBounds, BuiltSeq

LEMMA EntriesSeq ==
  ASSUME NEW ps, IsSeq(ps)
  PROVE  IsSeq(EntriesOf(ps))
<1> DEFINE headings == HeadingIndexes(ps)
           dates    == DateIndexes(ps)
           Dated(i) == Untitled(ps, ps[i].date, i, i + 1, EndOf(ps, dates, i))
           whole    == Untitled(ps, 0, 1, 1, Len(ps))
           named    == Ranked(headings)
           filled   == Ranked({i \in dates : HasText(Dated(i))})
           Named(n) == Headed(ps, named[n], EndOf(ps, headings, named[n]))
           Filled(n) == Dated(filled[n])
<1>1. Len(ps) \in Nat
  BY SeqBounds
<1>2. headings \in SUBSET (1..Len(ps)) /\ {i \in dates : HasText(Dated(i))} \in SUBSET (1..Len(ps))
  BY <1>1 DEF HeadingIndexes, DateIndexes
<1>3. IsSeq(named) /\ IsSeq(filled)
  BY <1>1, <1>2, RankedSeq
<1>4. EntriesOf(ps) \in {[n \in DOMAIN named |-> Named(n)], [n \in DOMAIN filled |-> Filled(n)],
                         <<whole>>, <<>>}
  BY DEF EntriesOf
<1> HIDE DEF headings, dates, Dated, whole, named, filled, Named, Filled
<1>5. IsSeq([n \in DOMAIN named |-> Named(n)])
  <2> DEFINE t == [n \in DOMAIN named |-> Named(n)]
  <2>1. t = [n \in DOMAIN named |-> t[n]]
    OBVIOUS
  <2> HIDE DEF t
  <2>2. IsSeq(t)
    BY <1>3, <2>1, MappedSeq
  <2> QED
    BY <2>2 DEF t
<1>6. IsSeq([n \in DOMAIN filled |-> Filled(n)])
  <2> DEFINE t == [n \in DOMAIN filled |-> Filled(n)]
  <2>1. t = [n \in DOMAIN filled |-> t[n]]
    OBVIOUS
  <2> HIDE DEF t
  <2>2. IsSeq(t)
    BY <1>3, <2>1, MappedSeq
  <2> QED
    BY <2>2 DEF t
<1>7. IsSeq(<<whole>>) /\ IsSeq(<<>>)
  <2>1. <<whole>> \in Seq({whole}) /\ <<>> \in Seq({whole})
    OBVIOUS
  <2> QED
    BY <2>1, SomeSeq
<1> QED
  BY <1>4, <1>5, <1>6, <1>7

LEMMA InsertIndexFits ==
  ASSUME NEW ps, IsSeq(ps), NEW date
  PROVE  InsertIndex(ps, date) \in 1..(Len(ps) + 1)
<1>1. Len(ps) \in Nat
  BY SeqBounds
<1>2. {i \in 1..Len(ps) : \A j \in 1..i : ps[j].date <= date} \in SUBSET (1..Len(ps))
  OBVIOUS
<1> QED
  BY <1>1, <1>2, SomeIndexes DEF InsertIndex

LEMMA SplicedSeq ==
  ASSUME NEW d, NEW new, IsSeq(d), IsSeq(new), NEW i \in 1..(Len(d) + 1)
  PROVE  IsSeq(Spliced(d, i, new))
<1>1. Len(d) \in Nat
  BY SeqBounds
<1>2. IsSeq(SubSeq(d, 1, i - 1)) /\ IsSeq(SubSeq(d, i, Len(d)))
  BY <1>1, PartOfSeq
<1> QED
  BY <1>2, JoinedSeq DEF Spliced

LEMMA ParasSeq ==
  ASSUME NEW d, IsSeq(d)
  PROVE  IsSeq(ParasOf(d)) /\ Len(ParasOf(d)) = Len(d)
<1>1. ParasOf(d) = [i \in DOMAIN d |-> ParasOf(d)[i]]
  BY DEF ParasOf
<1> QED
  BY <1>1, MappedSeq

LEMMA SignedSeq ==
  ASSUME NEW ps, IsSeq(ps), NEW w
  PROVE  IsSeq(Signed(w, ps))
<1>1. Signed(w, ps) = [i \in DOMAIN ps |-> Signed(w, ps)[i]]
  BY DEF Signed
<1> QED
  BY <1>1, MappedSeq

LEMMA LinesSeq ==
  ASSUME IsSeq(doc), NEW S \in SUBSET (DOMAIN doc)
  PROVE  IsSeq(LinesAt(S))
<1>1. IsSeq(Ranked(S))
  BY SeqBounds, RankedSeq
<1>2. LinesAt(S) = [n \in DOMAIN Ranked(S) |-> LinesAt(S)[n]]
  BY DEF LinesAt
<1> QED
  BY <1>1, <1>2, MappedSeq

-----------------------------------------------------------------------------
(* Two entries of a document never have the same key.                       *)

LEMMA LaterKeyDiffers ==
  ASSUME NEW es, NEW n \in Nat, NEW m \in 1..(n - 1)
  PROVE  SourceKey(es, m) # SourceKey(es, n)
<1> DEFINE Alike(k) == {j \in 1..(k - 1) : es[j].date = es[k].date /\ es[j].title = es[k].title}
<1> SUFFICES ASSUME es[m].date = es[n].date, es[m].title = es[n].title
             PROVE  Cardinality(Alike(m)) # Cardinality(Alike(n))
  BY DEF SourceKey
<1>1. Alike(m) \subseteq Alike(n) /\ m \in Alike(n) /\ m \notin Alike(m)
  OBVIOUS
<1>2. IsFiniteSet(Alike(n))
  <2>1. Alike(n) \in SUBSET (1..n)
    OBVIOUS
  <2> QED
    BY <2>1, SomeIndexes
<1> QED
  BY <1>1, <1>2, FS_Subset

(* A snapshot: a sequence whose keys are keys, and differ.                   *)
Fetched(es) ==
  /\ IsSeq(es)
  /\ \A n \in DOMAIN es : es[n].key # NoKey
  /\ \A m, n \in DOMAIN es : m # n => es[m].key # es[n].key

LEMMA SnapshotFetched ==
  ASSUME NEW d, IsSeq(d)
  PROVE  Fetched(Snapshot(d))
<1> DEFINE es == EntriesOf(ParasOf(d))
           E(n) == [key |-> SourceKey(es, n), body |-> es[n].body, who |-> d[es[n].at].who]
<1>1. IsSeq(es)
  BY ParasSeq, EntriesSeq
<1> HIDE DEF es
<1>2. Snapshot(d) = [n \in DOMAIN es |-> E(n)]
  BY DEF Snapshot, es
<1>3. /\ DOMAIN Snapshot(d) = DOMAIN es
      /\ \A n \in DOMAIN es : Snapshot(d)[n].key = SourceKey(es, n)
      /\ Snapshot(d) = [n \in DOMAIN es |-> Snapshot(d)[n]]
  BY <1>2
<1>4. IsSeq(Snapshot(d))
  BY <1>1, <1>3, MappedSeq
<1>5. \A n : SourceKey(es, n) # NoKey
  BY DEF SourceKey, NoKey
<1>6. ASSUME NEW m \in DOMAIN es, NEW n \in DOMAIN es, m # n
      PROVE  SourceKey(es, m) # SourceKey(es, n)
  <2>1. m \in Nat /\ n \in Nat /\ (m \in 1..(n - 1) \/ n \in 1..(m - 1))
    BY <1>1, <1>6, SeqBounds
  <2> QED
    BY <2>1, LaterKeyDiffers
<1> QED
  BY <1>3, <1>4, <1>5, <1>6 DEF Fetched

-----------------------------------------------------------------------------
(* The document stays a sequence, whoever writes.                            *)

LEMMA EnteredSeq ==
  ASSUME NEW heading, NEW w
  PROVE  IsSeq(Entered(heading, w))
<1>1. <<heading, Typed(w)>> \in Seq({heading, Typed(w)})
  OBVIOUS
<1> QED
  BY <1>1, SomeSeq, SignedSeq DEF Entered

LEMMA HumanSeq ==
  ASSUME IsSeq(doc), Type \/ Retitle \/ Reword \/ Move \/ Erase
  PROVE  IsSeq(doc)'
<1>1. ASSUME Type PROVE IsSeq(doc')
  <2>1. PICK i \in Gaps(doc), heading \in Headings : doc' = Spliced(doc, i, Entered(heading, born + 1))
    BY <1>1 DEF Type
  <2>2. i \in 1..(Len(doc) + 1)
    BY DEF Gaps
  <2> QED
    BY <2>1, <2>2, EnteredSeq, SplicedSeq
<1>2. ASSUME Retitle \/ Reword PROVE IsSeq(doc')
  <2>1. PICK k, p : doc' = [doc EXCEPT ![k].p = p]
    BY <1>2 DEF Retitle, Reword
  <2>2. doc' = [i \in DOMAIN doc |-> doc'[i]]
    BY <2>1
  <2> QED
    BY <2>2, MappedSeq
<1>3. \A w : IsSeq(Without(w)) /\ IsSeq(Only(w))
  <2> TAKE w
  <2>1. LinesOf(w) \in SUBSET (DOMAIN doc) /\ DOMAIN doc \ LinesOf(w) \in SUBSET (DOMAIN doc)
    BY DEF LinesOf
  <2> QED
    BY <2>1, LinesSeq DEF Without, Only
<1>4. ASSUME Move PROVE IsSeq(doc')
  <2>1. PICK w \in Ids(doc) : \E i \in Gaps(Without(w)) : doc' = Spliced(Without(w), i, Only(w))
    BY <1>4 DEF Move
  <2>2. PICK i \in Gaps(Without(w)) : doc' = Spliced(Without(w), i, Only(w))
    BY <2>1
  <2>3. i \in 1..(Len(Without(w)) + 1)
    BY DEF Gaps
  <2> QED
    BY <1>3, <2>2, <2>3, SplicedSeq
<1>5. ASSUME Erase PROVE IsSeq(doc')
  BY <1>3, <1>5 DEF Erase
<1>6. IsSeq(doc')
  BY <1>1, <1>2, <1>4, <1>5
<1> QED
  BY <1>6 DEF IsSeq

-----------------------------------------------------------------------------
(* The invariant.  Rows and versions of rows have their columns, and an ingest *)
(* is where it is.                                                          *)

Columns(x) ==
  x = [event |-> x.event, key |-> x.key, home |-> x.home, head |-> x.head, body |-> x.body,
       delivery |-> x.delivery, who |-> x.who]

Deliverable(x) == x.delivery \in {"queued", "claimed", "written"} => IsSeq(x.body)

Table(f) == DOMAIN f \subseteq Numbers /\ \A r \in DOMAIN f : Columns(f[r]) /\ Deliverable(f[r])

Running(s) == s = [pc |-> s.pc, entries |-> s.entries, n |-> s.n, dirty |-> s.dirty, dreams |-> s.dreams]

Shapes ==
  /\ IsSeq(doc) /\ Table(rows)
  /\ DOMAIN call = Calls /\ \A c \in Calls : call[c].pc = "insert" => call[c].draft \in Drafts
  /\ DOMAIN sync = Ingests /\ \A i \in Ingests : Running(sync[i]) /\ Table(sync[i].dirty)

(* An ingest writes rows that nobody else is writing, and leaves a captured   *)
(* dream its event and its text; new rows have no event.                    *)
Locked ==
  \A i, j \in Ingests : i # j => DOMAIN sync[i].dirty \cap DOMAIN sync[j].dirty = {}

Remembered ==
  \A i \in Ingests : \A r \in DOMAIN sync[i].dirty :
    IF r \in DOMAIN rows
    THEN sync[i].dirty[r].event = rows[r].event /\ sync[i].dirty[r].body = rows[r].body
    ELSE sync[i].dirty[r].event = NoEvent

(* Keys are unique, in what is committed and in what each ingest sees, and no *)
(* two ingests write the same one.                                          *)
OneKey(f) == \A r, s \in DOMAIN f : r # s /\ f[r].key = f[s].key => f[r].key = NoKey

KeysUnique == OneKey(rows) /\ \A i \in Ingests : OneKey(Seen(i))

KeysApart ==
  \A i, j \in Ingests : i # j =>
    \A r \in DOMAIN sync[i].dirty, s \in DOMAIN sync[j].dirty :
      sync[i].dirty[r].key # sync[j].dirty[s].key

(* The entries before the current one are in rows, as they were fetched.     *)
Searching == {"find", "rename", "vanish", "adopt", "insert"}

StoredSoFar(s) ==
  /\ Fetched(s.entries) /\ s.dreams \in Seq(Numbers) /\ Len(s.dreams) <= Len(s.entries)
  /\ s.pc \in Searching => s.n \in DOMAIN s.entries /\ Len(s.dreams) = s.n - 1
  /\ s.pc = "commit" => Len(s.dreams) = Len(s.entries)
  /\ \A m \in DOMAIN s.dreams :
       /\ s.dreams[m] \in DOMAIN s.dirty
       /\ s.dirty[s.dreams[m]].key = s.entries[m].key
       /\ s.dirty[s.dreams[m]].body = s.entries[m].body
       /\ s.dirty[s.dreams[m]].head = <<s.entries[m].key[1], s.entries[m].key[2]>>

Relations ==
  /\ Locked /\ Remembered /\ KeysUnique /\ KeysApart
  /\ \A i \in Ingests : StoredSoFar(sync[i])

IInv == Shapes /\ Relations

-----------------------------------------------------------------------------
(* What the steps of an ingest do to its state.                              *)

LEMMA GotoStep ==
  ASSUME Shapes, NEW i \in Ingests, NEW pc, Goes(i, pc)
  PROVE  /\ DOMAIN sync' = Ingests /\ \A j \in Ingests \ {i} : sync'[j] = sync[j]
         /\ Running(sync'[i]) /\ sync'[i].pc = pc /\ sync'[i].n = sync[i].n
         /\ sync'[i].entries = sync[i].entries /\ sync'[i].dirty = sync[i].dirty
         /\ sync'[i].dreams = sync[i].dreams
BY DEF Goes, Shapes, Running

LEMMA GiveUpStep ==
  ASSUME Shapes, NEW i \in Ingests, GiveUp(i)
  PROVE  /\ DOMAIN sync' = Ingests /\ \A j \in Ingests \ {i} : sync'[j] = sync[j]
         /\ Running(sync'[i]) /\ sync'[i].pc = "rest" /\ sync'[i].entries = <<>>
         /\ sync'[i].dirty = <<>> /\ sync'[i].dreams = <<>>
BY DEF GiveUp, Shapes, Running, Resting

LEMMA FetchStep ==
  ASSUME Shapes, NEW i \in Ingests, FetchEntries(i)
  PROVE  /\ DOMAIN sync' = Ingests /\ \A j \in Ingests \ {i} : sync'[j] = sync[j]
         /\ Running(sync'[i]) /\ sync'[i].entries = Snapshot(doc) /\ sync'[i].n = 1
         /\ sync'[i].pc = IF Snapshot(doc) = <<>> THEN "commit" ELSE "find"
         /\ sync'[i].dirty = <<>> /\ sync'[i].dreams = <<>>
BY DEF FetchEntries, Shapes, Running, Resting

LEMMA AdvanceStep ==
  ASSUME Shapes, NEW i \in Ingests, NEW r, NEW v, Advance(i, r, v)
  PROVE  /\ DOMAIN sync' = Ingests /\ \A j \in Ingests \ {i} : sync'[j] = sync[j]
         /\ Running(sync'[i]) /\ sync'[i].entries = sync[i].entries
         /\ sync'[i].n = sync[i].n + 1 /\ sync'[i].dreams = Append(sync[i].dreams, r)
         /\ sync'[i].dirty = Put(sync[i].dirty, r, v)
         /\ sync'[i].pc = IF sync[i].n = Len(sync[i].entries) THEN "commit" ELSE "find"
BY DEF Advance, Shapes, Running

LEMMA PutAt ==
  ASSUME NEW f, NEW x, NEW v
  PROVE  /\ DOMAIN Put(f, x, v) = DOMAIN f \cup {x} /\ Put(f, x, v)[x] = v
         /\ \A y \in DOMAIN f \ {x} : Put(f, x, v)[y] = f[y]
BY DEF Put

LEMMA OverAt ==
  ASSUME NEW f, NEW g
  PROVE  /\ DOMAIN Over(f, g) = DOMAIN f \cup DOMAIN g
         /\ \A y \in DOMAIN f : Over(f, g)[y] = f[y]
         /\ \A y \in DOMAIN g \ DOMAIN f : Over(f, g)[y] = g[y]
BY DEF Over

LEMMA EmptyFetched == Fetched(<<>>) /\ Table(<<>>)
<1>1. <<>> \in Seq({}) /\ DOMAIN <<>> = {}
  OBVIOUS
<1> QED
  BY <1>1, SomeSeq DEF Fetched, Table

-----------------------------------------------------------------------------
(* Kinds of steps that keep the relations.                                   *)

\* Nothing of an ingest changes, and a row at most in what no key depends on, or a row
\* is added that nobody is writing, without a key.
RowsEvolve ==
  /\ UNCHANGED sync /\ DOMAIN rows \subseteq DOMAIN rows'
  /\ \A r \in DOMAIN rows : /\ rows'[r].event = rows[r].event /\ rows'[r].key = rows[r].key
                            /\ rows'[r].body = rows[r].body
  /\ \A r \in DOMAIN rows' \ DOMAIN rows :
       rows'[r].key = NoKey /\ \A i \in Ingests : r \notin DOMAIN sync[i].dirty

LEMMA EvolveKeeps ==
  ASSUME IInv, RowsEvolve
  PROVE  Relations'
<1>0. Locked /\ Remembered /\ KeysUnique /\ KeysApart /\ \A h \in Ingests : StoredSoFar(sync[h])
  BY DEF IInv, Relations
<1>1. Locked' /\ KeysApart' /\ \A i \in Ingests : StoredSoFar(sync'[i])
  BY <1>0 DEF RowsEvolve, Locked, KeysApart
<1>2. Remembered'
  BY <1>0 DEF RowsEvolve, Remembered
<1>3. OneKey(rows)'
  BY <1>0 DEF RowsEvolve, KeysUnique, OneKey
<1>4. ASSUME NEW i \in Ingests PROVE OneKey(Seen(i))'
  <2> DEFINE old == Over(sync[i].dirty, rows)
             new == Over(sync[i].dirty, rows')
  <2>1. OneKey(old) /\ (OneKey(new) => OneKey(Seen(i))')
    BY <1>0 DEF KeysUnique, Seen, RowsEvolve
  <2>2. /\ DOMAIN old \subseteq DOMAIN new
        /\ \A r \in DOMAIN old : new[r].key = old[r].key
        /\ \A r \in DOMAIN new \ DOMAIN old : new[r].key = NoKey
    BY DEF RowsEvolve, Over
  <2> HIDE DEF old, new
  <2> QED
    BY <2>1, <2>2 DEF OneKey
<1> QED
  BY <1>1, <1>2, <1>3, <1>4 DEF KeysUnique, Relations

\* The ingest writes nothing yet, or nothing more.
Begins(i) ==
  /\ UNCHANGED rows /\ \A j \in Ingests \ {i} : sync'[j] = sync[j]
  /\ sync'[i].dirty = <<>> /\ StoredSoFar(sync'[i])

LEMMA BeginsKeeps ==
  ASSUME IInv, NEW i \in Ingests, Begins(i)
  PROVE  Relations'
<1>0. Locked /\ Remembered /\ KeysUnique /\ KeysApart /\ \A h \in Ingests : StoredSoFar(sync[h])
  BY DEF IInv, Relations
<1>1. DOMAIN sync'[i].dirty = {} /\ \A j \in Ingests : j = i \/ sync'[j] = sync[j]
  BY DEF Begins
<1>2. Locked' /\ KeysApart'
  BY <1>0, <1>1 DEF Locked, KeysApart
<1>3. Remembered' /\ \A j \in Ingests : StoredSoFar(sync'[j])
  BY <1>0, <1>1 DEF Begins, Remembered
<1>4. OneKey(rows)'
  BY <1>0 DEF Begins, KeysUnique, OneKey
<1>5. ASSUME NEW j \in Ingests PROVE OneKey(Seen(j))'
  <2> DEFINE old == Over(sync[j].dirty, rows)
             new == Over(sync'[j].dirty, rows)
  <2>1. OneKey(old) /\ (OneKey(new) => OneKey(Seen(j))')
    BY <1>0 DEF KeysUnique, Seen, Begins
  <2>2. CASE j # i
    BY <1>1, <2>1, <2>2
  <2>3. CASE j = i
    <3>1. DOMAIN new = DOMAIN rows /\ \A r \in DOMAIN rows : new[r] = rows[r]
      BY <1>1, <2>3 DEF Over
    <3> HIDE DEF new
    <3>2. OneKey(new)
      BY <1>0, <3>1 DEF KeysUnique, OneKey
    <3> QED
      BY <2>1, <3>2
  <2> QED
    BY <2>2, <2>3
<1> QED
  BY <1>2, <1>3, <1>4, <1>5 DEF KeysUnique, Relations

\* The ingest goes on with the same entry.
Searches(i) ==
  /\ UNCHANGED rows /\ \A j \in Ingests \ {i} : sync'[j] = sync[j]
  /\ sync'[i].dirty = sync[i].dirty /\ StoredSoFar(sync'[i])

LEMMA SearchesKeeps ==
  ASSUME IInv, NEW i \in Ingests, Searches(i)
  PROVE  Relations'
<1>0. Locked /\ Remembered /\ KeysUnique /\ KeysApart /\ \A h \in Ingests : StoredSoFar(sync[h])
  BY DEF IInv, Relations
<1>1. \A j \in Ingests : sync'[j].dirty = sync[j].dirty
  BY DEF Searches
<1>2. Locked' /\ KeysApart' /\ Remembered' /\ \A j \in Ingests : StoredSoFar(sync'[j])
  BY <1>0, <1>1 DEF Searches, Locked, KeysApart, Remembered
<1>3. \A j \in Ingests : Seen(j)' = Seen(j)
  BY <1>1 DEF Searches, Seen
<1>4. KeysUnique'
  BY <1>0, <1>3 DEF Searches, KeysUnique, OneKey
<1> QED
  BY <1>2, <1>4 DEF Relations

\* The ingest puts its entry into a row, new or old, that nobody else is writing, under a
\* key that no other row has and nobody else is writing.
Writes(i, r, v) ==
  /\ UNCHANGED rows /\ sync[i].pc \in Searching /\ Advance(i, r, v)
  /\ r \in Numbers /\ Columns(v) /\ Deliverable(v)
  /\ v.key = Entry(i).key /\ v.body = Entry(i).body
  /\ v.head = <<Entry(i).key[1], Entry(i).key[2]>>
  /\ WithKey(i) \ {r} = {}
  /\ \A j \in Ingests \ {i} : /\ r \notin DOMAIN sync[j].dirty
                              /\ \A s \in DOMAIN sync[j].dirty : sync[j].dirty[s].key # v.key
  /\ IF r \in DOMAIN Seen(i) THEN v.event = Seen(i)[r].event /\ v.body = Seen(i)[r].body
     ELSE v.event = NoEvent
  /\ \A m \in DOMAIN sync[i].dreams : sync[i].dreams[m] # r

LEMMA WritesKeeps ==
  ASSUME IInv, NEW i \in Ingests, NEW r, NEW v, Writes(i, r, v)
  PROVE  Relations' /\ Table(sync'[i].dirty)
<1>0. Shapes /\ Locked /\ Remembered /\ KeysUnique /\ KeysApart /\ \A h \in Ingests : StoredSoFar(sync[h])
  BY DEF IInv, Relations
<1> DEFINE old == sync[i]
           new == sync'[i]
<1>1. /\ \A j \in Ingests \ {i} : sync'[j] = sync[j]
      /\ new.entries = old.entries /\ new.n = old.n + 1 /\ new.dreams = Append(old.dreams, r)
      /\ new.dirty = Put(old.dirty, r, v)
      /\ new.pc = IF old.n = Len(old.entries) THEN "commit" ELSE "find"
  BY <1>0, AdvanceStep DEF Writes
<1>2. /\ DOMAIN new.dirty = DOMAIN old.dirty \cup {r} /\ new.dirty[r] = v
      /\ \A s \in DOMAIN old.dirty \ {r} : new.dirty[s] = old.dirty[s]
  BY <1>1 DEF Put
<1>3. Locked'
  BY <1>0, <1>1, <1>2 DEF Locked, Writes
<1>4. Remembered'
  <2>1. IF r \in DOMAIN rows THEN v.event = rows[r].event /\ v.body = rows[r].body
        ELSE v.event = NoEvent
    <3> DEFINE view == Over(old.dirty, rows)
    <3>1. IF r \in DOMAIN view THEN v.event = view[r].event /\ v.body = view[r].body
          ELSE v.event = NoEvent
      BY DEF Writes, Seen
    <3>2. CASE r \in DOMAIN old.dirty
      BY <1>0, <3>1, <3>2 DEF Over, Remembered
    <3>3. CASE r \notin DOMAIN old.dirty
      BY <3>1, <3>3 DEF Over
    <3> QED
      BY <3>2, <3>3
  <2>2. ASSUME NEW j \in Ingests, NEW s \in DOMAIN sync'[j].dirty
        PROVE  IF s \in DOMAIN rows
               THEN sync'[j].dirty[s].event = rows[s].event /\ sync'[j].dirty[s].body = rows[s].body
               ELSE sync'[j].dirty[s].event = NoEvent
    <3>1. CASE j = i /\ s = r
      BY <1>2, <2>1, <3>1
    <3>2. CASE ~(j = i /\ s = r)
      <4>1. s \in DOMAIN sync[j].dirty /\ sync'[j].dirty[s] = sync[j].dirty[s]
        BY <1>1, <1>2, <2>2, <3>2
      <4> QED
        BY <1>0, <4>1 DEF Remembered
    <3> QED
      BY <3>1, <3>2
  <2>3. rows' = rows
    BY DEF Writes
  <2> QED
    BY <2>2, <2>3 DEF Remembered
<1>5. KeysUnique'
  <2>1. OneKey(rows)'
    BY <1>0 DEF Writes, KeysUnique, OneKey
  <2>2. ASSUME NEW j \in Ingests \ {i} PROVE OneKey(Seen(j))'
    <3>1. Seen(j)' = Seen(j)
      BY <1>1 DEF Seen, Writes
    <3> QED
      BY <1>0, <3>1 DEF KeysUnique, OneKey
  <2>3. OneKey(Seen(i))'
    <3> DEFINE view  == Over(old.dirty, rows)
               after == Over(new.dirty, rows)
    <3>1. OneKey(view) /\ (OneKey(after) => OneKey(Seen(i))')
      BY <1>0 DEF KeysUnique, Seen, Writes
    <3>2. \A s \in DOMAIN view \ {r} : view[s].key # v.key
      BY DEF Writes, WithKey, Seen
    <3>3. /\ DOMAIN after = DOMAIN view \cup {r} /\ after[r] = v
          /\ \A s \in DOMAIN view \ {r} : after[s] = view[s]
      BY <1>2 DEF Over
    <3> HIDE DEF view, after
    <3>4. OneKey(after)
      BY <3>1, <3>2, <3>3 DEF OneKey
    <3> QED
      BY <3>1, <3>4
  <2> QED
    BY <2>1, <2>2, <2>3 DEF KeysUnique
<1>6. KeysApart'
  BY SMTT(30), <1>0, <1>1, <1>2 DEF KeysApart, Writes
<1>7. StoredSoFar(new)
  <2>1. /\ Fetched(old.entries) /\ old.dreams \in Seq(Numbers) /\ old.n \in DOMAIN old.entries
        /\ Len(old.dreams) = old.n - 1
    BY <1>0 DEF Writes, StoredSoFar
  <2>2. Len(old.entries) \in Nat /\ DOMAIN old.entries = 1..Len(old.entries)
    BY <2>1, SeqBounds DEF Fetched
  <2>3. old.n \in Nat /\ r \in Numbers /\ Len(old.dreams) \in Nat /\ DOMAIN old.dreams = 1..Len(old.dreams)
    BY <2>1, <2>2 DEF Writes
  <2>4. /\ new.dreams \in Seq(Numbers) /\ Len(new.dreams) = old.n /\ DOMAIN new.dreams = 1..old.n
        /\ new.dreams[old.n] = r /\ \A m \in DOMAIN old.dreams : new.dreams[m] = old.dreams[m]
    <3> DEFINE d == old.dreams
    <3>1. d \in Seq(Numbers) /\ Len(d) = old.n - 1 /\ old.n \in Nat /\ r \in Numbers
      BY <2>1, <2>3
    <3>2. new.dreams = Append(d, r)
      BY <1>1
    <3> HIDE DEF d
    <3>3. /\ Append(d, r) \in Seq(Numbers) /\ Len(Append(d, r)) = old.n
          /\ DOMAIN Append(d, r) = 1..old.n
          /\ Append(d, r)[old.n] = r /\ \A m \in DOMAIN d : Append(d, r)[m] = d[m]
      BY <3>1
    <3> QED
      BY <3>2, <3>3 DEF d
  <2>5. ASSUME NEW m \in DOMAIN new.dreams
        PROVE  /\ new.dreams[m] \in DOMAIN new.dirty
               /\ new.dirty[new.dreams[m]].key = new.entries[m].key
               /\ new.dirty[new.dreams[m]].body = new.entries[m].body
               /\ new.dirty[new.dreams[m]].head = <<new.entries[m].key[1], new.entries[m].key[2]>>
    <3>1. CASE m = old.n
      BY ZenonT(60), <1>1, <1>2, <2>4, <3>1 DEF Writes, Entry
    <3>2. CASE m \in DOMAIN old.dreams
      <4>1. new.dreams[m] = old.dreams[m] /\ old.dreams[m] # r
        BY <2>4, <3>2 DEF Writes
      <4>2. /\ old.dreams[m] \in DOMAIN old.dirty
            /\ old.dirty[old.dreams[m]].key = old.entries[m].key
            /\ old.dirty[old.dreams[m]].body = old.entries[m].body
            /\ old.dirty[old.dreams[m]].head = <<old.entries[m].key[1], old.entries[m].key[2]>>
        BY <1>0, <3>2 DEF StoredSoFar
      <4> QED
        BY ZenonT(60), <1>1, <1>2, <4>1, <4>2
    <3>3. m = old.n \/ m \in DOMAIN old.dreams
      BY <2>1, <2>3, <2>4
    <3> QED
      BY <3>1, <3>2, <3>3
  <2>6. new.pc \in Searching => new.n \in DOMAIN new.entries /\ Len(new.dreams) = new.n - 1
    <3> SUFFICES ASSUME new.pc \in Searching
                 PROVE  new.n \in DOMAIN new.entries /\ Len(new.dreams) = new.n - 1
      OBVIOUS
    <3>1. old.n # Len(old.entries)
      BY <1>1 DEF Searching
    <3>2. old.n + 1 \in 1..Len(old.entries)
      BY <2>1, <2>2, <2>3, <3>1
    <3>3. new.n \in DOMAIN new.entries
      BY <1>1, <2>2, <3>2
    <3>4. Len(new.dreams) = new.n - 1
      BY <1>1, <2>3, <2>4
    <3> QED
      BY <3>3, <3>4
  <2>7. new.pc = "commit" => Len(new.dreams) = Len(new.entries)
    BY <1>1, <2>4
  <2>8. Len(new.dreams) <= Len(new.entries)
    BY <1>1, <2>1, <2>2, <2>4
  <2> QED
    BY <1>1, <2>1, <2>4, <2>5, <2>6, <2>7, <2>8 DEF StoredSoFar
<1>8. \A j \in Ingests : StoredSoFar(sync'[j])
  BY <1>0, <1>1, <1>7
<1>9. Table(new.dirty)
  BY <1>0, <1>2 DEF Writes, Table, Shapes
<1> QED
  BY <1>3, <1>4, <1>5, <1>6, <1>8, <1>9 DEF Relations

LEMMA CommitKeeps ==
  ASSUME IInv, NEW i \in Ingests, Commit(i)
  PROVE  Relations' /\ Table(rows')
<1>0. Shapes /\ Locked /\ Remembered /\ KeysUnique /\ KeysApart /\ \A h \in Ingests : StoredSoFar(sync[h])
  BY DEF IInv, Relations
<1>1. /\ DOMAIN sync'[i].dirty = {} /\ \A j \in Ingests \ {i} : sync'[j] = sync[j]
      /\ StoredSoFar(sync'[i])
  <2>1. /\ sync'[i].pc = "rest" /\ sync'[i].entries = <<>> /\ sync'[i].dirty = <<>>
        /\ sync'[i].dreams = <<>> /\ \A j \in Ingests \ {i} : sync'[j] = sync[j]
    BY <1>0, GiveUpStep DEF Commit
  <2>2. <<>> \in Seq(Numbers) /\ Len(<<>>) = 0 /\ DOMAIN <<>> = {}
    OBVIOUS
  <2> QED
    BY <2>1, <2>2, EmptyFetched DEF StoredSoFar, Searching
<1>2. /\ DOMAIN rows' = DOMAIN sync[i].dirty \cup DOMAIN rows
      /\ \A r \in DOMAIN sync[i].dirty : rows'[r] = sync[i].dirty[r]
      /\ \A r \in DOMAIN rows \ DOMAIN sync[i].dirty : rows'[r] = rows[r]
  <2>1. rows' = Over(sync[i].dirty, rows)
    BY DEF Commit, Seen
  <2> QED
    BY <2>1 DEF Over
<1>3. Locked' /\ KeysApart' /\ \A j \in Ingests : StoredSoFar(sync'[j])
  BY <1>0, <1>1 DEF Locked, KeysApart
<1>4. Remembered'
  <2>1. ASSUME NEW j \in Ingests, NEW s \in DOMAIN sync'[j].dirty
        PROVE  /\ s \in DOMAIN rows' =>
                    /\ sync'[j].dirty[s].event = rows'[s].event
                    /\ sync'[j].dirty[s].body = rows'[s].body
               /\ s \notin DOMAIN rows' => sync'[j].dirty[s].event = NoEvent
    <3>1. j # i /\ sync'[j] = sync[j] /\ s \in DOMAIN sync[j].dirty
      BY <1>1, <2>1
    <3>2. s \notin DOMAIN sync[i].dirty
      BY <1>0, <3>1 DEF Locked
    <3>3. (s \in DOMAIN rows' <=> s \in DOMAIN rows) /\ (s \in DOMAIN rows => rows'[s] = rows[s])
      BY <1>2, <3>2
    <3> QED
      BY <1>0, <3>1, <3>3 DEF Remembered
  <2> QED
    BY <2>1 DEF Remembered
<1>5. OneKey(rows')
  BY <1>0 DEF Commit, KeysUnique
<1>6. ASSUME NEW j \in Ingests PROVE OneKey(Seen(j))'
  <2> DEFINE new  == Over(sync'[j].dirty, rows')
  <2>1. OneKey(new) => OneKey(Seen(j))'
    BY DEF Seen
  <2>2. CASE j = i
    <3>1. DOMAIN new = DOMAIN rows' /\ \A r \in DOMAIN rows' : new[r] = rows'[r]
      BY <1>1, <2>2 DEF Over
    <3> HIDE DEF new
    <3>2. OneKey(new)
      BY <1>5, <3>1 DEF OneKey
    <3> QED
      BY <2>1, <3>2
  <2>3. CASE j # i
    <3> DEFINE mine == sync[j].dirty
               old  == Over(mine, rows)
    <3>1. OneKey(old)
      BY <1>0 DEF KeysUnique, Seen
    <3>2. sync'[j].dirty = mine
      BY <1>1, <2>3
    <3>3. /\ DOMAIN new = DOMAIN mine \cup DOMAIN rows'
          /\ \A r \in DOMAIN mine : new[r] = mine[r]
          /\ \A r \in DOMAIN rows' \ DOMAIN mine : new[r] = rows'[r]
      BY <3>2 DEF Over
    <3>4. /\ \A r \in DOMAIN mine : r \in DOMAIN old /\ old[r] = mine[r]
          /\ \A r \in DOMAIN rows \ DOMAIN mine : r \in DOMAIN old /\ old[r] = rows[r]
      BY DEF Over
    <3> HIDE DEF new, old
    <3>5. ASSUME NEW r \in DOMAIN mine, NEW s \in DOMAIN rows' \ DOMAIN mine,
                 mine[r].key = rows'[s].key
          PROVE  mine[r].key = NoKey
      <4>1. s \notin DOMAIN sync[i].dirty
        BY <1>0, <1>2, <2>3, <3>5 DEF KeysApart
      <4>2. s \in DOMAIN rows /\ rows'[s] = rows[s]
        BY <1>2, <4>1
      <4> QED
        BY <3>1, <3>4, <3>5, <4>2 DEF OneKey
    <3>6. ASSUME NEW r \in DOMAIN mine, NEW s \in DOMAIN mine, r # s, mine[r].key = mine[s].key
          PROVE  mine[r].key = NoKey
      BY <3>1, <3>4, <3>6 DEF OneKey
    <3> HIDE DEF mine
    <3>7. OneKey(new)
      BY <1>5, <3>3, <3>5, <3>6 DEF OneKey
    <3> QED
      BY <2>1, <3>7
  <2> QED
    BY <2>2, <2>3
<1>7. Table(rows')
  BY <1>0, <1>2 DEF Table, Shapes
<1> QED
  BY <1>3, <1>4, <1>5, <1>6, <1>7 DEF KeysUnique, Relations

-----------------------------------------------------------------------------
(* Each statement of an ingest is of one of these kinds.                     *)

LEMMA SeenAt ==
  ASSUME IInv, NEW i \in Ingests
  PROVE  /\ \A r \in DOMAIN sync[i].dirty : r \in DOMAIN Seen(i) /\ Seen(i)[r] = sync[i].dirty[r]
         /\ \A r \in DOMAIN rows \ DOMAIN sync[i].dirty : r \in DOMAIN Seen(i) /\ Seen(i)[r] = rows[r]
         /\ DOMAIN Seen(i) = DOMAIN sync[i].dirty \cup DOMAIN rows
         /\ Table(Seen(i)) /\ OneKey(Seen(i))
<1>1. Shapes /\ KeysUnique
  BY DEF IInv, Relations
<1> DEFINE view == Over(sync[i].dirty, rows)
<1>2. /\ \A r \in DOMAIN sync[i].dirty : r \in DOMAIN view /\ view[r] = sync[i].dirty[r]
      /\ \A r \in DOMAIN rows \ DOMAIN sync[i].dirty : r \in DOMAIN view /\ view[r] = rows[r]
      /\ DOMAIN view = DOMAIN sync[i].dirty \cup DOMAIN rows
  BY DEF Over
<1> HIDE DEF view
<1>3. Table(view)
  BY <1>1, <1>2 DEF Shapes, Table
<1> QED
  BY <1>1, <1>2, <1>3 DEF KeysUnique, Seen, view

LEMMA EntryKeys ==
  ASSUME IInv, NEW i \in Ingests, sync[i].pc \in Searching
  PROVE  /\ Entry(i).key # NoKey /\ Entry(i).key \in Incoming(i)
         /\ \A m \in DOMAIN sync[i].dreams :
              /\ sync[i].dreams[m] \in DOMAIN sync[i].dirty
              /\ sync[i].dirty[sync[i].dreams[m]].key \in Incoming(i) \ {Entry(i).key, NoKey}
<1>1. StoredSoFar(sync[i])
  BY DEF IInv, Relations
<1> DEFINE es == sync[i].entries
           ds == sync[i].dreams
<1>2. /\ Fetched(es) /\ sync[i].n \in DOMAIN es /\ Len(ds) = sync[i].n - 1 /\ ds \in Seq(Numbers)
      /\ \A m \in DOMAIN ds : ds[m] \in DOMAIN sync[i].dirty /\ sync[i].dirty[ds[m]].key = es[m].key
  BY <1>1 DEF StoredSoFar
<1>3. DOMAIN es = 1..Len(es) /\ Len(es) \in Nat
  BY <1>2, SeqBounds DEF Fetched
<1>4. \A m \in DOMAIN ds : m \in DOMAIN es /\ m # sync[i].n
  <2>1. DOMAIN ds = 1..(sync[i].n - 1) /\ sync[i].n \in 1..Len(es)
    BY <1>2, <1>3
  <2> QED
    BY <1>3, <2>1
<1>5. /\ \A n \in DOMAIN es : es[n].key # NoKey
      /\ \A m, n \in DOMAIN es : m # n => es[m].key # es[n].key
  BY <1>2 DEF Fetched
<1>6. Entry(i) = es[sync[i].n] /\ Incoming(i) = {es[n].key : n \in DOMAIN es}
  BY DEF Entry, Incoming
<1>7. Entry(i).key # NoKey /\ Entry(i).key \in Incoming(i)
  BY <1>2, <1>5, <1>6
<1>8. ASSUME NEW m \in DOMAIN ds
      PROVE  es[m].key \in Incoming(i) \ {Entry(i).key, NoKey}
  BY <1>2, <1>4, <1>5, <1>6
<1> QED
  BY <1>2, <1>7, <1>8

LEMMA PlacedVersion ==
  ASSUME NEW x, NEW e, Columns(x), Deliverable(x), x.delivery \notin {"claimed", "written"}
  PROVE  /\ Columns(AsEntry(x, e)) /\ Deliverable(AsEntry(x, e))
         /\ AsEntry(x, e).key = e.key /\ AsEntry(x, e).head = <<e.key[1], e.key[2]>>
         /\ AsEntry(x, e).event = x.event /\ AsEntry(x, e).body = x.body
BY DEF Columns, Deliverable, AsEntry

LEMMA GivenUp ==
  ASSUME IInv, NEW i \in Ingests, GiveUp(i), UNCHANGED rows
  PROVE  Begins(i)
<1>1. Shapes
  BY DEF IInv
<1>2. /\ sync'[i].pc = "rest" /\ sync'[i].entries = <<>> /\ sync'[i].dirty = <<>>
      /\ sync'[i].dreams = <<>> /\ \A j \in Ingests \ {i} : sync'[j] = sync[j]
  BY <1>1, GiveUpStep
<1>3. <<>> \in Seq(Numbers) /\ Len(<<>>) = 0 /\ DOMAIN <<>> = {}
  OBVIOUS
<1> QED
  BY <1>2, <1>3, EmptyFetched DEF StoredSoFar, Searching, Begins

LEMMA GoneOn ==
  ASSUME IInv, NEW i \in Ingests, NEW pc \in Searching, sync[i].pc \in Searching, Goes(i, pc),
         UNCHANGED rows
  PROVE  Searches(i)
<1>1. Shapes /\ StoredSoFar(sync[i])
  BY DEF IInv, Relations
<1>2. /\ \A j \in Ingests \ {i} : sync'[j] = sync[j]
      /\ sync'[i].pc = pc /\ sync'[i].n = sync[i].n
      /\ sync'[i].entries = sync[i].entries /\ sync'[i].dirty = sync[i].dirty
      /\ sync'[i].dreams = sync[i].dreams
  BY <1>1, GotoStep
<1>3. StoredSoFar(sync'[i])
  <2>1. sync'[i].pc \in Searching /\ sync'[i].pc # "commit"
    BY <1>2 DEF Searching
  <2> QED
    BY <1>1, <1>2, <2>1 DEF StoredSoFar
<1> QED
  BY <1>2, <1>3 DEF Searches

LEMMA FetchBegins ==
  ASSUME IInv, NEW i \in Ingests, FetchEntries(i), UNCHANGED rows
  PROVE  Begins(i)
<1>1. Shapes
  BY DEF IInv
<1>2. /\ \A j \in Ingests \ {i} : sync'[j] = sync[j]
      /\ sync'[i].entries = Snapshot(doc) /\ sync'[i].n = 1
      /\ sync'[i].pc = IF Snapshot(doc) = <<>> THEN "commit" ELSE "find"
      /\ sync'[i].dirty = <<>> /\ sync'[i].dreams = <<>>
  BY <1>1, FetchStep
<1>3. Fetched(Snapshot(doc))
  BY <1>1, SnapshotFetched DEF Shapes
<1> DEFINE es == Snapshot(doc)
<1> HIDE DEF es
<1>4. IsSeq(es) /\ Len(es) \in Nat /\ DOMAIN es = 1..Len(es)
  BY <1>3, SeqBounds DEF Fetched, es
<1>5. es # <<>> => 1 \in DOMAIN es
  <2> SUFFICES ASSUME Len(es) = 0 PROVE es = <<>>
    BY <1>4
  <2> QED
    BY <1>4 DEF IsSeq
<1>6. <<>> \in Seq(Numbers) /\ Len(<<>>) = 0 /\ DOMAIN <<>> = {}
  OBVIOUS
<1>7. es = <<>> => Len(es) = 0
  OBVIOUS
<1>8. StoredSoFar(sync'[i])
  BY <1>2, <1>3, <1>4, <1>5, <1>6, <1>7 DEF StoredSoFar, Searching, es
<1> QED
  BY <1>2, <1>8 DEF Begins

\* An entry that takes the place of a row.
Free(i, r) ==
  \A j \in Ingests \ {i} : /\ r \notin DOMAIN sync[j].dirty
                           /\ \A s \in DOMAIN sync[j].dirty : sync[j].dirty[s].key # Entry(i).key

LEMMA Placed ==
  ASSUME IInv, NEW i \in Ingests, sync[i].pc \in Searching, UNCHANGED rows,
         NEW r \in DOMAIN Seen(i), Seen(i)[r].body = Entry(i).body, Free(i, r),
         \A m \in DOMAIN sync[i].dreams : sync[i].dreams[m] # r, Place(i, r)
  PROVE  Begins(i) \/ \E s, v : Writes(i, s, v)
<1> DEFINE old == Seen(i)[r]
           e   == Entry(i)
           v   == AsEntry(old, e)
<1>1. GiveUp(i) \/ (Advance(i, r, v) /\ WithKey(i) \ {r} = {} /\ old.delivery \notin {"claimed", "written"})
  BY DEF Place
<1>2. CASE GiveUp(i)
  BY <1>2, GivenUp
<1>3. CASE Advance(i, r, v) /\ WithKey(i) \ {r} = {} /\ old.delivery \notin {"claimed", "written"}
  <2>1. r \in Numbers /\ Columns(old) /\ Deliverable(old)
    BY SeenAt DEF Table
  <2>2. /\ Columns(v) /\ Deliverable(v) /\ v.key = e.key /\ v.body = e.body
        /\ v.head = <<e.key[1], e.key[2]>> /\ v.event = old.event /\ v.body = old.body
    BY <1>3, <2>1, PlacedVersion
  <2> HIDE DEF v
  <2>3. Writes(i, r, v)
    BY <1>3, <2>1, <2>2 DEF Writes, Free
  <2> QED
    BY <2>3
<1> QED
  BY <1>1, <1>2, <1>3

-----------------------------------------------------------------------------
\* What the locks that a statement waits for leave it.
LEMMA NobodyHolds ==
  ASSUME NEW i \in Ingests, NEW S, HolderOfRows(i, S) = {}, NEW r \in S
  PROVE  \A j \in Ingests \ {i} : r \notin DOMAIN sync[j].dirty
BY DEF HolderOfRows

LEMMA NobodyWrites ==
  ASSUME NEW i \in Ingests, HolderOfKey(i) = {}
  PROVE  \A j \in Ingests \ {i} : \A r \in DOMAIN sync[j].dirty :
           /\ sync[j].dirty[r].key # Entry(i).key
           /\ r \in DOMAIN rows => rows[r].key # Entry(i).key
BY DEF HolderOfKey

\* The row that has the key of the entry is free once nobody holds it.
LEMMA KeyedFree ==
  ASSUME IInv, NEW i \in Ingests, sync[i].pc \in Searching, NEW r \in WithKey(i),
         HolderOfRows(i, WithKey(i)) = {} \/ HolderOfKey(i) = {}
  PROVE  Free(i, r)
<1>1. r \in DOMAIN Seen(i) /\ Seen(i)[r].key = Entry(i).key
  BY DEF WithKey
<1>2. Locked /\ KeysApart /\ Entry(i).key # NoKey
  BY EntryKeys DEF IInv, Relations
<1>3. CASE r \in DOMAIN sync[i].dirty
  <2>1. sync[i].dirty[r].key = Entry(i).key
    BY <1>1, <1>3, SeenAt
  <2> QED
    BY <1>2, <1>3, <2>1 DEF Locked, KeysApart, Free
<1>4. CASE r \notin DOMAIN sync[i].dirty
  <2>1. r \in DOMAIN rows /\ rows[r].key = Entry(i).key
    BY <1>1, <1>4, SeenAt
  <2>2. CASE HolderOfKey(i) = {}
    BY <2>1, <2>2, NobodyWrites DEF Free
  <2>3. CASE HolderOfRows(i, WithKey(i)) = {}
    <3>1. ASSUME NEW j \in Ingests \ {i}, NEW s \in DOMAIN sync[j].dirty,
                 sync[j].dirty[s].key = Entry(i).key
          PROVE  FALSE
      <4>1. r \notin DOMAIN sync[j].dirty
        BY <2>3, NobodyHolds
      <4>2. /\ r \in DOMAIN Seen(j) /\ Seen(j)[r].key = Entry(i).key
            /\ s \in DOMAIN Seen(j) /\ Seen(j)[s].key = Entry(i).key /\ OneKey(Seen(j))
        BY <2>1, <3>1, <4>1, SeenAt
      <4>3. r # s
        BY <3>1, <4>1
      <4> QED
        BY <1>2, <4>2, <4>3 DEF OneKey
    <3> QED
      BY <2>3, <3>1, NobodyHolds DEF Free
  <2> QED
    BY <2>2, <2>3
<1> QED
  BY <1>3, <1>4

LEMMA KeyedUnused ==
  ASSUME IInv, NEW i \in Ingests, sync[i].pc \in Searching, NEW r \in DOMAIN Seen(i),
         Seen(i)[r].key \notin Incoming(i) \ {Entry(i).key, NoKey}
  PROVE  \A m \in DOMAIN sync[i].dreams : sync[i].dreams[m] # r
<1> SUFFICES ASSUME NEW m \in DOMAIN sync[i].dreams, sync[i].dreams[m] = r PROVE FALSE
  OBVIOUS
<1>1. r \in DOMAIN sync[i].dirty /\ sync[i].dirty[r].key \in Incoming(i) \ {Entry(i).key, NoKey}
  BY EntryKeys
<1>2. Seen(i)[r] = sync[i].dirty[r]
  BY <1>1, SeenAt
<1> QED
  BY <1>1, <1>2

LEMMA FindKinds ==
  ASSUME IInv, NEW i \in Ingests, AwaitedBy(i) = {}, FindByKey(i), UNCHANGED rows
  PROVE  Begins(i) \/ Searches(i) \/ \E r, v : Writes(i, r, v)
<1>1. sync[i].pc = "find" /\ sync[i].pc \in Searching /\ "rename" \in Searching
  BY DEF FindByKey, Searching
<1>2. HolderOfRows(i, WithKey(i)) = {}
  BY <1>1 DEF AwaitedBy
<1>3. CASE WithKey(i) = {}
  BY <1>1, <1>3, GoneOn DEF FindByKey
<1>4. CASE WithKey(i) # {}
  <2>1. PICK r \in WithKey(i) : IF Seen(i)[r].body # Entry(i).body THEN GiveUp(i) ELSE Place(i, r)
    BY <1>4 DEF FindByKey
  <2>2. CASE GiveUp(i)
    BY <2>2, GivenUp
  <2>3. CASE Seen(i)[r].body = Entry(i).body /\ Place(i, r)
    <3>1. r \in DOMAIN Seen(i) /\ Seen(i)[r].key = Entry(i).key
      BY DEF WithKey
    <3>2. Free(i, r)
      BY <1>1, <1>2, KeyedFree
    <3>3. \A m \in DOMAIN sync[i].dreams : sync[i].dreams[m] # r
      BY <1>1, <3>1, KeyedUnused
    <3> QED
      BY <1>1, <2>3, <3>1, <3>2, <3>3, Placed
  <2> QED
    BY <2>1, <2>2, <2>3
<1> QED
  BY <1>3, <1>4

LEMMA RenameKinds ==
  ASSUME IInv, NEW i \in Ingests, AwaitedBy(i) = {}, FindRenamed(i), UNCHANGED rows
  PROVE  Begins(i) \/ Searches(i) \/ \E r, v : Writes(i, r, v)
<1>1. sync[i].pc = "rename" /\ sync[i].pc \in Searching /\ "vanish" \in Searching
  BY DEF FindRenamed, Searching
<1>2. HolderOfRows(i, Renamed(i)) = {} /\ (Renamed(i) # {} => HolderOfKey(i) = {})
  BY <1>1 DEF AwaitedBy
<1>3. CASE GiveUp(i)
  BY <1>3, GivenUp
<1>4. CASE Goes(i, "vanish")
  BY <1>1, <1>4, GoneOn
<1>5. CASE \E r \in Renamed(i) : Place(i, r)
  <2>1. PICK r \in Renamed(i) : Place(i, r)
    BY <1>5
  <2>2. r \in DOMAIN Seen(i) /\ Seen(i)[r].body = Entry(i).body /\ Seen(i)[r].key \notin Incoming(i)
    BY DEF Renamed
  <2>3. Free(i, r)
    BY <1>2, NobodyHolds, NobodyWrites DEF Free
  <2>4. \A m \in DOMAIN sync[i].dreams : sync[i].dreams[m] # r
    BY <1>1, <2>2, KeyedUnused
  <2> QED
    BY <1>1, <2>1, <2>2, <2>3, <2>4, Placed
<1> QED
  BY <1>3, <1>4, <1>5 DEF FindRenamed

LEMMA AdoptKinds ==
  ASSUME IInv, NEW i \in Ingests, AwaitedBy(i) = {}, Adopt(i), UNCHANGED rows
  PROVE  Begins(i) \/ Searches(i) \/ \E r, v : Writes(i, r, v)
<1>1. sync[i].pc = "adopt" /\ sync[i].pc \in Searching /\ "insert" \in Searching
  BY DEF Adopt, Searching
<1>2. HolderOfRows(i, Adoptable(i)) = {} /\ (Adoptable(i) # {} => HolderOfKey(i) = {})
  BY <1>1 DEF AwaitedBy
<1>3. CASE Goes(i, "insert")
  BY <1>1, <1>3, GoneOn
<1>4. CASE \E r \in Adoptable(i) : Place(i, r)
  <2>1. PICK r \in Adoptable(i) : Place(i, r)
    BY <1>4
  <2>2. r \in DOMAIN Seen(i) /\ Seen(i)[r].body = Entry(i).body /\ Seen(i)[r].key = NoKey
    BY DEF Adoptable
  <2>3. Free(i, r)
    BY <1>2, NobodyHolds, NobodyWrites DEF Free
  <2>4. \A m \in DOMAIN sync[i].dreams : sync[i].dreams[m] # r
    BY <1>1, <2>2, KeyedUnused
  <2> QED
    BY <1>1, <2>1, <2>2, <2>3, <2>4, Placed
<1> QED
  BY <1>3, <1>4 DEF Adopt

LEMMA InsertKinds ==
  ASSUME IInv, NEW i \in Ingests, AwaitedBy(i) = {}, InsertEntry(i), UNCHANGED rows
  PROVE  Begins(i) \/ Searches(i) \/ \E r, v : Writes(i, r, v)
<1>1. sync[i].pc = "insert" /\ sync[i].pc \in Searching
  BY DEF InsertEntry, Searching
<1>2. HolderOfKey(i) = {}
  BY <1>1 DEF AwaitedBy
<1>3. CASE WithKey(i) = {}
  <2> DEFINE v == [event |-> NoEvent, key |-> Entry(i).key, home |-> "doc",
                   head |-> <<Entry(i).key[1], Entry(i).key[2]>>, body |-> Entry(i).body,
                   delivery |-> "none", who |-> Entry(i).who]
  <2>1. Advance(i, UnusedRow, v) /\ Fresh # {}
    BY <1>3 DEF InsertEntry
  <2>2. UnusedRow \in Fresh
    BY <2>1 DEF UnusedRow
  <2>3. UnusedRow \in Numbers /\ UnusedRow \notin DOMAIN rows /\ \A j \in Ingests : UnusedRow \notin DOMAIN sync[j].dirty
    BY <2>2 DEF Fresh
  <2>4. UnusedRow \notin DOMAIN Seen(i)
    BY ZenonT(60), <2>3, SeenAt
  <2>5. /\ Columns(v) /\ Deliverable(v) /\ v.key = Entry(i).key /\ v.body = Entry(i).body
        /\ v.head = <<Entry(i).key[1], Entry(i).key[2]>> /\ v.event = NoEvent
    BY DEF Columns, Deliverable
  <2>6. \A m \in DOMAIN sync[i].dreams : sync[i].dreams[m] # UnusedRow
    BY <1>1, <2>3, EntryKeys
  <2> HIDE DEF v
  <2>7. Writes(i, UnusedRow, v)
    BY <1>1, <1>2, <1>3, <2>1, <2>3, <2>4, <2>5, <2>6, NobodyWrites DEF Writes
  <2> QED
    BY <2>7
<1>4. CASE WithKey(i) # {}
  <2>1. PICK r \in WithKey(i) : IF Seen(i)[r].body # Entry(i).body THEN GiveUp(i) ELSE Place(i, r)
    BY <1>4 DEF InsertEntry
  <2>2. CASE GiveUp(i)
    BY <2>2, GivenUp
  <2>3. CASE Seen(i)[r].body = Entry(i).body /\ Place(i, r)
    <3>1. r \in DOMAIN Seen(i) /\ Seen(i)[r].key = Entry(i).key
      BY DEF WithKey
    <3>2. Free(i, r)
      BY <1>1, <1>2, KeyedFree
    <3>3. \A m \in DOMAIN sync[i].dreams : sync[i].dreams[m] # r
      BY <1>1, <3>1, KeyedUnused
    <3> QED
      BY <1>1, <2>3, <3>1, <3>2, <3>3, Placed
  <2> QED
    BY <2>1, <2>2, <2>3
<1> QED
  BY <1>3, <1>4

LEMMA StatementKinds ==
  ASSUME IInv, NEW i \in Ingests, Statement(i)
  PROVE  Begins(i) \/ Searches(i) \/ \E r, v : Writes(i, r, v)
<1>1. AwaitedBy(i) = {} /\ UNCHANGED rows
  BY DEF Statement
<1>2. CASE CheckVanished(i)
  <2>1. sync[i].pc \in Searching /\ "adopt" \in Searching /\ (GiveUp(i) \/ Goes(i, "adopt"))
    BY <1>2 DEF CheckVanished, Searching
  <2> QED
    BY <1>1, <2>1, GivenUp, GoneOn
<1> QED
  BY <1>1, <1>2, FetchBegins, FindKinds, RenameKinds, AdoptKinds, InsertKinds DEF Statement

-----------------------------------------------------------------------------
(* Every step keeps the invariant.                                           *)

LEMMA InitIInv == ArchiveInit => IInv
<1> SUFFICES ASSUME ArchiveInit PROVE IInv
  OBVIOUS
<1>1. IsSeq(doc)
  <2>1. Len(FirstDoc) \in Nat
    BY ArchiveAssumption
  <2>2. 2 * Len(FirstDoc) \in Nat
    BY <2>1
  <2>3. doc = [i \in 1..(2 * Len(FirstDoc)) |-> doc[i]]
    BY DEF ArchiveInit
  <2> QED
    BY <2>2, <2>3, BuiltSeq
<1>2. rows = <<>> /\ DOMAIN rows = {} /\ DOMAIN sync = Ingests /\ DOMAIN call = Calls
  BY DEF ArchiveInit
<1>3. \A c \in Calls : call[c].pc # "insert"
  BY DEF ArchiveInit
<1>4. \A i \in Ingests : sync[i] = Resting
  BY DEF ArchiveInit
<1>5. /\ Running(Resting) /\ Table(Resting.dirty) /\ DOMAIN Resting.dirty = {}
      /\ StoredSoFar(Resting)
  <2>1. <<>> \in Seq(Numbers) /\ Len(<<>>) = 0 /\ DOMAIN <<>> = {}
    OBVIOUS
  <2>2. /\ Resting.pc = "rest" /\ Resting.entries = <<>> /\ Resting.dirty = <<>>
        /\ Resting.dreams = <<>> /\ Running(Resting)
    BY DEF Resting, Running
  <2> QED
    BY <2>1, <2>2, EmptyFetched DEF StoredSoFar, Searching
<1>6. Shapes
  BY <1>1, <1>2, <1>3, <1>4, <1>5 DEF Shapes, Table
<1>7. Locked /\ Remembered /\ KeysApart
  BY <1>4, <1>5 DEF Locked, Remembered, KeysApart
<1>8. KeysUnique
  <2>1. ASSUME NEW i \in Ingests PROVE OneKey(Seen(i))
    <3> DEFINE view == Over(sync[i].dirty, rows)
    <3>1. DOMAIN view = {}
      BY <1>2, <1>4, <1>5 DEF Over
    <3> HIDE DEF view
    <3>2. OneKey(view)
      BY <3>1 DEF OneKey
    <3> QED
      BY <3>2 DEF view, Seen
  <2> QED
    BY <1>2, <2>1 DEF KeysUnique, OneKey
<1> QED
  BY <1>4, <1>5, <1>6, <1>7, <1>8 DEF IInv, Relations

\* What a statement does to the state of its ingest.
LEMMA StatementForms ==
  ASSUME NEW i \in Ingests, Statement(i)
  PROVE  FetchEntries(i) \/ GiveUp(i) \/ (\E pc : Goes(i, pc)) \/ \E r, v : Advance(i, r, v)
<1>1. ASSUME NEW r, Place(i, r) PROVE GiveUp(i) \/ \E s, v : Advance(i, s, v)
  BY <1>1 DEF Place
<1>2. ASSUME FindByKey(i) PROVE GiveUp(i) \/ (\E pc : Goes(i, pc)) \/ \E r, v : Advance(i, r, v)
  BY <1>1, <1>2 DEF FindByKey
<1>3. ASSUME FindRenamed(i) PROVE GiveUp(i) \/ (\E pc : Goes(i, pc)) \/ \E r, v : Advance(i, r, v)
  BY <1>1, <1>3 DEF FindRenamed
<1>4. ASSUME CheckVanished(i) PROVE GiveUp(i) \/ \E pc : Goes(i, pc)
  BY <1>4 DEF CheckVanished
<1>5. ASSUME Adopt(i) PROVE (\E pc : Goes(i, pc)) \/ GiveUp(i) \/ \E r, v : Advance(i, r, v)
  BY <1>1, <1>5 DEF Adopt
<1>6. ASSUME InsertEntry(i) PROVE GiveUp(i) \/ \E r, v : Advance(i, r, v)
  BY <1>1, <1>6 DEF InsertEntry
<1> QED
  BY <1>2, <1>3, <1>4, <1>5, <1>6 DEF Statement

LEMMA StatementStep ==
  ASSUME IInv, NEW i \in Ingests, Statement(i)
  PROVE  IInv'
<1>1. /\ Shapes /\ UNCHANGED <<rows, doc, call>>
  BY DEF IInv, Statement
<1>2. DOMAIN sync' = Ingests /\ Running(sync'[i]) /\ \A j \in Ingests \ {i} : sync'[j] = sync[j]
  BY <1>1, StatementForms, FetchStep, GiveUpStep, GotoStep, AdvanceStep
<1>3. Relations' /\ Table(sync'[i].dirty)
  <2>1. CASE Begins(i)
    <3>1. Table(sync'[i].dirty)
      BY <2>1, EmptyFetched DEF Begins
    <3> QED
      BY <2>1, <3>1, BeginsKeeps
  <2>2. CASE Searches(i)
    <3>1. Table(sync'[i].dirty)
      BY <1>1, <2>2 DEF Searches, Shapes
    <3> QED
      BY <2>2, <3>1, SearchesKeeps
  <2>3. CASE \E r, v : Writes(i, r, v)
    BY <2>3, WritesKeeps
  <2> QED
    BY <2>1, <2>2, <2>3, StatementKinds
<1>4. Shapes'
  BY <1>1, <1>2, <1>3 DEF Shapes
<1> QED
  BY <1>3, <1>4 DEF IInv

LEMMA GiveUpKeeps ==
  ASSUME IInv, NEW i \in Ingests, GiveUp(i), UNCHANGED <<rows, doc, call>>
  PROVE  IInv'
<1>1. Shapes
  BY DEF IInv
<1>2. /\ DOMAIN sync' = Ingests /\ Running(sync'[i]) /\ \A j \in Ingests \ {i} : sync'[j] = sync[j]
      /\ sync'[i].dirty = <<>>
  BY <1>1, GiveUpStep
<1>3. Relations'
  BY GivenUp, BeginsKeeps
<1>4. Table(sync'[i].dirty)
  BY <1>2, EmptyFetched
<1>5. Shapes'
  BY <1>1, <1>2, <1>4 DEF Shapes
<1> QED
  BY <1>3, <1>5 DEF IInv

LEMMA StoreStep ==
  ASSUME IInv, NEW i \in Ingests, Store(i)
  PROVE  IInv'
<1>1. Shapes /\ Commit(i) /\ GiveUp(i) /\ UNCHANGED <<doc, call>>
  BY DEF IInv, Store, Commit
<1>2. /\ DOMAIN sync' = Ingests /\ Running(sync'[i]) /\ \A j \in Ingests \ {i} : sync'[j] = sync[j]
      /\ sync'[i].dirty = <<>>
  BY <1>1, GiveUpStep
<1>3. Relations' /\ Table(rows')
  BY <1>1, CommitKeeps
<1>4. Table(sync'[i].dirty)
  BY <1>2, EmptyFetched
<1>5. Shapes'
  BY <1>1, <1>2, <1>3, <1>4 DEF Shapes
<1> QED
  BY <1>3, <1>5 DEF IInv

\* A step that leaves the ingests alone.
LEMMA RowsStep ==
  ASSUME IInv, RowsEvolve, Table(rows'), IsSeq(doc'), UNCHANGED call
  PROVE  IInv'
<1>1. Shapes'
  BY DEF IInv, Shapes, RowsEvolve
<1> QED
  BY <1>1, EvolveKeeps DEF IInv

LEMMA LookUpStep ==
  ASSUME IInv, NEW c \in Calls, LookUp(c)
  PROVE  IInv'
<1>1. Shapes /\ Relations /\ UNCHANGED <<rows, doc, sync>>
  BY DEF IInv, LookUp
<1>2. RowsEvolve
  BY <1>1 DEF RowsEvolve
<1>3. PICK draft \in Drafts :
        \/ call' = [call EXCEPT ![c] = [pc |-> "insert", draft |-> draft]]
        \/ call' = [call EXCEPT ![c] = [pc |-> "end"]]
  BY DEF LookUp
<1>4. DOMAIN call' = Calls /\ \A d \in Calls : call'[d].pc = "insert" => call'[d].draft \in Drafts
  <2>1. CASE call' = [call EXCEPT ![c] = [pc |-> "insert", draft |-> draft]]
    BY <1>1, <2>1 DEF Shapes
  <2>2. CASE call' = [call EXCEPT ![c] = [pc |-> "end"]]
    BY <1>1, <2>2 DEF Shapes
  <2> QED
    BY <1>3, <2>1, <2>2
<1>5. Shapes'
  BY <1>1, <1>4 DEF Shapes
<1> QED
  BY <1>2, <1>5, EvolveKeeps DEF IInv

-----------------------------------------------------------------------------
\* A row whose delivery alone changes.
LEMMA Redelivered ==
  ASSUME NEW x, NEW d, Columns(x), Deliverable(x),
         d = "done" \/ x.delivery \in {"queued", "claimed", "written"}
  PROVE  LET y == [x EXCEPT !.delivery = d] IN
         /\ Columns(y) /\ Deliverable(y)
         /\ y.event = x.event /\ y.key = x.key /\ y.body = x.body
<1> DEFINE y == [x EXCEPT !.delivery = d]
<1>1. y = [event |-> x.event, key |-> x.key, home |-> x.home, head |-> x.head, body |-> x.body,
           delivery |-> d, who |-> x.who]
  BY DEF Columns
<1> HIDE DEF y
<1>2. Columns(y) /\ y.delivery = d /\ y.event = x.event /\ y.key = x.key /\ y.body = x.body
  BY <1>1 DEF Columns
<1>3. Deliverable(y)
  BY <1>2 DEF Deliverable
<1> QED
  BY <1>2, <1>3 DEF y

LEMMA DeliveryStep ==
  ASSUME IInv, NEW r \in DOMAIN rows, Delivery(r)
  PROVE  IInv'
<1>1. /\ IsSeq(doc) /\ Table(rows) /\ Columns(rows[r]) /\ Deliverable(rows[r])
  BY SMTT(30) DEF IInv, Shapes, Table
<1>2. PICK d : /\ rows' = [rows EXCEPT ![r].delivery = d]
               /\ d = "done" \/ rows[r].delivery \in {"queued", "claimed", "written"}
  BY SMTT(30) DEF Delivery, ClaimDelivery, WriteDream, FinishDelivery
<1>3. UNCHANGED <<call, sync>>
  BY DEF Delivery, ClaimDelivery, WriteDream, FinishDelivery
<1> DEFINE y == [rows[r] EXCEPT !.delivery = d]
<1>4. /\ Columns(y) /\ Deliverable(y)
      /\ y.event = rows[r].event /\ y.key = rows[r].key /\ y.body = rows[r].body
  BY <1>1, <1>2, Redelivered
<1>5. DOMAIN rows' = DOMAIN rows /\ rows'[r] = y /\ \A s \in DOMAIN rows \ {r} : rows'[s] = rows[s]
  BY <1>2
<1> HIDE DEF y
<1>6. RowsEvolve
  BY <1>3, <1>4, <1>5 DEF RowsEvolve
<1>7. Table(rows')
  BY <1>1, <1>4, <1>5 DEF Table
<1>8. IsSeq(doc')
  <2>1. CASE UNCHANGED doc
    BY <1>1, <2>1
  <2>2. CASE WriteDream(r)
    <3> DEFINE at   == InsertIndex(ParasOf(doc), rows[r].head[1])
               line == <<[form |-> "line", date |-> rows[r].head[1], text |-> rows[r].head[2][2]]>>
               text == rows[r].body
    <3>1. doc' = Spliced(doc, at, Signed(rows[r].who, line \o text))
      BY <2>2 DEF WriteDream, Written, Spliced
    <3>2. rows[r].delivery = "claimed"
      BY <2>2 DEF WriteDream
    <3>3. IsSeq(text)
      BY <1>1, <3>2 DEF Deliverable
    <3>4. IsSeq(line)
      <4>1. line \in Seq({line[1]})
        OBVIOUS
      <4> QED
        BY <4>1, SomeSeq
    <3>5. at \in 1..(Len(doc) + 1)
      BY <1>1, ParasSeq, InsertIndexFits
    <3> HIDE DEF at, line, text
    <3>6. IsSeq(Signed(rows[r].who, line \o text))
      BY <3>3, <3>4, JoinedSeq, SignedSeq
    <3> QED
      BY <1>1, <3>1, <3>5, <3>6, SplicedSeq
  <2> QED
    BY <2>1, <2>2 DEF Delivery, ClaimDelivery, FinishDelivery
<1> QED
  BY <1>3, <1>6, <1>7, <1>8, RowsStep

LEMMA FreshRow ==
  ASSUME Fresh # {}
  PROVE  UnusedRow \in Numbers /\ UnusedRow \notin DOMAIN rows /\ \A j \in Ingests : UnusedRow \notin DOMAIN sync[j].dirty
<1>1. UnusedRow \in Fresh
  BY DEF UnusedRow
<1> QED
  BY <1>1 DEF Fresh

LEMMA CapturedRow ==
  ASSUME NEW draft \in Drafts, NEW w
  PROVE  /\ Columns(Captured(draft, w)) /\ Deliverable(Captured(draft, w))
         /\ Captured(draft, w).key = NoKey
         /\ Captured(draft, w).event = draft.event /\ Captured(draft, w).body = draft.body
<1>1. draft.body \in Bodies
  BY ArchiveAssumption
<1>2. IsSeq(draft.body)
  BY <1>1, SomeSeq DEF Bodies
<1> QED
  BY <1>2 DEF Captured, Columns, Deliverable

LEMMA InsertStep ==
  ASSUME IInv, NEW c \in Calls, Insert(c)
  PROVE  IInv'
<1>1. /\ Shapes /\ Relations /\ UNCHANGED <<doc, sync>> /\ Fresh # {} /\ call[c].pc = "insert"
      /\ call' = [call EXCEPT ![c] = [pc |-> "end"]]
  BY DEF IInv, Insert
<1> DEFINE draft == call[c].draft
           new   == Captured(draft, born + 1)
<1>2. draft \in Drafts
  BY <1>1 DEF Shapes
<1>3. rows' = Put(rows, UnusedRow, new) \/ rows' = rows
  BY DEF Insert
<1>4. UnusedRow \in Numbers /\ UnusedRow \notin DOMAIN rows /\ \A j \in Ingests : UnusedRow \notin DOMAIN sync[j].dirty
  BY <1>1, FreshRow
<1>5. Columns(new) /\ Deliverable(new) /\ new.key = NoKey
  BY <1>2, CapturedRow
<1> HIDE DEF new
<1>6. ASSUME rows' = Put(rows, UnusedRow, new) PROVE RowsEvolve /\ Table(rows')
  <2>0. Table(rows)
    BY <1>1 DEF Shapes
  <2>1. /\ DOMAIN rows' = DOMAIN rows \cup {UnusedRow} /\ rows'[UnusedRow] = new
        /\ \A r \in DOMAIN rows : rows'[r] = rows[r]
    BY <1>4, <1>6 DEF Put
  <2>2. RowsEvolve
    BY <1>1, <1>4, <1>5, <2>1 DEF RowsEvolve
  <2>3. Table(rows')
    BY <1>4, <1>5, <2>0, <2>1 DEF Table
  <2> QED
    BY <2>2, <2>3
<1>7. ASSUME rows' = rows PROVE RowsEvolve /\ Table(rows')
  BY <1>1, <1>7 DEF RowsEvolve, Shapes
<1>8. RowsEvolve /\ Table(rows')
  BY <1>3, <1>6, <1>7
<1>9. DOMAIN call' = Calls /\ \A d \in Calls : call'[d].pc = "insert" => call'[d].draft \in Drafts
  BY <1>1 DEF Shapes
<1>10. Shapes'
  BY <1>1, <1>8, <1>9 DEF Shapes
<1> QED
  BY <1>8, <1>10, EvolveKeeps DEF IInv

LEMMA HumanStep ==
  ASSUME IInv, Type \/ Retitle \/ Reword \/ Move \/ Erase
  PROVE  IInv'
<1>1. UNCHANGED <<rows, call, sync>>
  BY DEF Type, Retitle, Reword, Move, Erase, HumanEdits
<1>2. IsSeq(doc) /\ Table(rows)
  BY DEF IInv, Shapes
<1>3. IsSeq(doc')
  BY <1>2, HumanSeq
<1> QED
  BY <1>1, <1>2, <1>3, RowsStep DEF RowsEvolve

LEMMA NextIInv == IInv /\ [ArchiveNext]_archiveVars => IInv'
<1> SUFFICES ASSUME IInv, [ArchiveNext]_archiveVars PROVE IInv'
  OBVIOUS
<1>1. CASE UNCHANGED archiveVars
  <2>1. UNCHANGED <<rows, call, sync, doc>>
    BY <1>1 DEF archiveVars
  <2>2. IsSeq(doc) /\ Table(rows)
    BY DEF IInv, Shapes
  <2> QED
    BY <2>1, <2>2, RowsStep DEF RowsEvolve
<1>2. ASSUME NEW i \in Ingests, Deadlock(i) \/ Abort(i) PROVE IInv'
  BY <1>2, GiveUpKeeps DEF Deadlock, Abort
<1> QED
  BY <1>1, <1>2, LookUpStep, InsertStep, DeliveryStep, HumanStep, StatementStep, StoreStep
     DEF ArchiveNext, Ingest

\* Whatever messages, humans and overlapping ingests do in between: no two dreams of the
\* archive have one key in the document, no two transactions write one row, no ingest changes
\* event or text of a captured dream, and what it has passed is in its rows as it was fetched
\* (_store_entries, with the unique index of source keys).
THEOREM Consistent == ArchiveSpec => []IInv
BY InitIInv, NextIInv, PTL DEF ArchiveSpec

-----------------------------------------------------------------------------
(* What an ingest commits.                                                   *)

StoredIn(f, s) ==
  /\ Len(s.dreams) = Len(s.entries)
  /\ \A n \in DOMAIN s.entries :
       LET r == s.dreams[n] e == s.entries[n] IN
       /\ f[r].key = e.key /\ f[r].body = e.body /\ f[r].head = <<e.key[1], e.key[2]>>
       /\ \A t \in DOMAIN f \ {r} : f[t].key # e.key
       /\ \A m \in DOMAIN s.entries \ {n} : s.dreams[m] # r

LEMMA SnapshotStored ==
  ASSUME IInv, NEW i \in Ingests, sync[i].pc = "commit"
  PROVE  StoredIn(Seen(i), sync[i])
<1> DEFINE es == sync[i].entries
           ds == sync[i].dreams
           my == sync[i].dirty
<1>1. /\ Fetched(es) /\ ds \in Seq(Numbers) /\ Len(ds) = Len(es)
      /\ \A m \in DOMAIN ds :
           /\ ds[m] \in DOMAIN my /\ my[ds[m]].key = es[m].key /\ my[ds[m]].body = es[m].body
           /\ my[ds[m]].head = <<es[m].key[1], es[m].key[2]>>
  BY DEF IInv, Relations, StoredSoFar
<1>2. DOMAIN ds = DOMAIN es
  <2>1. DOMAIN es = 1..Len(es) /\ Len(es) \in Nat
    BY <1>1, SeqBounds DEF Fetched
  <2> QED
    BY <1>1, <2>1
<1>3. /\ \A r \in DOMAIN my : r \in DOMAIN Seen(i) /\ Seen(i)[r] = my[r]
      /\ OneKey(Seen(i))
  BY SeenAt
<1> HIDE DEF es, ds, my
<1>4. ASSUME NEW n \in DOMAIN es
      PROVE  /\ Seen(i)[ds[n]].key = es[n].key /\ Seen(i)[ds[n]].body = es[n].body
             /\ Seen(i)[ds[n]].head = <<es[n].key[1], es[n].key[2]>>
             /\ \A s \in DOMAIN Seen(i) \ {ds[n]} : Seen(i)[s].key # es[n].key
             /\ \A m \in DOMAIN es \ {n} : ds[m] # ds[n]
  <2>1. /\ ds[n] \in DOMAIN Seen(i) /\ Seen(i)[ds[n]].key = es[n].key
        /\ Seen(i)[ds[n]].body = es[n].body /\ Seen(i)[ds[n]].head = <<es[n].key[1], es[n].key[2]>>
    BY <1>1, <1>2, <1>3
  <2>2. es[n].key # NoKey
    BY <1>1 DEF Fetched
  <2>3. \A s \in DOMAIN Seen(i) \ {ds[n]} : Seen(i)[s].key # es[n].key
    BY <1>3, <2>1, <2>2 DEF OneKey
  <2>4. \A m \in DOMAIN es \ {n} : ds[m] # ds[n]
    BY <1>1, <1>2 DEF Fetched
  <2> QED
    BY <2>1, <2>3, <2>4
<1> QED
  BY <1>1, <1>4 DEF es, ds, StoredIn

\* An ingest that commits has stored what it fetched, entry by entry with heading and text,
\* whatever other ingests, messages and the human did meanwhile (_store_entries).
THEOREM Stored == ArchiveSpec => StoredAsFetched
<1>1. ASSUME IInv, NEW i \in Ingests, sync[i].pc = "commit", rows' = Seen(i)
      PROVE  StoredIn(rows', sync[i])
  BY <1>1, SnapshotStored
<1>2. IInv => \A i \in Ingests : sync[i].pc = "commit" /\ sync'[i].pc = "rest" /\ rows' = Seen(i) =>
                StoredIn(rows', sync[i])
  BY <1>1
<1>3. IInv => [\A i \in Ingests :
                 sync[i].pc = "commit" /\ sync'[i].pc = "rest" /\ rows' = Seen(i) =>
                 /\ Len(sync[i].dreams) = Len(sync[i].entries)
                 /\ \A n \in DOMAIN sync[i].entries :
                      LET r == sync[i].dreams[n] e == sync[i].entries[n] IN
                      /\ rows'[r].key = e.key /\ rows'[r].body = e.body
                      /\ rows'[r].head = <<e.key[1], e.key[2]>>
                      /\ \A s \in DOMAIN rows' \ {r} : rows'[s].key # e.key
                      /\ \A m \in DOMAIN sync[i].entries \ {n} : sync[i].dreams[m] # r]_archiveVars
  BY <1>2 DEF StoredIn
<1> QED
  BY <1>3, Consistent, PTL DEF ArchiveSpec, StoredAsFetched

-----------------------------------------------------------------------------
(* What capture promises, through everything else that happens to the rows.  *)

RowsStay == [e \in Events |-> {<<r, rows[r].body>> : r \in HolderOf(e)}]

\* A row keeps the event it was captured for, and its text; other rows have none.
EventsStay ==
  /\ \A r \in DOMAIN rows : /\ r \in DOMAIN rows' /\ rows'[r].event = rows[r].event
                            /\ rows'[r].body = rows[r].body
  /\ \A r \in DOMAIN rows' \ DOMAIN rows : rows'[r].event = NoEvent

LEMMA KeptStays ==
  ASSUME EventsStay
  PROVE  UNCHANGED RowsStay
<1>1. ASSUME NEW e \in Events
      PROVE  {<<r, rows[r].body>> : r \in HolderOf(e)} = {<<r, rows'[r].body>> : r \in HolderOf(e)'}
  <2>1. e # NoEvent
    BY ArchiveAssumption
  <2>2. HolderOf(e)' = HolderOf(e)
    BY <2>1 DEF EventsStay, HolderOf
  <2>3. \A r \in HolderOf(e) : rows'[r].body = rows[r].body
    BY DEF EventsStay, HolderOf
  <2> QED
    BY <2>2, <2>3
<1> QED
  BY <1>1 DEF RowsStay

LEMMA IngestsRemember ==
  ASSUME IInv, NEW i \in Ingests, Store(i)
  PROVE  EventsStay
<1>1. rows' = Seen(i) /\ Remembered
  BY DEF Store, Commit, IInv, Relations
<1>2. /\ DOMAIN rows' = DOMAIN sync[i].dirty \cup DOMAIN rows
      /\ \A r \in DOMAIN sync[i].dirty : rows'[r] = sync[i].dirty[r]
      /\ \A r \in DOMAIN rows \ DOMAIN sync[i].dirty : rows'[r] = rows[r]
  BY <1>1, SeenAt
<1> QED
  BY <1>1, <1>2 DEF EventsStay, Remembered

LEMMA OthersRemember ==
  ASSUME IInv, NEW r \in DOMAIN rows, Delivery(r)
  PROVE  EventsStay
<1>1. PICK d : rows' = [rows EXCEPT ![r].delivery = d]
  BY DEF Delivery, ClaimDelivery, WriteDream, FinishDelivery
<1>2. Columns(rows[r])
  BY DEF IInv, Shapes, Table
<1> DEFINE y == [rows[r] EXCEPT !.delivery = d]
<1>3. y.event = rows[r].event /\ y.body = rows[r].body
  BY <1>2 DEF Columns
<1>4. DOMAIN rows' = DOMAIN rows /\ rows'[r] = y /\ \A s \in DOMAIN rows \ {r} : rows'[s] = rows[s]
  BY <1>1
<1> HIDE DEF y
<1> QED
  BY <1>3, <1>4 DEF EventsStay

LEMMA RecogniseRegister ==
  ASSUME IInv, NEW draft \in Drafts, Recognise(draft), UNCHANGED RowsStay
  PROVE  Register!Next
<1>1. draft.event \in Events
  BY ArchiveAssumption
<1> DEFINE e == draft.event
           b == draft.body
<1>2. PICK r \in HolderOf(e) : Say(draft, IF rows[r].body = b THEN "existing" ELSE "conflict", r)
  BY DEF Recognise
<1>3. r \in Numbers
  BY DEF IInv, Shapes, Table, HolderOf
<1>4. b \in {d.body : d \in Drafts}
  OBVIOUS
<1>5. <<r, rows[r].body>> \in RowsStay[e]
  BY <1>1 DEF RowsStay
<1>6. CASE rows[r].body = b
  <2>1. Register!Repeat(e, b, r)
    BY <1>2, <1>5, <1>6 DEF Register!Repeat, Register!Say, RowsStay, Say
  <2> QED
    BY <1>1, <1>3, <1>4, <2>1 DEF Register!Next
<1>7. CASE rows[r].body # b
  <2>1. Register!Say(e, b, "conflict", r)
    BY <1>2, <1>7 DEF Register!Say, Say
  <2>2. \E kept \in RowsStay[e] : kept[1] = r /\ kept[2] # b
    BY <1>5, <1>7
  <2>3. Register!Contradict(e, b, r)
    BY <2>1, <2>2 DEF Register!Contradict, RowsStay
  <2> QED
    BY <1>1, <1>3, <1>4, <2>3 DEF Register!Next
<1> QED
  BY <1>6, <1>7

LEMMA InsertRegister ==
  ASSUME IInv, NEW c \in Calls, Insert(c)
  PROVE  Register!Next
<1>1. call[c].pc = "insert" /\ Fresh # {}
  BY DEF Insert
<1>2. PICK draft \in Drafts : draft = call[c].draft
  BY <1>1 DEF IInv, Shapes
<1> DEFINE e == draft.event
           b == draft.body
           new == Captured(draft, born + 1)
<1>3. e \in Events /\ e # NoEvent /\ b \in {d.body : d \in Drafts}
  BY <1>2, ArchiveAssumption
<1>4. CASE HolderOf(e) = {}
  <2>1. rows' = Put(rows, UnusedRow, new) /\ Say(draft, "created", UnusedRow)
    BY <1>2, <1>4 DEF Insert
  <2>2. UnusedRow \in Numbers /\ UnusedRow \notin DOMAIN rows
    BY <1>1, FreshRow
  <2>3. new.event = e /\ new.body = b
    BY <1>2, CapturedRow
  <2> HIDE DEF new
  <2>4. /\ DOMAIN rows' = DOMAIN rows \cup {UnusedRow} /\ rows'[UnusedRow] = new
        /\ \A r \in DOMAIN rows : rows'[r] = rows[r]
    BY <2>1, <2>2 DEF Put
  <2>5. PICK n \in Numbers : n = UnusedRow
    BY <2>2
  <2>6. HolderOf(e)' = {n} /\ \A f \in Events \ {e} : HolderOf(f)' = HolderOf(f)
    <3>1. \A f : HolderOf(f)' = {r \in DOMAIN rows' : rows'[r].event = f}
      BY DEF HolderOf
    <3>2. \A f : HolderOf(f) = {r \in DOMAIN rows : rows[r].event = f}
      BY DEF HolderOf
    <3> QED
      BY <1>4, <2>2, <2>3, <2>4, <2>5, <3>1, <3>2
  <2>7. {<<r, rows'[r].body>> : r \in HolderOf(e)'} = {<<n, b>>}
    BY <2>3, <2>4, <2>6, <2>5
  <2>8. ASSUME NEW f \in Events \ {e}
        PROVE  {<<r, rows'[r].body>> : r \in HolderOf(f)'} = {<<r, rows[r].body>> : r \in HolderOf(f)}
    <3>1. HolderOf(f)' = HolderOf(f)
      BY <2>6
    <3>2. \A r \in HolderOf(f) : rows'[r] = rows[r]
      BY <2>4 DEF HolderOf
    <3> QED
      BY <3>1, <3>2
  <2>9. RowsStay' = [RowsStay EXCEPT ![e] = {<<n, b>>}]
    <3>1. /\ RowsStay' = [f \in Events |-> {<<r, rows'[r].body>> : r \in HolderOf(f)'}]
          /\ RowsStay = [f \in Events |-> {<<r, rows[r].body>> : r \in HolderOf(f)}]
      BY DEF RowsStay
    <3>2. /\ \A f \in Events \ {e} : RowsStay'[f] = RowsStay[f]
          /\ RowsStay'[e] = {<<n, b>>} /\ DOMAIN RowsStay = Events /\ DOMAIN RowsStay' = Events
      BY <1>3, <2>7, <2>8, <3>1
    <3>3. RowsStay = [f \in Events |-> RowsStay[f]] /\ RowsStay' = [f \in Events |-> RowsStay'[f]]
      BY <3>1
    <3> QED
      BY <3>2, <3>3
  <2>10. RowsStay[e] = {}
    BY <1>3, <1>4 DEF RowsStay
  <2>11. Register!Keep(e, b, n)
    <3>1. Register!Say(e, b, "created", n)
      BY <2>1, <2>5 DEF Register!Say, Say
    <3> QED
      BY <2>9, <2>10, <3>1 DEF Register!Keep, RowsStay
  <2> QED
    BY <1>3, <2>11 DEF Register!Next
<1>5. CASE HolderOf(e) # {}
  <2>1. Recognise(draft) /\ UNCHANGED rows
    BY <1>2, <1>5 DEF Insert
  <2>2. UNCHANGED RowsStay
    BY <2>1 DEF RowsStay, HolderOf
  <2> QED
    BY <1>2, <2>1, <2>2, RecogniseRegister
<1> QED
  BY <1>4, <1>5

LEMMA NextRegister == IInv /\ [ArchiveNext]_archiveVars => Register!Next \/ UNCHANGED <<RowsStay, said>>
<1> SUFFICES ASSUME IInv, [ArchiveNext]_archiveVars PROVE Register!Next \/ UNCHANGED <<RowsStay, said>>
  OBVIOUS
<1>1. ASSUME UNCHANGED <<rows, said>> PROVE UNCHANGED <<RowsStay, said>>
  BY <1>1 DEF RowsStay, HolderOf
<1>2. ASSUME NEW c \in Calls, LookUp(c) PROVE Register!Next \/ UNCHANGED <<RowsStay, said>>
  <2>1. UNCHANGED rows
    BY <1>2 DEF LookUp
  <2>2. UNCHANGED RowsStay
    BY <2>1 DEF RowsStay, HolderOf
  <2>3. UNCHANGED said \/ \E draft \in Drafts : Recognise(draft)
    BY <1>2 DEF LookUp
  <2> QED
    BY <2>2, <2>3, RecogniseRegister
<1>3. ASSUME NEW r \in DOMAIN rows, Delivery(r) PROVE UNCHANGED <<RowsStay, said>>
  <2>1. UNCHANGED said
    BY <1>3 DEF Delivery, ClaimDelivery, WriteDream, FinishDelivery
  <2> QED
    BY SMTT(30), <1>3, <2>1, OthersRemember, KeptStays
<1>4. ASSUME NEW i \in Ingests, Store(i) PROVE UNCHANGED <<RowsStay, said>>
  <2>1. UNCHANGED said
    BY <1>4 DEF Store
  <2> QED
    BY <1>4, <2>1, IngestsRemember, KeptStays
<1>5. ASSUME NEW i \in Ingests, Statement(i) \/ Deadlock(i) \/ Abort(i) PROVE UNCHANGED <<rows, said>>
  BY <1>5 DEF Statement, Deadlock, Abort
<1>6. ASSUME Type \/ Retitle \/ Reword \/ Move \/ Erase PROVE UNCHANGED <<rows, said>>
  BY <1>6 DEF Type, Retitle, Reword, Move, Erase, HumanEdits
<1>7. ASSUME UNCHANGED archiveVars PROVE UNCHANGED <<rows, said>>
  BY <1>7 DEF archiveVars
<1> QED
  BY <1>1, <1>2, <1>3, <1>4, <1>5, <1>6, <1>7, InsertRegister DEF ArchiveNext, Ingest

\* Capture keeps the promise of EventRegister, for any number of messages and ingests: the
\* first text of an event stays under one number, a redelivery is told that number, and
\* another text under the same event is refused (create_dream).
THEOREM Registers == ArchiveSpec => ImplementsRegister
<1>1. ArchiveInit => Register!Init
  BY DEF ArchiveInit, Register!Init, HolderOf
<1>2. IInv /\ [ArchiveNext]_archiveVars => [Register!Next]_<<[e \in Events |-> {<<r, rows[r].body>> : r \in HolderOf(e)}], said>>
  BY NextRegister DEF RowsStay
<1> QED
  BY <1>1, <1>2, Consistent, PTL DEF ArchiveSpec, ImplementsRegister, Register!Spec
=============================================================================
