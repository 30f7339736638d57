---------------------------- MODULE SourcePresence ----------------------------
(***************************************************************************)
(* What publishing a list shard does to the catalog: which of a List's     *)
(* episodes, source scopes and key objects are present, suspected missing  *)
(* or missing, which episodes are active, how ready they are for review,   *)
(* and whether a confirmation scan follows.  One List is modelled; lists   *)
(* share no rows.                                                          *)
(*                                                                         *)
(* The publications of one List are serial: they belong to the shards of   *)
(* the bucket's only active job, a confirmation shard is inserted by the   *)
(* publication it follows, and a shard is published at most once           *)
(* (ScanQueue, OneActiveJob and PublishedByLatestClaim).  The number of a  *)
(* publication therefore stands for its shard id.  Each is one READ        *)
(* COMMITTED transaction that reads the batch row first and writes at the  *)
(* end: PublishRead, then PublishList or PublishRolledBack; the            *)
(* adjudication of the batch may commit in between.                        *)
(***************************************************************************)
EXTENDS Naturals, FiniteSets

CONSTANTS
  Episode,    \* episode names under the List
  View,       \* View[e]: what a snapshot may show of episode e
  Confirm,    \* scan_missing_confirmation_seconds, in units of the clock
  MaxClock,   \* bound: the clock stops there
  MaxScans,   \* bound: publications
  TheList     \* the ListRecord itself

Scope == {"raw", "processed"}

\* The key objects that readiness depends on, all under processed/.  metadata
\* and telemetry_npz are required and tracked exactly as the manifest is; video
\* stands for camera_rgb_video.
File == {"manifest", "video"}
Part == Scope \cup File

\* What an enumeration shows of an episode: its scopes and key objects, and
\* whether the manifest's content lists a camera with a video.
EpisodeView == [parts : SUBSET Part, video : BOOLEAN]
Unseen == [parts |-> {}, video |-> FALSE]

ASSUME PresenceAssumption ==
  /\ Confirm \in Nat \ {0}
  /\ MaxClock \in Nat
  /\ MaxScans \in Nat
  /\ View \in [Episode -> SUBSET EpisodeView]
  /\ TheList \notin Episode \X ({"self"} \cup Part)

Thing == {TheList} \cup (Episode \X ({"self"} \cup Part))
Self(e) == <<e, "self">>
PartOf(e, q) == <<e, q>>

VARIABLES
  evidence,       \* source_status and missing evidence of every row
  listActive,     \* ListRecord.is_active
  active,         \* Episode.is_active
  state,          \* EpisodeInventory.state
  maxState,       \* EpisodeInventory.max_observed_state
  fingerprint,    \* the stored fingerprints: the view last published
  confirming,     \* the last publication inserted a confirmation shard
  batchDecided,   \* Batch.batch_decision is not PENDING
  decided,        \* episodes whose final_dataset_status is not PENDING
  publishing,     \* the publication in progress: what it read
  clock, scans,   \* bounded time and number of publications
  sighted,        \* history: everything some publication has seen
  absence         \* history: the absences since a thing was last seen

rowVars == <<evidence, listActive, active, state, maxState, fingerprint>>
historyVars == <<sighted, absence>>
vars == <<rowVars, confirming, batchDecided, decided, publishing, clock, scans,
          historyVars>>

-----------------------------------------------------------------------------

\* first and by are the time and the shard of the first absence; nothing reads
\* them unless the row is suspect.
NoRow   == [status |-> "absent",  first |-> 0, by |-> 0]
Present == [status |-> "present", first |-> 0, by |-> 0]
Missing == [status |-> "missing", first |-> 0, by |-> 0]
\* Seeded defect: the time of the next look is stored, not that of the first.
SuspectUntil(s, t) == [status |-> "suspect_missing", first |-> t + Confirm, by |-> s]
Suspect(s, t) == [status |-> "suspect_missing", first |-> t, by |-> s]

Evidence ==
  {NoRow, Present, Missing}
    \cup [status : {"suspect_missing"}, first : 0..MaxClock, by : 1..MaxScans]

NoAbsence == [first |-> 0, last |-> 0, firstBy |-> 0, lastBy |-> 0]
State == {"ingestable", "processable", "qc_ready"}
Rank(st) == CASE st = "ingestable" -> 0 [] st = "processable" -> 1 [] OTHER -> 2
Idle == [open |-> FALSE, decided |-> FALSE, now |-> 0]

HasRow(x) == evidence[x].status # "absent"
Is(x, status) == evidence[x].status = status
Inventoried == {e \in Episode : HasRow(Self(e))}

Init ==
  /\ evidence = [x \in Thing |-> NoRow]
  /\ listActive = FALSE
  /\ active = [e \in Episode |-> FALSE]
  /\ state = [e \in Episode |-> "ingestable"]
  /\ maxState = [e \in Episode |-> "ingestable"]
  /\ fingerprint = [e \in Episode |-> Unseen]
  /\ confirming = FALSE
  /\ batchDecided = FALSE
  /\ decided = {}
  /\ publishing = Idle
  /\ clock = 0
  /\ scans = 0
  /\ sighted = {}
  /\ absence = [x \in Thing |-> NoAbsence]

-----------------------------------------------------------------------------
\* Evidence of one row.

\* Seeded defect: the second absence counts at once.
AdvanceAtOnce(r, s, t) ==
  IF r.status = "present" THEN Suspect(s, t)
  ELSE IF r.status = "suspect_missing" /\ r.by # s THEN Missing ELSE r

\* Seeded defect: every absence restarts the confirmation time.
AdvanceRestarts(r, s, t) ==
  IF r.status = "suspect_missing" /\ t - r.first >= Confirm THEN Missing
  ELSE IF r.status \in {"present", "suspect_missing"} THEN Suspect(s, t)
  ELSE r

\* One more absence: the second one counts only when another shard saw it and
\* the confirmation time has passed.
Advance(r, s, t) ==
  IF r.status = "present" THEN Suspect(s, t)
  ELSE IF r.status = "suspect_missing" /\ r.by # s /\ t - r.first >= Confirm
  THEN Missing
  ELSE r

-----------------------------------------------------------------------------
\* The effect of snapshot v, published by shard s at time t.

Empty(v) == \A e \in Episode : v[e].parts = {}
Seen(v, e) == v[e].parts # {}

ListAfter(v, s, t) == IF Empty(v) THEN Advance(evidence[TheList], s, t) ELSE Present

EpisodeAfter(v, e, s, t) ==
  IF Seen(v, e) THEN Present ELSE Advance(evidence[Self(e)], s, t)

BecameMissing(v, e, s, t) ==
  Is(Self(e), "suspect_missing") /\ EpisodeAfter(v, e, s, t) = Missing

\* Seeded defect: the rows of a missing episode keep what they had.
NoCascade(r) == r

\* A row of an episode confirmed missing follows it.
Cascade(r) == IF r = NoRow THEN NoRow ELSE Missing

\* A part of a seen episode is judged by this snapshot; a scope that was never
\* there is missing from the start.  The objects of an unseen episode are
\* advanced only when the whole List was empty.
PartAfter(v, e, q, s, t) ==
  LET r == evidence[PartOf(e, q)] IN
  IF q \in v[e].parts THEN Present
  ELSE IF Seen(v, e) THEN
    IF q \in Scope /\ r = NoRow THEN Missing ELSE Advance(r, s, t)
  ELSE IF BecameMissing(v, e, s, t) THEN Cascade(r)
  ELSE IF Empty(v) /\ q \in File THEN Advance(r, s, t)
  ELSE r

EvidenceAfter(v, s, t) ==
  [x \in Thing |->
     IF x = TheList THEN ListAfter(v, s, t)
     ELSE IF x[2] = "self" THEN EpisodeAfter(v, x[1], s, t)
     ELSE PartAfter(v, x[1], x[2], s, t)]

\* Seeded defect: only what this snapshot shows.
RolesSeen(v, e, s, t) == File \cap v[e].parts

\* The roles readiness is derived from: key objects not confirmed missing.
Roles(v, e, s, t) ==
  {f \in File : PartAfter(v, e, f, s, t).status \in {"present", "suspect_missing"}}

\* The manifest is read only when the fingerprints changed; otherwise the
\* objects' roles stand for what it would have said.
ManifestRead(v, e) == "manifest" \in v[e].parts /\ v[e] # fingerprint[e]
HasVideo(v, e, s, t) ==
  IF ManifestRead(v, e) THEN v[e].video ELSE "video" \in Roles(v, e, s, t)

DerivedState(v, e, s, t) ==
  IF PartAfter(v, e, "processed", s, t) = Missing THEN "ingestable"
  ELSE IF "manifest" \in Roles(v, e, s, t) /\ HasVideo(v, e, s, t) THEN "qc_ready"
  ELSE "processable"

StateAfter(v, e, s, t) ==
  IF Seen(v, e) THEN DerivedState(v, e, s, t)
  ELSE IF BecameMissing(v, e, s, t) THEN "ingestable"
  ELSE state[e]

\* Seeded defect: suspected key objects ask for no confirmation.
UnsettledScopes(v, s, t) ==
  LET E == EvidenceAfter(v, s, t) IN
  \/ Empty(v) /\ E[TheList].status = "suspect_missing"
  \/ \E e \in Episode :
       \/ E[Self(e)].status = "suspect_missing"
       \/ Seen(v, e) /\ \E q \in Scope : E[PartOf(e, q)].status = "suspect_missing"

\* needs_missing_confirmation, and the list's own status in the empty branch.
Unsettled(v, s, t) ==
  LET E == EvidenceAfter(v, s, t) IN
  \/ Empty(v) /\ E[TheList].status = "suspect_missing"
  \/ \E e \in Episode :
       \/ E[Self(e)].status = "suspect_missing"
       \/ Seen(v, e) /\ \E q \in Part : E[PartOf(e, q)].status = "suspect_missing"

-----------------------------------------------------------------------------
\* The transactions.

Snapshot == {v \in [Episode -> EpisodeView] : \A e \in Episode : v[e] \in View[e]}

\* The publication starts: it reads the batch row and takes its timestamp.
PublishRead ==
  /\ ~publishing.open
  /\ scans < MaxScans
  /\ publishing' = [open |-> TRUE, decided |-> batchDecided, now |-> clock]
  /\ UNCHANGED <<rowVars, confirming, batchDecided, decided, clock, scans, historyVars>>

NewEpisodes(v) == {e \in Episode : Seen(v, e)} \ Inventoried

\* An empty snapshot of an unknown List, or a new episode for a batch that was
\* read as adjudicated, fails the shard.
Refused(v) ==
  \/ Empty(v) /\ ~HasRow(TheList)
  \/ publishing.decided /\ NewEpisodes(v) # {}

\* What the publication shows to the history: x is in the snapshot.
Sees(v, x) ==
  IF x = TheList THEN ~Empty(v)
  ELSE IF x[2] = "self" THEN Seen(v, x[1])
  ELSE x[2] \in v[x[1]].parts

AbsenceAfter(v, s, t) ==
  [x \in Thing |->
     IF Sees(v, x) THEN NoAbsence
     ELSE IF absence[x] = NoAbsence
          THEN [first |-> t, last |-> t, firstBy |-> s, lastBy |-> s]
          ELSE [absence[x] EXCEPT !.last = t, !.lastBy = s]]

Higher(a, b) == IF Rank(a) >= Rank(b) THEN a ELSE b

PublishList(v) ==
  LET s == scans + 1  t == publishing.now IN
  /\ publishing.open
  /\ ~Refused(v)
  /\ evidence' = EvidenceAfter(v, s, t)
  /\ listActive' = IF Empty(v)
                   THEN listActive /\ ListAfter(v, s, t) # Missing
                   ELSE TRUE
  /\ active' = [e \in Episode |->
                  Seen(v, e) \/ (active[e] /\ ~BecameMissing(v, e, s, t))]
  /\ state' = [e \in Episode |-> StateAfter(v, e, s, t)]
  /\ maxState' = [e \in Episode |->
                    IF Seen(v, e) THEN Higher(maxState[e], StateAfter(v, e, s, t))
                    ELSE maxState[e]]
  /\ fingerprint' = [e \in Episode |-> IF Seen(v, e) THEN v[e] ELSE fingerprint[e]]
  /\ confirming' = Unsettled(v, s, t)
  /\ scans' = s
  /\ publishing' = Idle
  /\ sighted' = sighted \cup {x \in Thing : Sees(v, x)}
  /\ absence' = AbsenceAfter(v, s, t)
  /\ UNCHANGED <<batchDecided, decided, clock>>

\* The publication rolls back: refused, its lease lost, or its process killed.
\* The shard publishes later under the same id.
PublishRolledBack ==
  /\ publishing.open
  /\ publishing' = Idle
  /\ UNCHANGED <<rowVars, confirming, batchDecided, decided, clock, scans, historyVars>>

\* The batch is adjudicated, or found not ready and set back to PENDING.  What
\* decides between the two (samples and results) is abstracted away here.
Adjudicate(done) ==
  /\ Inventoried # {}
  /\ batchDecided' = done
  /\ decided' = IF done THEN Inventoried ELSE {}
  /\ UNCHANGED <<rowVars, confirming, publishing, clock, scans, historyVars>>

ClockTicks ==
  /\ clock < MaxClock
  /\ clock' = clock + 1
  /\ UNCHANGED <<rowVars, confirming, batchDecided, decided, publishing, scans, historyVars>>

Next ==
  \/ PublishRead
  \/ \E v \in Snapshot : PublishList(v)
  \/ PublishRolledBack
  \/ \E done \in BOOLEAN : Adjudicate(done)
  \/ ClockTicks

Spec == Init /\ [][Next]_vars

-----------------------------------------------------------------------------
\* Properties.

\* Every variable keeps its type, and no publication is stamped later than now.
TypeOK ==
  /\ evidence \in [Thing -> Evidence]
  /\ listActive \in BOOLEAN
  /\ active \in [Episode -> BOOLEAN]
  /\ state \in [Episode -> State]
  /\ maxState \in [Episode -> State]
  /\ fingerprint \in [Episode -> EpisodeView]
  /\ confirming \in BOOLEAN
  /\ batchDecided \in BOOLEAN
  /\ decided \in SUBSET Episode
  /\ publishing \in [open : BOOLEAN, decided : BOOLEAN, now : 0..clock]
  /\ clock \in 0..MaxClock
  /\ scans \in 0..MaxScans
  /\ sighted \in SUBSET Thing
  /\ absence \in [Thing -> [first : 0..MaxClock, last : 0..MaxClock,
                            firstBy : 0..MaxScans, lastBy : 0..MaxScans]]

\* Nothing that was ever seen is missing unless two different publications,
\* the confirmation time apart, did not see it, and none saw it since the first
\* (constraint: two independent successful observations; a failed or repeated
\* shard is no evidence).
MissingNeedsTwoAbsences ==
  \A x \in sighted : Is(x, "missing") =>
    /\ absence[x].firstBy # 0
    /\ absence[x].lastBy # absence[x].firstBy
    /\ absence[x].last - absence[x].first >= Confirm

\* A List or episode that two publications the confirmation time apart did not
\* see is missing, whichever branch of the publication did not see it.
AbsenceIsConcluded ==
  \A x \in {TheList} \cup {Self(e) : e \in Episode} :
    x \in sighted /\ absence[x].last - absence[x].first >= Confirm => Is(x, "missing")

\* The active scope follows the evidence, and absence goes down the tree: under
\* a missing List every episode is missing, and a missing episode has no scope
\* or object left and is not ready.
ActiveScopeAgrees ==
  /\ HasRow(TheList) => (listActive <=> ~Is(TheList, "missing"))
  /\ \A e \in Inventoried :
       /\ active[e] <=> ~Is(Self(e), "missing")
       /\ Is(TheList, "missing") => Is(Self(e), "missing")
       /\ Is(Self(e), "missing") =>
            /\ state[e] = "ingestable"
            /\ \A q \in Part : HasRow(PartOf(e, q)) => Is(PartOf(e, q), "missing")

\* No suspicion is left without a follow-up: whenever a row is suspect, the last
\* publication inserted a confirmation shard.
SuspectIsFollowedUp ==
  (\E x \in Thing : Is(x, "suspect_missing")) => confirming

\* Readiness is never lowered by a suspicion: after a drop the processed scope,
\* the manifest or the video is confirmed missing or has no row (then only the
\* manifest named the video, and an unchanged episode's is not read again), or
\* the episode changed and its manifest names no video.
ReadinessDropsOnEvidence ==
  [][\A e \in Episode : Rank(state'[e]) < Rank(state[e]) =>
       \/ \E q \in {"processed", "manifest", "video"} :
            evidence'[PartOf(e, q)] \in {Missing, NoRow}
       \/ fingerprint'[e] # fingerprint[e] /\ ~fingerprint'[e].video]_vars

\* Claimed by the comment on _derive_state: the persisted roles are evidence
\* enough to preserve the readiness of an unchanged episode.
UnchangedKeepsReadiness ==
  [][\A e \in Episode :
       /\ scans' # scans
       /\ fingerprint'[e] = fingerprint[e]
       /\ \A q \in Part : evidence'[PartOf(e, q)] = evidence[PartOf(e, q)]
       => Rank(state'[e]) >= Rank(state[e])]_vars

\* Claimed by the refusal in resolve_list_snapshot and by the constraints: an
\* adjudicated batch accepts no new episode, so all its episodes are decided.
AdjudicatedMeansDecided == batchDecided => Inventoried \subseteq decided

=============================================================================
