------------------------------- MODULE QcReview -------------------------------
(***************************************************************************)
(* Manual review of one batch: dispatch plans, the tasks they make, their   *)
(* claims, submissions and reopenings, and the decision on the batch.       *)
(*                                                                          *)
(* Every operation is an HTTP request with a session of its own.  It loads  *)
(* the rows it needs without locking them, decides, and commits: an action  *)
(* that loads and a Commit.  The commit writes the columns that differ from *)
(* what was loaded (SQLAlchemy's unit of work) and leaves the others as     *)
(* they are by then.  Any requests may overlap.  What the code does wrong   *)
(* then is kept track of: the rows a request loaded and another one has     *)
(* written since are stale for it, and an episode whose rows were written   *)
(* over stale ones is astray until the next operation on fresh rows.        *)
(*                                                                          *)
(* Time is abstract: a lock may run out any time.  A user submits the       *)
(* version it finds, so versions are not kept.  That a change marks the     *)
(* batch's roll-up is AssetRecompute's subject.                             *)
(***************************************************************************)
EXTENDS Naturals, FiniteSets

CONSTANTS
  Episode,       \* the episodes of the batch
  Admin,         \* users of role admin: they may do what a qc_manager may
  Reviewer,      \* users of role reviewer
  Request,       \* bound: requests in flight at one time
  Threshold,     \* percentage of failed samples a batch may have
  MaxGeneration, \* bound: dispatch plans applied
  MayAsk,        \* bound: who asks for rereviews, one at a time
  Presence,      \* bound: the sets of episodes that may be there for a dispatch plan
  MayFail,       \* bound: may a request fail or its process die
  Nobody, NoRequest

User == Admin \cup Reviewer

ASSUME ReviewAssumption ==
  /\ Threshold \in Nat /\ MaxGeneration \in Nat /\ MayFail \in BOOLEAN
  /\ Admin \cap Reviewer = {} /\ Nobody \notin User
  /\ IsFiniteSet(Episode) /\ MayAsk \subseteq User /\ Presence \subseteq SUBSET Episode

VARIABLES
  task,     \* the active QcTask of each episode
  episode,  \* its review and decision columns
  batch,    \* the batch's generation and decision
  made,     \* the generations each episode had a task in: the keys of its tasks
  rereview, \* the pending QcRereviewRequest rows
  request,  \* the requests in flight: what they loaded, what they will write
  stale,    \* history: the episodes each request loaded and another one has written since
  astray    \* history: the episodes whose rows were last written over stale ones

rows == <<task, episode, batch, made, rereview>>
vars == <<task, episode, batch, made, rereview, request, stale, astray>>

Result == {"MANUAL_PASS", "MANUAL_FAIL"}
Generation == 0..MaxGeneration

TaskRow == [status : {"none", "new", "assigned", "in_review", "done"},
            assignee : User \cup {Nobody}, owner : User \cup {Nobody},
            until : {"none", "past", "live"}, generation : Generation]
EpisodeRow == [qc : {"new", "assigned", "in_review", "done"},
               manual : Result \cup {"NOT_REVIEWED"}, sampled : BOOLEAN,
               final : {"PENDING", "QUALIFIED", "UNQUALIFIED"}, exportable : BOOLEAN]
BatchRow == [generation : Generation, decision : {"PENDING", "ACCEPTED", "REJECTED"}]
RereviewRow == [on : Episode, by : User, generation : Generation]

NoTask == [status |-> "none", assignee |-> Nobody, owner |-> Nobody, until |-> "none",
           generation |-> 0]
\* Seeded defect: the keys of a plan run ahead of its generation.
NewTaskAhead(g) == [NoTask EXCEPT !.status = "new", !.generation = g + 1]

NewTask(g) == [NoTask EXCEPT !.status = "new", !.generation = g]
NoBatch == [generation |-> 0, decision |-> "PENDING"]
Fresh == [qc |-> "new", manual |-> "NOT_REVIEWED", sampled |-> FALSE,
          final |-> "PENDING", exportable |-> FALSE]

Init ==
  /\ task = [e \in Episode |-> NoTask]
  /\ episode = [e \in Episode |-> Fresh]
  /\ batch = NoBatch
  /\ made = [e \in Episode |-> {}]
  /\ rereview = {}
  /\ request = [r \in Request |-> NoRequest]
  /\ stale = [r \in Request |-> {}]
  /\ astray = {}

-----------------------------------------------------------------------------
(* What the operations do to the rows they loaded.                          *)

\* Who holds a lock that has not run out.
Holder(t) == IF t.until = "live" THEN t.owner ELSE Nobody
Unlocked(t) == [t EXCEPT !.owner = Nobody, !.until = "none"]
Idle(t) == IF t.assignee = Nobody THEN "new" ELSE "assigned"
Pending(ep) == [ep EXCEPT !.final = "PENDING", !.exportable = FALSE]

\* A task in review whose lock ran out goes back to where it came from.
Settled(t) ==
  IF t.status = "in_review" /\ Holder(t) = Nobody THEN [t EXCEPT !.status = Idle(t)] ELSE t

MayClaim(t, u) ==
  /\ Holder(t) \in {Nobody, u}
  /\ IF u \in Admin THEN Settled(t).status \in {"new", "assigned", "done"}
     ELSE Settled(t).status = "assigned" /\ t.assignee = u
ClaimedTask(t, u) ==
  [t EXCEPT !.status = "in_review", !.assignee = u, !.owner = u, !.until = "live"]

\* Seeded defect: a finished episode is reopened with its old result.
ClaimedEpisodeKept(t, ep) ==
  IF Settled(t).status = "done" THEN Pending(ep) ELSE [ep EXCEPT !.qc = "in_review"]

ClaimedEpisode(t, ep) ==
  IF Settled(t).status = "done"
  THEN Pending([ep EXCEPT !.qc = "in_review", !.manual = "NOT_REVIEWED"])
  ELSE [ep EXCEPT !.qc = "in_review"]

MayRelease(t, u) ==
  /\ t.status = "in_review" /\ Holder(t) # Nobody
  /\ u = Holder(t) \/ u \in Admin
ReleasedEpisode(t, ep) == IF ep.qc = "done" THEN ep ELSE [ep EXCEPT !.qc = Idle(t)]


\* Seeded defect: who holds the lock is not asked.
MaySubmitAny(t, u) == t.status = "in_review" /\ Holder(t) # Nobody

MaySubmit(t, u) == t.status = "in_review" /\ Holder(t) = u
DoneTask(t, u) == [Unlocked(t) EXCEPT !.status = "done", !.assignee = u]
ReviewedEpisode(ep, result) == [ep EXCEPT !.qc = "done", !.manual = result]


\* Seeded defect: the lock of the previous reviewer stays.
AssignedTaskLocked(t, u) == [t EXCEPT !.status = "assigned", !.assignee = u]

AssignedTask(t, u) == [Unlocked(t) EXCEPT !.status = "assigned", !.assignee = u]
AssignedEpisode(ep) == [ep EXCEPT !.qc = "assigned"]
Managed(t) == t.status \in {"new", "assigned"}
RevokedTask(t) == [Unlocked(t) EXCEPT !.status = "new", !.assignee = Nobody]


\* Seeded defect: the task may have been taken up meanwhile.
MayReopenAny(t) == Holder(t) = Nobody

MayReopen(t) == t.status = "done" /\ Holder(t) = Nobody
ReopenedEpisode(ep) == [ep EXCEPT !.qc = "assigned", !.manual = "NOT_REVIEWED"]

-----------------------------------------------------------------------------
(* Transactions.                                                            *)

\* What sync_batch_metrics finds that matters: is the sample reviewed.  Nobody reads
\* the other counters it writes to the batch.
SampleDone(eps) ==
  LET S == {e \in Episode : eps[e].sampled}
  IN  S # {} /\ \A e \in S : eps[e].qc = "done"

\* The columns the unit of work writes are those that differ from the loaded row.
Changes(was, will) == [c \in {c \in DOMAIN was : will[c] # was[c]} |-> will[c]]
Written(row, changes) ==
  [c \in DOMAIN row |-> IF c \in DOMAIN changes THEN changes[c] ELSE row[c]]

\* What a request writes to the rows of an episode it is about.  A lock taken anew
\* runs out later than the one loaded, so it is written in any case.
Write(e, t, ep) ==
  [of |-> task[e].generation,
   task |-> Changes(IF t.until = "live" THEN [task[e] EXCEPT !.until = "none"] ELSE task[e], t),
   episode |-> Changes(episode[e], ep)]
EpisodesAfter(writes) ==
  [e \in Episode |-> IF e \in DOMAIN writes THEN Written(episode[e], writes[e].episode)
                     ELSE episode[e]]
\* A retired task is not the episode's task any more: what is written to it is lost.
TaskAfter(row, write) ==
  IF row.status = "none" \/ row.generation # write.of THEN row ELSE Written(row, write.task)

\* The operations that reopen a finished task, and that hand a task out.
Reopening == {"claim", "approve"}
HandingOut == {"assign", "pool"}

\* The commit of q overtakes request s, which loaded the rows of episode e before.
\* Two hand-outs may overlap, and two submissions of one task; a plan loads nothing it
\* relies on, and what others write to the tasks it retires is lost, but a reopening
\* writes its episode, too.  A recomputation reads results and writes the final columns.
Overtakes(q, s, e) ==
  /\ s.op # "dispatch"
  /\ s.op = "recompute" =>
       DOMAIN q.writes[e].episode \cap {"manual", "final", "exportable"} # {}
  /\ q.op = "dispatch" /\ s.op # "recompute" => s.op \in Reopening
  /\ q.op = "submit" /\ s.op = "submit" => q.writes[e].of # s.writes[e].of
  /\ ~({q.op, s.op} \subseteq HandingOut)

\* Request r goes on as next, with rows of its own that are stale already.
Goes(r, next, missed) ==
  /\ request' = [request EXCEPT ![r] = next]
  /\ stale' = [stale EXCEPT ![r] = missed]

\* The transaction of request r ends, and r goes on as next.
Ended(r, next) ==
  /\ request' = [request EXCEPT ![r] = next]
  /\ stale' = [s \in Request |->
       IF s = r \/ request[s] = NoRequest THEN {}
       ELSE stale[s] \cup
            {e \in request[r].on \cap request[s].on : Overtakes(request[r], request[s], e)}]

\* A request has loaded its rows.
Begin(r, op, writes, ask, mine, missed) ==
  /\ request[r] = NoRequest
  /\ Goes(r, [stage |-> "working", op |-> op, on |-> DOMAIN writes, writes |-> writes,
              batch |-> IF op \in {"submit", "dispatch"} THEN batch ELSE NoBatch,
              counted |-> op = "submit" /\ SampleDone(EpisodesAfter(writes)),
              ask |-> ask, mine |-> mine], missed)
  /\ UNCHANGED <<rows, astray>>

\* The request is about the active task of episode e, which it turns into t and ep.
BeginOn(r, op, e, t, ep, ask) ==
  /\ task[e].status # "none"
  /\ Begin(r, op, [x \in {e} |-> Write(e, t, ep)], ask, {}, {})

\* The request is about none of the rows above.
BeginBare(r, op, ask) == Begin(r, op, [e \in {} |-> NoTask], ask, {}, {})

Claim(r, u, e) ==
  /\ MayClaim(task[e], u)
  /\ BeginOn(r, "claim", e, ClaimedTask(task[e], u), ClaimedEpisode(task[e], episode[e]), {})

Release(r, u, e) ==
  /\ MayRelease(task[e], u)
  /\ BeginOn(r, "release", e, [Unlocked(task[e]) EXCEPT !.status = Idle(task[e])],
             ReleasedEpisode(task[e], episode[e]), {})

Submit(r, u, e, result) ==
  LET mine == [x \in {e} |-> ReviewedEpisode(episode[e], result)]
      writes == [x \in {e} |-> Write(e, DoneTask(task[e], u), mine[e])]
  IN  /\ MaySubmit(task[e], u)
      /\ Begin(r, "submit", writes, {}, mine, {})

\* A manager hands out a task, whatever its status.
AssignTask(r, e, to) ==
  BeginOn(r, "assign", e, AssignedTask(task[e], to), AssignedEpisode(episode[e]), {})

\* Nor is it asked whether a plan has retired the task: of what the request writes
\* only the episode's columns matter then, and they are another task's.
AssignRetired(r, e, g) ==
  /\ g \in made[e] /\ ~(task[e].status # "none" /\ task[e].generation = g)
  /\ Begin(r, "assign",
           [x \in {e} |-> [of |-> g, task |-> Changes(task[e], task[e]),
                           episode |-> Changes(episode[e], AssignedEpisode(episode[e]))]],
           {}, {}, {e})

\* A manager hands out every new task at once; to is the plan, who gets which.
AssignBatch(r, to) ==
  LET S == {e \in Episode : task[e].status = "new"}
  IN  /\ S # {}
      /\ Begin(r, "assign",
               [e \in S |-> Write(e, AssignedTask(task[e], to[e]), AssignedEpisode(episode[e]))],
               {}, {}, {})

\* The task pool: what a manager does here leaves the episode and the batch alone.
Reassign(r, e, to) ==
  /\ Managed(task[e])
  /\ BeginOn(r, "pool", e, AssignedTask(task[e], to), episode[e], {})

Revoke(r, e) ==
  /\ Managed(task[e])
  /\ BeginOn(r, "pool", e, RevokedTask(task[e]), episode[e], {})

RequestRereview(r, u, e) ==
  /\ task[e].status = "done" /\ u \in MayAsk
  /\ \A q \in rereview : q.by # u
  /\ BeginBare(r, "ask", {[on |-> e, by |-> u, generation |-> task[e].generation]})

\* Approving hands the finished task back to who asked.
ApproveRereview(r, q) ==
  /\ task[q.on].generation = q.generation
  /\ MayReopen(task[q.on])
  /\ BeginOn(r, "approve", q.on, AssignedTask(task[q.on], q.by),
             ReopenedEpisode(episode[q.on]), {q})

RejectRereview(r, q) == BeginBare(r, "reject", {q})

\* A dispatch plan samples the episodes anew.  It resets those whose source is there,
\* and is refused while somebody is reviewing.  The columns of an episode are
\* written before the sample is drawn, so that a sampled one is marked in any case.
Dispatch(r, present, S) ==
  LET writes == [e \in Episode |->
        [of |-> task[e].generation, task |-> Changes(task[e], task[e]),
         episode |-> IF e \in S THEN Changes([episode[e] EXCEPT !.sampled = FALSE],
                                             [Fresh EXCEPT !.sampled = TRUE])
                     ELSE Changes(episode[e], IF e \in present THEN Fresh ELSE episode[e])]]
  IN  /\ present # {} => S # {}
      /\ batch.generation < MaxGeneration
      /\ \A e \in Episode : ~(task[e].status = "in_review" /\ task[e].until = "live")
      /\ Begin(r, "dispatch", writes, {}, S, {})

-----------------------------------------------------------------------------
(* The decision on the batch.                                               *)

With(eps, status) == {e \in Episode : eps[e].sampled /\ eps[e].manual = status}
\* Seeded defect: the threshold itself rejects.
OutcomeAtThreshold(eps) ==
  LET failed == Cardinality(With(eps, "MANUAL_FAIL"))
      sampled == failed + Cardinality(With(eps, "MANUAL_PASS"))
  IN  IF sampled = 0 \/ With(eps, "NOT_REVIEWED") # {} THEN "PENDING"
      ELSE IF 100 * failed >= Threshold * sampled THEN "REJECTED" ELSE "ACCEPTED"

Outcome(eps) ==
  LET failed == Cardinality(With(eps, "MANUAL_FAIL"))
      sampled == failed + Cardinality(With(eps, "MANUAL_PASS"))
  IN  IF sampled = 0 \/ With(eps, "NOT_REVIEWED") # {} THEN "PENDING"
      ELSE IF 100 * failed > Threshold * sampled THEN "REJECTED" ELSE "ACCEPTED"

Final(ep, outcome) ==
  IF outcome = "PENDING" THEN Pending(ep)
  ELSE LET ok == outcome = "ACCEPTED" /\ ep.manual # "MANUAL_FAIL"
       IN  [ep EXCEPT !.final = IF ok THEN "QUALIFIED" ELSE "UNQUALIFIED", !.exportable = ok]

\* An adjudication holds the batch row from its read to its commit.
BatchLocked == \E r \in Request : request[r] # NoRequest /\ request[r].stage = "deciding"

\* eps is what the session finds: its own row as it left it, the others as they
\* are; loaded is the batch as the session loaded it.
Decide(r, op, eps, loaded) ==
  LET outcome == Outcome(eps)
  IN  /\ ~BatchLocked
      /\ Goes(r, [stage |-> "deciding", op |-> op, on |-> IF op = "recompute" THEN Episode ELSE {},
                  writes |-> [e \in Episode |-> [episode |-> Changes(eps[e], Final(eps[e], outcome))]],
                  batch |-> Changes(loaded, [loaded EXCEPT !.decision = outcome])], {})
      /\ UNCHANGED <<rows, astray>>

\* The second transaction of a submission that completed the sample.
AdjudicateAfterSubmit(r) ==
  LET q == request[r]
  IN  /\ q # NoRequest /\ q.stage = "submitted"
      /\ Decide(r, "decide", [e \in Episode |-> IF e \in DOMAIN q.mine THEN q.mine[e] ELSE episode[e]],
                q.batch)

\* A manager recomputes the decision.
Recompute(r) ==
  /\ request[r] = NoRequest
  /\ Decide(r, "recompute", episode, batch)

CommitDecision(r) ==
  LET q == request[r]
  IN
  /\ q # NoRequest /\ q.stage = "deciding"
  /\ batch' = Written(batch, q.batch)
  /\ episode' = EpisodesAfter(q.writes)
  /\ Goes(r, NoRequest, {})
  /\ UNCHANGED <<task, made, rereview, astray>>

-----------------------------------------------------------------------------
(* Commits and faults.                                                      *)

Rereviews(q) ==
  CASE q.op = "ask" -> rereview \cup q.ask
    [] q.op \in {"approve", "reject"} -> rereview \ q.ask
    [] OTHER -> rereview

\* A submission goes on to adjudicate when it counted a complete sample, somewhere
\* between its load and its commit.  Whether the counters a commit writes differ from
\* those it loaded, and so whether it waits for an adjudication, is left open.
Commit(r) ==
  LET q == request[r]
  IN
  /\ q # NoRequest /\ q.stage = "working" /\ q.op # "dispatch"
  /\ task' = [e \in Episode |-> IF e \in DOMAIN q.writes THEN TaskAfter(task[e], q.writes[e])
                                ELSE task[e]]
  /\ episode' = EpisodesAfter(q.writes)
  /\ rereview' = Rereviews(q)
  /\ \E complete \in IF q.op = "submit" THEN {q.counted, SampleDone(episode')} ELSE {FALSE} :
       Ended(r, IF complete THEN [stage |-> "submitted", op |-> "decide", on |-> {},
                                  batch |-> q.batch, mine |-> q.mine]
                ELSE NoRequest)
  /\ astray' = (astray \ q.on) \cup (q.on \cap stale[r])
  /\ UNCHANGED <<batch, made>>

\* Seeded defect: the tasks that came after the plan was loaded stay.
TasksAfterPlanKept(q, g) ==
  [e \in Episode |-> IF e \in q.mine THEN NewTask(g)
                     ELSE IF task[e].generation # q.writes[e].of THEN task[e] ELSE NoTask]

\* A plan writes the batch before it looks for the tasks to retire, so plans follow
\* one another: it finds, and retires, those of every plan before it.
TasksAfterPlan(q, g) == [e \in Episode |-> IF e \in q.mine THEN NewTask(g) ELSE NoTask]

\* The keys of the new tasks are made of the generation and the episode: a plan that
\* was overtaken by another one for the same episode fails on them.
CommitDispatch(r) ==
  LET q == request[r]
      g == q.batch.generation + 1
  IN
  /\ q # NoRequest /\ q.stage = "working" /\ q.op = "dispatch" /\ ~BatchLocked
  /\ \A e \in q.mine : g \notin made[e]
  /\ task' = TasksAfterPlan(q, g)
  /\ made' = [e \in Episode |-> IF e \in q.mine THEN made[e] \cup {g} ELSE made[e]]
  /\ episode' = EpisodesAfter(q.writes)
  /\ batch' = [batch EXCEPT !.generation = g]
  /\ Ended(r, NoRequest)
  /\ astray' = {}
  /\ UNCHANGED rereview

\* A request is aborted by the database, or its process dies: of a submission
\* that is committed, the adjudication is lost.
RequestFails(r) ==
  /\ MayFail /\ request[r] # NoRequest
  /\ Goes(r, NoRequest, {})
  /\ UNCHANGED <<rows, astray>>

LockExpires(e) ==
  /\ task[e].until = "live"
  /\ task' = [task EXCEPT ![e].until = "past"]
  /\ UNCHANGED <<episode, batch, made, rereview, request, stale, astray>>

Next ==
  \/ \E r \in Request :
       \/ \E u \in User, e \in Episode :
            \/ Claim(r, u, e) \/ Release(r, u, e) \/ RequestRereview(r, u, e)
            \/ \E result \in Result : Submit(r, u, e, result)
       \/ \E e \in Episode :
            \/ Revoke(r, e)
            \/ \E to \in Reviewer : AssignTask(r, e, to) \/ Reassign(r, e, to)
            \/ \E g \in made[e] : AssignRetired(r, e, g)
       \/ \E to \in [Episode -> Reviewer] : AssignBatch(r, to)
       \/ \E q \in rereview : ApproveRereview(r, q) \/ RejectRereview(r, q)
       \/ \E present \in Presence : \E S \in SUBSET present : Dispatch(r, present, S)
       \/ Commit(r) \/ CommitDispatch(r)
       \/ AdjudicateAfterSubmit(r) \/ Recompute(r) \/ CommitDecision(r)
       \/ RequestFails(r)
  \/ \E e \in Episode : LockExpires(e)

Spec == Init /\ [][Next]_vars

-----------------------------------------------------------------------------
TypeOK ==
  /\ task \in [Episode -> TaskRow]
  /\ episode \in [Episode -> EpisodeRow]
  /\ batch \in BatchRow
  /\ made \in [Episode -> SUBSET Generation]
  /\ rereview \subseteq RereviewRow
  /\ stale \in [Request -> SUBSET Episode] /\ astray \subseteq Episode
  /\ \A r \in Request : request[r] = NoRequest \/
       /\ request[r].stage \in {"working", "submitted", "deciding"}
       /\ request[r].on \subseteq Episode

\* A dispatch plan leaves no task of another plan in the hands of a reviewer, however
\* many plans overlap (_supersede_pending_batch_tasks).
OneGeneration ==
  \A e \in Episode : task[e].status # "none" => task[e].generation = batch.generation

\* Who holds a live lock is the assignee of a task in review, unless the last
\* operation on the task had been overtaken: claims, releases, submissions, hand-outs
\* and plans move status, assignee and lock together.
ReviewedByLockHolder ==
  \A e \in Episode \ astray : Holder(task[e]) # Nobody =>
    task[e].status = "in_review" /\ task[e].assignee = Holder(task[e])

\* The task and the columns of its episode tell the same story, which two tables
\* and seven operations keep: a task belongs to a sampled episode; a finished one has a
\* result and one in review is not counted as completed, unless the last operation
\* on it had been overtaken or was the assignment of a retired task.
TaskAgreesWithEpisode ==
  \A e \in Episode :
    /\ task[e].status # "none" => episode[e].sampled
    /\ e \notin astray =>
         /\ task[e].status = "done" => episode[e].qc = "done" /\ episode[e].manual # "NOT_REVIEWED"
         /\ task[e].status = "in_review" => episode[e].qc # "done"

Reviewed(e) == episode[e].manual # "NOT_REVIEWED"

\* A result disappears only with a new plan, when its finished task is reopened
\* (_claim_task, _create_rereview_task_from_done), or under a request that had been
\* overtaken: never otherwise under somebody's hands.
ResultLostOnlyByReopening ==
  [][\A e \in Episode : Reviewed(e) /\ ~Reviewed(e)' =>
       \/ \E r \in Request : CommitDispatch(r)
       \/ task[e].status = "done" /\ task'[e].status \in {"in_review", "assigned"}
       \/ e \in astray']_vars

\* A task is finished by the one who had it in review, under the same plan, even if
\* the lock ran out while the submission was under way (submit_manual_qc); unless
\* a request that was not itself a submission got in between.
DoneByItsReviewer ==
  [][\A e \in Episode \ (astray \cup astray') :
       task[e].status # "done" /\ task'[e].status = "done" =>
         /\ task[e].status = "in_review"
         /\ task'[e].assignee = task[e].assignee
         /\ task'[e].generation = task[e].generation]_vars

\* The rules of adjudicate_batch: no decision before the sample is reviewed; more
\* than the threshold of failures, and only more, rejects all episodes; otherwise
\* all but the failed ones qualify.
DecidedByTheRules ==
  LET S == {e \in Episode : episode[e].sampled}
      failed == {e \in S : episode[e].manual = "MANUAL_FAIL"}
      complete == S # {} /\ \A e \in S : Reviewed(e)
      rejected == 100 * Cardinality(failed) > Threshold * Cardinality(S)
      qualified == {e \in Episode : episode[e].final = "QUALIFIED"}
  IN  /\ batch.decision = "PENDING" <=> ~complete
      /\ batch.decision = "REJECTED" <=> complete /\ rejected
      /\ qualified = IF complete /\ ~rejected
                     THEN {e \in Episode : episode[e].manual # "MANUAL_FAIL"} ELSE {}
      /\ \A e \in Episode : /\ episode[e].final = "PENDING" <=> ~complete
                           /\ episode[e].exportable <=> e \in qualified

\* Whatever overlaps, lost adjudications and astray rows left behind, a recomputation
\* settles the batch if no result and no decision of an episode changes under it
\* (recompute_batch_decision).
RecomputeDecides ==
  [][\A r \in Request :
       request[r] # NoRequest /\ request[r].op = "recompute" /\ stale[r] = {} /\
       CommitDecision(r) => DecidedByTheRules']_vars

\* When nothing is in flight and every sampled episode is submitted, the batch is
\* decided: a submission triggers the adjudication (submit_manual_qc).
AdjudicatedWhenSubmitted ==
  LET S == {e \in Episode : episode[e].sampled}
  IN  (\A r \in Request : request[r] = NoRequest) /\ S # {} /\
      (\A e \in S : episode[e].qc = "done") => batch.decision # "PENDING"

\* Nobody takes over a task while another user's lock on it is live
\* (_ensure_task_claimable).
LiveLockRespected ==
  [][\A e \in Episode : Holder(task[e]) # Nobody =>
       Holder(task'[e]) \in {Nobody, Holder(task[e])}]_vars
=============================================================================
