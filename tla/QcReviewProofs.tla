---------------------------- MODULE QcReviewProofs ----------------------------
(***************************************************************************)
(* Proofs about QcReview, for any number of episodes, users, requests and   *)
(* dispatch plans and any threshold, whatever requests overlap.             *)
(*                                                                          *)
(* A request writes, when it commits, the columns that differ from what it  *)
(* loaded.  The argument is that, for every episode that is not stale for   *)
(* the request, its writes applied to the rows as they are now are at any   *)
(* time a step the operation may make (Sound), or its task has been retired *)
(* by a plan and the writes to it are lost (Retired).  Requests that may    *)
(* overlap without one being stale for the other write nothing that the     *)
(* other one's soundness rests on (SubmittedOver, HandedOutOver).           *)
(***************************************************************************)
EXTENDS QcReview, FiniteSetTheorems, TLAPS

Live(r) == request[r] # NoRequest
Plans(r) == Live(r) /\ request[r].stage = "working" /\ request[r].op = "dispatch"
Works(r) == Live(r) /\ request[r].stage = "working" /\ request[r].op # "dispatch"
Decides(r) == Live(r) /\ request[r].stage = "deciding"

Held(t) == Holder(t) # Nobody => t.status = "in_review" /\ t.assignee = Holder(t)

Agree(t, ep) ==
  /\ t.status = "done" => ep.qc = "done" /\ ep.manual # "NOT_REVIEWED"
  /\ t.status = "in_review" => ep.qc # "done"

\* From the rows t and ep of an episode a request may make t2 and ep2; held says
\* that the lock of t belongs to the assignee.
Sound(held, t, ep, t2, ep2) ==
  /\ t2 \in TaskRow /\ ep2 \in EpisodeRow
  /\ t2.status # "none" /\ t2.generation = t.generation
  /\ Held(t2) /\ Agree(t2, ep2)
  /\ held /\ t.status # "done" /\ t2.status = "done" =>
       t.status = "in_review" /\ t2.assignee = t.assignee
  /\ ep.manual # "NOT_REVIEWED" /\ ep2.manual = "NOT_REVIEWED" =>
       t.status = "done" /\ t2.status \in {"in_review", "assigned"}

\* A task that nobody holds and that is not taken up.
Waiting(t) == t.status \in {"new", "assigned"} /\ Holder(t) = Nobody

\* What an operation makes of the rows it loads.
Means(op, t, ep, t2, ep2) ==
  /\ Sound(Held(t), t, ep, t2, ep2)
  /\ ep2.sampled = ep.sampled
  /\ op \in Reopening \/ ep2.manual \in Result \cup {ep.manual}
  /\ op = "submit" =>
       /\ t.status = "in_review" /\ t.until = "live" /\ t.owner # Nobody
       /\ t2.status = "done" /\ t2.owner = Nobody /\ t2.until = "none" /\ t2.assignee \in User
       /\ \E result \in Result : ep2 = [ep EXCEPT !.qc = "done", !.manual = result]
  /\ op \in HandingOut =>
       /\ t2.status \in {"new", "assigned"} /\ t2.owner = Nobody /\ t2.until = "none"
       /\ ep2 = ep \/ ep2 = [ep EXCEPT !.qc = "assigned"]

RowTypes ==
  /\ task \in [Episode -> TaskRow]
  /\ episode \in [Episode -> EpisodeRow]
  /\ batch \in BatchRow
  /\ made \in [Episode -> SUBSET Generation]
  /\ rereview \subseteq RereviewRow

\* A decision writes two columns of the episodes and one of the batch.
Decision(d) ==
  /\ DOMAIN d \subseteq {"final", "exportable"}
  /\ "final" \in DOMAIN d => d["final"] \in {"PENDING", "QUALIFIED", "UNQUALIFIED"}
  /\ "exportable" \in DOMAIN d => d["exportable"] \in BOOLEAN

Verdict(q) ==
  /\ DOMAIN q.writes = Episode
  /\ \A e \in Episode : Decision(q.writes[e].episode)
  /\ DOMAIN q.batch \subseteq {"decision"}
  /\ "decision" \in DOMAIN q.batch => q.batch["decision"] \in {"PENDING", "ACCEPTED", "REJECTED"}

Shape(q) ==
  /\ q.stage \in {"working", "submitted", "deciding"}
  /\ q.on \subseteq Episode
  /\ q.op = "recompute" => q.stage = "deciding" /\ q.on = Episode
  /\ q.stage = "working" =>
       /\ DOMAIN q.writes = q.on
       /\ q.ask \subseteq RereviewRow
       /\ q.op = "submit" => q.batch \in BatchRow /\ q.mine \in [q.on -> EpisodeRow]
       /\ q.op = "dispatch" => /\ q.on = Episode /\ q.mine \subseteq Episode
                               /\ q.batch \in BatchRow
                               /\ q.batch.generation + 1 <= MaxGeneration
  /\ q.stage = "submitted" =>
       q.batch \in BatchRow /\ \A e \in DOMAIN q.mine : q.mine[e] \in EpisodeRow
  /\ q.stage = "deciding" => Verdict(q)

\* Whatever rows the writes of a request come upon: they stay rows, of the same plan
\* and as sampled as before, and keep a result unless the operation reopens.
KeepsTask(w) ==
  \A t \in TaskRow : /\ Written(t, w.task) \in TaskRow
                     /\ Written(t, w.task).generation = t.generation
                     /\ t.status # "none" => Written(t, w.task).status # "none"
KeepsEpisode(op, w) ==
  \A ep \in EpisodeRow :
    /\ Written(ep, w.episode) \in EpisodeRow
    /\ op # "dispatch" => Written(ep, w.episode).sampled = ep.sampled
    /\ op \notin Reopening \cup {"dispatch"} /\ ep.manual # "NOT_REVIEWED" =>
         Written(ep, w.episode).manual # "NOT_REVIEWED"

\* What every submission of a review writes, and every hand-out of a task.
Submission(w) ==
  /\ DOMAIN w.task \subseteq {"status", "assignee", "owner", "until"}
  /\ {"status", "owner", "until"} \subseteq DOMAIN w.task
  /\ w.task["status"] = "done" /\ w.task["owner"] = Nobody /\ w.task["until"] = "none"
  /\ "assignee" \in DOMAIN w.task => w.task["assignee"] \in User
  /\ DOMAIN w.episode \subseteq {"qc", "manual"}
  /\ "qc" \in DOMAIN w.episode => w.episode["qc"] = "done"
  /\ "manual" \in DOMAIN w.episode => w.episode["manual"] \in Result
HandOut(w) ==
  /\ DOMAIN w.task \subseteq {"status", "assignee", "owner", "until"}
  /\ "status" \in DOMAIN w.task => w.task["status"] \in {"new", "assigned"}
  /\ "assignee" \in DOMAIN w.task => w.task["assignee"] \in User \cup {Nobody}
  /\ "owner" \in DOMAIN w.task => w.task["owner"] = Nobody
  /\ "until" \in DOMAIN w.task => w.task["until"] = "none"
  /\ DOMAIN w.episode \subseteq {"qc"}
  /\ "qc" \in DOMAIN w.episode => w.episode["qc"] = "assigned"

Keeps(q) ==
  q.stage = "working" =>
    \A e \in q.on : LET w == q.writes[e] IN
      /\ KeepsTask(w) /\ KeepsEpisode(q.op, w)
      /\ q.op = "submit" => Submission(w)
      /\ q.op \in HandingOut => HandOut(w)
      /\ q.op = "dispatch" /\ e \in q.mine =>
           "sampled" \in DOMAIN w.episode /\ w.episode["sampled"] = TRUE

TypeInv ==
  /\ RowTypes
  /\ DOMAIN request = Request
  /\ stale \in [Request -> SUBSET Episode] /\ astray \subseteq Episode
  /\ \A r \in Request : Live(r) => Shape(request[r]) /\ Keeps(request[r])

\* The keys of all tasks, retired ones too, are on record.
PlanInv ==
  /\ OneGeneration
  /\ \A e \in Episode : task[e].status # "none" =>
       task[e].generation \in made[e] /\ episode[e].sampled
  /\ \A r \in Request : Works(r) =>
       \A e \in request[r].on : request[r].writes[e].of \in made[e]

\* The task a request loaded is not the episode's any more.
Retired(t, w) == t.status = "none" \/ t.generation # w.of

\* What a request will write is sound for the rows as they are, or its task is
\* retired and nobody has taken up the next.
SoundFor(held, op, t, ep, w) ==
  IF Retired(t, w)
  THEN op \notin Reopening /\ (t.status = "none" \/ t.status \in {"new", "assigned"}) /\
       Holder(t) = Nobody
  ELSE /\ Sound(held, t, ep, Written(t, w.task), Written(ep, w.episode))
       /\ op \in HandingOut => Waiting(Written(t, w.task))

RowInv == \A e \in Episode \ astray : Held(task[e]) /\ Agree(task[e], episode[e])
WritesInv ==
  \A r \in Request : Works(r) =>
    \A e \in request[r].on \ stale[r] :
      SoundFor(e \notin astray, request[r].op, task[e], episode[e], request[r].writes[e])

ReviewInv == RowInv /\ WritesInv

-----------------------------------------------------------------------------
\* Rows and the columns written to them.

\* Writing the changes to what was loaded makes the row that was meant.
LEMMA TaskWritten ==
  ASSUME NEW was \in TaskRow, NEW will \in TaskRow
  PROVE  Written(was, Changes(was, will)) = will
BY DEF Written, Changes, TaskRow

LEMMA EpisodeWritten ==
  ASSUME NEW was \in EpisodeRow, NEW will \in EpisodeRow
  PROVE  Written(was, Changes(was, will)) = will
BY DEF Written, Changes, EpisodeRow

\* The changes to what was loaded make a row of any other one.
LEMMA TaskKept ==
  ASSUME NEW was \in TaskRow, NEW will \in TaskRow, will.generation = was.generation,
         will.status = was.status \/ will.status # "none", NEW t \in TaskRow
  PROVE  LET now == Written(t, Changes(was, will)) IN
         /\ now \in TaskRow /\ now.generation = t.generation
         /\ t.status # "none" => now.status # "none"
BY DEF Written, Changes, TaskRow

LEMMA EpisodeKept ==
  ASSUME NEW was \in EpisodeRow, NEW will \in EpisodeRow, NEW ep \in EpisodeRow
  PROVE  LET now == Written(ep, Changes(was, will)) IN
         /\ now \in EpisodeRow
         /\ will.sampled = was.sampled => now.sampled = ep.sampled
         /\ will.manual \in Result \cup {was.manual} /\ ep.manual # "NOT_REVIEWED" =>
              now.manual # "NOT_REVIEWED"
BY DEF Written, Changes, EpisodeRow, Result

\* What a request writes to the task it loaded: a lock taken anew in any case.
Loaded(t, will) == IF will.until = "live" THEN [t EXCEPT !.until = "none"] ELSE t

LEMMA LoadedRow ==
  ASSUME NEW was \in TaskRow, NEW will \in TaskRow
  PROVE  /\ Loaded(was, will) \in TaskRow
         /\ Loaded(was, will).generation = was.generation
         /\ Loaded(was, will).status = was.status
         /\ Written(was, Changes(Loaded(was, will), will)) = will
<1>1. CASE will.until = "live"
  <2>. DEFINE was2 == [was EXCEPT !.until = "none"]
  <2>1. was2 \in TaskRow /\ was2.generation = was.generation /\ was2.status = was.status
    BY DEF TaskRow
  <2>2. Written(was, Changes(was2, will)) = will
    BY <1>1 DEF Written, Changes, TaskRow
  <2>. QED
    BY <1>1, <2>1, <2>2 DEF Loaded
<1>2. CASE will.until # "live"
  BY <1>2, TaskWritten DEF Loaded
<1>. QED
  BY <1>1, <1>2

LEMMA WriteIs ==
  ASSUME NEW e, NEW t, NEW ep
  PROVE  /\ Write(e, t, ep).of = task[e].generation
         /\ Write(e, t, ep).task = Changes(Loaded(task[e], t), t)
         /\ Write(e, t, ep).episode = Changes(episode[e], ep)
BY DEF Write, Loaded

LEMMA SubmissionOf ==
  ASSUME NEW t \in TaskRow, NEW ep \in EpisodeRow, NEW t2, NEW ep2, NEW w,
         w.task = Changes(Loaded(t, t2), t2), w.episode = Changes(ep, ep2),
         Means("submit", t, ep, t2, ep2)
  PROVE  Submission(w)
<1>1. /\ t.status = "in_review" /\ t.until = "live" /\ t.owner # Nobody
      /\ t2 \in TaskRow /\ t2.generation = t.generation
      /\ t2.status = "done" /\ t2.owner = Nobody /\ t2.until = "none" /\ t2.assignee \in User
  BY DEF Means, Sound
<1>2. PICK result \in Result : ep2 = [ep EXCEPT !.qc = "done", !.manual = result]
  BY DEF Means
<1>3. w.task = Changes(t, t2)
  BY <1>1 DEF Loaded
<1>4. /\ DOMAIN w.task \subseteq {"status", "assignee", "owner", "until"}
      /\ {"status", "owner", "until"} \subseteq DOMAIN w.task
      /\ \A c \in DOMAIN w.task : w.task[c] = t2[c]
  BY <1>1, <1>3 DEF Changes, TaskRow
<1>5. /\ DOMAIN w.episode \subseteq {"qc", "manual"}
      /\ \A c \in DOMAIN w.episode : w.episode[c] = ep2[c]
  BY <1>2 DEF Changes, EpisodeRow
<1>6. ep2["qc"] = "done" /\ ep2["manual"] \in Result
  BY <1>2 DEF EpisodeRow
<1>. QED
  BY <1>1, <1>4, <1>5, <1>6 DEF Submission

LEMMA HandOutOf ==
  ASSUME NEW t \in TaskRow, NEW ep \in EpisodeRow, NEW t2, NEW ep2, NEW w, NEW op \in HandingOut,
         w.task = Changes(Loaded(t, t2), t2), w.episode = Changes(ep, ep2),
         Means(op, t, ep, t2, ep2)
  PROVE  HandOut(w)
<1>1. /\ t2 \in TaskRow /\ t2.generation = t.generation
      /\ t2.status \in {"new", "assigned"} /\ t2.owner = Nobody /\ t2.until = "none"
      /\ ep2 = ep \/ ep2 = [ep EXCEPT !.qc = "assigned"]
  BY DEF Means, Sound
<1>2. w.task = Changes(t, t2)
  BY <1>1 DEF Loaded
<1>3. /\ DOMAIN w.task \subseteq {"status", "assignee", "owner", "until"}
      /\ \A c \in DOMAIN w.task : w.task[c] = t2[c]
      /\ t2["assignee"] \in User \cup {Nobody}
  BY <1>1, <1>2 DEF Changes, TaskRow
<1>4. /\ DOMAIN w.episode \subseteq {"qc"}
      /\ \A c \in DOMAIN w.episode : w.episode[c] = ep2[c] /\ ep2["qc"] = "assigned"
  BY <1>1 DEF Changes, EpisodeRow
<1>. QED
  BY <1>1, <1>3, <1>4 DEF HandOut

LEMMA MeansKept ==
  ASSUME NEW t \in TaskRow, NEW ep \in EpisodeRow,
         NEW op, op # "dispatch", NEW t2, NEW ep2, Means(op, t, ep, t2, ep2), NEW w,
         w.task = Changes(Loaded(t, t2), t2), w.episode = Changes(ep, ep2)
  PROVE  /\ KeepsTask(w) /\ KeepsEpisode(op, w)
         /\ Written(t, w.task) = t2 /\ Written(ep, w.episode) = ep2
<1>1. /\ t2 \in TaskRow /\ t2.generation = t.generation /\ t2.status # "none"
      /\ ep2 \in EpisodeRow /\ ep2.sampled = ep.sampled
      /\ op \in Reopening \/ ep2.manual \in Result \cup {ep.manual}
  BY DEF Means, Sound
<1>2. KeepsTask(w)
  BY <1>1, LoadedRow, TaskKept DEF KeepsTask
<1>3. KeepsEpisode(op, w)
  BY <1>1, EpisodeKept DEF KeepsEpisode
<1>. QED
  BY <1>1, <1>2, <1>3, LoadedRow, EpisodeWritten

\* A lock that runs out leaves the writes sound.
LEMMA SoundExpired ==
  ASSUME NEW held, NEW t \in TaskRow, NEW ep, NEW w, NEW ep2,
         Sound(held, t, ep, Written(t, w), ep2)
  PROVE  LET x == [t EXCEPT !.until = "past"] IN
         /\ Sound(held, x, ep, Written(x, w), ep2)
         /\ Waiting(Written(t, w)) => Waiting(Written(x, w))
<1>. DEFINE x == [t EXCEPT !.until = "past"]
            t2 == Written(t, w)
            x2 == Written(x, w)
<1>1. /\ x \in TaskRow /\ x.status = t.status /\ x.assignee = t.assignee
      /\ x.generation = t.generation
  BY DEF TaskRow
<1>2. t2 \in TaskRow
  BY DEF Sound
<1>3. x2 = t2 \/ x2 = [t2 EXCEPT !.until = "past"]
  BY DEF TaskRow, Written
<1>4. /\ x2 \in TaskRow /\ x2.status = t2.status /\ x2.assignee = t2.assignee
      /\ x2.generation = t2.generation /\ (Holder(x2) = Holder(t2) \/ Holder(x2) = Nobody)
  BY <1>2, <1>3 DEF TaskRow, Holder
<1>. HIDE DEF x, x2, t2
<1>5. Sound(held, t, ep, t2, ep2) => Sound(held, x, ep, x2, ep2)
  BY <1>1, <1>4 DEF Sound, Held, Agree
<1>6. Waiting(t2) => Waiting(x2)
  BY <1>4 DEF Waiting
<1>. QED
  BY <1>5, <1>6 DEF x, x2, t2

LEMMA DecisionWritten ==
  ASSUME NEW ep \in EpisodeRow, NEW d, Decision(d)
  PROVE  /\ Written(ep, d) \in EpisodeRow
         /\ Written(ep, d).qc = ep.qc /\ Written(ep, d).manual = ep.manual
         /\ Written(ep, d).sampled = ep.sampled
BY DEF Decision, Written, EpisodeRow

\* A decision that commits between a load and its commit touches none of the
\* columns the soundness of the writes is about.
LEMMA WrittenOverDecision ==
  ASSUME NEW ep \in EpisodeRow, NEW d, Decision(d), NEW w, Written(ep, w) \in EpisodeRow
  PROVE  LET a == Written(Written(ep, d), w)  b == Written(ep, w) IN
         a \in EpisodeRow /\ a.qc = b.qc /\ a.manual = b.manual /\ a.sampled = b.sampled
BY DEF Decision, Written, EpisodeRow

LEMMA SoundDecided ==
  ASSUME NEW held, NEW t, NEW t2, NEW ep \in EpisodeRow, NEW d, Decision(d), NEW w,
         Sound(held, t, ep, t2, Written(ep, w))
  PROVE  Sound(held, t, Written(ep, d), t2, Written(Written(ep, d), w))
<1>1. Written(ep, w) \in EpisodeRow
  BY DEF Sound
<1>. QED
  BY <1>1, DecisionWritten, WrittenOverDecision DEF Sound, Agree

\* A submission that commits while another one of the same task is under way.
LEMMA SubmittedOver ==
  ASSUME NEW held, NEW held2, NEW t \in TaskRow, NEW ep \in EpisodeRow, NEW v, NEW w,
         Submission(v), Submission(w), KeepsTask(w), KeepsEpisode("submit", w),
         Written(t, v.task) \in TaskRow, Written(ep, v.episode) \in EpisodeRow,
         Written(t, v.task).generation = t.generation,
         Sound(held, t, ep, Written(t, w.task), Written(ep, w.episode))
  PROVE  LET t2 == Written(t, v.task)  ep2 == Written(ep, v.episode) IN
         Sound(held2, t2, ep2, Written(t2, w.task), Written(ep2, w.episode))
<1>. DEFINE t2 == Written(t, v.task)
            ep2 == Written(ep, v.episode)
            t3 == Written(t2, w.task)
            ep3 == Written(ep2, w.episode)
            a == Written(t, w.task)
            b == Written(ep, w.episode)
<1>0. t2 \in TaskRow /\ ep2 \in EpisodeRow
  OBVIOUS
<1>1. t2.status = "done"
  BY DEF Submission, Written, TaskRow
<1>2. /\ t3 \in TaskRow /\ t3.generation = t2.generation
      /\ ep3 \in EpisodeRow
      /\ ep2.manual # "NOT_REVIEWED" => ep3.manual # "NOT_REVIEWED"
  BY DEF KeepsTask, KeepsEpisode, Reopening
<1>3. t3.status = "done" /\ t3.until = "none"
  <2>. HIDE DEF t2
  <2>. QED
    BY <1>0 DEF Submission, Written, TaskRow
<1>4. a.status = "done" /\ Agree(a, b)
  BY DEF Submission, Written, TaskRow, Sound
<1>5. b.qc = "done" /\ b.manual # "NOT_REVIEWED"
  BY <1>4 DEF Agree
<1>6. ep3.qc = "done"
  <2>1. "qc" \in DOMAIN w.episode \/ ep.qc = "done"
    BY <1>5 DEF Written, EpisodeRow
  <2>2. "qc" \in DOMAIN w.episode \/ ep2.qc = "done"
    BY <2>1 DEF Submission, Written, EpisodeRow
  <2>. HIDE DEF ep2
  <2>. QED
    BY <1>0, <2>2 DEF Submission, Written, EpisodeRow
<1>7. ep3.manual # "NOT_REVIEWED"
  <2>1. "manual" \in DOMAIN w.episode \/ ep.manual # "NOT_REVIEWED"
    BY <1>5 DEF Written, EpisodeRow
  <2>2. "manual" \in DOMAIN w.episode \/ ep2.manual # "NOT_REVIEWED"
    BY <2>1 DEF Submission, Written, EpisodeRow, Result
  <2>. HIDE DEF ep2
  <2>3. "manual" \in DOMAIN w.episode => ep3.manual \in Result
    BY <1>0 DEF Submission, Written, EpisodeRow
  <2>. QED
    BY <1>2, <2>2, <2>3 DEF Result, ep2
<1>. HIDE DEF t2, ep2, t3, ep3
<1>8. Sound(held2, t2, ep2, t3, ep3)
  BY <1>1, <1>2, <1>3, <1>6, <1>7 DEF Sound, Held, Agree, Holder
<1>. QED
  BY <1>8 DEF t2, ep2, t3, ep3

\* A task that waits goes on waiting when it is handed out anew.
LEMMA WaitsHandedOut ==
  ASSUME NEW t \in TaskRow, NEW v, HandOut(v), t.status = "none" \/ t.status \in {"new", "assigned"},
         Holder(t) = Nobody
  PROVE  LET t2 == Written(t, v.task) IN
         /\ t2.status = "none" \/ t2.status \in {"new", "assigned"}
         /\ Holder(t2) = Nobody
<1>. DEFINE t2 == Written(t, v.task)
<1>1. /\ t2.status \in {t.status, "new", "assigned"}
      /\ t2.until \in {t.until, "none"} /\ t2.owner \in {t.owner, Nobody}
  BY DEF HandOut, Written, TaskRow
<1>. HIDE DEF t2
<1>2. t2.status = "none" \/ t2.status \in {"new", "assigned"}
  BY <1>1
<1>3. Holder(t2) = Nobody
  BY <1>1 DEF Holder
<1>. QED
  BY <1>2, <1>3 DEF t2

\* A hand-out that commits while another one is under way.
LEMMA HandedOutOver ==
  ASSUME NEW held, NEW held2, NEW t \in TaskRow, NEW ep \in EpisodeRow, NEW v, NEW w,
         HandOut(v), HandOut(w), KeepsTask(w), KeepsTask(v),
         NEW op \in HandingOut, KeepsEpisode(op, w), NEW t2 \in {t, Written(t, v.task)},
         Written(ep, v.episode) \in EpisodeRow,
         Sound(held, t, ep, Written(t, w.task), Written(ep, w.episode)),
         Waiting(Written(t, w.task))
  PROVE  LET ep2 == Written(ep, v.episode) IN
         /\ Sound(held2, t2, ep2, Written(t2, w.task), Written(ep2, w.episode))
         /\ Waiting(Written(t2, w.task))
<1>. DEFINE ep2 == Written(ep, v.episode)
            t3 == Written(t2, w.task)
            ep3 == Written(ep2, w.episode)
            a == Written(t, w.task)
<1>1. t2 \in TaskRow
  BY DEF KeepsTask
<1>2. t3 \in TaskRow /\ t3.generation = t2.generation
  BY <1>1 DEF KeepsTask
<1>3. ep3 \in EpisodeRow /\ (ep2.manual # "NOT_REVIEWED" => ep3.manual # "NOT_REVIEWED")
  BY DEF KeepsEpisode, Reopening, HandingOut
<1>4. a.status \in {"new", "assigned"} /\ Holder(a) = Nobody
  BY DEF Waiting
<1>5. /\ t2.status \in {t.status, "new", "assigned"}
      /\ t2.until \in {t.until, "none"} /\ t2.owner \in {t.owner, Nobody}
  BY DEF HandOut, Written, TaskRow
<1>6. t3.status \in {"new", "assigned"}
  <2>1. CASE "status" \in DOMAIN w.task
    BY <1>1, <2>1 DEF HandOut, Written, TaskRow
  <2>2. CASE "status" \notin DOMAIN w.task
    <3>1. a.status = t.status /\ t3.status = t2.status
      BY <1>1, <2>2 DEF Written, TaskRow
    <3>. QED
      BY <1>4, <1>5, <3>1
  <2>. QED
    BY <2>1, <2>2
<1>7. Holder(t3) = Nobody
  <2>1. CASE "until" \in DOMAIN w.task
    <3>1. t3.until = "none"
      BY <1>1, <2>1 DEF HandOut, Written, TaskRow
    <3>. QED
      BY <3>1 DEF Holder
  <2>2. CASE "owner" \in DOMAIN w.task
    <3>1. t3.owner = Nobody
      BY <1>1, <2>2 DEF HandOut, Written, TaskRow
    <3>. QED
      BY <3>1 DEF Holder
  <2>3. CASE "until" \notin DOMAIN w.task /\ "owner" \notin DOMAIN w.task
    <3>1. /\ a.until = t.until /\ a.owner = t.owner
          /\ t3.until = t2.until /\ t3.owner = t2.owner
      BY <1>1, <2>3 DEF Written, TaskRow
    <3>. HIDE DEF a, t3
    <3>. QED
      BY <1>4, <1>5, <3>1 DEF Holder
  <2>. QED
    BY <2>1, <2>2, <2>3
<1>. HIDE DEF t3, ep2, ep3, a
<1>8. Sound(held2, t2, ep2, t3, ep3) /\ Waiting(t3)
  BY <1>2, <1>3, <1>6, <1>7 DEF Sound, Held, Agree, Waiting
<1>. QED
  BY <1>8 DEF t3, ep2, ep3

LEMMA DecisionOfFinal ==
  ASSUME NEW ep \in EpisodeRow, NEW outcome
  PROVE  Decision(Changes(ep, Final(ep, outcome)))
BY DEF Decision, Changes, Final, Pending, EpisodeRow

-----------------------------------------------------------------------------
\* Each operation makes a sound step of the rows it loads.

LEMMA ClaimMeans ==
  ASSUME NEW t \in TaskRow, NEW ep \in EpisodeRow, t.status # "none",
         NEW u \in User, MayClaim(t, u)
  PROVE  Means("claim", t, ep, ClaimedTask(t, u), ClaimedEpisode(t, ep))
<1>1. ClaimedTask(t, u) \in TaskRow
  BY DEF ClaimedTask, TaskRow
<1>2. /\ ClaimedTask(t, u).status = "in_review" /\ ClaimedTask(t, u).assignee = u
      /\ ClaimedTask(t, u).owner = u /\ ClaimedTask(t, u).generation = t.generation
  BY DEF ClaimedTask, TaskRow
<1>3. Settled(t).status = "done" => t.status = "done"
  BY DEF Settled, Idle, TaskRow
<1>4. /\ ClaimedEpisode(t, ep) \in EpisodeRow
      /\ ClaimedEpisode(t, ep).qc = "in_review" /\ ClaimedEpisode(t, ep).sampled = ep.sampled
      /\ ClaimedEpisode(t, ep).manual = ep.manual \/ t.status = "done"
  BY <1>3 DEF ClaimedEpisode, Pending, EpisodeRow
<1>5. Held(ClaimedTask(t, u))
  BY <1>2 DEF Held, Holder
<1>. QED
  BY <1>1, <1>2, <1>4, <1>5 DEF Means, Reopening, HandingOut, Sound, Agree

LEMMA ReleaseMeans ==
  ASSUME NEW t \in TaskRow, NEW ep \in EpisodeRow, NEW u, MayRelease(t, u)
  PROVE  Means("release", t, ep, [Unlocked(t) EXCEPT !.status = Idle(t)], ReleasedEpisode(t, ep))
<1>. DEFINE t2 == [Unlocked(t) EXCEPT !.status = Idle(t)]
<1>1. /\ t2 \in TaskRow /\ t2.status \in {"new", "assigned"} /\ Holder(t2) = Nobody
      /\ t2.generation = t.generation
  BY DEF Unlocked, Idle, TaskRow, Holder
<1>2. /\ ReleasedEpisode(t, ep) \in EpisodeRow
      /\ ReleasedEpisode(t, ep).manual = ep.manual
      /\ ReleasedEpisode(t, ep).sampled = ep.sampled
  BY DEF ReleasedEpisode, Idle, EpisodeRow
<1>. QED
  BY <1>1, <1>2 DEF Means, HandingOut, Sound, Held, Agree

LEMMA SubmitMeans ==
  ASSUME NEW t \in TaskRow, NEW ep \in EpisodeRow,
         NEW u \in User, NEW result \in Result, MaySubmit(t, u)
  PROVE  Means("submit", t, ep, DoneTask(t, u), ReviewedEpisode(ep, result))
<1>1. /\ t.status = "in_review" /\ Holder(t) = u /\ u # Nobody
      /\ t.until = "live" /\ t.owner = u
  BY ReviewAssumption DEF MaySubmit, Holder
<1>2. /\ DoneTask(t, u) \in TaskRow /\ DoneTask(t, u).status = "done"
      /\ DoneTask(t, u).assignee = u /\ DoneTask(t, u).owner = Nobody
      /\ DoneTask(t, u).until = "none" /\ DoneTask(t, u).generation = t.generation
  BY DEF DoneTask, Unlocked, TaskRow
<1>3. /\ ReviewedEpisode(ep, result) \in EpisodeRow
      /\ ReviewedEpisode(ep, result).qc = "done"
      /\ ReviewedEpisode(ep, result).manual = result
      /\ ReviewedEpisode(ep, result).sampled = ep.sampled
      /\ ReviewedEpisode(ep, result) = [ep EXCEPT !.qc = "done", !.manual = result]
  BY DEF ReviewedEpisode, EpisodeRow
<1>4. result # "NOT_REVIEWED"
  BY DEF Result
<1>5. Held(t) => t.assignee = u
  BY <1>1 DEF Held
<1>6. Held(DoneTask(t, u))
  BY <1>2 DEF Held, Holder
<1>7. Sound(Held(t), t, ep, DoneTask(t, u), ReviewedEpisode(ep, result))
  BY <1>1, <1>2, <1>3, <1>4, <1>5, <1>6 DEF Sound, Agree
<1>. QED
  BY <1>1, <1>2, <1>3, <1>7 DEF Means, HandingOut

LEMMA AssignedRow ==
  ASSUME NEW t \in TaskRow, NEW to \in User
  PROVE  /\ AssignedTask(t, to) \in TaskRow /\ AssignedTask(t, to).status = "assigned"
         /\ AssignedTask(t, to).owner = Nobody /\ AssignedTask(t, to).until = "none"
         /\ Holder(AssignedTask(t, to)) = Nobody
         /\ AssignedTask(t, to).generation = t.generation
BY DEF AssignedTask, Unlocked, TaskRow, Holder

LEMMA AssignMeans ==
  ASSUME NEW t \in TaskRow, NEW ep \in EpisodeRow, t.status # "none", NEW to \in User
  PROVE  Means("assign", t, ep, AssignedTask(t, to), AssignedEpisode(ep))
<1>1. /\ AssignedEpisode(ep) \in EpisodeRow
      /\ AssignedEpisode(ep).manual = ep.manual /\ AssignedEpisode(ep).sampled = ep.sampled
      /\ AssignedEpisode(ep) = [ep EXCEPT !.qc = "assigned"]
  BY DEF AssignedEpisode, EpisodeRow
<1>. QED
  BY <1>1, AssignedRow DEF Means, Sound, Held, Agree

LEMMA PoolMeans ==
  ASSUME NEW t \in TaskRow, NEW ep \in EpisodeRow, Managed(t)
  PROVE  /\ \A to \in User : Means("pool", t, ep, AssignedTask(t, to), ep)
         /\ Means("pool", t, ep, RevokedTask(t), ep)
<1>1. /\ RevokedTask(t) \in TaskRow /\ RevokedTask(t).status = "new"
      /\ RevokedTask(t).owner = Nobody /\ RevokedTask(t).until = "none"
      /\ Holder(RevokedTask(t)) = Nobody /\ RevokedTask(t).generation = t.generation
  BY DEF RevokedTask, Unlocked, TaskRow, Holder
<1>. QED
  BY <1>1, AssignedRow DEF Means, Sound, Held, Agree, Managed

LEMMA ApproveMeans ==
  ASSUME NEW t \in TaskRow, NEW ep \in EpisodeRow, MayReopen(t), NEW to \in User
  PROVE  Means("approve", t, ep, AssignedTask(t, to), ReopenedEpisode(ep))
<1>1. ReopenedEpisode(ep) \in EpisodeRow /\ ReopenedEpisode(ep).sampled = ep.sampled
  BY DEF ReopenedEpisode, EpisodeRow
<1>. QED
  BY <1>1, AssignedRow DEF Means, Reopening, HandingOut, Sound, Held, Agree, MayReopen

-----------------------------------------------------------------------------
\* Steps that load: a request begins or goes on, and no row changes.

\* A verdict on the rows as they are.
VerdictNow(q) ==
  /\ \A e \in Episode : q.writes[e].episode = Changes(episode[e], Final(episode[e], Outcome(episode)))
  /\ q.batch = Changes(batch, [batch EXCEPT !.decision = Outcome(episode)])

\* What the request loaded are the rows as they are, but for those it missed.
Fits(x, missed) ==
  /\ x.stage = "working" /\ x.op # "dispatch" =>
       \A e \in x.on : LET w == x.writes[e] IN
         /\ w.of \in made[e] \/ (task[e].status # "none" /\ w.of = task[e].generation)
         /\ e \notin missed =>
              /\ ~Retired(task[e], w)
              /\ Sound(Held(task[e]), task[e], episode[e],
                       Written(task[e], w.task), Written(episode[e], w.episode))
              /\ x.op \in HandingOut => Waiting(Written(task[e], w.task))
  /\ x.stage = "deciding" => ~BatchLocked
  /\ x.op = "recompute" => VerdictNow(x)

Loads(r) ==
  \E x, missed :
    /\ Goes(r, x, missed)
    /\ UNCHANGED <<rows, astray>>
    /\ missed \in SUBSET Episode
    /\ x # NoRequest => Shape(x) /\ Keeps(x) /\ Fits(x, missed)

LEMMA RowFacts ==
  ASSUME RowTypes, NEW e \in Episode
  PROVE  /\ task[e] \in TaskRow /\ episode[e] \in EpisodeRow
         /\ task[e].generation \in Generation
BY DEF RowTypes, TaskRow

\* What a request writes to an episode: what the operation means, or an assignment
\* to a task that has been retired.
Effect(op, e, w, missed) ==
  \/ \E t, ep : /\ w = Write(e, t, ep)
                /\ task[e].status # "none"
                /\ Means(op, task[e], episode[e], t, ep)
  \/ /\ missed /\ op = "assign" /\ w.of \in made[e]
     /\ KeepsTask(w) /\ KeepsEpisode(op, w) /\ HandOut(w)

LoadedWell(op, e, w, missed) ==
  /\ KeepsTask(w) /\ KeepsEpisode(op, w)
  /\ op = "submit" => Submission(w)
  /\ op \in HandingOut => HandOut(w)
  /\ w.of \in made[e] \/ (task[e].status # "none" /\ w.of = task[e].generation)
  /\ ~missed =>
       /\ ~Retired(task[e], w)
       /\ Sound(Held(task[e]), task[e], episode[e],
                Written(task[e], w.task), Written(episode[e], w.episode))
       /\ op \in HandingOut => Waiting(Written(task[e], w.task))

LEMMA BeginLoads ==
  ASSUME TypeInv, NEW r \in Request, NEW op, op \notin {"dispatch", "recompute"},
         NEW writes, DOMAIN writes \subseteq Episode, NEW ask \in SUBSET RereviewRow,
         NEW mine, op = "submit" => mine \in [DOMAIN writes -> EpisodeRow],
         NEW missed \in SUBSET Episode,
         \A e \in DOMAIN writes : Effect(op, e, writes[e], e \in missed),
         Begin(r, op, writes, ask, mine, missed)
  PROVE  Loads(r)
<1>. DEFINE x == [stage |-> "working", op |-> op, on |-> DOMAIN writes, writes |-> writes,
                  batch |-> IF op \in {"submit", "dispatch"} THEN batch ELSE NoBatch,
                  counted |-> op = "submit" /\ SampleDone(EpisodesAfter(writes)),
                  ask |-> ask, mine |-> mine]
<1>1. Goes(r, x, missed) /\ UNCHANGED <<rows, astray>>
  BY DEF Begin
<1>2. /\ x.stage = "working" /\ x.op = op /\ x.on = DOMAIN writes /\ x.writes = writes
      /\ x.ask = ask /\ x.mine = mine
      /\ op = "submit" => x.batch = batch
  OBVIOUS
<1>. HIDE DEF x
<1>3. Shape(x)
  BY <1>2 DEF Shape, TypeInv, RowTypes
<1>4. ASSUME NEW e \in DOMAIN writes
      PROVE  LoadedWell(op, e, writes[e], e \in missed)
  <2>1. task[e] \in TaskRow /\ episode[e] \in EpisodeRow
    BY RowFacts DEF TypeInv
  <2>2. ASSUME NEW t, NEW ep, writes[e] = Write(e, t, ep), task[e].status # "none",
               Means(op, task[e], episode[e], t, ep)
        PROVE  LoadedWell(op, e, writes[e], e \in missed)
    <3>1. /\ writes[e].of = task[e].generation
          /\ writes[e].task = Changes(Loaded(task[e], t), t)
          /\ writes[e].episode = Changes(episode[e], ep)
      BY <2>2, WriteIs
    <3>2. KeepsTask(writes[e]) /\ KeepsEpisode(op, writes[e])
      BY <2>1, <2>2, <3>1, MeansKept
    <3>3. op = "submit" => Submission(writes[e])
      BY <2>1, <2>2, <3>1, SubmissionOf
    <3>4. op \in HandingOut => HandOut(writes[e])
      BY <2>1, <2>2, <3>1, HandOutOf
    <3>7. Written(task[e], writes[e].task) = t /\ Written(episode[e], writes[e].episode) = ep
      BY <2>1, <2>2, <3>1, LoadedRow, EpisodeWritten DEF Means, Sound
    <3>5. op \in HandingOut => Waiting(t)
      BY <2>2 DEF Means, Waiting, Holder
    <3>6. Sound(Held(task[e]), task[e], episode[e], t, ep)
      BY <2>2 DEF Means
    <3>. QED
      BY <2>2, <3>1, <3>2, <3>3, <3>4, <3>5, <3>6, <3>7 DEF LoadedWell, Retired
  <2>3. CASE /\ e \in missed /\ op = "assign" /\ writes[e].of \in made[e]
             /\ KeepsTask(writes[e]) /\ KeepsEpisode(op, writes[e]) /\ HandOut(writes[e])
    <3>1. op # "submit" /\ writes[e].of \in made[e]
      BY <2>3
    <3>. QED
      BY <2>3, <3>1 DEF LoadedWell
  <2>. QED
    BY <2>2, <2>3 DEF Effect
<1>5. Keeps(x)
  BY <1>2, <1>4 DEF Keeps, LoadedWell
<1>6. Fits(x, missed)
  BY <1>2, <1>4 DEF Fits, LoadedWell
<1>. QED
  BY <1>1, <1>3, <1>5, <1>6 DEF Loads

\* The same for a request about one episode, and for one about none.
LEMMA BeginOnLoads ==
  ASSUME TypeInv, NEW r \in Request, NEW op, NEW e \in Episode, NEW t, NEW ep,
         NEW ask \in SUBSET RereviewRow, op \notin {"dispatch", "recompute", "submit"},
         task[e].status # "none" => Means(op, task[e], episode[e], t, ep),
         BeginOn(r, op, e, t, ep, ask)
  PROVE  Loads(r)
<1>. DEFINE writes == [x \in {e} |-> Write(e, t, ep)]
<1>1. /\ task[e].status # "none"
      /\ Begin(r, op, writes, ask, {}, {})
  BY DEF BeginOn
<1>2. DOMAIN writes = {e} /\ writes[e] = Write(e, t, ep)
  OBVIOUS
<1>. HIDE DEF writes
<1>3. \A x \in DOMAIN writes : Effect(op, x, writes[x], x \in {})
  BY <1>1, <1>2 DEF Effect
<1>. QED
  BY <1>1, <1>2, <1>3, BeginLoads

LEMMA BeginBareLoads ==
  ASSUME TypeInv, NEW r \in Request, NEW op \in {"ask", "reject"},
         NEW ask \in SUBSET RereviewRow, BeginBare(r, op, ask)
  PROVE  Loads(r)
<1>. DEFINE writes == [e \in {} |-> NoTask]
<1>1. Begin(r, op, writes, ask, {}, {}) /\ DOMAIN writes = {}
  BY DEF BeginBare
<1>. HIDE DEF writes
<1>. QED
  BY <1>1, BeginLoads

LEMMA ReviewerLoads ==
  ASSUME TypeInv, NEW r \in Request, NEW u \in User, NEW e \in Episode,
         Claim(r, u, e) \/ Release(r, u, e) \/ RequestRereview(r, u, e)
  PROVE  Loads(r)
<1>. USE RowFacts DEF TypeInv
<1>1. CASE Claim(r, u, e)
  BY <1>1, ClaimMeans, BeginOnLoads DEF Claim
<1>2. CASE Release(r, u, e)
  BY <1>2, ReleaseMeans, BeginOnLoads DEF Release
<1>3. CASE RequestRereview(r, u, e)
  <2>. DEFINE row == [on |-> e, by |-> u, generation |-> task[e].generation]
  <2>1. row \in RereviewRow
    BY DEF RereviewRow, TaskRow
  <2>2. BeginBare(r, "ask", {row})
    BY <1>3 DEF RequestRereview
  <2>. HIDE DEF row
  <2>. QED
    BY <2>1, <2>2, BeginBareLoads
<1>. QED
  BY <1>1, <1>2, <1>3

LEMMA SubmitLoads ==
  ASSUME TypeInv, NEW r \in Request, NEW u \in User, NEW e \in Episode,
         NEW result \in Result, Submit(r, u, e, result)
  PROVE  Loads(r)
<1>. DEFINE mine == [x \in {e} |-> ReviewedEpisode(episode[e], result)]
            writes == [x \in {e} |-> Write(e, DoneTask(task[e], u), mine[e])]
<1>1. MaySubmit(task[e], u) /\ Begin(r, "submit", writes, {}, mine, {})
  BY DEF Submit
<1>2. task[e] \in TaskRow /\ episode[e] \in EpisodeRow
  BY RowFacts DEF TypeInv
<1>3. Means("submit", task[e], episode[e], DoneTask(task[e], u), mine[e])
  BY <1>1, <1>2, SubmitMeans
<1>4. DOMAIN writes = {e} /\ writes[e] = Write(e, DoneTask(task[e], u), mine[e])
  OBVIOUS
<1>5. mine \in [{e} -> EpisodeRow]
  BY <1>3 DEF Means, Sound
<1>6. task[e].status # "none"
  BY <1>1 DEF MaySubmit
<1>. HIDE DEF mine, writes
<1>7. \A x \in DOMAIN writes : Effect("submit", x, writes[x], x \in {})
  BY <1>3, <1>4, <1>6 DEF Effect
<1>. QED
  BY <1>1, <1>4, <1>5, <1>7, BeginLoads

LEMMA ManagerLoads ==
  ASSUME TypeInv, NEW r \in Request, NEW e \in Episode,
         \/ Revoke(r, e)
         \/ \E to \in Reviewer : AssignTask(r, e, to) \/ Reassign(r, e, to)
  PROVE  Loads(r)
<1>. USE RowFacts DEF TypeInv
<1>1. CASE Revoke(r, e)
  BY <1>1, PoolMeans, BeginOnLoads DEF Revoke
<1>2. ASSUME NEW to \in Reviewer, AssignTask(r, e, to)
      PROVE  Loads(r)
  BY <1>2, AssignMeans, BeginOnLoads DEF AssignTask, User
<1>3. ASSUME NEW to \in Reviewer, Reassign(r, e, to)
      PROVE  Loads(r)
  BY <1>3, PoolMeans, BeginOnLoads DEF Reassign, User
<1>. QED
  BY <1>1, <1>2, <1>3

\* The assignment of a retired task writes nothing to the active one.
LEMMA RetiredLoads ==
  ASSUME TypeInv, NEW r \in Request, NEW e \in Episode, NEW g, AssignRetired(r, e, g)
  PROVE  Loads(r)
<1>. DEFINE w == [of |-> g, task |-> Changes(task[e], task[e]),
                  episode |-> Changes(episode[e], AssignedEpisode(episode[e]))]
            writes == [x \in {e} |-> w]
<1>1. g \in made[e] /\ Begin(r, "assign", writes, {}, {}, {e})
  BY DEF AssignRetired
<1>2. /\ DOMAIN writes = {e} /\ writes[e] = w
      /\ w.of = g /\ w.task = Changes(task[e], task[e])
      /\ w.episode = Changes(episode[e], AssignedEpisode(episode[e]))
  OBVIOUS
<1>. HIDE DEF w, writes
<1>3. task[e] \in TaskRow /\ episode[e] \in EpisodeRow
  BY RowFacts DEF TypeInv
<1>4. /\ AssignedEpisode(episode[e]) \in EpisodeRow
      /\ AssignedEpisode(episode[e]).sampled = episode[e].sampled
      /\ AssignedEpisode(episode[e]).manual = episode[e].manual
  BY <1>3 DEF AssignedEpisode, EpisodeRow
<1>5. KeepsTask(w)
  BY <1>2, <1>3, TaskKept DEF KeepsTask
<1>6. KeepsEpisode("assign", w)
  BY <1>2, <1>3, <1>4, EpisodeKept DEF KeepsEpisode
<1>7. DOMAIN w.task = {} /\ DOMAIN w.episode \subseteq {"qc"} /\
      \A c \in DOMAIN w.episode : w.episode[c] = "assigned"
  BY <1>2, <1>3 DEF Changes, AssignedEpisode, EpisodeRow, TaskRow
<1>8. HandOut(w)
  BY <1>7 DEF HandOut
<1>9. Effect("assign", e, w, e \in {e})
  BY <1>1, <1>2, <1>5, <1>6, <1>8 DEF Effect
<1>. QED
  BY <1>1, <1>2, <1>9, BeginLoads

LEMMA AssignBatchLoads ==
  ASSUME TypeInv, NEW r \in Request, NEW to \in [Episode -> Reviewer],
         AssignBatch(r, to)
  PROVE  Loads(r)
<1>. DEFINE S == {e \in Episode : task[e].status = "new"}
            writes == [e \in S |-> Write(e, AssignedTask(task[e], to[e]),
                                         AssignedEpisode(episode[e]))]
<1>1. Begin(r, "assign", writes, {}, {}, {})
  BY DEF AssignBatch
<1>2. DOMAIN writes \subseteq Episode
  OBVIOUS
<1>3. \A x \in DOMAIN writes : Effect("assign", x, writes[x], x \in {})
  <2>. SUFFICES ASSUME NEW x \in S
                PROVE  /\ writes[x] = Write(x, AssignedTask(task[x], to[x]),
                                            AssignedEpisode(episode[x]))
                       /\ task[x].status # "none"
                       /\ Means("assign", task[x], episode[x], AssignedTask(task[x], to[x]),
                                AssignedEpisode(episode[x]))
    BY DEF Effect
  <2>. QED
    BY RowFacts, AssignMeans DEF TypeInv, User
<1>. HIDE DEF writes
<1>. QED
  BY <1>1, <1>2, <1>3, BeginLoads

LEMMA RereviewLoads ==
  ASSUME TypeInv, NEW r \in Request, NEW q \in rereview,
         ApproveRereview(r, q) \/ RejectRereview(r, q)
  PROVE  Loads(r)
<1>1. q \in RereviewRow /\ q.on \in Episode /\ q.by \in User /\ {q} \in SUBSET RereviewRow
  BY DEF TypeInv, RowTypes, RereviewRow
<1>2. CASE ApproveRereview(r, q)
  <2>1. Means("approve", task[q.on], episode[q.on], AssignedTask(task[q.on], q.by),
              ReopenedEpisode(episode[q.on]))
    BY <1>1, <1>2, RowFacts, ApproveMeans DEF ApproveRereview, TypeInv
  <2>. QED
    BY <1>1, <1>2, <2>1, BeginOnLoads DEF ApproveRereview
<1>3. CASE RejectRereview(r, q)
  BY <1>1, <1>3, BeginBareLoads DEF RejectRereview
<1>. QED
  BY <1>2, <1>3

\* A dispatch plan loads everything, and marks its sample in any case.
LEMMA DispatchLoads ==
  ASSUME TypeInv, NEW r \in Request, NEW present, NEW S \in SUBSET Episode,
         Dispatch(r, present, S)
  PROVE  Loads(r)
<1>. DEFINE was(e) == IF e \in S THEN [episode[e] EXCEPT !.sampled = FALSE] ELSE episode[e]
            after(e) == IF e \in S THEN [Fresh EXCEPT !.sampled = TRUE]
                        ELSE IF e \in present THEN Fresh ELSE episode[e]
            writes == [e \in Episode |->
              [of |-> task[e].generation, task |-> Changes(task[e], task[e]),
               episode |-> IF e \in S THEN Changes([episode[e] EXCEPT !.sampled = FALSE],
                                                   [Fresh EXCEPT !.sampled = TRUE])
                           ELSE Changes(episode[e], IF e \in present THEN Fresh ELSE episode[e])]]
            x == [stage |-> "working", op |-> "dispatch", on |-> DOMAIN writes, writes |-> writes,
                  batch |-> IF "dispatch" \in {"submit", "dispatch"} THEN batch ELSE NoBatch,
                  counted |-> "dispatch" = "submit" /\ SampleDone(EpisodesAfter(writes)),
                  ask |-> {}, mine |-> S]
<1>1. /\ batch.generation < MaxGeneration
      /\ Begin(r, "dispatch", writes, {}, S, {})
  BY DEF Dispatch
<1>2. batch \in BatchRow /\ batch.generation + 1 <= MaxGeneration
  BY <1>1, ReviewAssumption DEF TypeInv, RowTypes, BatchRow, Generation
<1>3. Goes(r, x, {}) /\ UNCHANGED <<rows, astray>>
  BY <1>1 DEF Begin
<1>4. /\ x.stage = "working" /\ x.op = "dispatch" /\ x.on = Episode /\ x.writes = writes
      /\ x.ask = {} /\ x.mine = S /\ x.batch = batch /\ DOMAIN writes = Episode
  OBVIOUS
<1>5. ASSUME NEW e \in Episode
      PROVE  /\ KeepsTask(writes[e]) /\ KeepsEpisode("dispatch", writes[e])
             /\ e \in S => /\ "sampled" \in DOMAIN writes[e].episode
                           /\ writes[e].episode["sampled"] = TRUE
  <2>1. task[e] \in TaskRow /\ episode[e] \in EpisodeRow
    BY RowFacts DEF TypeInv
  <2>2. after(e) \in EpisodeRow /\ was(e) \in EpisodeRow
    BY <2>1 DEF Fresh, EpisodeRow
  <2>3. writes[e].task = Changes(task[e], task[e]) /\ writes[e].episode = Changes(was(e), after(e))
    OBVIOUS
  <2>4. e \in S => ~was(e).sampled /\ after(e).sampled
    BY <2>1 DEF Fresh, EpisodeRow
  <2>. HIDE DEF after, was, writes
  <2>5. KeepsTask(writes[e])
    BY <2>1, <2>3, TaskKept DEF KeepsTask
  <2>6. KeepsEpisode("dispatch", writes[e])
    BY <2>2, <2>3, EpisodeKept DEF KeepsEpisode
  <2>7. e \in S => /\ "sampled" \in DOMAIN writes[e].episode
                   /\ writes[e].episode["sampled"] = TRUE
    BY <2>2, <2>3, <2>4 DEF Changes, EpisodeRow
  <2>. QED
    BY <2>5, <2>6, <2>7
<1>. HIDE DEF x, writes, after
<1>6. Shape(x)
  BY <1>2, <1>4 DEF Shape
<1>7. Keeps(x)
  BY <1>4, <1>5 DEF Keeps, HandingOut
<1>8. Fits(x, {})
  BY <1>4 DEF Fits
<1>. QED
  BY <1>3, <1>6, <1>7, <1>8 DEF Loads

\* An adjudication reads the episodes as the session finds them.
LEMMA DecideLoads ==
  ASSUME NEW r \in Request, NEW op, NEW eps, NEW loaded \in BatchRow,
         \A e \in Episode : eps[e] \in EpisodeRow,
         op = "recompute" => eps = episode /\ loaded = batch,
         Decide(r, op, eps, loaded)
  PROVE  Loads(r)
<1>. DEFINE outcome == Outcome(eps)
            x == [stage |-> "deciding", op |-> op, on |-> IF op = "recompute" THEN Episode ELSE {},
                  writes |-> [e \in Episode |-> [episode |-> Changes(eps[e], Final(eps[e], outcome))]],
                  batch |-> Changes(loaded, [loaded EXCEPT !.decision = outcome])]
<1>1. ~BatchLocked /\ Goes(r, x, {}) /\ UNCHANGED <<rows, astray>>
  BY DEF Decide
<1>2. /\ x.stage = "deciding" /\ x.op = op /\ x.on = IF op = "recompute" THEN Episode ELSE {}
      /\ DOMAIN x.writes = Episode
      /\ \A e \in Episode : x.writes[e].episode = Changes(eps[e], Final(eps[e], outcome))
      /\ x.batch = Changes(loaded, [loaded EXCEPT !.decision = outcome])
  OBVIOUS
<1>. HIDE DEF x
<1>3. outcome \in {"PENDING", "ACCEPTED", "REJECTED"}
  BY DEF Outcome
<1>4. op = "recompute" => VerdictNow(x)
  BY <1>2 DEF VerdictNow
<1>. HIDE DEF outcome
<1>5. /\ DOMAIN x.batch \subseteq {"decision"}
      /\ "decision" \in DOMAIN x.batch => x.batch["decision"] \in {"PENDING", "ACCEPTED", "REJECTED"}
  BY <1>2, <1>3 DEF Changes, BatchRow
<1>6. Verdict(x)
  BY <1>2, <1>5, DecisionOfFinal DEF Verdict
<1>7. Shape(x) /\ Keeps(x) /\ Fits(x, {})
  BY <1>1, <1>2, <1>4, <1>6 DEF Shape, Keeps, Fits
<1>. QED
  BY <1>1, <1>7 DEF Loads

LEMMA AdjudicationLoads ==
  ASSUME TypeInv, NEW r \in Request, AdjudicateAfterSubmit(r) \/ Recompute(r)
  PROVE  Loads(r)
<1>. USE RowFacts DEF TypeInv
<1>1. CASE AdjudicateAfterSubmit(r)
  <2>. DEFINE q == request[r]
              eps == [e \in Episode |-> IF e \in DOMAIN q.mine THEN q.mine[e] ELSE episode[e]]
  <2>1. Live(r) /\ q.stage = "submitted" /\ Decide(r, "decide", eps, q.batch)
    BY <1>1 DEF AdjudicateAfterSubmit, Live
  <2>2. q.batch \in BatchRow /\ \A e \in DOMAIN q.mine : q.mine[e] \in EpisodeRow
    BY <2>1 DEF Shape
  <2>3. \A e \in Episode : eps[e] \in EpisodeRow
    BY <2>2
  <2>. HIDE DEF eps
  <2>. QED
    BY <2>1, <2>2, <2>3, DecideLoads
<1>2. CASE Recompute(r)
  BY <1>2, DecideLoads DEF Recompute, RowTypes
<1>. QED
  BY <1>1, <1>2

\* A step loads, or it writes rows.
LEMMA StepCases ==
  ASSUME TypeInv, [Next]_vars
  PROVE  \/ UNCHANGED vars
         \/ \E r \in Request : Loads(r) \/ Commit(r) \/ CommitDispatch(r) \/ CommitDecision(r)
         \/ \E e \in Episode : LockExpires(e)
<1>1. ASSUME NEW r \in Request, NEW u \in User, NEW e \in Episode,
             \/ Claim(r, u, e) \/ Release(r, u, e) \/ RequestRereview(r, u, e)
             \/ \E result \in Result : Submit(r, u, e, result)
      PROVE  Loads(r)
  BY <1>1, ReviewerLoads, SubmitLoads
<1>2. ASSUME NEW r \in Request, NEW e \in Episode,
             \/ Revoke(r, e)
             \/ \E to \in Reviewer : AssignTask(r, e, to) \/ Reassign(r, e, to)
             \/ \E g \in made[e] : AssignRetired(r, e, g)
      PROVE  Loads(r)
  BY <1>2, ManagerLoads, RetiredLoads
<1>3. ASSUME NEW r \in Request, NEW to \in [Episode -> Reviewer], AssignBatch(r, to)
      PROVE  Loads(r)
  BY <1>3, AssignBatchLoads
<1>4. ASSUME NEW r \in Request, NEW q \in rereview, ApproveRereview(r, q) \/ RejectRereview(r, q)
      PROVE  Loads(r)
  BY <1>4, RereviewLoads
<1>5. ASSUME NEW r \in Request, NEW present \in Presence, NEW S \in SUBSET present,
             Dispatch(r, present, S)
      PROVE  Loads(r)
  <2>1. S \in SUBSET Episode
    BY ReviewAssumption
  <2>. QED
    BY <1>5, <2>1, DispatchLoads
<1>6. ASSUME NEW r \in Request, AdjudicateAfterSubmit(r) \/ Recompute(r)
      PROVE  Loads(r)
  BY <1>6, AdjudicationLoads
<1>7. ASSUME NEW r \in Request, RequestFails(r)
      PROVE  Loads(r)
  BY <1>7 DEF RequestFails, Loads
<1>. QED
  BY <1>1, <1>2, <1>3, <1>4, <1>5, <1>6, <1>7 DEF Next

-----------------------------------------------------------------------------
\* Steps that write rows.

\* A request ends: it is gone, or it goes on to adjudicate.
Ends(r) ==
  \E x : Ended(r, x) /\ (x # NoRequest => Shape(x) /\ x.stage = "submitted" /\ x.op = "decide")

Overtaken(r, s) == {e \in request[r].on \cap request[s].on : Overtakes(request[r], request[s], e)}

LEMMA EndsAfter ==
  ASSUME TypeInv, NEW r \in Request, Ends(r)
  PROVE  /\ DOMAIN request' = Request /\ stale' \in [Request -> SUBSET Episode]
         /\ ~Works(r)' /\ ~Plans(r)' /\ ~Decides(r)'
         /\ Live(r)' => Shape(request'[r]) /\ Keeps(request'[r])
         /\ \A s \in Request : s # r =>
              /\ request'[s] = request[s]
              /\ Live(s) => stale'[s] = stale[s] \cup Overtaken(r, s)
<1>1. PICK x : Ended(r, x) /\ (x # NoRequest => Shape(x) /\ x.stage = "submitted" /\ x.op = "decide")
  BY DEF Ends
<1>2. /\ DOMAIN request' = Request /\ request'[r] = x
      /\ \A s \in Request : s # r => request'[s] = request[s]
  BY <1>1 DEF Ended, TypeInv
<1>3. stale' = [s \in Request |-> IF s = r \/ ~Live(s) THEN {} ELSE stale[s] \cup Overtaken(r, s)]
  BY <1>1 DEF Ended, Live, Overtaken
<1>4. \A s \in Request : Live(s) => Overtaken(r, s) \subseteq Episode
  BY DEF TypeInv, Shape, Overtaken
<1>5. stale' \in [Request -> SUBSET Episode]
  BY <1>3, <1>4 DEF TypeInv
<1>6. Live(r)' => Shape(request'[r]) /\ Keeps(request'[r])
  BY <1>1, <1>2 DEF Live, Keeps
<1>7. ~Works(r)' /\ ~Plans(r)' /\ ~Decides(r)'
  BY <1>1, <1>2 DEF Works, Plans, Decides, Live
<1>. QED
  BY <1>2, <1>3, <1>5, <1>6, <1>7

LEMMA GoesAfter ==
  ASSUME TypeInv, NEW r \in Request, NEW x, NEW missed \in SUBSET Episode, Goes(r, x, missed)
  PROVE  /\ DOMAIN request' = Request /\ request'[r] = x
         /\ stale' \in [Request -> SUBSET Episode] /\ stale'[r] = missed
         /\ \A s \in Request : s # r => request'[s] = request[s] /\ stale'[s] = stale[s]
BY DEF Goes, TypeInv

\* A request writes what it was about.
LEMMA CommitRows ==
  ASSUME TypeInv, NEW r \in Request, Commit(r)
  PROVE  /\ Works(r) /\ Ends(r)
         /\ RowTypes' /\ UNCHANGED <<batch, made>>
         /\ request[r].on \subseteq Episode
         /\ astray' = (astray \ request[r].on) \cup (request[r].on \cap stale[r])
         /\ \A e \in request[r].on : LET w == request[r].writes[e] IN
              /\ task'[e] = IF Retired(task[e], w) THEN task[e] ELSE Written(task[e], w.task)
              /\ episode'[e] = Written(episode[e], w.episode)
         /\ \A e \in Episode \ request[r].on : task'[e] = task[e] /\ episode'[e] = episode[e]
         /\ \A e \in Episode : /\ task'[e].generation = task[e].generation
                               /\ task[e].status = "none" <=> task'[e].status = "none"
                               /\ episode'[e].sampled = episode[e].sampled
<1>. DEFINE q == request[r]
<1>1. /\ Works(r)
      /\ task' = [e \in Episode |-> IF e \in DOMAIN q.writes THEN TaskAfter(task[e], q.writes[e])
                                    ELSE task[e]]
      /\ episode' = EpisodesAfter(q.writes)
      /\ rereview' = Rereviews(q)
      /\ astray' = (astray \ q.on) \cup (q.on \cap stale[r])
      /\ UNCHANGED <<batch, made>>
  BY DEF Commit, Works, Live
<1>2. PICK complete \in IF q.op = "submit" THEN {q.counted, SampleDone(episode')} ELSE {FALSE} :
        Ended(r, IF complete THEN [stage |-> "submitted", op |-> "decide", on |-> {},
                                   batch |-> q.batch, mine |-> q.mine]
                 ELSE NoRequest)
  BY DEF Commit
<1>3. Shape(q) /\ Keeps(q) /\ q.stage = "working" /\ q.op # "dispatch"
  BY <1>1 DEF TypeInv, Works
<1>4. DOMAIN q.writes = q.on /\ q.on \subseteq Episode /\ q.ask \subseteq RereviewRow
  BY <1>3 DEF Shape
<1>5. ASSUME NEW e \in q.on
      PROVE  LET w == q.writes[e] IN
             /\ task'[e] = IF Retired(task[e], w) THEN task[e] ELSE Written(task[e], w.task)
             /\ episode'[e] = Written(episode[e], w.episode)
             /\ task'[e] \in TaskRow /\ task'[e].generation = task[e].generation
             /\ task[e].status = "none" <=> task'[e].status = "none"
             /\ episode'[e] \in EpisodeRow /\ episode'[e].sampled = episode[e].sampled
  <2>. DEFINE w == q.writes[e]
  <2>1. /\ task'[e] = IF Retired(task[e], w) THEN task[e] ELSE Written(task[e], w.task)
        /\ episode'[e] = Written(episode[e], w.episode)
    BY <1>1, <1>4 DEF TaskAfter, EpisodesAfter, Retired
  <2>2. KeepsTask(w) /\ KeepsEpisode(q.op, w)
    BY <1>3 DEF Keeps
  <2>3. e \in Episode /\ task[e] \in TaskRow /\ episode[e] \in EpisodeRow
    BY <1>4, RowFacts DEF TypeInv
  <2>4. task[e].status = "none" => Retired(task[e], w)
    BY DEF Retired
  <2>. HIDE DEF w
  <2>5. /\ Written(task[e], w.task) \in TaskRow
        /\ Written(task[e], w.task).generation = task[e].generation
        /\ task[e].status # "none" => Written(task[e], w.task).status # "none"
    BY <2>2, <2>3 DEF KeepsTask
  <2>6. /\ Written(episode[e], w.episode) \in EpisodeRow
        /\ Written(episode[e], w.episode).sampled = episode[e].sampled
    BY <1>3, <2>2, <2>3 DEF KeepsEpisode
  <2>7. /\ task'[e] \in TaskRow /\ task'[e].generation = task[e].generation
        /\ task[e].status = "none" <=> task'[e].status = "none"
    BY <2>1, <2>3, <2>4, <2>5
  <2>8. episode'[e] \in EpisodeRow /\ episode'[e].sampled = episode[e].sampled
    BY <2>1, <2>6
  <2>. QED
    BY <2>1, <2>7, <2>8 DEF w
<1>6. \A e \in Episode \ q.on : task'[e] = task[e] /\ episode'[e] = episode[e]
  BY <1>1, <1>4 DEF EpisodesAfter
<1>7. \A e \in Episode : task'[e] \in TaskRow /\ episode'[e] \in EpisodeRow
  BY <1>5, <1>6, RowFacts DEF TypeInv
<1>8. RowTypes'
  <2>1. task' \in [Episode -> TaskRow] /\ episode' \in [Episode -> EpisodeRow]
    BY <1>1, <1>7 DEF EpisodesAfter
  <2>2. rereview' \subseteq RereviewRow
    BY <1>1, <1>4 DEF Rereviews, TypeInv, RowTypes
  <2>. QED
    BY <1>1, <2>1, <2>2 DEF RowTypes, TypeInv
<1>9. Ends(r)
  <2>. DEFINE x == [stage |-> "submitted", op |-> "decide", on |-> {},
                    batch |-> q.batch, mine |-> q.mine]
  <2>1. CASE complete
    <3>1. Ended(r, x)
      BY <1>2, <2>1
    <3>2. q.op = "submit"
      BY <2>1
    <3>3. q.batch \in BatchRow /\ q.mine \in [q.on -> EpisodeRow]
      BY <1>3, <3>2 DEF Shape
    <3>4. Shape(x) /\ x.stage = "submitted" /\ x.op = "decide"
      BY <3>3 DEF Shape
    <3>. QED
      BY <3>1, <3>4 DEF Ends
  <2>2. CASE ~complete
    <3>1. Ended(r, NoRequest)
      BY <1>2, <2>2
    <3>. QED
      BY <3>1 DEF Ends
  <2>. QED
    BY <2>1, <2>2
<1>. QED
  BY <1>1, <1>4, <1>5, <1>6, <1>8, <1>9

\* A plan replaces all tasks.
LEMMA PlanRows ==
  ASSUME TypeInv, NEW r \in Request, CommitDispatch(r)
  PROVE  LET q == request[r]
             g == q.batch.generation + 1
         IN  /\ Plans(r) /\ Ends(r) /\ ~BatchLocked
             /\ RowTypes' /\ q.on = Episode
             /\ batch'.generation = g /\ g \in Nat /\ astray' = {}
             /\ \A e \in Episode :
                  /\ episode'[e] = Written(episode[e], q.writes[e].episode)
                  /\ made[e] \subseteq made'[e]
                  /\ Holder(task'[e]) = Nobody
                  /\ \/ /\ task'[e].status = "new" /\ task'[e].generation = g
                        /\ g \notin made[e] /\ g \in made'[e] /\ episode'[e].sampled
                     \/ task'[e].status = "none"
<1>. DEFINE q == request[r]
            g == q.batch.generation + 1
<1>1. /\ Plans(r) /\ ~BatchLocked
      /\ \A e \in q.mine : g \notin made[e]
      /\ task' = TasksAfterPlan(q, g)
      /\ made' = [e \in Episode |-> IF e \in q.mine THEN made[e] \cup {g} ELSE made[e]]
      /\ episode' = EpisodesAfter(q.writes)
      /\ batch' = [batch EXCEPT !.generation = g]
      /\ Ended(r, NoRequest)
      /\ astray' = {} /\ UNCHANGED rereview
  BY DEF CommitDispatch, Plans, Live
<1>2. Shape(q) /\ Keeps(q) /\ q.stage = "working" /\ q.op = "dispatch"
  BY <1>1 DEF TypeInv, Plans
<1>3. /\ DOMAIN q.writes = Episode /\ q.on = Episode /\ q.mine \subseteq Episode
      /\ q.batch \in BatchRow /\ g <= MaxGeneration
  BY <1>2 DEF Shape
<1>4. g \in Generation /\ g \in Nat
  BY <1>3, ReviewAssumption DEF BatchRow, Generation
<1>. HIDE DEF g
<1>5. batch' \in BatchRow /\ batch'.generation = g
  BY <1>1, <1>4 DEF TypeInv, RowTypes, BatchRow
<1>6. ASSUME NEW e \in Episode
      PROVE  /\ episode'[e] = Written(episode[e], q.writes[e].episode)
             /\ episode'[e] \in EpisodeRow
             /\ e \in q.mine => episode'[e].sampled
  <2>1. episode'[e] = Written(episode[e], q.writes[e].episode)
    BY <1>1, <1>3 DEF EpisodesAfter
  <2>2. /\ KeepsEpisode("dispatch", q.writes[e])
        /\ e \in q.mine => /\ "sampled" \in DOMAIN q.writes[e].episode
                           /\ q.writes[e].episode["sampled"] = TRUE
    BY <1>2, <1>3 DEF Keeps
  <2>3. episode[e] \in EpisodeRow
    BY RowFacts DEF TypeInv
  <2>4. e \in q.mine => Written(episode[e], q.writes[e].episode).sampled
    BY <2>2, <2>3 DEF Written, EpisodeRow
  <2>. QED
    BY <2>1, <2>2, <2>3, <2>4 DEF KeepsEpisode
<1>7. /\ NewTask(g) \in TaskRow /\ NewTask(g).status = "new" /\ NewTask(g).generation = g
      /\ Holder(NewTask(g)) = Nobody
      /\ NoTask \in TaskRow /\ NoTask.status = "none" /\ Holder(NoTask) = Nobody
  <2>1. 0 \in Generation
    BY ReviewAssumption DEF Generation
  <2>2. NoTask \in TaskRow /\ NoTask.status = "none" /\ NoTask.until = "none"
    BY <2>1 DEF NoTask, TaskRow
  <2>3. /\ NewTask(g) \in TaskRow /\ NewTask(g).status = "new" /\ NewTask(g).generation = g
        /\ NewTask(g).until = "none"
    BY <1>4 DEF NewTask, NoTask, TaskRow
  <2>. QED
    BY <2>2, <2>3 DEF Holder
<1>8. \A e \in Episode : task'[e] = IF e \in q.mine THEN NewTask(g) ELSE NoTask
  BY <1>1 DEF TasksAfterPlan
<1>9. \A e \in Episode : /\ made'[e] \in SUBSET Generation /\ made[e] \subseteq made'[e]
                         /\ e \in q.mine => g \in made'[e]
  BY <1>1, <1>4 DEF TypeInv, RowTypes
<1>10. RowTypes'
  <2>1. /\ task' \in [Episode -> TaskRow] /\ episode' \in [Episode -> EpisodeRow]
        /\ made' \in [Episode -> SUBSET Generation]
    BY <1>1, <1>6, <1>7, <1>8, <1>9 DEF TasksAfterPlan, EpisodesAfter
  <2>. QED
    BY <1>1, <1>5, <2>1 DEF TypeInv, RowTypes
<1>11. Ends(r)
  BY <1>1 DEF Ends
<1>12. \A e \in Episode :
         /\ Holder(task'[e]) = Nobody
         /\ \/ /\ task'[e].status = "new" /\ task'[e].generation = g
               /\ g \notin made[e] /\ g \in made'[e] /\ episode'[e].sampled
            \/ task'[e].status = "none"
  BY <1>1, <1>6, <1>7, <1>8, <1>9
<1>. QED
  BY <1>1, <1>3, <1>4, <1>5, <1>6, <1>9, <1>10, <1>11, <1>12 DEF g

\* A decision that commits: other columns, whatever else is in flight.
LEMMA DecisionRows ==
  ASSUME TypeInv, NEW r \in Request, CommitDecision(r)
  PROVE  /\ Decides(r) /\ Goes(r, NoRequest, {})
         /\ RowTypes' /\ UNCHANGED <<task, made, astray>>
         /\ batch' = Written(batch, request[r].batch)
         /\ batch'.generation = batch.generation
         /\ \A e \in Episode :
              /\ Decision(request[r].writes[e].episode)
              /\ episode'[e] = Written(episode[e], request[r].writes[e].episode)
              /\ episode'[e].qc = episode[e].qc /\ episode'[e].manual = episode[e].manual
              /\ episode'[e].sampled = episode[e].sampled
<1>. DEFINE q == request[r]
<1>1. /\ Decides(r)
      /\ batch' = Written(batch, q.batch)
      /\ episode' = EpisodesAfter(q.writes)
      /\ Goes(r, NoRequest, {})
      /\ UNCHANGED <<task, made, rereview, astray>>
  BY DEF CommitDecision, Decides, Live
<1>2. Verdict(q)
  BY <1>1 DEF TypeInv, Shape, Decides
<1>3. \A e \in Episode : /\ Decision(q.writes[e].episode)
                         /\ episode'[e] = Written(episode[e], q.writes[e].episode)
  BY <1>1, <1>2 DEF EpisodesAfter, Verdict
<1>4. \A e \in Episode : /\ episode'[e] \in EpisodeRow
                         /\ episode'[e].qc = episode[e].qc
                         /\ episode'[e].manual = episode[e].manual
                         /\ episode'[e].sampled = episode[e].sampled
  BY <1>3, RowFacts, DecisionWritten DEF TypeInv
<1>5. batch' \in BatchRow /\ batch'.generation = batch.generation
  BY <1>1, <1>2 DEF Verdict, Written, BatchRow, TypeInv, RowTypes
<1>6. RowTypes'
  BY <1>1, <1>4, <1>5 DEF TypeInv, RowTypes, EpisodesAfter
<1>. QED
  BY <1>1, <1>3, <1>4, <1>5, <1>6

\* A lock runs out under whatever is in flight.
LEMMA ExpiryRows ==
  ASSUME TypeInv, NEW e \in Episode, LockExpires(e)
  PROVE  /\ RowTypes'
         /\ UNCHANGED <<episode, batch, made, rereview, request, stale, astray>>
         /\ task'[e] = [task[e] EXCEPT !.until = "past"]
         /\ \A x \in Episode : /\ x # e => task'[x] = task[x]
                               /\ task'[x].status = task[x].status
                               /\ task'[x].generation = task[x].generation
                               /\ Holder(task'[x]) \in {Holder(task[x]), Nobody}
                               /\ task'[x].assignee = task[x].assignee
<1>1. /\ task' = [task EXCEPT ![e].until = "past"]
      /\ UNCHANGED <<episode, batch, made, rereview, request, stale, astray>>
  BY DEF LockExpires
<1>2. /\ task'[e] = [task[e] EXCEPT !.until = "past"]
      /\ \A x \in Episode : x # e => task'[x] = task[x]
      /\ task' = [x \in Episode |-> task'[x]]
  BY <1>1 DEF TypeInv, RowTypes
<1>3. /\ task'[e] \in TaskRow /\ task'[e].status = task[e].status
      /\ task'[e].generation = task[e].generation /\ task'[e].assignee = task[e].assignee
      /\ Holder(task'[e]) = Nobody
  BY <1>2, RowFacts DEF TaskRow, TypeInv, Holder
<1>4. \A x \in Episode : /\ task'[x] \in TaskRow /\ task'[x].status = task[x].status
                         /\ task'[x].generation = task[x].generation
                         /\ task'[x].assignee = task[x].assignee
                         /\ Holder(task'[x]) \in {Holder(task[x]), Nobody}
  BY <1>2, <1>3, RowFacts DEF TypeInv
<1>5. RowTypes'
  BY <1>1, <1>2, <1>4 DEF TypeInv, RowTypes
<1>. QED
  BY <1>1, <1>2, <1>4, <1>5

-----------------------------------------------------------------------------
\* Rows keep their types, whatever overlaps.

LEMMA TypeInit == Init => TypeInv
<1>1. NoTask \in TaskRow /\ Fresh \in EpisodeRow /\ NoBatch \in BatchRow
  BY ReviewAssumption DEF NoTask, TaskRow, Fresh, EpisodeRow, NoBatch, BatchRow, Generation
<1>. QED
  BY <1>1 DEF Init, TypeInv, RowTypes, Live

LEMMA TypeStep ==
  ASSUME TypeInv, [Next]_vars
  PROVE  TypeInv'
<1>. DEFINE Fine(q) == Shape(q) /\ Keeps(q)
            Typed == /\ DOMAIN request = Request
                     /\ stale \in [Request -> SUBSET Episode] /\ astray \subseteq Episode
                     /\ \A s \in Request : Live(s) => Fine(request[s])
<1>1. Typed /\ RowTypes
  BY DEF TypeInv
<1>2. RowTypes' /\ Typed' => TypeInv'
  BY DEF TypeInv, Shape, Verdict, Keeps, KeepsTask, KeepsEpisode
<1>. HIDE DEF Fine
<1>3. CASE UNCHANGED vars
  BY <1>1, <1>2, <1>3 DEF vars, RowTypes, Live
<1>4. ASSUME NEW r \in Request, Loads(r)
      PROVE  RowTypes' /\ Typed'
  <2>1. PICK x, missed : /\ Goes(r, x, missed) /\ UNCHANGED <<rows, astray>>
                         /\ missed \in SUBSET Episode
                         /\ x # NoRequest => Fine(x)
    BY <1>4 DEF Loads, Fine
  <2>2. RowTypes'
    BY <1>1, <2>1 DEF RowTypes, rows
  <2>. QED
    BY <1>1, <2>1, <2>2, GoesAfter DEF Live
<1>5. ASSUME NEW r \in Request, Commit(r) \/ CommitDispatch(r)
      PROVE  RowTypes' /\ Typed'
  <2>1. RowTypes' /\ Ends(r)
    BY <1>5, CommitRows, PlanRows
  <2>2. astray' \subseteq Episode
    BY <1>1, <1>5, CommitRows, PlanRows
  <2>3. /\ DOMAIN request' = Request /\ stale' \in [Request -> SUBSET Episode]
        /\ Live(r)' => Fine(request'[r])
        /\ \A s \in Request : s # r => request'[s] = request[s]
    BY <2>1, EndsAfter DEF Fine
  <2>. QED
    BY <1>1, <2>1, <2>2, <2>3 DEF Live
<1>6. ASSUME NEW r \in Request, CommitDecision(r)
      PROVE  RowTypes' /\ Typed'
  <2>1. RowTypes' /\ Goes(r, NoRequest, {}) /\ UNCHANGED astray
    BY <1>6, DecisionRows
  <2>. QED
    BY <1>1, <2>1, GoesAfter DEF Live
<1>7. ASSUME NEW e \in Episode, LockExpires(e)
      PROVE  RowTypes' /\ Typed'
  BY <1>1, <1>7, ExpiryRows DEF Live
<1>. QED
  BY <1>2, <1>3, <1>4, <1>5, <1>6, <1>7, StepCases

LEMMA TypeInvariance == Spec => []TypeInv
BY TypeInit, TypeStep, PTL DEF Spec

\* Rows keep their types, whatever requests overlap.
THEOREM TypeCorrect == Spec => []TypeOK
<1>1. TypeInv => TypeOK
  BY DEF TypeInv, RowTypes, Shape, Live, TypeOK
<1>. QED
  BY <1>1, TypeInvariance, PTL

-----------------------------------------------------------------------------
\* One generation, however many plans overlap.

LEMMA PlanInit == Init => PlanInv
BY DEF Init, PlanInv, OneGeneration, NoTask, Works, Live

LEMMA PlanStep ==
  ASSUME TypeInv, PlanInv, [Next]_vars
  PROVE  PlanInv'
<1>. DEFINE OnRecord(e) == task[e].status # "none" => /\ task[e].generation = batch.generation
                                                      /\ task[e].generation \in made[e]
                                                      /\ episode[e].sampled
            Known(r) == Works(r) =>
                          \A e \in request[r].on : request[r].writes[e].of \in made[e]
<1>1. \A e \in Episode : OnRecord(e)
  BY DEF PlanInv, OneGeneration
<1>2. \A r \in Request : Known(r)
  BY DEF PlanInv
<1>3. (\A e \in Episode : OnRecord(e)') /\ (\A r \in Request : Known(r)') => PlanInv'
  BY DEF PlanInv, OneGeneration
<1>4. \A r \in Request : Works(r) => request[r].on \subseteq Episode
  BY DEF TypeInv, Works, Shape
<1>5. CASE UNCHANGED vars
  BY <1>1, <1>2, <1>3, <1>5 DEF vars, Works, Live
<1>6. ASSUME NEW r \in Request, Loads(r)
      PROVE  PlanInv'
  <2>1. PICK x, missed : /\ Goes(r, x, missed) /\ UNCHANGED <<rows, astray>>
                         /\ missed \in SUBSET Episode
                         /\ x # NoRequest => Shape(x) /\ Fits(x, missed)
    BY <1>6 DEF Loads
  <2>2. /\ request'[r] = x
        /\ \A s \in Request : s # r => request'[s] = request[s]
        /\ UNCHANGED <<task, episode, batch, made>>
    BY <2>1, GoesAfter DEF rows
  <2>3. x # NoRequest /\ x.stage = "working" /\ x.op # "dispatch" =>
          \A e \in x.on : x.writes[e].of \in made[e]
    BY <1>1, <2>1 DEF Fits, Shape
  <2>4. Known(r)'
    BY <2>2, <2>3 DEF Works, Live
  <2>5. \A s \in Request : s # r => Known(s)'
    BY <1>2, <2>2 DEF Works, Live
  <2>. QED
    BY <1>1, <1>3, <2>2, <2>4, <2>5
<1>7. ASSUME NEW r \in Request, Commit(r)
      PROVE  PlanInv'
  <2>1. /\ Ends(r) /\ UNCHANGED <<batch, made>>
        /\ \A e \in Episode : /\ task'[e].generation = task[e].generation
                              /\ task[e].status = "none" <=> task'[e].status = "none"
                              /\ episode'[e].sampled = episode[e].sampled
    BY <1>7, CommitRows
  <2>2. ~Works(r)' /\ \A s \in Request : s # r => request'[s] = request[s]
    BY <2>1, EndsAfter
  <2>3. \A s \in Request : Known(s)'
    BY <1>2, <2>1, <2>2 DEF Works, Live
  <2>. QED
    BY <1>1, <1>3, <2>1, <2>3
<1>8. ASSUME NEW r \in Request, CommitDispatch(r)
      PROVE  PlanInv'
  <2>1. /\ Ends(r)
        /\ \A e \in Episode :
             /\ made[e] \subseteq made'[e]
             /\ \/ /\ task'[e].status = "new" /\ task'[e].generation = batch'.generation
                   /\ batch'.generation \in made'[e] /\ episode'[e].sampled
                \/ task'[e].status = "none"
    BY <1>8, PlanRows
  <2>2. ~Works(r)' /\ \A s \in Request : s # r => request'[s] = request[s]
    BY <2>1, EndsAfter
  <2>3. \A s \in Request : Known(s)'
    BY <1>2, <1>4, <2>1, <2>2 DEF Works, Live
  <2>. QED
    BY <1>3, <2>1, <2>3
<1>9. ASSUME NEW r \in Request, CommitDecision(r)
      PROVE  PlanInv'
  <2>1. /\ Goes(r, NoRequest, {}) /\ UNCHANGED <<task, made>>
        /\ batch'.generation = batch.generation
        /\ \A e \in Episode : episode'[e].sampled = episode[e].sampled
    BY <1>9, DecisionRows
  <2>2. request'[r] = NoRequest /\ \A s \in Request : s # r => request'[s] = request[s]
    BY <2>1, GoesAfter
  <2>3. \A s \in Request : Known(s)'
    BY <1>2, <2>1, <2>2 DEF Works, Live
  <2>. QED
    BY <1>1, <1>3, <2>1, <2>3
<1>10. ASSUME NEW e \in Episode, LockExpires(e)
       PROVE  PlanInv'
  <2>1. /\ UNCHANGED <<episode, batch, made, request>>
        /\ \A x \in Episode : /\ task'[x].status = task[x].status
                              /\ task'[x].generation = task[x].generation
    BY <1>10, ExpiryRows
  <2>. QED
    BY <1>1, <1>2, <1>3, <2>1 DEF Works, Live
<1>. QED
  BY <1>5, <1>6, <1>7, <1>8, <1>9, <1>10, StepCases

LEMMA PlanInvariance == Spec => [](TypeInv /\ PlanInv)
BY TypeInit, TypeStep, PlanInit, PlanStep, PTL DEF Spec

\* Whatever requests and plans overlap, every active task is of the last plan.
THEOREM SingleGeneration == Spec => []OneGeneration
<1>1. PlanInv => OneGeneration
  BY DEF PlanInv
<1>. QED
  BY <1>1, PlanInvariance, PTL

-----------------------------------------------------------------------------
\* Who reviews what: the rows agree, and what requests will write is sound.

LEMMA ReviewInit == Init => ReviewInv
BY DEF Init, ReviewInv, RowInv, WritesInv, NoTask, Works, Live, Held, Holder, Agree

LEMMA ReviewLoads ==
  ASSUME TypeInv, ReviewInv, NEW r \in Request, Loads(r)
  PROVE  ReviewInv'
<1>1. PICK x, missed : /\ Goes(r, x, missed) /\ UNCHANGED <<rows, astray>>
                       /\ missed \in SUBSET Episode
                       /\ x # NoRequest => Shape(x) /\ Fits(x, missed)
  BY DEF Loads
<1>2. /\ request'[r] = x /\ stale'[r] = missed
      /\ \A s \in Request : s # r => request'[s] = request[s] /\ stale'[s] = stale[s]
      /\ UNCHANGED <<task, episode, astray>>
  BY <1>1, GoesAfter DEF rows
<1>3. RowInv'
  BY <1>2 DEF ReviewInv, RowInv
<1>4. ASSUME Works(r)', NEW e \in request'[r].on \ stale'[r]
      PROVE  SoundFor(e \notin astray, request'[r].op, task[e], episode[e], request'[r].writes[e])
  <2>. DEFINE w == x.writes[e]
  <2>1. /\ ~Retired(task[e], w)
        /\ Sound(Held(task[e]), task[e], episode[e], Written(task[e], w.task),
                 Written(episode[e], w.episode))
        /\ x.op \in HandingOut => Waiting(Written(task[e], w.task))
    BY <1>1, <1>2, <1>4 DEF Works, Live, Fits
  <2>2. e \in Episode
    BY <1>1, <1>2, <1>4 DEF Works, Live, Shape
  <2>3. e \notin astray => Held(task[e])
    BY <2>2 DEF ReviewInv, RowInv
  <2>. HIDE DEF w
  <2>4. Sound(e \notin astray, task[e], episode[e], Written(task[e], w.task),
              Written(episode[e], w.episode))
    BY <2>1, <2>3 DEF Sound
  <2>5. SoundFor(e \notin astray, x.op, task[e], episode[e], w)
    BY <2>1, <2>4 DEF SoundFor
  <2>. QED
    BY <1>2, <2>5 DEF w
<1>5. WritesInv'
  BY <1>2, <1>4 DEF ReviewInv, WritesInv, Works, Live
<1>. QED
  BY <1>3, <1>5 DEF ReviewInv

\* A commit over rows that were not stale leaves them in agreement.
LEMMA CommitAgrees ==
  ASSUME TypeInv, ReviewInv, NEW r \in Request, Commit(r)
  PROVE  RowInv'
<1>. DEFINE q == request[r]
<1>1. /\ Works(r)
      /\ astray' = (astray \ q.on) \cup (q.on \cap stale[r])
      /\ \A e \in q.on : LET w == q.writes[e] IN
           /\ task'[e] = IF Retired(task[e], w) THEN task[e] ELSE Written(task[e], w.task)
           /\ episode'[e] = Written(episode[e], w.episode)
      /\ \A e \in Episode \ q.on : task'[e] = task[e] /\ episode'[e] = episode[e]
  BY CommitRows
<1>2. SUFFICES ASSUME NEW e \in Episode, e \notin astray'
               PROVE  Held(task'[e]) /\ Agree(task'[e], episode'[e])
  BY DEF RowInv
<1>3. CASE e \notin q.on
  BY <1>1, <1>2, <1>3 DEF ReviewInv, RowInv
<1>4. CASE e \in q.on
  <2>. DEFINE w == q.writes[e]
  <2>1. SoundFor(e \notin astray, q.op, task[e], episode[e], w)
    BY <1>1, <1>2, <1>4 DEF ReviewInv, WritesInv
  <2>2. /\ task'[e] = IF Retired(task[e], w) THEN task[e] ELSE Written(task[e], w.task)
        /\ episode'[e] = Written(episode[e], w.episode)
    BY <1>1, <1>4
  <2>. HIDE DEF w
  <2>3. CASE Retired(task[e], w)
    BY <2>1, <2>2, <2>3 DEF SoundFor, Held, Agree
  <2>4. CASE ~Retired(task[e], w)
    BY <2>1, <2>2, <2>4 DEF SoundFor, Sound
  <2>. QED
    BY <2>3, <2>4
<1>. QED
  BY <1>3, <1>4

\* And what the others will write stays sound, but for the rows that are stale now.
LEMMA CommitOver ==
  ASSUME TypeInv, ReviewInv, NEW r \in Request, Commit(r), NEW s \in Request, s # r, Works(s),
         NEW e \in request[r].on, e \in request[s].on, e \notin stale[s],
         ~Overtakes(request[r], request[s], e)
  PROVE  \A held : SoundFor(held, request[s].op, task'[e], episode'[e], request[s].writes[e])
<1>. DEFINE v == request[r].writes[e]
            w == request[s].writes[e]
            op == request[s].op
            t == task[e]
            ep == episode[e]
<1>1. /\ Works(r) /\ e \in Episode
      /\ task'[e] = IF Retired(t, v) THEN t ELSE Written(t, v.task)
      /\ episode'[e] = Written(ep, v.episode)
      /\ task'[e].generation = t.generation
      /\ t.status = "none" <=> task'[e].status = "none"
      /\ RowTypes'
  BY CommitRows
<1>2. t \in TaskRow /\ ep \in EpisodeRow /\ task'[e] \in TaskRow /\ episode'[e] \in EpisodeRow
  BY <1>1, RowFacts DEF TypeInv, RowTypes
<1>3. Retired(task'[e], w) <=> Retired(t, w)
  BY <1>1 DEF Retired
<1>4. SoundFor(e \notin astray, op, t, ep, w)
  BY DEF ReviewInv, WritesInv
<1>5. /\ Shape(request[r]) /\ Keeps(request[r]) /\ request[r].stage = "working"
      /\ Shape(request[s]) /\ Keeps(request[s]) /\ request[s].stage = "working"
      /\ request[r].op # "dispatch" /\ op # "dispatch" /\ op # "recompute"
  BY <1>1 DEF TypeInv, Works, Shape
<1>6. /\ KeepsTask(v) /\ KeepsTask(w) /\ KeepsEpisode(op, w)
      /\ request[r].op = "submit" => Submission(v)
      /\ request[r].op \in HandingOut => HandOut(v)
      /\ op = "submit" => Submission(w)
      /\ op \in HandingOut => HandOut(w)
  BY <1>5 DEF Keeps
<1>7. \/ request[r].op = "submit" /\ op = "submit" /\ v.of = w.of
      \/ request[r].op \in HandingOut /\ op \in HandingOut
  BY <1>5 DEF Overtakes
<1>. HIDE DEF v, w, op, t, ep
<1>8. CASE request[r].op = "submit" /\ op = "submit" /\ v.of = w.of
  <2>1. op \notin Reopening /\ op \notin HandingOut
    BY <1>8 DEF Reopening, HandingOut
  <2>2. CASE Retired(t, w)
    <3>1. task'[e] = t
      BY <1>1, <1>8, <2>2 DEF Retired
    <3>. QED
      BY <1>3, <1>4, <2>2, <3>1 DEF SoundFor, op, w
  <2>3. CASE ~Retired(t, w)
    <3>1. task'[e] = Written(t, v.task)
      BY <1>1, <1>8, <2>3 DEF Retired
    <3>2. Sound(e \notin astray, t, ep, Written(t, w.task), Written(ep, w.episode))
      BY <1>4, <2>3 DEF SoundFor
    <3>3. \A held : Sound(held, task'[e], episode'[e], Written(task'[e], w.task),
                          Written(episode'[e], w.episode))
      BY <1>1, <1>2, <1>6, <1>8, <3>1, <3>2, SubmittedOver
    <3>. QED
      BY <1>3, <2>1, <2>3, <3>3 DEF SoundFor, op, w
  <2>. QED
    BY <2>2, <2>3
<1>9. CASE request[r].op \in HandingOut /\ op \in HandingOut
  <2>1. HandOut(v) /\ HandOut(w) /\ op \notin Reopening
    BY <1>6, <1>9 DEF Reopening, HandingOut
  <2>2. task'[e] \in {t, Written(t, v.task)}
    BY <1>1
  <2>3. CASE Retired(t, w)
    <3>1. (t.status = "none" \/ t.status \in {"new", "assigned"}) /\ Holder(t) = Nobody
      BY <1>4, <2>3 DEF SoundFor
    <3>2. /\ task'[e].status = "none" \/ task'[e].status \in {"new", "assigned"}
          /\ Holder(task'[e]) = Nobody
      BY <1>2, <2>1, <2>2, <3>1, WaitsHandedOut
    <3>. QED
      BY <1>3, <2>1, <2>3, <3>2 DEF SoundFor, op, w
  <2>4. CASE ~Retired(t, w)
    <3>1. /\ Sound(e \notin astray, t, ep, Written(t, w.task), Written(ep, w.episode))
          /\ Waiting(Written(t, w.task))
      BY <1>4, <1>9, <2>4 DEF SoundFor
    <3>2. \A held : /\ Sound(held, task'[e], episode'[e], Written(task'[e], w.task),
                             Written(episode'[e], w.episode))
                    /\ Waiting(Written(task'[e], w.task))
      <4>1. KeepsTask(v) /\ KeepsTask(w) /\ KeepsEpisode(op, w) /\ op \in HandingOut
        BY <1>6, <1>9
      <4>2. Written(ep, v.episode) \in EpisodeRow /\ episode'[e] = Written(ep, v.episode)
        BY <1>1, <1>2
      <4>3. \A held, t2 : t2 \in {t, Written(t, v.task)} =>
              LET ep2 == Written(ep, v.episode) IN
              /\ Sound(held, t2, ep2, Written(t2, w.task), Written(ep2, w.episode))
              /\ Waiting(Written(t2, w.task))
        BY <1>2, <2>1, <3>1, <4>1, <4>2, HandedOutOver
      <4>. QED
        BY <2>2, <4>2, <4>3
    <3>. QED
      BY <1>3, <2>4, <3>2 DEF SoundFor, op, w
  <2>. QED
    BY <2>3, <2>4
<1>. QED
  BY <1>7, <1>8, <1>9

LEMMA ReviewCommits ==
  ASSUME TypeInv, ReviewInv, NEW r \in Request, Commit(r)
  PROVE  ReviewInv'
<1>1. /\ Ends(r)
      /\ astray' = (astray \ request[r].on) \cup (request[r].on \cap stale[r])
      /\ \A e \in Episode \ request[r].on : task'[e] = task[e] /\ episode'[e] = episode[e]
  BY CommitRows
<1>2. /\ ~Works(r)'
      /\ \A s \in Request : s # r => /\ request'[s] = request[s]
                                     /\ Live(s) => stale'[s] = stale[s] \cup Overtaken(r, s)
  BY <1>1, EndsAfter
<1>3. SUFFICES ASSUME NEW s \in Request, s # r, Works(s), NEW e \in request[s].on, e \notin stale'[s]
               PROVE  SoundFor(e \notin astray', request[s].op, task'[e], episode'[e],
                               request[s].writes[e])
  BY <1>2, CommitAgrees DEF ReviewInv, WritesInv, Works, Live
<1>4. e \notin stale[s] /\ e \notin Overtaken(r, s) /\ e \in Episode
  BY <1>2, <1>3 DEF Works, TypeInv, Shape
<1>5. CASE e \in request[r].on
  <2>1. ~Overtakes(request[r], request[s], e)
    BY <1>3, <1>4, <1>5 DEF Overtaken
  <2>. QED
    BY <1>3, <1>4, <1>5, <2>1, CommitOver
<1>6. CASE e \notin request[r].on
  <2>1. SoundFor(e \notin astray, request[s].op, task[e], episode[e], request[s].writes[e])
    BY <1>3, <1>4 DEF ReviewInv, WritesInv
  <2>2. (e \notin astray') <=> (e \notin astray)
    BY <1>1, <1>6
  <2>3. task'[e] = task[e] /\ episode'[e] = episode[e]
    BY <1>1, <1>4, <1>6
  <2>. QED
    BY <2>1, <2>2, <2>3 DEF SoundFor, Sound
<1>. QED
  BY <1>5, <1>6

\* A plan retires the tasks of all requests in flight.
LEMMA ReviewPlans ==
  ASSUME TypeInv, PlanInv, ReviewInv, NEW r \in Request, CommitDispatch(r)
  PROVE  ReviewInv'
<1>. DEFINE g == request[r].batch.generation + 1
<1>1. /\ Plans(r) /\ Ends(r) /\ request[r].on = Episode
      /\ \A e \in Episode : /\ Holder(task'[e]) = Nobody
                            /\ \/ task'[e].status = "new" /\ task'[e].generation = g /\ g \notin made[e]
                               \/ task'[e].status = "none"
  BY PlanRows
<1>. HIDE DEF g
<1>2. /\ ~Works(r)'
      /\ \A s \in Request : s # r => /\ request'[s] = request[s]
                                     /\ Live(s) => stale'[s] = stale[s] \cup Overtaken(r, s)
  BY <1>1, EndsAfter
<1>3. RowInv'
  BY <1>1 DEF RowInv, Held, Agree
<1>4. ASSUME NEW s \in Request, s # r, Works(s), NEW e \in request[s].on, e \notin stale'[s]
      PROVE  SoundFor(e \notin astray', request[s].op, task'[e], episode'[e], request[s].writes[e])
  <2>1. e \in Episode /\ request[s].op # "dispatch" /\ request[s].op # "recompute"
    BY <1>4 DEF Works, TypeInv, Shape
  <2>2. ~Overtakes(request[r], request[s], e)
    BY <1>1, <1>2, <1>4, <2>1 DEF Works, Overtaken
  <2>3. request[s].op \notin Reopening
    BY <1>1, <2>1, <2>2 DEF Plans, Overtakes, HandingOut
  <2>4. request[s].writes[e].of \in made[e]
    BY <1>4 DEF PlanInv
  <2>5. Retired(task'[e], request[s].writes[e])
    BY <1>1, <2>1, <2>4 DEF Retired
  <2>. QED
    BY <1>1, <2>1, <2>3, <2>5 DEF SoundFor
<1>. QED
  BY <1>2, <1>3, <1>4 DEF ReviewInv, WritesInv, Works, Live

LEMMA ReviewDecides ==
  ASSUME TypeInv, ReviewInv, NEW r \in Request, CommitDecision(r)
  PROVE  ReviewInv'
<1>1. /\ Decides(r) /\ Goes(r, NoRequest, {}) /\ UNCHANGED <<task, astray>>
      /\ \A e \in Episode :
           /\ Decision(request[r].writes[e].episode)
           /\ episode'[e] = Written(episode[e], request[r].writes[e].episode)
           /\ episode'[e].qc = episode[e].qc /\ episode'[e].manual = episode[e].manual
  BY DecisionRows
<1>2. /\ request'[r] = NoRequest
      /\ \A s \in Request : s # r => request'[s] = request[s] /\ stale'[s] = stale[s]
  BY <1>1, GoesAfter
<1>3. RowInv'
  BY <1>1 DEF ReviewInv, RowInv, Agree
<1>4. ASSUME NEW s \in Request, s # r, Works(s), NEW e \in request[s].on, e \notin stale[s]
      PROVE  SoundFor(e \notin astray, request[s].op, task[e], episode'[e], request[s].writes[e])
  <2>. DEFINE w == request[s].writes[e]
              held == e \notin astray
  <2>1. e \in Episode /\ episode[e] \in EpisodeRow
    BY <1>4, RowFacts DEF Works, TypeInv, Shape
  <2>2. SoundFor(held, request[s].op, task[e], episode[e], w)
    BY <1>4 DEF ReviewInv, WritesInv
  <2>. HIDE DEF w, held
  <2>3. CASE Retired(task[e], w)
    BY <2>2, <2>3 DEF SoundFor, w
  <2>4. CASE ~Retired(task[e], w)
    <3>1. /\ Sound(held, task[e], episode[e], Written(task[e], w.task), Written(episode[e], w.episode))
          /\ request[s].op \in HandingOut => Waiting(Written(task[e], w.task))
      BY <2>2, <2>4 DEF SoundFor
    <3>2. Sound(held, task[e], episode'[e], Written(task[e], w.task), Written(episode'[e], w.episode))
      BY <1>1, <2>1, <3>1, SoundDecided
    <3>. QED
      BY <2>4, <3>1, <3>2 DEF SoundFor, w, held
  <2>. QED
    BY <2>3, <2>4
<1>. QED
  BY <1>1, <1>2, <1>3, <1>4 DEF ReviewInv, WritesInv, Works, Live

LEMMA ReviewExpires ==
  ASSUME TypeInv, ReviewInv, NEW e \in Episode, LockExpires(e)
  PROVE  ReviewInv'
<1>1. /\ UNCHANGED <<episode, request, stale, astray>>
      /\ task'[e] = [task[e] EXCEPT !.until = "past"]
      /\ \A x \in Episode : /\ x # e => task'[x] = task[x]
                            /\ task'[x].status = task[x].status
                            /\ task'[x].generation = task[x].generation
                            /\ Holder(task'[x]) \in {Holder(task[x]), Nobody}
                            /\ task'[x].assignee = task[x].assignee
  BY ExpiryRows
<1>2. RowInv'
  BY <1>1 DEF ReviewInv, RowInv, Held, Agree
<1>3. ASSUME NEW s \in Request, Works(s), NEW x \in request[s].on, x \notin stale[s]
      PROVE  SoundFor(x \notin astray, request[s].op, task'[x], episode[x], request[s].writes[x])
  <2>. DEFINE w == request[s].writes[x]
              held == x \notin astray
  <2>1. x \in Episode /\ task[x] \in TaskRow
    BY <1>3, RowFacts DEF Works, TypeInv, Shape
  <2>2. SoundFor(held, request[s].op, task[x], episode[x], w)
    BY <1>3 DEF ReviewInv, WritesInv
  <2>3. Retired(task'[x], w) <=> Retired(task[x], w)
    BY <1>1, <2>1 DEF Retired
  <2>. HIDE DEF w, held
  <2>4. CASE x # e
    BY <1>1, <2>1, <2>2, <2>4 DEF w, held
  <2>5. CASE x = e /\ Retired(task[x], w)
    <3>1. /\ task'[x].status = task[x].status
          /\ Holder(task'[x]) \in {Holder(task[x]), Nobody}
      BY <1>1, <2>1
    <3>. QED
      BY <2>2, <2>3, <2>5, <3>1 DEF SoundFor, w
  <2>6. CASE x = e /\ ~Retired(task[x], w)
    <3>1. /\ Sound(held, task[x], episode[x], Written(task[x], w.task), Written(episode[x], w.episode))
          /\ request[s].op \in HandingOut => Waiting(Written(task[x], w.task))
      BY <2>2, <2>6 DEF SoundFor
    <3>2. task'[x] = [task[x] EXCEPT !.until = "past"]
      BY <1>1, <2>6
    <3>3. /\ Sound(held, task'[x], episode[x], Written(task'[x], w.task), Written(episode[x], w.episode))
          /\ Waiting(Written(task[x], w.task)) => Waiting(Written(task'[x], w.task))
      BY <2>1, <3>1, <3>2, SoundExpired
    <3>. QED
      BY <2>3, <2>6, <3>1, <3>3 DEF SoundFor, w, held
  <2>. QED
    BY <2>4, <2>5, <2>6
<1>. QED
  BY <1>1, <1>2, <1>3 DEF ReviewInv, WritesInv, Works, Live

LEMMA ReviewStep ==
  ASSUME TypeInv, PlanInv, ReviewInv, [Next]_vars
  PROVE  ReviewInv'
<1>1. CASE UNCHANGED vars
  BY <1>1 DEF vars, ReviewInv, RowInv, WritesInv, Works, Live
<1>. QED
  BY <1>1, StepCases, ReviewLoads, ReviewCommits, ReviewPlans, ReviewDecides, ReviewExpires

\* The inductive invariant of the reviews.
IInv == TypeInv /\ PlanInv /\ ReviewInv

LEMMA Invariance == Spec => []IInv
<1>1. Init => IInv
  BY TypeInit, PlanInit, ReviewInit DEF IInv
<1>2. IInv /\ [Next]_vars => IInv'
  BY TypeStep, PlanStep, ReviewStep DEF IInv
<1>. QED
  BY <1>1, <1>2, PTL DEF Spec

\* Who holds a live lock is the assignee of a task in review, unless the last
\* operation on the task had been overtaken.
THEOREM LockHolderReviews == Spec => []ReviewedByLockHolder
<1>1. IInv => ReviewedByLockHolder
  BY DEF IInv, ReviewInv, RowInv, Held, ReviewedByLockHolder
<1>. QED
  BY <1>1, Invariance, PTL

\* A task and the review columns of its episode tell the same story, unless the last
\* operation on it had been overtaken.
THEOREM TaskAndEpisodeAgree == Spec => []TaskAgreesWithEpisode
<1>1. IInv => TaskAgreesWithEpisode
  BY DEF IInv, PlanInv, ReviewInv, RowInv, Agree, TaskAgreesWithEpisode
<1>. QED
  BY <1>1, Invariance, PTL

-----------------------------------------------------------------------------
\* What a step does to a task and to a result.

Finishes(e) ==
  task[e].status # "done" /\ task'[e].status = "done" =>
    /\ task[e].status = "in_review"
    /\ task'[e].assignee = task[e].assignee
    /\ task'[e].generation = task[e].generation

Loses(e) ==
  Reviewed(e) /\ ~Reviewed(e)' =>
    \/ \E r \in Request : CommitDispatch(r)
    \/ task[e].status = "done" /\ task'[e].status \in {"in_review", "assigned"}
    \/ e \in astray'

LEMMA CommitMoves ==
  ASSUME IInv, NEW r \in Request, Commit(r), NEW e \in Episode
  PROVE  Loses(e) /\ (e \notin astray \cup astray' => Finishes(e))
<1>. DEFINE q == request[r]
            w == q.writes[e]
<1>. USE DEF IInv
<1>1. /\ Works(r)
      /\ astray' = (astray \ q.on) \cup (q.on \cap stale[r])
      /\ e \in q.on => /\ task'[e] = IF Retired(task[e], w) THEN task[e] ELSE Written(task[e], w.task)
                       /\ episode'[e] = Written(episode[e], w.episode)
      /\ e \notin q.on => task'[e] = task[e] /\ episode'[e] = episode[e]
      /\ task'[e].generation = task[e].generation
  BY CommitRows
<1>2. CASE e \notin q.on
  BY <1>1, <1>2 DEF Loses, Finishes, Reviewed
<1>3. CASE e \in q.on /\ e \in stale[r]
  BY <1>1, <1>3 DEF Loses
<1>4. CASE e \in q.on /\ e \notin stale[r]
  <2>1. SoundFor(e \notin astray, q.op, task[e], episode[e], w)
    BY <1>1, <1>4 DEF ReviewInv, WritesInv
  <2>2. KeepsEpisode(q.op, w) /\ q.op # "dispatch"
    BY <1>1, <1>4 DEF Works, TypeInv, Keeps
  <2>3. episode[e] \in EpisodeRow
    BY RowFacts DEF TypeInv
  <2>. HIDE DEF w
  <2>4. CASE Retired(task[e], w)
    <3>1. q.op \notin Reopening /\ task'[e] = task[e] /\ episode'[e] = Written(episode[e], w.episode)
      BY <1>1, <1>4, <2>1, <2>4 DEF SoundFor
    <3>2. Reviewed(e) => Reviewed(e)'
      BY <2>2, <2>3, <3>1 DEF KeepsEpisode, Reviewed
    <3>. QED
      BY <3>1, <3>2 DEF Loses, Finishes
  <2>5. CASE ~Retired(task[e], w)
    <3>1. Sound(e \notin astray, task[e], episode[e], task'[e], episode'[e])
      BY <1>1, <1>4, <2>1, <2>5 DEF SoundFor
    <3>. QED
      BY <1>1, <3>1 DEF Sound, Loses, Finishes, Reviewed
  <2>. QED
    BY <2>4, <2>5
<1>. QED
  BY <1>2, <1>3, <1>4

LEMMA StepMoves ==
  ASSUME IInv, [Next]_vars, NEW e \in Episode
  PROVE  Loses(e) /\ (e \notin astray \cup astray' => Finishes(e))
<1>. USE DEF IInv
<1>1. CASE UNCHANGED vars
  BY <1>1 DEF vars, Loses, Finishes, Reviewed
<1>2. ASSUME NEW r \in Request, Loads(r)
      PROVE  Loses(e) /\ Finishes(e)
  BY <1>2 DEF Loads, rows, Loses, Finishes, Reviewed
<1>3. ASSUME NEW r \in Request, CommitDispatch(r)
      PROVE  Loses(e) /\ Finishes(e)
  <2>1. task'[e].status \in {"new", "none"}
    BY <1>3, PlanRows
  <2>. QED
    BY <1>3, <2>1 DEF Loses, Finishes
<1>4. ASSUME NEW r \in Request, CommitDecision(r)
      PROVE  Loses(e) /\ Finishes(e)
  <2>1. task' = task /\ episode'[e].manual = episode[e].manual
    BY <1>4, DecisionRows
  <2>. QED
    BY <2>1 DEF Loses, Finishes, Reviewed
<1>5. ASSUME NEW f \in Episode, LockExpires(f)
      PROVE  Loses(e) /\ Finishes(e)
  <2>1. task'[e].status = task[e].status /\ episode' = episode
    BY <1>5, ExpiryRows
  <2>. QED
    BY <2>1 DEF Loses, Finishes, Reviewed
<1>. QED
  BY <1>1, <1>2, <1>3, <1>4, <1>5, CommitMoves, StepCases

\* A task is finished by the one who had it in review, under the same plan, unless
\* a request that was no submission got in between.
THEOREM FinishedByReviewer == Spec => DoneByItsReviewer
<1>1. IInv /\ [Next]_vars => [\A e \in Episode \ (astray \cup astray') : Finishes(e)]_vars
  BY StepMoves
<1>. QED
  BY <1>1, Invariance, PTL DEF Spec, DoneByItsReviewer, Finishes

\* A result disappears only with a new plan, by reopening its finished task, or
\* under a request that had been overtaken.
THEOREM ResultsKept == Spec => ResultLostOnlyByReopening
<1>1. IInv /\ [Next]_vars => [\A e \in Episode : Loses(e)]_vars
  BY StepMoves
<1>. QED
  BY <1>1, Invariance, PTL DEF Spec, ResultLostOnlyByReopening, Loses

-----------------------------------------------------------------------------
\* The decision.

Sample(eps) == {e \in Episode : eps[e].sampled}
Complete(eps) ==
  Sample(eps) # {} /\ \A e \in Sample(eps) : eps[e].manual # "NOT_REVIEWED"
TooMany(eps) ==
  100 * Cardinality(With(eps, "MANUAL_FAIL")) > Threshold * Cardinality(Sample(eps))

\* The two counts of Outcome add up to the sample.
LEMMA OutcomeRules ==
  ASSUME NEW eps, \A e \in Episode : eps[e] \in EpisodeRow
  PROVE  /\ Outcome(eps) = "PENDING" <=> ~Complete(eps)
         /\ Outcome(eps) = "REJECTED" <=> Complete(eps) /\ TooMany(eps)
         /\ Outcome(eps) \in {"PENDING", "ACCEPTED", "REJECTED"}
<1>. DEFINE F == With(eps, "MANUAL_FAIL")
            P == With(eps, "MANUAL_PASS")
            N == With(eps, "NOT_REVIEWED")
            S == Sample(eps)
            failed == Cardinality(F)
            sampled == Cardinality(F) + Cardinality(P)
<1>1. /\ Outcome(eps) = IF sampled = 0 \/ N # {} THEN "PENDING"
                        ELSE IF 100 * failed > Threshold * sampled THEN "REJECTED"
                        ELSE "ACCEPTED"
  BY DEF Outcome
<1>2. F \cap P = {} /\ S = F \cup P \cup N
  BY DEF With, Sample, EpisodeRow, Result
<1>3. IsFiniteSet(F) /\ IsFiniteSet(P) /\ IsFiniteSet(S)
  BY FS_Subset, ReviewAssumption DEF With, Sample
<1>4. N = {} => sampled = Cardinality(S)
  <2>1. /\ Cardinality(F \cup P) = failed + Cardinality(P) - Cardinality(F \cap P)
        /\ Cardinality(F \cap P) = 0
        /\ failed \in Nat /\ Cardinality(P) \in Nat
    BY <1>2, <1>3, FS_Union, FS_EmptySet, FS_CardinalityType
  <2>2. N = {} => Cardinality(S) = Cardinality(F \cup P)
    <3>1. N = {} => S = F \cup P
      BY <1>2
    <3>. HIDE DEF F, P, N, S
    <3>. QED
      BY <3>1
  <2>3. Cardinality(F \cup P) = sampled
    <3>. HIDE DEF F, P
    <3>. QED
      BY <2>1
  <2>. QED
    BY <2>2, <2>3
<1>5. Cardinality(S) = 0 <=> S = {}
  BY <1>3, FS_EmptySet
<1>6. Complete(eps) <=> S # {} /\ N = {}
  BY DEF Complete, Sample, With
<1>7. TooMany(eps) <=> 100 * failed > Threshold * Cardinality(S)
  BY DEF TooMany
<1>. HIDE DEF F, P, N, S, failed, sampled
<1>8. CASE N # {}
  BY <1>1, <1>6, <1>8
<1>9. CASE N = {}
  BY <1>1, <1>4, <1>5, <1>6, <1>7, <1>9
<1>. QED
  BY <1>8, <1>9

\* One adjudication at a time; and what a recomputation will write is the verdict on
\* the rows as they are, as long as no result and no decision changes under it.
VerdictInv ==
  /\ \A r, s \in Request : Decides(r) /\ Decides(s) => r = s
  /\ \A r \in Request : Decides(r) /\ request[r].op = "recompute" /\ stale[r] = {} =>
       VerdictNow(request[r])

\* The columns a verdict reads and writes.
SameVerdict(ep, ep2) ==
  /\ ep2.manual = ep.manual /\ ep2.sampled = ep.sampled
  /\ ep2.final = ep.final /\ ep2.exportable = ep.exportable

LEMMA FinalSame ==
  ASSUME NEW ep \in EpisodeRow, NEW ep2 \in EpisodeRow, SameVerdict(ep, ep2), NEW outcome
  PROVE  Changes(ep2, Final(ep2, outcome)) = Changes(ep, Final(ep, outcome))
<1>. DEFINE f == Final(ep, outcome)
            f2 == Final(ep2, outcome)
            C == {c \in DOMAIN ep : f[c] # ep[c]}
            C2 == {c \in DOMAIN ep2 : f2[c] # ep2[c]}
<1>1. /\ DOMAIN ep = {"qc", "manual", "sampled", "final", "exportable"}
      /\ DOMAIN ep2 = DOMAIN ep
  BY DEF EpisodeRow
<1>2. /\ f["qc"] = ep["qc"] /\ f["manual"] = ep["manual"] /\ f["sampled"] = ep["sampled"]
      /\ f2["qc"] = ep2["qc"] /\ f2["manual"] = ep2["manual"] /\ f2["sampled"] = ep2["sampled"]
  BY DEF Final, Pending, EpisodeRow
<1>3. f2["final"] = f["final"] /\ f2["exportable"] = f["exportable"]
  BY DEF SameVerdict, Final, Pending, EpisodeRow
<1>4. ep2["final"] = ep["final"] /\ ep2["exportable"] = ep["exportable"]
  BY DEF SameVerdict
<1>5. Changes(ep, f) = [c \in C |-> f[c]] /\ Changes(ep2, f2) = [c \in C2 |-> f2[c]]
  BY DEF Changes
<1>. HIDE DEF f, f2
<1>6. C = C2 /\ \A c \in C : f2[c] = f[c]
  BY <1>1, <1>2, <1>3, <1>4
<1>. HIDE DEF C, C2
<1>. QED
  BY <1>5, <1>6 DEF f, f2

LEMMA VerdictSame ==
  ASSUME RowTypes, RowTypes', \A e \in Episode : SameVerdict(episode[e], episode'[e]),
         batch' = batch, NEW q, VerdictNow(q)
  PROVE  VerdictNow(q)'
<1>1. \A status : With(episode, status)' = With(episode, status)
  BY DEF With, SameVerdict
<1>2. Outcome(episode)' = Outcome(episode)
  BY <1>1 DEF Outcome
<1>3. \A e \in Episode : episode[e] \in EpisodeRow /\ episode'[e] \in EpisodeRow
  BY DEF RowTypes
<1>4. \A e \in Episode : \A outcome :
        Changes(episode'[e], Final(episode'[e], outcome)) = Changes(episode[e], Final(episode[e], outcome))
  BY <1>3, FinalSame
<1>. QED
  BY <1>2, <1>4 DEF VerdictNow

LEMMA VerdictCommits ==
  ASSUME TypeInv, VerdictInv, NEW s \in Request, Commit(s)
  PROVE  VerdictInv'
<1>1. /\ Works(s) /\ Ends(s) /\ RowTypes' /\ batch' = batch
      /\ request[s].on \subseteq Episode
      /\ \A e \in request[s].on : episode'[e] = Written(episode[e], request[s].writes[e].episode)
      /\ \A e \in Episode \ request[s].on : episode'[e] = episode[e]
      /\ \A e \in Episode : episode'[e].sampled = episode[e].sampled
  BY CommitRows
<1>2. /\ ~Decides(s)'
      /\ \A r \in Request : r # s => /\ request'[r] = request[r]
                                     /\ Live(r) => stale'[r] = stale[r] \cup Overtaken(s, r)
  BY <1>1, EndsAfter
<1>3. ASSUME NEW r \in Request, r # s, Decides(r), request[r].op = "recompute", stale'[r] = {}
      PROVE  VerdictNow(request[r])'
  <2>1. stale[r] = {} /\ Overtaken(s, r) = {} /\ request[r].on = Episode
    BY <1>2, <1>3 DEF Decides, TypeInv, Shape
  <2>2. \A e \in request[s].on :
          DOMAIN request[s].writes[e].episode \cap {"manual", "final", "exportable"} = {}
    <3>1. \A e : Overtakes(request[s], request[r], e) <=>
            DOMAIN request[s].writes[e].episode \cap {"manual", "final", "exportable"} # {}
      BY <1>3 DEF Overtakes, HandingOut
    <3>. QED
      BY <1>1, <2>1, <3>1 DEF Overtaken
  <2>3. ASSUME NEW e \in Episode
        PROVE  SameVerdict(episode[e], episode'[e])
    <3>1. CASE e \in request[s].on
      <4>. DEFINE d == request[s].writes[e].episode
      <4>1. DOMAIN d \cap {"manual", "final", "exportable"} = {} /\ episode'[e] = Written(episode[e], d)
        BY <1>1, <2>2, <3>1
      <4>. HIDE DEF d
      <4>2. episode[e] \in EpisodeRow /\ episode'[e].sampled = episode[e].sampled
        BY <1>1, RowFacts DEF TypeInv
      <4>3. "manual" \notin DOMAIN d /\ "final" \notin DOMAIN d /\ "exportable" \notin DOMAIN d
        BY <4>1
      <4>4. /\ episode'[e].manual = episode[e].manual /\ episode'[e].final = episode[e].final
            /\ episode'[e].exportable = episode[e].exportable
        BY <4>1, <4>2, <4>3 DEF Written, EpisodeRow
      <4>. QED
        BY <4>2, <4>4 DEF SameVerdict
    <3>2. CASE e \notin request[s].on
      BY <1>1, <3>2 DEF SameVerdict
    <3>. QED
      BY <3>1, <3>2
  <2>4. VerdictNow(request[r])
    BY <1>3, <2>1 DEF VerdictInv
  <2>5. \A q : VerdictNow(q) => VerdictNow(q)'
    BY <1>1, <2>3, VerdictSame DEF TypeInv
  <2>. QED
    BY <1>2, <1>3, <2>4, <2>5
<1>. QED
  BY <1>2, <1>3 DEF VerdictInv, Decides, Live

LEMMA VerdictStep ==
  ASSUME TypeInv, VerdictInv, [Next]_vars
  PROVE  VerdictInv'
<1>1. CASE UNCHANGED vars
  BY <1>1 DEF vars, VerdictInv, VerdictNow, Decides, Live
<1>2. ASSUME NEW r \in Request, Loads(r)
      PROVE  VerdictInv'
  <2>1. PICK x, missed : /\ Goes(r, x, missed) /\ UNCHANGED <<rows, astray>>
                         /\ missed \in SUBSET Episode
                         /\ x # NoRequest => Shape(x) /\ Fits(x, missed)
    BY <1>2 DEF Loads
  <2>2. /\ request'[r] = x
        /\ \A s \in Request : s # r => request'[s] = request[s] /\ stale'[s] = stale[s]
        /\ UNCHANGED <<episode, batch>>
    BY <2>1, GoesAfter DEF rows
  <2>3. x # NoRequest /\ x.stage = "deciding" => \A s \in Request : ~Decides(s)
    BY <2>1 DEF Fits, BatchLocked, Decides, Live
  <2>4. \A s, t \in Request : Decides(s)' /\ Decides(t)' => s = t
    BY <2>2, <2>3 DEF VerdictInv, Decides, Live
  <2>5. x # NoRequest /\ x.op = "recompute" => VerdictNow(x)
    BY <2>1 DEF Fits
  <2>6. \A q : VerdictNow(q)' <=> VerdictNow(q)
    BY <2>2 DEF VerdictNow
  <2>7. \A s \in Request : Decides(s)' /\ request'[s].op = "recompute" /\ stale'[s] = {} =>
          VerdictNow(request'[s])
    BY <2>2, <2>5 DEF VerdictInv, Decides, Live
  <2>. QED
    BY <2>4, <2>6, <2>7 DEF VerdictInv
<1>3. ASSUME NEW r \in Request, CommitDispatch(r)
      PROVE  VerdictInv'
  <2>1. Ends(r) /\ ~BatchLocked
    BY <1>3, PlanRows
  <2>2. ~Decides(r)' /\ \A s \in Request : s # r => request'[s] = request[s]
    BY <2>1, EndsAfter
  <2>3. \A s \in Request : ~Decides(s)'
    BY <2>1, <2>2 DEF BatchLocked, Decides, Live
  <2>. QED
    BY <2>3 DEF VerdictInv
<1>4. ASSUME NEW r \in Request, CommitDecision(r)
      PROVE  VerdictInv'
  <2>1. Decides(r) /\ Goes(r, NoRequest, {})
    BY <1>4, DecisionRows
  <2>2. request'[r] = NoRequest /\ \A s \in Request : s # r => request'[s] = request[s]
    BY <2>1, GoesAfter
  <2>3. \A s \in Request : ~Decides(s)'
    BY <2>1, <2>2 DEF VerdictInv, Decides, Live
  <2>. QED
    BY <2>3 DEF VerdictInv
<1>5. ASSUME NEW e \in Episode, LockExpires(e)
      PROVE  VerdictInv'
  <2>1. UNCHANGED <<episode, batch, request, stale>>
    BY <1>5, ExpiryRows
  <2>2. \A q : VerdictNow(q)' <=> VerdictNow(q)
    BY <2>1 DEF VerdictNow
  <2>. QED
    BY <2>1, <2>2 DEF VerdictInv, Decides, Live
<1>. QED
  BY <1>1, <1>2, <1>3, <1>4, <1>5, VerdictCommits, StepCases

LEMMA VerdictCommitted ==
  ASSUME TypeInv, VerdictInv, NEW r \in Request, request[r] # NoRequest,
         request[r].op = "recompute", stale[r] = {}, CommitDecision(r)
  PROVE  DecidedByTheRules'
<1>. DEFINE outcome == Outcome(episode)
<1>0. /\ Decides(r) /\ batch' = Written(batch, request[r].batch)
      /\ \A e \in Episode : episode'[e] = Written(episode[e], request[r].writes[e].episode)
  BY DecisionRows
<1>1. /\ \A e \in Episode :
           request[r].writes[e].episode = Changes(episode[e], Final(episode[e], outcome))
      /\ request[r].batch = Changes(batch, [batch EXCEPT !.decision = outcome])
  BY <1>0 DEF VerdictInv, VerdictNow
<1>2. /\ outcome = "PENDING" <=> ~Complete(episode)
      /\ outcome = "REJECTED" <=> Complete(episode) /\ TooMany(episode)
      /\ outcome \in {"PENDING", "ACCEPTED", "REJECTED"}
  BY RowFacts, OutcomeRules DEF TypeInv
<1>. HIDE DEF outcome
<1>3. batch'.decision = outcome
  BY <1>0, <1>1, <1>2 DEF Written, Changes, BatchRow, TypeInv, RowTypes
<1>4. ASSUME NEW e \in Episode
      PROVE  episode'[e] = Final(episode[e], outcome) /\ episode'[e] \in EpisodeRow
  <2>1. episode[e] \in EpisodeRow /\ Final(episode[e], outcome) \in EpisodeRow
    BY RowFacts DEF TypeInv, Final, Pending, EpisodeRow
  <2>2. episode'[e] = Written(episode[e], Changes(episode[e], Final(episode[e], outcome)))
    BY <1>0, <1>1
  <2>. QED
    BY <2>1, <2>2, EpisodeWritten
<1>5. ASSUME NEW e \in Episode
      PROVE  /\ episode'[e].sampled = episode[e].sampled
             /\ episode'[e].manual = episode[e].manual
             /\ episode'[e].final = "PENDING" <=> outcome = "PENDING"
             /\ episode'[e].final = "QUALIFIED" <=>
                  outcome = "ACCEPTED" /\ episode[e].manual # "MANUAL_FAIL"
             /\ episode'[e].exportable <=> episode'[e].final = "QUALIFIED"
  <2>. DEFINE ep == episode[e]
              ok == outcome = "ACCEPTED" /\ ep.manual # "MANUAL_FAIL"
  <2>1. ep \in EpisodeRow
    BY RowFacts DEF TypeInv
  <2>. HIDE DEF ep
  <2>2. CASE outcome = "PENDING"
    <3>1. episode'[e] = [ep EXCEPT !.final = "PENDING", !.exportable = FALSE]
      BY <1>4, <2>2 DEF Final, Pending, ep
    <3>. QED
      BY <2>1, <2>2, <3>1 DEF EpisodeRow, ep
  <2>3. CASE outcome # "PENDING" /\ ok
    <3>1. episode'[e] = [ep EXCEPT !.final = "QUALIFIED", !.exportable = TRUE]
      BY <1>4, <2>3 DEF Final, ep
    <3>. QED
      BY <2>1, <2>3, <3>1 DEF EpisodeRow, ep
  <2>4. CASE outcome # "PENDING" /\ ~ok
    <3>1. episode'[e] = [ep EXCEPT !.final = "UNQUALIFIED", !.exportable = FALSE]
      BY <1>4, <2>4 DEF Final, ep
    <3>. QED
      BY <2>1, <2>4, <3>1 DEF EpisodeRow, ep
  <2>. QED
    BY <2>2, <2>3, <2>4
<1>. DEFINE S == {e \in Episode : episode'[e].sampled}
            failed == {e \in S : episode'[e].manual = "MANUAL_FAIL"}
            complete == S # {} /\ \A e \in S : episode'[e].manual # "NOT_REVIEWED"
            rejected == 100 * Cardinality(failed) > Threshold * Cardinality(S)
            qualified == {e \in Episode : episode'[e].final = "QUALIFIED"}
<1>6. S = Sample(episode) /\ failed = With(episode, "MANUAL_FAIL")
  BY <1>5 DEF Sample, With
<1>7. (complete <=> Complete(episode)) /\ (rejected <=> TooMany(episode))
  BY <1>5, <1>6 DEF Complete, TooMany, Sample
<1>8. /\ batch'.decision = "PENDING" <=> ~complete
      /\ batch'.decision = "REJECTED" <=> complete /\ rejected
  BY <1>2, <1>3, <1>7
<1>9. qualified = IF complete /\ ~rejected
                  THEN {e \in Episode : episode'[e].manual # "MANUAL_FAIL"} ELSE {}
  <2>1. outcome = "ACCEPTED" <=> complete /\ ~rejected
    BY <1>2, <1>7
  <2>2. \A e \in Episode : episode'[e].final = "QUALIFIED" <=>
          complete /\ ~rejected /\ episode'[e].manual # "MANUAL_FAIL"
    BY <1>5, <2>1
  <2>. HIDE DEF complete, rejected
  <2>. QED
    BY <2>2
<1>10. \A e \in Episode : /\ episode'[e].final = "PENDING" <=> ~complete
                          /\ episode'[e].exportable <=> e \in qualified
  BY <1>2, <1>5, <1>7
<1>. QED
  BY <1>8, <1>9, <1>10 DEF DecidedByTheRules, Reviewed

\* A recomputation settles the batch by the rules, for any sample and any threshold,
\* if no result and no decision of an episode changes under it.
THEOREM RecomputationSettles == Spec => RecomputeDecides
<1>. DEFINE Settles ==
       \A r \in Request : request[r] # NoRequest /\ request[r].op = "recompute" /\ stale[r] = {} /\
         CommitDecision(r) => DecidedByTheRules'
<1>1. Init => VerdictInv
  BY DEF Init, VerdictInv, Decides, Live
<1>2. TypeInv /\ VerdictInv /\ [Next]_vars => VerdictInv'
  BY VerdictStep
<1>3. TypeInv /\ VerdictInv /\ [Next]_vars => [Settles]_vars
  BY VerdictCommitted
<1>. QED
  BY <1>1, <1>2, <1>3, TypeInvariance, PTL DEF Spec, RecomputeDecides
=============================================================================
