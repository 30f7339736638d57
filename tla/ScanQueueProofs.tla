--------------------------- MODULE ScanQueueProofs ---------------------------
(***************************************************************************)
(* Theorems about ScanQueue for every set of jobs, prefixes and workers and *)
(* every bound: its invariants, what a step may do to a row, and that it    *)
(* implements LeasedWork.                                                   *)
(***************************************************************************)
EXTENDS ScanQueue, TLAPS

\* A worker that is neither idle nor down holds a shard.
HeldInv == \A w \in Worker : phase[w] \notin {"idle", "down"} => held[w] \in Shard

\* A job that does not exist has no rows, and the coordinator expands existing jobs.
RowInv ==
  /\ \A s \in Shard : jobStatus[s.job] = "absent" => shardStatus[s] = "absent"
  /\ \A j \in tick.expanding : jobStatus[j] # "absent"

\* How many attempts a row has used, by its status.
AttemptInv ==
  \A s \in Shard :
    /\ shardStatus[s] = "absent" => attempt[s] = 0
    /\ shardStatus[s] \in WaitingShardStatus => attempt[s] < MaxAttempts
    /\ shardStatus[s] \in FailedShardStatus => attempt[s] = MaxAttempts

\* Rows locked by the coordinator stay as it read them.
LockedInv == \A s \in tick.expired : shardStatus[s] = "running" /\ lease[s] = "expired"

\* The worker that owns a running row works for its latest claim.
ClaimInv ==
  \A s \in Shard :
    /\ shardStatus[s] = "running" => claims[s] # 0
    /\ \A w \in Worker : OwnsRow(w, s) /\ held[w] = s => heldClaim[w] = claims[s]

IInv == /\ TypeOK
        /\ HeldInv
        /\ RowInv
        /\ AttemptInv
        /\ LockedInv
        /\ ClaimInv
        /\ PublishedByLatestClaim

-----------------------------------------------------------------------------
\* Rows belong to jobs.
LEMMA ShardJob == \A s \in Shard : s.job \in Job
  BY DEF Shard

\* The initial state satisfies the inductive invariant.
LEMMA InitIInv == Init => IInv
  <1> SUFFICES ASSUME Init PROVE IInv
    OBVIOUS
  <1> USE ConstantsAssumption DEF Init
  <1>1. TypeOK
    BY DEF TypeOK, NoTick, Phase, ActiveJobStatus, EndedJobStatus
  <1>2. HeldInv /\ RowInv /\ AttemptInv /\ LockedInv
    BY DEF HeldInv, RowInv, AttemptInv, LockedInv, NoTick, WaitingShardStatus, FailedShardStatus
  <1>3. ClaimInv /\ PublishedByLatestClaim
    BY DEF ClaimInv, PublishedByLatestClaim
  <1> QED
    BY <1>1, <1>2, <1>3 DEF IInv

\* Transactions of the operator keep the inductive invariant.
LEMMA OperatorKeeps ==
  ASSUME IInv, NEW j \in Job, OperatorStep(j)
  PROVE  IInv'
  <1> USE ConstantsAssumption, NoShardAssumption, ShardJob
          DEF IInv, jobVars, shardVars, catalogVars, workerVars, WaitingShardStatus,
              FailedShardStatus
  <1>1. ASSUME NEW m \in Modes, NEW P \in SUBSET Prefix, CreateJob(j, m, P)
        PROVE  IInv'
    <2> USE <1>1 DEF CreateJob, ModeAllowed
    <2>0. \A s \in InitialShards(j, m, P) : s.job = j
      BY DEF InitialShards, ListShard, DiscoveryShard
    <2> USE <2>0
    <2>1. TypeOK'
      BY DEF TypeOK, Phase, ActiveJobStatus, EndedJobStatus, ActiveShardStatus,
             TerminalShardStatus, HeldInv, AttemptInv, LockedInv, ClaimInv, OwnsRow
    <2>2. HeldInv' /\ RowInv'
      BY DEF HeldInv, RowInv, TypeOK, OwnsRow
    <2>3. AttemptInv' /\ LockedInv'
      BY DEF AttemptInv, LockedInv, HeldInv, RowInv, TypeOK, OwnsRow
    <2>4. ClaimInv' /\ PublishedByLatestClaim'
      BY DEF ClaimInv, PublishedByLatestClaim, HeldInv, RowInv, TypeOK, OwnsRow
    <2> QED
      BY <2>1, <2>2, <2>3, <2>4
  <1>2. ASSUME RequestCancel(j)
        PROVE  IInv'
    <2> USE <1>2 DEF RequestCancel, Active, ActiveJobStatus
    <2>1. TypeOK'
      BY DEF TypeOK, Phase, ActiveJobStatus, EndedJobStatus, ActiveShardStatus,
             TerminalShardStatus, HeldInv, AttemptInv, LockedInv, ClaimInv, OwnsRow
    <2>2. HeldInv' /\ RowInv'
      BY DEF HeldInv, RowInv, TypeOK, OwnsRow
    <2>3. AttemptInv' /\ LockedInv'
      BY DEF AttemptInv, LockedInv, HeldInv, RowInv, TypeOK, OwnsRow
    <2>4. ClaimInv' /\ PublishedByLatestClaim'
      BY DEF ClaimInv, PublishedByLatestClaim, HeldInv, RowInv, TypeOK, OwnsRow
    <2> QED
      BY <2>1, <2>2, <2>3, <2>4
  <1>3. ASSUME RetryFailed(j)
        PROVE  IInv'
    <2> USE <1>3 DEF RetryFailed, FailedShards, ShardsOf
    <2>1. TypeOK'
      BY DEF TypeOK, Phase, ActiveJobStatus, EndedJobStatus, ActiveShardStatus,
             TerminalShardStatus, HeldInv, AttemptInv, LockedInv, ClaimInv, OwnsRow
    <2>2. HeldInv' /\ RowInv'
      BY DEF HeldInv, RowInv, TypeOK, OwnsRow
    <2>3. AttemptInv' /\ LockedInv'
      BY DEF AttemptInv, LockedInv, HeldInv, RowInv, TypeOK, OwnsRow
    <2>4. ClaimInv' /\ PublishedByLatestClaim'
      BY DEF ClaimInv, PublishedByLatestClaim, HeldInv, RowInv, TypeOK, OwnsRow
    <2> QED
      BY <2>1, <2>2, <2>3, <2>4
  <1> QED
    BY <1>1, <1>2, <1>3 DEF OperatorStep

\* A worker that only changes its own phase keeps the inductive invariant.
LEMMA BecomeKeeps ==
  ASSUME IInv, NEW w \in Worker, NEW ph \in Phase, Become(w, ph),
         ph \in {"idle", "down"} \/ held[w] \in Shard,
         UNCHANGED <<jobVars, shardVars, catalogVars, tick, claims, published>>
  PROVE  IInv'
  <1> USE DEF IInv, Become, jobVars, shardVars, catalogVars
  <1>1. TypeOK'
    BY DEF TypeOK
  <1>2. HeldInv' /\ RowInv'
    BY DEF HeldInv, RowInv, TypeOK
  <1>3. AttemptInv' /\ LockedInv'
    BY DEF AttemptInv, LockedInv
  <1>4. ClaimInv' /\ PublishedByLatestClaim'
    BY NoShardAssumption DEF ClaimInv, PublishedByLatestClaim, TypeOK, OwnsRow
  <1> QED
    BY <1>1, <1>2, <1>3, <1>4

\* A claim that ends without a publication keeps the inductive invariant.
LEMMA EndClaimKeeps ==
  ASSUME IInv, NEW w \in Worker, NEW ph \in Phase, Become(w, ph),
         NEW s \in Shard, NEW r \in {"cancelled", "retry_wait", "failed", "timeout"},
         ph \in {"idle", "down"} \/ held[w] \in Shard,
         OwnsRow(w, s), ~RowLocked(s),
         r = "retry_wait" => attempt[s] < MaxAttempts,
         r \in FailedShardStatus => attempt[s] = MaxAttempts,
         shardStatus' = [shardStatus EXCEPT ![s] = r],
         Released(s),
         UNCHANGED <<jobVars, attempt, catalogVars, tick, claims, published>>
  PROVE  IInv'
  <1> USE DEF IInv, Become, Released, OwnsRow, RowLocked, jobVars, catalogVars
  <1>1. TypeOK'
    BY DEF TypeOK, ActiveShardStatus, TerminalShardStatus, FailedShardStatus
  <1>2. HeldInv' /\ RowInv'
    BY DEF HeldInv, RowInv, TypeOK
  <1>3. AttemptInv' /\ LockedInv'
    BY DEF AttemptInv, LockedInv, TypeOK, WaitingShardStatus, FailedShardStatus
  <1>4. ClaimInv' /\ PublishedByLatestClaim'
    BY NoShardAssumption DEF ClaimInv, PublishedByLatestClaim, TypeOK
  <1> QED
    BY <1>1, <1>2, <1>3, <1>4

\* fail_shard, together with whatever phase the worker enters, keeps it.
LEMMA FailShardKeeps ==
  ASSUME IInv, NEW w \in Worker, NEW ph \in Phase, Become(w, ph),
         NEW exhausted \in FailedShardStatus,
         held[w] \in Shard,
         FailShard(w, held[w], exhausted),
         UNCHANGED <<jobVars, catalogVars, tick, claims, published>>
  PROVE  IInv'
  <1>1. CASE ~OwnsRow(w, held[w])
    BY <1>1, BecomeKeeps DEF FailShard, shardVars
  <1>2. CASE OwnsRow(w, held[w])
    <2> DEFINE r == CASE cancelRequested[held[w].job]  -> "cancelled"
                      [] ~cancelRequested[held[w].job] /\ attempt[held[w]] < MaxAttempts
                                                       -> "retry_wait"
                      [] OTHER                         -> exhausted
    <2>1. attempt[held[w]] \in Nat /\ attempt[held[w]] <= MaxAttempts /\ MaxAttempts \in Nat
      BY ConstantsAssumption DEF IInv, TypeOK
    <2>2. /\ r \in {"cancelled", "retry_wait", "failed", "timeout"}
          /\ r = "retry_wait" => attempt[held[w]] < MaxAttempts
          /\ r \in FailedShardStatus => attempt[held[w]] = MaxAttempts
      BY <2>1 DEF FailedShardStatus
    <2>3. /\ ~RowLocked(held[w])
          /\ shardStatus' = [shardStatus EXCEPT ![held[w]] = r]
          /\ Released(held[w])
          /\ UNCHANGED attempt
      BY <1>2 DEF FailShard
    <2> HIDE DEF r
    <2> QED
      BY <1>2, <2>2, <2>3, EndClaimKeeps
  <1> QED
    BY <1>1, <1>2

\* Steps of a worker keep the inductive invariant.
LEMMA WorkerKeeps ==
  ASSUME IInv, NEW w \in Worker, WorkerStep(w)
  PROVE  IInv'
  <1> USE DEF IInv, jobVars, shardVars, catalogVars, workerVars
  <1>1. ASSUME NEW s \in Shard, Claim(w, s)
        PROVE  IInv'
    <2> USE <1>1, ConstantsAssumption, ShardJob DEF Claim, Claimable, WaitingShardStatus
    <2>1. TypeOK'
      BY DEF TypeOK, Phase, AttemptInv, ActiveJobStatus, ActiveShardStatus
    <2>2. HeldInv' /\ RowInv'
      BY DEF HeldInv, RowInv, TypeOK
    <2>3. AttemptInv' /\ LockedInv'
      BY DEF AttemptInv, LockedInv, TypeOK, FailedShardStatus
    <2>4. ClaimInv' /\ PublishedByLatestClaim'
      BY DEF ClaimInv, PublishedByLatestClaim, TypeOK, OwnsRow
    <2> QED
      BY <2>1, <2>2, <2>3, <2>4
  <1>2. ASSUME NEW found \in SUBSET Prefix, PublishDiscovery(w, found)
        PROVE  IInv'
    <2> USE <1>2 DEF PublishDiscovery, MayPublish, ChildRunning, OwnsRow, RowLocked,
                     Released, ChildEnds, Become
    <2>0. held[w] \in Shard /\ held[w].job \in Job
      BY ShardJob DEF HeldInv
    <2>1. TypeOK'
      BY <2>0 DEF TypeOK, Phase, ActiveShardStatus, TerminalShardStatus
    <2>2. HeldInv' /\ RowInv'
      BY <2>0 DEF HeldInv, RowInv, TypeOK
    <2>3. AttemptInv' /\ LockedInv'
      BY <2>0 DEF AttemptInv, LockedInv, TypeOK, WaitingShardStatus, FailedShardStatus
    <2>4. ClaimInv' /\ PublishedByLatestClaim'
      BY <2>0, NoShardAssumption DEF ClaimInv, PublishedByLatestClaim, TypeOK
    <2> QED
      BY <2>1, <2>2, <2>3, <2>4
  <1>3. ASSUME NEW empty \in BOOLEAN, NEW confirm \in BOOLEAN, PublishList(w, empty, confirm)
        PROVE  IInv'
    <2> DEFINE s == held[w]
    <2> USE DEF MayPublish, ChildRunning, OwnsRow, RowLocked, Released, ChildEnds, Become
    <2>0. s \in Shard /\ ConfirmShard(s).job = s.job
      BY <1>3 DEF PublishList, HeldInv, ConfirmShard, Shard
    <2>1. s.prefix \in Prefix
      BY <1>3, <2>0 DEF PublishList, IsDiscovery, Shard
    <2>2. /\ MayPublish(w)
          /\ \A t \in Shard :
               \/ t = s /\ shardStatus'[t] = "succeeded"
               \/ /\ t # s /\ t.job = s.job /\ shardStatus[t] = "absent"
                  /\ shardStatus'[t] = "retry_wait"
               \/ t # s /\ shardStatus'[t] = shardStatus[t]
          /\ shardStatus' \in [Shard -> {"absent"} \cup ActiveShardStatus \cup TerminalShardStatus]
          /\ lists' \in SUBSET Prefix
      BY <1>3, <2>0, <2>1
      DEF PublishList, TypeOK, ActiveShardStatus, TerminalShardStatus
    <2>3. /\ Released(s)
          /\ ChildEnds(w, "done")
          /\ published' = [published EXCEPT ![s] = heldClaim[w]]
          /\ UNCHANGED <<jobVars, attempt, discoveredBy, tick, claims>>
      BY <1>3 DEF PublishList
    <2> HIDE DEF s
    <2>4. s = held[w]
      BY DEF s
    <2>5. TypeOK'
      BY <2>0, <2>2, <2>3, <2>4 DEF TypeOK, Phase
    <2>6. HeldInv' /\ RowInv'
      BY <2>0, <2>2, <2>3, <2>4 DEF HeldInv, RowInv, TypeOK
    <2>7. AttemptInv' /\ LockedInv'
      BY <2>0, <2>2, <2>3, <2>4, ConstantsAssumption
      DEF AttemptInv, LockedInv, TypeOK, WaitingShardStatus, FailedShardStatus
    <2>8. ClaimInv' /\ PublishedByLatestClaim'
      BY <2>0, <2>2, <2>3, <2>4, NoShardAssumption
      DEF ClaimInv, PublishedByLatestClaim, TypeOK
    <2> QED
      BY <2>5, <2>6, <2>7, <2>8
  <1>4. CASE ChildFails(w)
    <2>1. /\ held[w] \in Shard
          /\ FailShard(w, held[w], "failed")
          /\ \E ph \in Phase : Become(w, ph)
          /\ UNCHANGED <<jobVars, catalogVars, tick, claims, published>>
      BY <1>4 DEF ChildFails, ChildRunning, ChildEnds, HeldInv, Phase
    <2> QED
      BY <2>1, FailShardKeeps DEF FailedShardStatus
  <1>5. CASE Heartbeat(w)
    <2> USE <1>5 DEF Heartbeat, RowLocked
    <2>1. TypeOK'
      BY DEF TypeOK
    <2>2. HeldInv' /\ RowInv'
      BY DEF HeldInv, RowInv
    <2>3. AttemptInv' /\ LockedInv'
      BY DEF AttemptInv, LockedInv, TypeOK
    <2>4. ClaimInv' /\ PublishedByLatestClaim'
      BY DEF ClaimInv, PublishedByLatestClaim, OwnsRow
    <2> QED
      BY <2>1, <2>2, <2>3, <2>4
  <1>6. CASE Settle(w)
    <2>1. /\ held[w] \in Shard
          /\ Become(w, "idle")
          /\ "idle" \in Phase
          /\ UNCHANGED <<jobVars, catalogVars, tick, claims, published>>
      BY <1>6 DEF Settle, SettleOk, SettleError, SettleCancel, SettleTimeout, HeldInv, Phase
    <2>2. CASE SettleOk(w)
      BY <2>1, <2>2, BecomeKeeps DEF SettleOk
    <2>3. CASE SettleError(w)
      BY <2>1, <2>3, FailShardKeeps DEF SettleError, FailedShardStatus
    <2>4. CASE SettleTimeout(w)
      BY <2>1, <2>4, FailShardKeeps DEF SettleTimeout, FailedShardStatus
    <2>5. CASE SettleCancel(w)
      <3>1. CASE OwnsRow(w, held[w])
        BY <2>1, <2>5, <3>1, EndClaimKeeps
        DEF SettleCancel, CancelRunningShard, FailedShardStatus
      <3>2. CASE ~OwnsRow(w, held[w])
        BY <2>1, <2>5, <3>2, BecomeKeeps DEF SettleCancel, CancelRunningShard
      <3> QED
        BY <3>1, <3>2
    <2> QED
      BY <1>6, <2>2, <2>3, <2>4, <2>5 DEF Settle
  <1>7. CASE \/ ChildDies(w)
             \/ ParentCancels(w)
             \/ ParentTimesOut(w)
             \/ ParentLost(w)
             \/ Crash(w)
             \/ Restart(w)
    <2>1. /\ UNCHANGED <<jobVars, shardVars, catalogVars, tick, claims, published>>
          /\ \E ph \in Phase : /\ Become(w, ph)
                               /\ ph \in {"idle", "down"} \/ held[w] \in Shard
      BY <1>7 DEF ChildDies, ChildRunning, ChildEnds, ParentCancels, ParentPolling,
                  ParentTimesOut, ParentLost, Crash, Restart, HeldInv, Phase
    <2> QED
      BY <2>1, BecomeKeeps
  <1> QED
    BY <1>1, <1>2, <1>3, <1>4, <1>5, <1>6, <1>7 DEF WorkerStep, Publish

\* A lease running out keeps the inductive invariant.
LEMMA LeaseExpiresKeeps ==
  ASSUME IInv, NEW s \in Shard, LeaseExpires(s)
  PROVE  IInv'
  <1> USE DEF IInv, LeaseExpires, jobVars, catalogVars, workerVars
  <1>1. TypeOK'
    BY DEF TypeOK
  <1>2. HeldInv' /\ RowInv'
    BY DEF HeldInv, RowInv
  <1>3. AttemptInv' /\ LockedInv'
    BY DEF AttemptInv, LockedInv, TypeOK
  <1>4. ClaimInv' /\ PublishedByLatestClaim'
    BY DEF ClaimInv, PublishedByLatestClaim, OwnsRow
  <1> QED
    BY <1>1, <1>2, <1>3, <1>4

\* What a tick makes of a row: a reclaimed row waits or times out by its attempts,
\* an absent row may be inserted as pending, every other row stays.
LEMMA ShardAfterTickCases ==
  ASSUME IInv, NEW s \in Shard, NEW others
  PROVE  \/ /\ s \in tick.expired
            /\ ShardAfterTick(s, others) = "retry_wait"
            /\ attempt[s] < MaxAttempts
         \/ /\ s \in tick.expired
            /\ ShardAfterTick(s, others) = "timeout"
            /\ attempt[s] = MaxAttempts
         \/ /\ s \notin tick.expired /\ shardStatus[s] = "absent"
            /\ s.job \in tick.expanding \/ s.job = tick.schedule
            /\ ShardAfterTick(s, others) = "pending"
         \/ /\ s \notin tick.expired
            /\ ShardAfterTick(s, others) = shardStatus[s]
  <1>1. attempt[s] \in Nat /\ attempt[s] <= MaxAttempts /\ MaxAttempts \in Nat
    BY ConstantsAssumption DEF IInv, TypeOK
  <1>2. CASE s \in tick.expired
    BY <1>1, <1>2 DEF ShardAfterTick, Reclaimed, IInv, LockedInv
  <1>3. CASE s \notin tick.expired
    BY <1>3 DEF ShardAfterTick, NewShards
  <1> QED
    BY <1>2, <1>3

\* A job never becomes absent again, and aggregation yields a status.
LEMMA AggregatedIsStatus ==
  ASSUME NEW j \in Job, NEW others
  PROVE  AggregatedStatus(j, others) \in ActiveJobStatus \cup EndedJobStatus
  BY DEF AggregatedStatus, ActiveJobStatus, EndedJobStatus

\* Steps of the coordinator keep the inductive invariant.
LEMMA CoordinatorKeeps ==
  ASSUME IInv, CoordinatorStep
  PROVE  IInv'
  <1> USE DEF IInv, jobVars, shardVars, catalogVars, workerVars
  <1>1. ASSUME NEW schedule \in Job \cup {NoJob}, TickRead(schedule)
        PROVE  IInv'
    <2> USE <1>1 DEF TickRead
    <2>1. TypeOK'
      BY DEF TypeOK, ExpiredShards, ExpandableJobs
    <2>2. HeldInv' /\ RowInv'
      BY DEF HeldInv, RowInv, ExpandableJobs, ClaimableJobStatus
    <2>3. AttemptInv' /\ LockedInv'
      BY DEF AttemptInv, LockedInv, ExpiredShards
    <2>4. ClaimInv' /\ PublishedByLatestClaim'
      BY DEF ClaimInv, PublishedByLatestClaim, OwnsRow
    <2> QED
      BY <2>1, <2>2, <2>3, <2>4
  <1>2. ASSUME NEW others \in SUBSET lists, NEW m \in ScanMode \cup {"none"},
               TickCommit(others, m)
        PROVE  IInv'
    <2> USE <1>2 DEF TickCommit
    <2>1. \A s \in Shard : shardStatus'[s] = ShardAfterTick(s, others)
      OBVIOUS
    <2>2. \A s \in tick.expired : s \in Shard /\ shardStatus[s] = "running"
      BY DEF LockedInv, TypeOK
    <2>3. TypeOK'
      <3>1. shardStatus' \in [Shard -> {"absent"} \cup ActiveShardStatus \cup TerminalShardStatus]
        BY ShardAfterTickCases
        DEF TypeOK, ActiveShardStatus, TerminalShardStatus, FailedShardStatus
      <3>2. jobStatus' \in [Job -> {"absent"} \cup ActiveJobStatus \cup EndedJobStatus]
        BY AggregatedIsStatus DEF TypeOK, JobAfterTick
      <3>3. /\ owner' \in [Shard -> Worker \cup {NoWorker}]
            /\ lease' \in [Shard -> {"none", "live", "expired"}]
            /\ activeKey' \in [Job -> BOOLEAN]
            /\ mode' \in [Job -> ScanMode \cup {"none"}]
        BY DEF TypeOK
      <3>4. tick' \in [open : BOOLEAN, expired : SUBSET Shard, expanding : SUBSET Job,
                       schedule : Job \cup {NoJob}]
        BY DEF NoTick
      <3> QED
        BY <3>1, <3>2, <3>3, <3>4 DEF TypeOK
    <2>4. HeldInv' /\ RowInv'
      <3>1. \A j \in Job : jobStatus'[j] = "absent" =>
                             /\ jobStatus[j] = "absent"
                             /\ j # tick.schedule
        BY AggregatedIsStatus DEF JobAfterTick, Active, ActiveJobStatus, EndedJobStatus
      <3>2. \A s \in Shard : jobStatus'[s.job] = "absent" => shardStatus'[s] = "absent"
        BY <2>1, <2>2, <3>1, ShardAfterTickCases, ShardJob DEF RowInv
      <3> QED
        BY <3>2 DEF HeldInv, RowInv, NoTick
    <2>5. AttemptInv' /\ LockedInv'
      BY <2>1, <2>2, ShardAfterTickCases, ConstantsAssumption
      DEF AttemptInv, LockedInv, NoTick, WaitingShardStatus, FailedShardStatus
    <2>6. ClaimInv'
      BY <2>1, <2>2, ShardAfterTickCases DEF ClaimInv, OwnsRow, TypeOK
    <2>7. PublishedByLatestClaim'
      BY <2>1, <2>2, ShardAfterTickCases DEF PublishedByLatestClaim
    <2> QED
      BY <2>3, <2>4, <2>5, <2>6, <2>7
  <1>3. CASE TickAbort
    <2> USE <1>3 DEF TickAbort, NoTick
    <2>1. TypeOK'
      BY DEF TypeOK
    <2>2. HeldInv' /\ RowInv'
      BY DEF HeldInv, RowInv
    <2>3. AttemptInv' /\ LockedInv'
      BY DEF AttemptInv, LockedInv
    <2>4. ClaimInv' /\ PublishedByLatestClaim'
      BY DEF ClaimInv, PublishedByLatestClaim, OwnsRow
    <2> QED
      BY <2>1, <2>2, <2>3, <2>4
  <1> QED
    BY <1>1, <1>2, <1>3 DEF CoordinatorStep

\* Every step keeps the inductive invariant.
LEMMA NextKeeps ==
  ASSUME IInv, [Next]_vars
  PROVE  IInv'
  <1>1. CASE UNCHANGED vars
    BY <1>1 DEF vars, jobVars, shardVars, catalogVars, workerVars, IInv, TypeOK, HeldInv,
                RowInv, AttemptInv, LockedInv, ClaimInv, PublishedByLatestClaim, OwnsRow
  <1>2. CASE Next
    BY <1>2, OperatorKeeps, WorkerKeeps, LeaseExpiresKeeps, CoordinatorKeeps DEF Next
  <1> QED
    BY <1>1, <1>2

-----------------------------------------------------------------------------
\* The inductive invariant holds in every reachable state.
THEOREM Invariance == Spec => []IInv
  <1>1. Init => IInv
    BY InitIInv
  <1>2. IInv /\ [Next]_vars => IInv'
    BY NextKeeps
  <1> QED
    BY <1>1, <1>2, PTL DEF Spec

\* Every variable has its type; in particular no shard is attempted more than
\* MaxAttempts times between two operator retries.
THEOREM TypeCorrect == Spec => []TypeOK
  <1>1. IInv => TypeOK
    BY DEF IInv
  <1> QED
    BY <1>1, Invariance, PTL

\* Fencing: only the holder of a shard's latest claim publishes it, once.
THEOREM Fencing == Spec => []PublishedByLatestClaim
  <1>1. IInv => PublishedByLatestClaim
    BY DEF IInv
  <1> QED
    BY <1>1, Invariance, PTL

\* A shard is given up only after all its attempts.
THEOREM GivenUpLast == Spec => []GivenUpAfterAllAttempts
  <1>1. IInv => GivenUpAfterAllAttempts
    BY DEF IInv, AttemptInv, GivenUpAfterAllAttempts
  <1> QED
    BY <1>1, Invariance, PTL

-----------------------------------------------------------------------------
(* Jobs: which of them are active, and what their final status says.       *)

\* The job the coordinator is about to insert does not exist yet, and no other
\* job becomes active before it: the unique key makes others wait.
ScheduleInv ==
  /\ tick.schedule # NoJob => NoActiveJob
  /\ \A j \in tick.expanding : Active(j)

JobInv == EndedJobIsQuiet /\ OneActiveJob /\ ScheduleInv

\* A running or waiting shard belongs to an active job.
LEMMA BusyShardHasActiveJob ==
  ASSUME IInv, EndedJobIsQuiet, NEW s \in Shard,
         shardStatus[s] \in {"pending", "running", "retry_wait"}
  PROVE  Active(s.job)
  BY ShardJob DEF IInv, TypeOK, RowInv, EndedJobIsQuiet, Ended, Active,
                  ActiveJobStatus, EndedJobStatus

\* Steps that change no job, and make no shard active but one of an active job,
\* keep the job invariant.
LEMMA JobsUntouched ==
  ASSUME IInv, JobInv, UNCHANGED <<jobVars, tick>>,
         \A s \in Shard : shardStatus'[s] \in {"pending", "running", "retry_wait"} =>
                            Active(s.job)
  PROVE  JobInv'
  <1> USE DEF JobInv, jobVars
  <1>1. EndedJobIsQuiet'
    BY DEF EndedJobIsQuiet, Ended, Active, ActiveJobStatus, EndedJobStatus
  <1>2. OneActiveJob'
    BY DEF OneActiveJob, Active
  <1>3. ScheduleInv'
    BY DEF ScheduleInv, NoActiveJob, Active
  <1> QED
    BY <1>1, <1>2, <1>3

\* Transactions of the operator keep the job invariant.
LEMMA OperatorKeepsJobs ==
  ASSUME IInv, JobInv, NEW j \in Job, OperatorStep(j)
  PROVE  JobInv'
  <1> USE ShardJob DEF JobInv, IInv, TypeOK, Active, Ended, ActiveJobStatus, EndedJobStatus
  <1>1. ASSUME NEW m \in Modes, NEW P \in SUBSET Prefix, CreateJob(j, m, P)
        PROVE  JobInv'
    <2> USE <1>1 DEF CreateJob
    <2>1. \A s \in InitialShards(j, m, P) : s.job = j
      BY DEF InitialShards, ListShard, DiscoveryShard
    <2>2. EndedJobIsQuiet'
      BY <2>1 DEF EndedJobIsQuiet
    <2>3. OneActiveJob' /\ ScheduleInv'
      BY DEF OneActiveJob, ScheduleInv, NoActiveJob
    <2> QED
      BY <2>2, <2>3
  <1>2. CASE RequestCancel(j)
    <2> USE <1>2 DEF RequestCancel, WaitingShardStatus
    <2>1. EndedJobIsQuiet'
      BY DEF EndedJobIsQuiet
    <2>2. OneActiveJob' /\ ScheduleInv'
      BY DEF OneActiveJob, ScheduleInv, NoActiveJob
    <2> QED
      BY <2>1, <2>2
  <1>3. CASE RetryFailed(j)
    <2> USE <1>3 DEF RetryFailed, FailedShards, ShardsOf, NoOtherActive
    <2>1. EndedJobIsQuiet'
      BY DEF EndedJobIsQuiet
    <2>2. OneActiveJob' /\ ScheduleInv'
      BY DEF OneActiveJob, ScheduleInv, NoActiveJob
    <2> QED
      BY <2>1, <2>2
  <1> QED
    BY <1>1, <1>2, <1>3 DEF OperatorStep

\* Steps of a worker keep the job invariant.
LEMMA WorkerKeepsJobs ==
  ASSUME IInv, JobInv, NEW w \in Worker, WorkerStep(w)
  PROVE  JobInv'
  <1>1. ASSUME NEW s \in Shard, Claim(w, s)
        PROVE  JobInv'
    <2> USE <1>1, ShardJob
            DEF Claim, Claimable, ClaimableJobStatus, JobInv, IInv, TypeOK, Active, Ended,
                ActiveJobStatus, EndedJobStatus, IsDiscovery
    <2>1. EndedJobIsQuiet'
      BY DEF EndedJobIsQuiet
    <2>2. OneActiveJob' /\ ScheduleInv'
      BY DEF OneActiveJob, ScheduleInv, NoActiveJob
    <2> QED
      BY <2>1, <2>2
  <1>2. CASE ~\E s \in Shard : Claim(w, s)
    <2>1. held[w] \in Shard \/ \/ ParentCancels(w)
                               \/ ParentTimesOut(w)
                               \/ ParentLost(w)
                               \/ Crash(w)
                               \/ Restart(w)
                               \/ ChildDies(w)
      BY <1>2 DEF WorkerStep, Publish, PublishDiscovery, PublishList, MayPublish, ChildRunning,
                  ChildFails, Heartbeat, Settle, SettleOk, SettleError, SettleCancel,
                  SettleTimeout, IInv, HeldInv
    <2>2. UNCHANGED <<jobVars, tick>>
      BY <1>2 DEF WorkerStep, Publish, PublishDiscovery, PublishList, ChildFails, ChildDies,
                  Heartbeat, ParentCancels, ParentTimesOut, ParentLost, Settle, Crash, Restart
    <2>3. \A s \in Shard : shardStatus'[s] \in {"pending", "running", "retry_wait"} =>
            \/ shardStatus[s] \in {"pending", "running", "retry_wait"}
            \/ /\ held[w] \in Shard
               /\ shardStatus[held[w]] = "running"
               /\ s.job = held[w].job
      <3>1. CASE Publish(w)
        <4>1. held[w] \in Shard /\ ConfirmShard(held[w]).job = held[w].job
          BY <3>1 DEF Publish, PublishDiscovery, PublishList, MayPublish, ChildRunning,
                      IInv, HeldInv, ConfirmShard, Shard
        <4> QED
          BY <3>1, <4>1 DEF Publish, PublishDiscovery, PublishList, MayPublish, OwnsRow,
                            IInv, TypeOK
      <3>2. CASE ChildFails(w) \/ Settle(w)
        BY <3>2 DEF ChildFails, Settle, SettleOk, SettleError, SettleCancel, SettleTimeout,
                    FailShard, CancelRunningShard, OwnsRow, IInv, TypeOK, shardVars
      <3>3. CASE ~Publish(w) /\ ~ChildFails(w) /\ ~Settle(w)
        BY <1>2, <3>3 DEF WorkerStep, ChildDies, Heartbeat, ParentCancels, ParentTimesOut,
                          ParentLost, Crash, Restart, shardVars
      <3> QED
        BY <3>1, <3>2, <3>3
    <2> QED
      BY <2>2, <2>3, JobsUntouched, BusyShardHasActiveJob DEF JobInv
  <1> QED
    BY <1>1, <1>2

\* Steps of the coordinator keep the job invariant.
LEMMA CoordinatorKeepsJobs ==
  ASSUME IInv, JobInv, CoordinatorStep
  PROVE  JobInv'
  <1> USE DEF JobInv
  <1>1. ASSUME NEW schedule \in Job \cup {NoJob}, TickRead(schedule)
        PROVE  JobInv'
    <2> USE <1>1 DEF TickRead, Active, jobVars, shardVars
    <2>1. EndedJobIsQuiet' /\ OneActiveJob'
      BY DEF EndedJobIsQuiet, OneActiveJob, Ended
    <2>2. ScheduleInv'
      BY DEF ScheduleInv, NoActiveJob, ExpandableJobs, ClaimableJobStatus, ActiveJobStatus
    <2> QED
      BY <2>1, <2>2
  <1>2. ASSUME NEW others \in SUBSET lists, NEW m \in ScanMode \cup {"none"},
               TickCommit(others, m)
        PROVE  JobInv'
    <2> USE <1>2 DEF TickCommit
    <2>1. \A j \in Job : jobStatus'[j] = JobAfterTick(j, others)
      OBVIOUS
    <2>2. \A s \in Shard : shardStatus'[s] = ShardAfterTick(s, others)
      OBVIOUS
    <2>3. EndedJobIsQuiet'
      <3> SUFFICES ASSUME NEW s \in Shard, jobStatus'[s.job] \in EndedJobStatus,
                          shardStatus'[s] \in {"pending", "running", "retry_wait"}
                   PROVE  FALSE
        BY DEF EndedJobIsQuiet, Ended
      <3>1. CASE Active(s.job) \/ s.job = tick.schedule
        <4>1. \E t \in ShardsOf(s.job) : ShardAfterTick(t, others) \in ActiveShardStatus
          BY <2>2 DEF ShardsOf, ActiveShardStatus
        <4>2. AggregatedStatus(s.job, others) \in ActiveJobStatus
          BY <4>1 DEF AggregatedStatus, ActiveJobStatus
        <4> QED
          BY <2>1, <3>1, <4>2, ShardJob DEF JobAfterTick, ActiveJobStatus, EndedJobStatus
      <3>2. CASE ~Active(s.job) /\ s.job # tick.schedule
        <4>1. shardStatus[s] \notin {"pending", "running", "retry_wait"}
          BY <3>2, BusyShardHasActiveJob
        <4>2. s.job \notin tick.expanding
          BY <3>2 DEF ScheduleInv
        <4>3. s \notin tick.expired
          BY <4>1 DEF IInv, LockedInv
        <4> QED
          BY <2>2, <3>2, <4>1, <4>2, <4>3, ShardAfterTickCases
      <3> QED
        BY <3>1, <3>2
    <2>4. OneActiveJob'
      <3>1. \A j \in Job : Active(j)' => Active(j) \/ j = tick.schedule
        BY <2>1 DEF JobAfterTick, Active
      <3>2. \A j, k \in Job : Active(j)' /\ Active(k)' => j = k
        BY <3>1, ConstantsAssumption DEF OneActiveJob, ScheduleInv, NoActiveJob
      <3>3. \A j \in Job : activeKey'[j] <=> Active(j)'
        BY <2>1, <3>1 DEF OneActiveJob, Active
      <3> QED
        BY <3>2, <3>3 DEF OneActiveJob
    <2>5. ScheduleInv'
      BY DEF ScheduleInv, NoTick
    <2> QED
      BY <2>3, <2>4, <2>5
  <1>3. CASE TickAbort
    BY <1>3 DEF TickAbort, NoTick, jobVars, shardVars, EndedJobIsQuiet, OneActiveJob,
                ScheduleInv, NoActiveJob, Active, Ended
  <1> QED
    BY <1>1, <1>2, <1>3 DEF CoordinatorStep

\* Every step keeps the job invariant.
LEMMA NextKeepsJobs ==
  ASSUME IInv, JobInv, [Next]_vars
  PROVE  JobInv'
  <1>1. CASE UNCHANGED vars
    BY <1>1 DEF vars, jobVars, shardVars, JobInv, EndedJobIsQuiet, OneActiveJob,
                ScheduleInv, NoActiveJob, Active, Ended
  <1>2. ASSUME NEW s \in Shard, LeaseExpires(s)
        PROVE  JobInv'
    BY <1>2 DEF LeaseExpires, jobVars, JobInv, EndedJobIsQuiet, OneActiveJob,
                ScheduleInv, NoActiveJob, Active, Ended
  <1> QED
    BY <1>1, <1>2, OperatorKeepsJobs, WorkerKeepsJobs, CoordinatorKeepsJobs DEF Next

\* The job invariant holds in every reachable state.
THEOREM JobInvariance == Spec => []JobInv
  <1>1. Init => JobInv
    BY DEF Init, JobInv, EndedJobIsQuiet, OneActiveJob, ScheduleInv, NoTick, Active, Ended,
           ActiveJobStatus, EndedJobStatus
  <1>2. IInv /\ JobInv /\ [Next]_vars => JobInv'
    BY NextKeepsJobs
  <1> QED
    BY <1>1, <1>2, Invariance, PTL DEF Spec

\* One job of the bucket is active at a time, and it alone holds the unique key.
THEOREM SingleActiveJob == Spec => []OneActiveJob
  <1>1. JobInv => OneActiveJob
    BY DEF JobInv
  <1> QED
    BY <1>1, JobInvariance, PTL

\* Nothing of a job runs or waits after its final status.
THEOREM QuietEnd == Spec => []EndedJobIsQuiet
  <1>1. JobInv => EndedJobIsQuiet
    BY DEF JobInv
  <1> QED
    BY <1>1, JobInvariance, PTL

-----------------------------------------------------------------------------
\* The legal moves of one row, by its column values.
RowMove(s) ==
  \/ shardStatus'[s] = shardStatus[s] /\ attempt'[s] = attempt[s]
  \/ /\ shardStatus[s] = "absent" /\ shardStatus'[s] \in WaitingShardStatus
     /\ attempt[s] = 0 /\ attempt'[s] = 0
  \/ /\ shardStatus[s] \in WaitingShardStatus /\ shardStatus'[s] = "running"
     /\ attempt'[s] = attempt[s] + 1
  \/ /\ shardStatus[s] = "running" /\ shardStatus'[s] = "succeeded"
     /\ attempt'[s] = attempt[s]
  \/ /\ shardStatus[s] = "running" /\ shardStatus'[s] = "retry_wait"
     /\ attempt[s] < MaxAttempts /\ attempt'[s] = attempt[s]
  \/ /\ shardStatus[s] = "running" /\ shardStatus'[s] \in FailedShardStatus
     /\ attempt[s] = MaxAttempts /\ attempt'[s] = attempt[s]
  \/ /\ shardStatus[s] \in WaitingShardStatus \cup {"running"}
     /\ shardStatus'[s] = "cancelled" /\ attempt'[s] = attempt[s]
  \/ /\ shardStatus[s] \in FailedShardStatus /\ shardStatus'[s] = "pending"
     /\ attempt'[s] = 0

\* fail_shard is a legal move of the row.
LEMMA FailShardMoves ==
  ASSUME IInv, NEW w \in Worker, NEW t \in Shard, NEW exhausted \in FailedShardStatus,
         FailShard(w, t, exhausted), NEW s \in Shard
  PROVE  RowMove(s)
  <1>1. attempt[t] \in Nat /\ attempt[t] <= MaxAttempts /\ MaxAttempts \in Nat
    BY ConstantsAssumption DEF IInv, TypeOK
  <1> QED
    BY <1>1 DEF FailShard, OwnsRow, RowMove, IInv, TypeOK, FailedShardStatus, WaitingShardStatus

\* Publishing is a legal move of the rows, made by the holder of the latest claim.
LEMMA PublishMoves ==
  ASSUME IInv, NEW w \in Worker, Publish(w), NEW s \in Shard
  PROVE  /\ RowMove(s)
         /\ shardStatus[s] = "running" /\ shardStatus'[s] # "running" => s = held[w]
         /\ published'[s] # published[s] => s = held[w]
         /\ shardStatus'[s] = "running" => shardStatus[s] = "running"
  <1> USE DEF MayPublish, OwnsRow, RowMove, IInv, TypeOK, WaitingShardStatus, AttemptInv
  <1>0. held[w] \in Shard
    BY DEF Publish, PublishDiscovery, PublishList, ChildRunning, HeldInv
  <1>1. CASE \E found \in SUBSET Prefix : PublishDiscovery(w, found)
    BY <1>0, <1>1 DEF PublishDiscovery
  <1>2. CASE \E empty, confirm \in BOOLEAN : PublishList(w, empty, confirm)
    BY <1>0, <1>2 DEF PublishList
  <1> QED
    BY <1>1, <1>2 DEF Publish

\* Every step makes a legal move of every row.
LEMMA RowSteps ==
  ASSUME IInv, [Next]_vars, NEW s \in Shard
  PROVE  RowMove(s)
  <1> USE DEF IInv
  <1>1. CASE UNCHANGED vars
    BY <1>1 DEF vars, shardVars, RowMove
  <1>2. ASSUME NEW j \in Job, OperatorStep(j)
        PROVE  RowMove(s)
    <2>1. ASSUME NEW m \in Modes, NEW P \in SUBSET Prefix, CreateJob(j, m, P)
          PROVE  RowMove(s)
      <3>1. \A t \in InitialShards(j, m, P) : t.job = j
        BY DEF InitialShards, ListShard, DiscoveryShard
      <3> QED
        BY <2>1, <3>1 DEF CreateJob, RowMove, RowInv, AttemptInv, WaitingShardStatus
    <2>2. CASE RequestCancel(j)
      BY <2>2 DEF RequestCancel, RowMove
    <2>3. CASE RetryFailed(j)
      BY <2>3 DEF RetryFailed, FailedShards, ShardsOf, RowMove
    <2> QED
      BY <1>2, <2>1, <2>2, <2>3 DEF OperatorStep
  <1>3. ASSUME NEW w \in Worker, WorkerStep(w)
        PROVE  RowMove(s)
    <2>1. ASSUME NEW t \in Shard, Claim(w, t)
          PROVE  RowMove(s)
      BY <2>1 DEF Claim, Claimable, RowMove, TypeOK
    <2>2. CASE Publish(w)
      BY <2>2, PublishMoves
    <2>3. CASE ChildFails(w)
      BY <2>3, FailShardMoves DEF ChildFails, ChildRunning, HeldInv, FailedShardStatus
    <2>4. CASE Settle(w)
      <3>1. held[w] \in Shard
        BY <2>4 DEF Settle, SettleOk, SettleError, SettleCancel, SettleTimeout, HeldInv
      <3>2. CASE SettleOk(w)
        BY <3>2 DEF SettleOk, shardVars, RowMove
      <3>3. CASE SettleError(w) \/ SettleTimeout(w)
        BY <3>1, <3>3, FailShardMoves DEF SettleError, SettleTimeout, FailedShardStatus
      <3>4. CASE SettleCancel(w)
        BY <3>1, <3>4 DEF SettleCancel, CancelRunningShard, OwnsRow, RowMove, TypeOK
      <3> QED
        BY <2>4, <3>2, <3>3, <3>4 DEF Settle
    <2>5. CASE \/ ChildDies(w)
               \/ Heartbeat(w)
               \/ ParentCancels(w)
               \/ ParentTimesOut(w)
               \/ ParentLost(w)
               \/ Crash(w)
               \/ Restart(w)
      BY <2>5 DEF ChildDies, Heartbeat, ParentCancels, ParentTimesOut, ParentLost, Crash,
                  Restart, shardVars, RowMove
    <2> QED
      BY <1>3, <2>1, <2>2, <2>3, <2>4, <2>5 DEF WorkerStep
  <1>4. ASSUME NEW t \in Shard, LeaseExpires(t)
        PROVE  RowMove(s)
    BY <1>4 DEF LeaseExpires, RowMove
  <1>5. CASE CoordinatorStep
    <2>1. ASSUME NEW schedule \in Job \cup {NoJob}, TickRead(schedule)
          PROVE  RowMove(s)
      BY <2>1 DEF TickRead, shardVars, RowMove
    <2>2. ASSUME NEW others \in SUBSET lists, NEW m \in ScanMode \cup {"none"},
                 TickCommit(others, m)
          PROVE  RowMove(s)
      <3>1. shardStatus'[s] = ShardAfterTick(s, others) /\ attempt' = attempt
        BY <2>2 DEF TickCommit
      <3>2. s \in tick.expired => shardStatus[s] = "running"
        BY DEF LockedInv
      <3> QED
        BY <3>1, <3>2, ShardAfterTickCases
        DEF RowMove, AttemptInv, WaitingShardStatus, FailedShardStatus
    <2>3. CASE TickAbort
      BY <2>3 DEF TickAbort, shardVars, RowMove
    <2> QED
      BY <1>5, <2>1, <2>2, <2>3 DEF CoordinatorStep
  <1> QED
    BY <1>1, <1>2, <1>3, <1>4, <1>5 DEF Next

\* A legal move of a row is a step of LeasedWork.
LEMMA MoveIsStep ==
  ASSUME NEW s \in Shard, RowMove(s)
  PROVE  Leased!Step(s)
  <1>1. /\ WorkState("absent") = "none"
        /\ WorkState("pending") = "waiting"
        /\ WorkState("retry_wait") = "waiting"
        /\ WorkState("running") = "taken"
        /\ WorkState("succeeded") = "done"
        /\ WorkState("failed") = "given_up"
        /\ WorkState("timeout") = "given_up"
        /\ WorkState("cancelled") = "withdrawn"
    BY DEF WorkState, WaitingShardStatus, FailedShardStatus
  <1> QED
    BY <1>1 DEF RowMove, WaitingShardStatus, FailedShardStatus, Leased!Step, Leased!Keep,
                Leased!Add, Leased!Take, Leased!Finish, Leased!GiveBack, Leased!GiveUp,
                Leased!Withdraw, Leased!Revive, Leased!Moves

\* The queue implements leased work: whatever the operator, the workers and the
\* coordinator interleave, each shard only moves as LeasedWork allows.
THEOREM ImplementsLeasedWork == Spec => QueueIsLeasedWork
  <1>1. Init => Leased!Init
    BY DEF Init, Leased!Init, WorkState, WaitingShardStatus, FailedShardStatus
  <1>2. IInv /\ [Next]_vars => [Leased!Next]_Leased!vars
    <2> SUFFICES ASSUME IInv, [Next]_vars PROVE Leased!Next
      OBVIOUS
    <2>1. \A s \in Shard : Leased!Step(s)
      BY RowSteps, MoveIsStep
    <2>2. IInv'
      BY NextKeeps
    <2>3. TypeOK'
      BY <2>2 DEF IInv
    <2>4. /\ [s \in Shard |-> WorkState(shardStatus[s])]' \in [Shard -> Leased!State]
          /\ attempt' \in [Shard -> 0..MaxAttempts]
      BY <2>3 DEF TypeOK, WorkState, Leased!State, ActiveShardStatus, TerminalShardStatus,
                  WaitingShardStatus, FailedShardStatus
    <2> QED
      BY <2>1, <2>4 DEF Leased!Next
  <1> QED
    BY <1>1, <1>2, Invariance, PTL DEF Spec, QueueIsLeasedWork, Leased!Spec

\* A claim ends by the hand of the worker that made it, or by the reclaim of its
\* expired lease: a late settlement never touches a newer claim.
THEOREM ClaimsEndByOwner == Spec => ClaimEndedByItsOwner
  <1> DEFINE EndedRightly(s) ==
        shardStatus[s] = "running" /\ shardStatus'[s] # "running" =>
          \/ lease[s] = "expired" /\ tick.open /\ ~tick'.open
          \/ \E w \in Worker : /\ held[w] = s
                               /\ heldClaim[w] = claims[s]
                               /\ phase'[w] # phase[w]
  <1>1. IInv /\ [Next]_vars => [\A s \in Shard : EndedRightly(s)]_vars
    <2> SUFFICES ASSUME IInv, Next, NEW s \in Shard, shardStatus[s] = "running",
                        shardStatus'[s] # "running"
                 PROVE  EndedRightly(s)
      OBVIOUS
    <2> USE DEF IInv
    <2>1. ASSUME NEW j \in Job, OperatorStep(j)
          PROVE  FALSE
      <3>1. ASSUME NEW m \in Modes, NEW P \in SUBSET Prefix, CreateJob(j, m, P)
            PROVE  FALSE
        <4>1. \A t \in InitialShards(j, m, P) : t.job = j
          BY DEF InitialShards, ListShard, DiscoveryShard
        <4> QED
          BY <3>1, <4>1 DEF CreateJob, RowInv
      <3>2. ~RequestCancel(j) /\ ~RetryFailed(j)
        BY DEF RequestCancel, RetryFailed, FailedShards, ShardsOf, WaitingShardStatus,
               FailedShardStatus
      <3> QED
        BY <2>1, <3>1, <3>2 DEF OperatorStep
    <2>2. ASSUME NEW w \in Worker, WorkerStep(w)
          PROVE  EndedRightly(s)
      <3>1. /\ OwnsRow(w, s) /\ held[w] = s
            /\ phase'[w] # phase[w]
        <4>1. CASE \E t \in Shard : Claim(w, t)
          BY <4>1 DEF Claim, TypeOK
        <4>2. CASE Publish(w)
          <5>1. s = held[w]
            BY <4>2, PublishMoves
          <5> QED
            BY <4>2, <5>1 DEF Publish, PublishDiscovery, PublishList, MayPublish, ChildRunning,
                              ChildEnds, Become, TypeOK
        <4>3. CASE ChildFails(w)
          BY <4>3 DEF ChildFails, ChildRunning, ChildEnds, Become, FailShard, OwnsRow, TypeOK
        <4>4. CASE Settle(w)
          BY <4>4 DEF Settle, SettleOk, SettleError, SettleCancel, SettleTimeout, Become,
                      FailShard, CancelRunningShard, OwnsRow, TypeOK, shardVars
        <4>5. CASE \/ ChildDies(w)
                   \/ Heartbeat(w)
                   \/ ParentCancels(w)
                   \/ ParentTimesOut(w)
                   \/ ParentLost(w)
                   \/ Crash(w)
                   \/ Restart(w)
          BY <4>5 DEF ChildDies, Heartbeat, ParentCancels, ParentTimesOut, ParentLost, Crash,
                      Restart, shardVars
        <4> QED
          BY <2>2, <4>1, <4>2, <4>3, <4>4, <4>5 DEF WorkerStep
      <3> QED
        BY <3>1 DEF ClaimInv
    <2>3. ~\E t \in Shard : LeaseExpires(t)
      BY DEF LeaseExpires
    <2>4. CASE CoordinatorStep
      <3>1. ~TickAbort /\ \A schedule \in Job \cup {NoJob} : ~TickRead(schedule)
        BY DEF TickAbort, TickRead, shardVars
      <3>2. PICK others \in SUBSET lists, m \in ScanMode \cup {"none"} : TickCommit(others, m)
        BY <2>4, <3>1 DEF CoordinatorStep
      <3>3. s \in tick.expired
        BY <3>2, ShardAfterTickCases DEF TickCommit
      <3> QED
        BY <3>2, <3>3 DEF TickCommit, LockedInv, NoTick
    <2> QED
      BY <2>1, <2>2, <2>3, <2>4 DEF Next
  <1> QED
    BY <1>1, Invariance, PTL DEF Spec, ClaimEndedByItsOwner

\* While a cancel request stands, no shard of the job starts to run or publishes.
THEOREM CancelStopsWork == Spec => CancelledJobDoesNoWork
  <1> DEFINE NoWork(s) ==
        cancelRequested[s.job] /\ cancelRequested'[s.job] =>
          /\ shardStatus'[s] = "running" => shardStatus[s] = "running"
          /\ published'[s] = published[s]
  <1>1. IInv /\ [Next]_vars => [\A s \in Shard : NoWork(s)]_vars
    <2> SUFFICES ASSUME IInv, Next, NEW s \in Shard, cancelRequested[s.job]
                 PROVE  /\ shardStatus'[s] = "running" => shardStatus[s] = "running"
                        /\ published'[s] = published[s]
      OBVIOUS
    <2> USE DEF IInv, TypeOK
    <2>1. ASSUME NEW j \in Job, OperatorStep(j)
          PROVE  /\ shardStatus'[s] = "running" => shardStatus[s] = "running"
                 /\ published'[s] = published[s]
      BY <2>1 DEF OperatorStep, CreateJob, RequestCancel, RetryFailed
    <2>2. ASSUME NEW w \in Worker, WorkerStep(w)
          PROVE  /\ shardStatus'[s] = "running" => shardStatus[s] = "running"
                 /\ published'[s] = published[s]
      <3>1. CASE \E t \in Shard : Claim(w, t)
        BY <3>1 DEF Claim, Claimable
      <3>2. CASE Publish(w)
        BY <3>2, PublishMoves DEF Publish, PublishDiscovery, PublishList, MayPublish
      <3>3. CASE ChildFails(w) \/ Settle(w)
        BY <3>3 DEF ChildFails, Settle, SettleOk, SettleError, SettleCancel, SettleTimeout,
                    FailShard, CancelRunningShard, shardVars, FailedShardStatus, OwnsRow
      <3>4. CASE \/ ChildDies(w)
                 \/ Heartbeat(w)
                 \/ ParentCancels(w)
                 \/ ParentTimesOut(w)
                 \/ ParentLost(w)
                 \/ Crash(w)
                 \/ Restart(w)
        BY <3>4 DEF ChildDies, Heartbeat, ParentCancels, ParentTimesOut, ParentLost, Crash,
                    Restart, shardVars
      <3> QED
        BY <2>2, <3>1, <3>2, <3>3, <3>4 DEF WorkerStep
    <2>3. CASE \E t \in Shard : LeaseExpires(t)
      BY <2>3 DEF LeaseExpires
    <2>4. CASE CoordinatorStep
      <3>1. CASE TickAbort \/ \E schedule \in Job \cup {NoJob} : TickRead(schedule)
        BY <3>1 DEF TickAbort, TickRead, shardVars
      <3>2. CASE \E others \in SUBSET lists, m \in ScanMode \cup {"none"} :
                   TickCommit(others, m)
        BY <3>2, ShardAfterTickCases DEF TickCommit
      <3> QED
        BY <2>4, <3>1, <3>2 DEF CoordinatorStep
    <2> QED
      BY <2>1, <2>2, <2>3, <2>4 DEF Next
  <1> QED
    BY <1>1, Invariance, PTL DEF Spec, CancelledJobDoesNoWork
=============================================================================
