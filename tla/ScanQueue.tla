------------------------------ MODULE ScanQueue ------------------------------
(***************************************************************************)
(* The persistent scan queue of one bucket: scan jobs, their shards, the    *)
(* worker containers (a parent that heartbeats and a child that scans) and  *)
(* the coordinator tick.  Buckets share nothing but the workers, so one     *)
(* bucket is modelled (the deployment scans one bucket).                    *)
(*                                                                          *)
(* One action is one database transaction, or one step of a process between *)
(* two of them.  The coordinator tick is the exception: it is one           *)
(* transaction, but at READ COMMITTED it reads what has to be expanded long *)
(* before it locks the jobs it aggregates, so it is a TickRead followed by  *)
(* a TickCommit, and other transactions commit between the two.             *)
(*                                                                          *)
(* Time is abstract.  A lease is live or expired, and a live lease may      *)
(* expire at any moment; a shard in retry_wait may be due at any moment.    *)
(* Claims ignore priorities, which no property tells apart.                 *)
(***************************************************************************)
EXTENDS Naturals, FiniteSets

CONSTANTS
  Job,          \* ids of the scan jobs that may be created
  Prefix,       \* List prefixes of the bucket
  Worker,       \* worker ids, hostname:pid
  MaxAttempts,  \* ScanShard.max_attempts
  MaxConfirm,   \* bound: rounds of missing confirmation per prefix and job
  MaxRetries,   \* bound: uses of the operator's "retry failed shards"
  Modes,        \* the scan modes this instance uses
  Root,         \* the empty prefix, the one namespace discovery starts from
  NoJob, NoWorker, NoShard

ScanMode == {"full", "smart", "incremental", "manual_prefix"}

ASSUME ConstantsAssumption ==
  /\ MaxAttempts \in Nat \ {0}
  /\ MaxConfirm \in Nat
  /\ MaxRetries \in Nat
  /\ Modes \subseteq ScanMode
  /\ Root \notin Prefix
  /\ NoJob \notin Job
  /\ NoWorker \notin Worker

\* A shard is identified by its job and its shard_key.  Round 0 of a prefix is
\* its list (or list_missing_confirmation) shard, round n + 1 the
\* confirm-after shard that round n asked for.
Shard == {s \in [job : Job, prefix : Prefix \cup {Root}, round : 0..MaxConfirm] :
            s.prefix = Root => s.round = 0}

ASSUME NoShardAssumption == NoShard \notin Shard

DiscoveryShard(j) == [job |-> j, prefix |-> Root, round |-> 0]
ListShard(j, p)   == [job |-> j, prefix |-> p, round |-> 0]
ConfirmShard(s)   == [s EXCEPT !.round = @ + 1]
IsDiscovery(s)    == s.prefix = Root
ShardsOf(j)       == {s \in Shard : s.job = j}

VARIABLES
  jobStatus,        \* ScanJob.status, "absent" before the row exists
  mode,             \* ScanJob.scan_mode
  cancelRequested,  \* ScanJob.cancel_requested_at is not null
  activeKey,        \* ScanJob.active_key is not null (unique per bucket)
  shardStatus,      \* ScanShard.status, "absent" before the row exists
  attempt,          \* ScanShard.attempt
  owner,            \* ScanShard.lease_owner
  lease,            \* ScanShard.lease_expires_at: "none", "live", "expired"
  discoveredBy,     \* DiscoveredPrefix.scan_job_id of each candidate prefix
  lists,            \* prefixes that have a ListRecord
  phase,            \* what a worker's parent and child are doing
  held,             \* the shard a worker's parent claimed
  tick,             \* the coordinator transaction in progress
  retries,          \* bound: operator retries used
  claims,           \* history: number of claims of each shard
  heldClaim,        \* history: which of those claims a worker works for
  published         \* history: the claim that published a shard, 0 if none

jobVars     == <<jobStatus, mode, cancelRequested, activeKey, retries>>
shardVars   == <<shardStatus, attempt, owner, lease>>
catalogVars == <<discoveredBy, lists>>
workerVars  == <<phase, held, heldClaim>>
vars == <<jobVars, shardVars, catalogVars, workerVars, tick, claims, published>>

ActiveJobStatus     == {"queued", "discovering", "running", "cancelling"}
ClaimableJobStatus  == {"queued", "discovering", "running"}
EndedJobStatus      == {"succeeded", "partially_failed", "failed", "cancelled"}
WaitingShardStatus  == {"pending", "retry_wait"}

\* Seeded defect: a shard waiting for its retry is not counted as active.
ForgetsRetryWait == {"pending", "running"}
ActiveShardStatus   == {"pending", "running", "retry_wait"}
FailedShardStatus   == {"failed", "timeout"}
TerminalShardStatus == {"succeeded", "cancelled"} \cup FailedShardStatus

\* busy: child running, parent heartbeating.    done: child committed.
\* error: child gone with a nonzero exit code.  stop_*: parent killed the child.
\* drain: parent died of a database error, child running without heartbeats.
\* down: container exited, to be restarted.
Phase == {"idle", "busy", "done", "error", "stop_cancel", "stop_timeout",
          "drain", "down"}

Active(j) == jobStatus[j] \in ActiveJobStatus
Ended(j)  == jobStatus[j] \in EndedJobStatus

NoTick == [open |-> FALSE, expired |-> {}, expanding |-> {}, schedule |-> NoJob]

TypeOK ==
  /\ jobStatus \in [Job -> {"absent"} \cup ActiveJobStatus \cup EndedJobStatus]
  /\ mode \in [Job -> ScanMode \cup {"none"}]
  /\ cancelRequested \in [Job -> BOOLEAN]
  /\ activeKey \in [Job -> BOOLEAN]
  /\ shardStatus \in [Shard -> {"absent"} \cup ActiveShardStatus \cup TerminalShardStatus]
  /\ attempt \in [Shard -> 0..MaxAttempts]
  /\ owner \in [Shard -> Worker \cup {NoWorker}]
  /\ lease \in [Shard -> {"none", "live", "expired"}]
  /\ discoveredBy \in [Prefix -> Job \cup {NoJob}]
  /\ lists \in SUBSET Prefix
  /\ phase \in [Worker -> Phase]
  /\ held \in [Worker -> Shard \cup {NoShard}]
  /\ tick \in [open : BOOLEAN, expired : SUBSET Shard, expanding : SUBSET Job,
               schedule : Job \cup {NoJob}]
  /\ retries \in 0..MaxRetries
  /\ claims \in [Shard -> Nat]
  /\ heldClaim \in [Worker -> Nat]
  /\ published \in [Shard -> Nat]

Init ==
  /\ jobStatus = [j \in Job |-> "absent"]
  /\ mode = [j \in Job |-> "none"]
  /\ cancelRequested = [j \in Job |-> FALSE]
  /\ activeKey = [j \in Job |-> FALSE]
  /\ shardStatus = [s \in Shard |-> "absent"]
  /\ attempt = [s \in Shard |-> 0]
  /\ owner = [s \in Shard |-> NoWorker]
  /\ lease = [s \in Shard |-> "none"]
  /\ discoveredBy = [p \in Prefix |-> NoJob]
  /\ lists \in SUBSET Prefix
  /\ phase = [w \in Worker |-> "idle"]
  /\ held = [w \in Worker |-> NoShard]
  /\ tick = NoTick
  /\ retries = 0
  /\ claims = [s \in Shard |-> 0]
  /\ heldClaim = [w \in Worker |-> 0]
  /\ published = [s \in Shard |-> 0]

-----------------------------------------------------------------------------
(* Creating, cancelling and retrying a job: the HTTP routes.               *)

NoActiveJob == \A j \in Job : ~Active(j)

\* smart becomes full unless a full scan succeeded in the last seven days;
\* how long ago a success was is left open.
ModeAllowed(m) ==
  /\ m \in Modes
  /\ m = "smart" => \E k \in Job : mode[k] = "full" /\ jobStatus[k] = "succeeded"

InitialShards(j, m, P) ==
  IF m = "manual_prefix" THEN {ListShard(j, p) : p \in P} ELSE {DiscoveryShard(j)}

\* An active job is returned instead of a new one.  While the coordinator holds
\* an uncommitted job the unique active_key makes this insert wait for it.
CreateJob(j, m, P) ==
  /\ jobStatus[j] = "absent"
  /\ NoActiveJob
  /\ tick.schedule = NoJob
  /\ ModeAllowed(m)
  /\ m = "manual_prefix" => P # {}
  /\ jobStatus' = [jobStatus EXCEPT ![j] = "queued"]
  /\ mode' = [mode EXCEPT ![j] = m]
  /\ activeKey' = [activeKey EXCEPT ![j] = TRUE]
  /\ shardStatus' = [s \in Shard |-> IF s \in InitialShards(j, m, P)
                                     THEN "pending" ELSE shardStatus[s]]
  /\ UNCHANGED <<cancelRequested, retries, attempt, owner, lease, catalogVars,
                 workerVars, tick, claims, published>>

RequestCancel(j) ==
  /\ Active(j)
  /\ jobStatus' = [jobStatus EXCEPT ![j] = "cancelling"]
  /\ cancelRequested' = [cancelRequested EXCEPT ![j] = TRUE]
  /\ shardStatus' = [s \in Shard |->
                       IF s.job = j /\ shardStatus[s] \in WaitingShardStatus
                       THEN "cancelled" ELSE shardStatus[s]]
  /\ UNCHANGED <<mode, activeKey, retries, attempt, owner, lease, catalogVars,
                 workerVars, tick, claims, published>>

\* Seeded defect: cancelled shards are retried too.
FailedOrCancelledShards(j) ==
  {s \in ShardsOf(j) : shardStatus[s] \in FailedShardStatus \cup {"cancelled"}}
FailedShards(j) == {s \in ShardsOf(j) : shardStatus[s] \in FailedShardStatus}

\* Seeded defect: a retry is allowed next to another active job.
AlwaysAllowed(j) == j \in Job
NoOtherActive(j) == \A k \in Job \ {j} : ~Active(k)

\* Refused while another job of the bucket is active.  A retry that finds
\* nothing to retry changes nothing.
RetryFailed(j) ==
  /\ retries < MaxRetries
  /\ NoOtherActive(j)
  /\ tick.schedule = NoJob
  /\ FailedShards(j) # {}
  /\ jobStatus' = [jobStatus EXCEPT ![j] = "queued"]
  /\ cancelRequested' = [cancelRequested EXCEPT ![j] = FALSE]
  /\ activeKey' = [activeKey EXCEPT ![j] = TRUE]
  /\ shardStatus' = [s \in Shard |-> IF s \in FailedShards(j)
                                     THEN "pending" ELSE shardStatus[s]]
  /\ attempt' = [s \in Shard |-> IF s \in FailedShards(j) THEN 0 ELSE attempt[s]]
  /\ retries' = retries + 1
  /\ UNCHANGED <<mode, owner, lease, catalogVars, workerVars, tick, claims, published>>

-----------------------------------------------------------------------------
(* A worker: the parent claims and heartbeats, the child scans and         *)
(* publishes, the parent settles what the child left behind.               *)

\* Seeded defect: only the job's status is looked at, not the cancel request.
ClaimableByStatus(s) ==
  /\ shardStatus[s] \in WaitingShardStatus
  /\ jobStatus[s.job] \in ClaimableJobStatus
Claimable(s) ==
  /\ shardStatus[s] \in WaitingShardStatus
  /\ jobStatus[s.job] \in ClaimableJobStatus
  /\ ~cancelRequested[s.job]

Claim(w, s) ==
  /\ phase[w] = "idle"
  /\ Claimable(s)
  /\ shardStatus' = [shardStatus EXCEPT ![s] = "running"]
  /\ attempt' = [attempt EXCEPT ![s] = @ + 1]
  /\ owner' = [owner EXCEPT ![s] = w]
  /\ lease' = [lease EXCEPT ![s] = "live"]
  /\ jobStatus' = [jobStatus EXCEPT ![s.job] =
                     IF IsDiscovery(s) THEN "discovering" ELSE "running"]
  /\ phase' = [phase EXCEPT ![w] = "busy"]
  /\ held' = [held EXCEPT ![w] = s]
  /\ claims' = [claims EXCEPT ![s] = @ + 1]
  /\ heldClaim' = [heldClaim EXCEPT ![w] = claims'[s]]
  /\ UNCHANGED <<mode, cancelRequested, activeKey, retries, catalogVars, tick, published>>

\* The WHERE clause of every statement that ends or prolongs a claim.
\* Seeded defect: the lease owner is not compared.
RunsRow(w, s) == w \in Worker /\ shardStatus[s] = "running"
OwnsRow(w, s) == shardStatus[s] = "running" /\ owner[s] = w

\* The coordinator holds the rows it is reclaiming; others wait for them.
RowLocked(s) == s \in tick.expired

Released(s) == /\ owner' = [owner EXCEPT ![s] = NoWorker]
               /\ lease' = [lease EXCEPT ![s] = "none"]

Become(w, ph) ==
  /\ phase' = [phase EXCEPT ![w] = ph]
  /\ IF ph \in {"idle", "down"}
     THEN /\ held' = [held EXCEPT ![w] = NoShard]
          /\ heldClaim' = [heldClaim EXCEPT ![w] = 0]
     ELSE UNCHANGED <<held, heldClaim>>

\* A child that outlives its parent takes the container down when it ends.
ChildEnds(w, ph) == Become(w, IF phase[w] = "drain" THEN "down" ELSE ph)

ChildRunning(w) == phase[w] \in {"busy", "drain"}

\* The parent loop still runs: it has not seen the child's exit.
ParentPolling(w) == phase[w] \in {"busy", "done", "error"}

MayPublish(w) ==
  /\ ChildRunning(w)
  /\ OwnsRow(w, held[w])
  /\ lease[held[w]] = "live"
  /\ ~RowLocked(held[w])
  /\ ~cancelRequested[held[w].job]

PublishDiscovery(w, found) ==
  LET s == held[w] IN
  /\ MayPublish(w)
  /\ IsDiscovery(s)
  /\ discoveredBy' = [p \in Prefix |-> IF p \in found THEN s.job ELSE discoveredBy[p]]
  /\ shardStatus' = [shardStatus EXCEPT ![s] = "succeeded"]
  /\ Released(s)
  /\ ChildEnds(w, "done")
  /\ published' = [published EXCEPT ![s] = heldClaim[w]]
  /\ UNCHANGED <<jobVars, attempt, lists, tick, claims>>

\* An empty snapshot of an unknown prefix is refused.  Evidence of something
\* missing, which needs a known List, asks for one more round.
PublishList(w, empty, confirm) ==
  LET s == held[w] IN
  /\ MayPublish(w)
  /\ ~IsDiscovery(s)
  /\ empty \/ confirm => s.prefix \in lists
  /\ confirm => s.round < MaxConfirm
  /\ lists' = lists \cup {s.prefix}
  /\ shardStatus' =
       [t \in Shard |->
          CASE t = s -> "succeeded"
            [] confirm /\ t = ConfirmShard(s) /\ shardStatus[t] = "absent" -> "retry_wait"
            [] OTHER -> shardStatus[t]]
  /\ Released(s)
  /\ ChildEnds(w, "done")
  /\ published' = [published EXCEPT ![s] = heldClaim[w]]
  /\ UNCHANGED <<jobVars, attempt, discoveredBy, tick, claims>>

\* fail_shard: nothing happens to a row the worker does not own any more.
FailShard(w, s, exhausted) ==
  /\ ~RowLocked(s)
  /\ IF OwnsRow(w, s)
     THEN /\ shardStatus' = [shardStatus EXCEPT ![s] =
                CASE cancelRequested[s.job]  -> "cancelled"
                  [] ~cancelRequested[s.job] /\ attempt[s] < MaxAttempts -> "retry_wait"
                  [] OTHER                   -> exhausted]
          /\ Released(s)
     ELSE UNCHANGED <<shardStatus, owner, lease>>
  /\ UNCHANGED attempt

\* Any exception in the child, a refused publication included.
ChildFails(w) ==
  /\ ChildRunning(w)
  /\ FailShard(w, held[w], "failed")
  /\ ChildEnds(w, "error")
  /\ UNCHANGED <<jobVars, catalogVars, tick, claims, published>>

\* The child dies without a word, possibly after its commit.
ChildDies(w) ==
  /\ ChildRunning(w) \/ phase[w] = "done"
  /\ ChildEnds(w, "error")
  /\ UNCHANGED <<jobVars, shardVars, catalogVars, tick, claims, published>>

ShouldCancel(w) == cancelRequested[held[w].job] \/ ~OwnsRow(w, held[w])

Heartbeat(w) ==
  /\ phase[w] = "busy"
  /\ ~ShouldCancel(w)
  /\ ~RowLocked(held[w])
  /\ lease' = [lease EXCEPT ![held[w]] = "live"]
  /\ UNCHANGED <<jobVars, shardStatus, attempt, owner, catalogVars, workerVars,
                 tick, claims, published>>

ParentCancels(w) ==
  /\ ParentPolling(w)
  /\ ShouldCancel(w)
  /\ Become(w, "stop_cancel")
  /\ UNCHANGED <<jobVars, shardVars, catalogVars, tick, claims, published>>

ParentTimesOut(w) ==
  /\ ParentPolling(w)
  /\ Become(w, "stop_timeout")
  /\ UNCHANGED <<jobVars, shardVars, catalogVars, tick, claims, published>>

\* A database error in the heartbeat loop ends the parent, which then waits for
\* its child before the container exits.
ParentLost(w) ==
  /\ ParentPolling(w)
  /\ Become(w, IF phase[w] = "busy" THEN "drain" ELSE "down")
  /\ UNCHANGED <<jobVars, shardVars, catalogVars, tick, claims, published>>

CancelRunningShard(w, s) ==
  /\ ~RowLocked(s)
  /\ IF OwnsRow(w, s)
     THEN /\ shardStatus' = [shardStatus EXCEPT ![s] = "cancelled"]
          /\ Released(s)
     ELSE UNCHANGED <<shardStatus, owner, lease>>
  /\ UNCHANGED attempt

SettleOk(w) ==
  /\ phase[w] = "done"
  /\ UNCHANGED shardVars

SettleError(w) ==
  /\ phase[w] = "error"
  /\ FailShard(w, held[w], "failed")

SettleCancel(w) ==
  /\ phase[w] = "stop_cancel"
  /\ CancelRunningShard(w, held[w])

SettleTimeout(w) ==
  /\ phase[w] = "stop_timeout"
  /\ FailShard(w, held[w], "timeout")

Settle(w) ==
  /\ \/ SettleOk(w)
     \/ SettleError(w)
     \/ SettleCancel(w)
     \/ SettleTimeout(w)
  /\ Become(w, "idle")
  /\ UNCHANGED <<jobVars, catalogVars, tick, claims, published>>

\* The container is killed, parent and child together.  An idle worker that
\* crashes changes nothing the queue can see.
Crash(w) ==
  /\ phase[w] \notin {"idle", "down"}
  /\ Become(w, "down")
  /\ UNCHANGED <<jobVars, shardVars, catalogVars, tick, claims, published>>

Restart(w) ==
  /\ phase[w] = "down"
  /\ Become(w, "idle")
  /\ UNCHANGED <<jobVars, shardVars, catalogVars, tick, claims, published>>

LeaseExpires(s) ==
  /\ lease[s] = "live"
  /\ lease' = [lease EXCEPT ![s] = "expired"]
  /\ UNCHANGED <<jobVars, shardStatus, attempt, owner, catalogVars, workerVars,
                 tick, claims, published>>

-----------------------------------------------------------------------------
(* The coordinator tick.                                                   *)

HasListShard(j) == \E s \in ShardsOf(j) : ~IsDiscovery(s) /\ shardStatus[s] # "absent"

\* What expand_discovery_results finds to do when it reads the jobs.
ExpandableJobs ==
  {j \in Job : /\ jobStatus[j] \in ClaimableJobStatus
               /\ shardStatus[DiscoveryShard(j)] = "succeeded"
               /\ ~HasListShard(j)}

\* Seeded defect: expired leases are never reclaimed.
NothingExpired == {}
ExpiredShards == {s \in Shard : shardStatus[s] = "running" /\ lease[s] = "expired"}

\* schedule is the scheduled job the tick inserts, if one is due.
TickRead(schedule) ==
  /\ ~tick.open
  /\ schedule # NoJob => jobStatus[schedule] = "absent" /\ NoActiveJob
  /\ tick' = [open      |-> TRUE,
              expired   |-> ExpiredShards,
              expanding |-> ExpandableJobs,
              schedule  |-> schedule]
  /\ UNCHANGED <<jobVars, shardVars, catalogVars, workerVars, claims, published>>

\* reclaim_expired_leases, whatever was requested of the job.
\* Seeded defects: the last attempt is never given; attempts are not limited.
ReclaimedEarly(s) == IF attempt[s] + 1 < MaxAttempts THEN "retry_wait" ELSE "timeout"
ReclaimedAlways(s) == IF s \in Shard THEN "retry_wait" ELSE "timeout"
Reclaimed(s) == IF attempt[s] < MaxAttempts THEN "retry_wait" ELSE "timeout"

\* The prefixes a job gets a shard for.  others are the known Lists that are not
\* present, or due: their presence and their schedule are not modelled here.
Selected(j, others) ==
  LET discovered == {p \in Prefix : discoveredBy[p] = j}
      due        == (discovered \ lists) \cup (others \cap lists)
  IN IF mode[j] = "full" THEN discovered \cup lists
     ELSE IF due # {} THEN due ELSE discovered

NewShards(others) ==
  {s \in Shard : s.job \in tick.expanding /\ s.round = 0
                 /\ s.prefix \in Selected(s.job, others)}
  \cup {s \in Shard : s.job = tick.schedule /\ IsDiscovery(s)}

\* Shard rows as the transaction leaves them.
ShardAfterTick(s, others) ==
  CASE s \in tick.expired -> Reclaimed(s)
    [] s \in NewShards(others) /\ shardStatus[s] = "absent" -> "pending"
    [] OTHER -> shardStatus[s]

\* aggregate_jobs.  An expanded job is still in the session as it was read:
\* a cancel request committed since then is not seen.
CancelSeen(j) == cancelRequested[j] /\ j \notin tick.expanding

AggregatedStatus(j, others) ==
  LET has(S) == \E s \in ShardsOf(j) : ShardAfterTick(s, others) \in S
      discovering == \E s \in ShardsOf(j) :
                       /\ IsDiscovery(s)
                       /\ ShardAfterTick(s, others) \notin {"absent", "succeeded"}
  IN IF has(ActiveShardStatus)
     THEN IF CancelSeen(j) THEN "cancelling"
          ELSE IF discovering THEN "discovering" ELSE "running"
     ELSE IF CancelSeen(j) /\ has({"cancelled"}) THEN "cancelled"
          ELSE IF has(FailedShardStatus)
               THEN IF has({"succeeded"}) THEN "partially_failed" ELSE "failed"
               ELSE "succeeded"

\* Seeded defect: cancelling jobs are not aggregated.
JobAfterTickUnlessCancelling(j, others) ==
  IF jobStatus[j] \in ClaimableJobStatus \/ j = tick.schedule
  THEN AggregatedStatus(j, others) ELSE jobStatus[j]
JobAfterTick(j, others) ==
  IF Active(j) \/ j = tick.schedule THEN AggregatedStatus(j, others) ELSE jobStatus[j]

TickCommit(others, m) ==
  /\ tick.open
  /\ IF tick.schedule = NoJob THEN m = "none"
     ELSE m \in {"smart", "full"} /\ ModeAllowed(m)
  /\ shardStatus' = [s \in Shard |-> ShardAfterTick(s, others)]
  /\ owner' = [s \in Shard |-> IF s \in tick.expired THEN NoWorker ELSE owner[s]]
  /\ lease' = [s \in Shard |-> IF s \in tick.expired THEN "none" ELSE lease[s]]
  /\ jobStatus' = [j \in Job |-> JobAfterTick(j, others)]
  /\ activeKey' = [j \in Job |-> /\ activeKey[j] \/ j = tick.schedule
                                 /\ JobAfterTick(j, others) \in ActiveJobStatus]
  /\ mode' = [j \in Job |-> IF j = tick.schedule THEN m ELSE mode[j]]
  /\ tick' = NoTick
  /\ UNCHANGED <<cancelRequested, retries, attempt, catalogVars, workerVars,
                 claims, published>>

\* The transaction is rolled back: the coordinator crashed, was the victim of a
\* deadlock, or a later part of the tick raised.
TickAbort ==
  /\ tick.open
  /\ tick' = NoTick
  /\ UNCHANGED <<jobVars, shardVars, catalogVars, workerVars, claims, published>>

-----------------------------------------------------------------------------
Publish(w) ==
  \/ \E found \in SUBSET Prefix : PublishDiscovery(w, found)
  \/ \E empty, confirm \in BOOLEAN : PublishList(w, empty, confirm)

WorkerStep(w) ==
  \/ \E s \in Shard : Claim(w, s)
  \/ Publish(w)
  \/ ChildFails(w)
  \/ ChildDies(w)
  \/ Heartbeat(w)
  \/ ParentCancels(w)
  \/ ParentTimesOut(w)
  \/ ParentLost(w)
  \/ Settle(w)
  \/ Crash(w)
  \/ Restart(w)

OperatorStep(j) ==
  \/ \E m \in Modes, P \in SUBSET Prefix : CreateJob(j, m, P)
  \/ RequestCancel(j)
  \/ RetryFailed(j)

CoordinatorStep ==
  \/ \E schedule \in Job \cup {NoJob} : TickRead(schedule)
  \/ \E others \in SUBSET lists, m \in ScanMode \cup {"none"} : TickCommit(others, m)
  \/ TickAbort

Next ==
  \/ \E j \in Job : OperatorStep(j)
  \/ \E w \in Worker : WorkerStep(w)
  \/ \E s \in Shard : LeaseExpires(s)
  \/ CoordinatorStep

Spec == Init /\ [][Next]_vars

\* What the deployment guarantees.  Docker restarts a container that exits; a
\* child ends by itself, by its parent's wall-clock timeout or by the MinIO read
\* timeout; a lease nobody renews runs out; the coordinator loops for ever and
\* its transaction is not rolled back for ever.
NobodyRenews(s) == ~\E w \in Worker : ParentPolling(w) /\ held[w] = s

Fairness ==
  /\ \A w \in Worker :
       /\ WF_vars(\E s \in Shard : Claim(w, s))
       /\ WF_vars(ChildRunning(w) /\ (Publish(w) \/ ChildFails(w) \/ ChildDies(w)
                                       \/ ParentTimesOut(w) \/ ParentLost(w)))
       /\ WF_vars(Settle(w))
       /\ WF_vars(Restart(w))
  /\ WF_vars(\E s \in Shard : NobodyRenews(s) /\ LeaseExpires(s))
  /\ WF_vars(\E schedule \in Job \cup {NoJob} : TickRead(schedule))
  /\ SF_vars(\E others \in SUBSET lists, m \in ScanMode \cup {"none"} : TickCommit(others, m))

FairSpec == Spec /\ Fairness

-----------------------------------------------------------------------------
(* Properties.                                                             *)

\* At most one job of the bucket is active, and exactly the active job holds the
\* unique active_key: the key is neither leaked by a job that ended nor missing
\* from a job revived by a retry, whatever the coordinator, the HTTP routes and
\* the workers interleave.
OneActiveJob ==
  /\ \A j, k \in Job : Active(j) /\ Active(k) => j = k
  /\ \A j \in Job : activeKey[j] <=> Active(j)

\* A job that ended has no shard left that could still run or wait: nothing works
\* behind a final status (aggregate_jobs decides while workers and operators go
\* on changing the shards).
EndedJobIsQuiet ==
  \A s \in Shard : Ended(s.job) => shardStatus[s] \notin {"pending", "running", "retry_wait"}

\* A shard's result is published at most once, by the worker that holds its latest
\* claim, and never claimed again: a child that lost its lease to another worker
\* publishes nothing (fencing in _lock_owned_shard and complete_shard).
PublishedByLatestClaim ==
  \A s \in Shard :
    /\ published[s] # 0 => published[s] = claims[s]
    /\ shardStatus[s] = "succeeded" <=> published[s] # 0

\* A shard is given up (failed, timeout) only when every attempt was used, however
\* its attempts ended: child error, wall-clock timeout, expired lease.
GivenUpAfterAllAttempts ==
  \A s \in Shard :
    /\ shardStatus[s] \in FailedShardStatus => attempt[s] = MaxAttempts
    /\ shardStatus[s] \in WaitingShardStatus => attempt[s] < MaxAttempts

\* A running claim is ended only by the worker that made it or by the coordinator
\* reclaiming its expired lease: a parent that settles late (after its shard was
\* reclaimed and claimed by another worker) does not fail or cancel the new claim.
ClaimEndedByItsOwner ==
  [][\A s \in Shard :
       shardStatus[s] = "running" /\ shardStatus'[s] # "running" =>
         \/ lease[s] = "expired" /\ tick.open /\ ~tick'.open
         \/ \E w \in Worker : /\ held[w] = s
                              /\ heldClaim[w] = claims[s]
                              /\ phase'[w] # phase[w]]_vars

\* As long as a cancel request stands, no shard of the job starts to run or
\* publishes, even when the coordinator overwrote the job's status with a stale
\* one after the request.
CancelledJobDoesNoWork ==
  [][\A s \in Shard :
       cancelRequested[s.job] /\ cancelRequested'[s.job] =>
         /\ shardStatus'[s] = "running" => shardStatus[s] = "running"
         /\ published'[s] = published[s]]_vars

\* A job nobody cancels comes to an end, through crashes, lost leases, late
\* results and rolled-back ticks.
UncancelledJobEnds ==
  \A j \in Job : Active(j) ~> (~Active(j) \/ cancelRequested[j])

\* A cancelled job that never ends is one whose shards nobody can run any more:
\* they wait, while claims are refused because of the cancel request.
Stranded(j) == /\ cancelRequested[j]
               /\ \E s \in ShardsOf(j) : shardStatus[s] \in WaitingShardStatus
               /\ \A s \in ShardsOf(j) : shardStatus[s] # "running"

\* A cancelled job ends, is taken back by a retry, or is stranded: there is no
\* other way for a cancellation not to finish.
CancelEndsOrStrands ==
  \A j \in Job : cancelRequested[j] ~> (~Active(j) \/ ~cancelRequested[j] \/ Stranded(j))

\* Stated by the scan plan: whatever happens to a worker, a job never stays
\* active for ever, cancelled or not.
EveryJobEnds == \A j \in Job : Active(j) ~> ~Active(j)

\* Stated by the scan plan: a full scan creates shards for what its discovery
\* found.  A job is reported as succeeded only when its discovery was expanded.
SucceededMeansExpanded ==
  \A j \in Job :
    jobStatus[j] = "succeeded" /\ mode[j] = "full" =>
      \A p \in Prefix : discoveredBy[p] = j => shardStatus[ListShard(j, p)] = "succeeded"

\* The queue as leased work: what the statuses of a shard row mean.
WorkState(status) ==
  CASE status = "absent"                  -> "none"
    [] status \in WaitingShardStatus      -> "waiting"
    [] status = "running"                 -> "taken"
    [] status = "succeeded"               -> "done"
    [] status \in FailedShardStatus       -> "given_up"
    [] status = "cancelled"               -> "withdrawn"

Leased == INSTANCE LeasedWork WITH
            Work     <- Shard,
            MaxTries <- MaxAttempts,
            state    <- [s \in Shard |-> WorkState(shardStatus[s])],
            tries    <- attempt

\* Claims, publications, failures, reclaims, cancels, expansions and retries
\* together implement leased work: every transaction of the queue moves each shard
\* by a legal step of LeasedWork, in particular done and withdrawn shards stay so.
QueueIsLeasedWork == Leased!Spec
=============================================================================
