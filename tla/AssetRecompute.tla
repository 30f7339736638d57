---------------------------- MODULE AssetRecompute ----------------------------
(***************************************************************************)
(* The queue that keeps the asset projections up to date: the roll-up of a  *)
(* batch over its episodes, and the total of a task type over the roll-ups  *)
(* of its batches in scope.                                                 *)
(*                                                                          *)
(* Whoever changes what a roll-up counts marks the batch dirty in the same  *)
(* transaction.  Processors (the coordinator's tick, the backend's          *)
(* scheduler, the command line) pick a dirty job without a lock, lock its   *)
(* row, recompute and mark it done in one READ COMMITTED transaction; the   *)
(* upsert that marks a job dirty waits for that lock.  The statuses         *)
(* pending and failed are both picked and both count as unfinished: dirty.  *)
(* running and rerun_requested are set and cleared within the transaction   *)
(* and are never seen by another one.                                       *)
(*                                                                          *)
(* The counted columns are abstracted to a version number per batch.  Jobs  *)
(* are picked in the order of their requests; the order is abstracted to    *)
(* the fairness of the picks.                                               *)
(***************************************************************************)
EXTENDS Naturals

CONSTANTS
  Batch,
  Task,          \* task types
  Unclassified,  \* the task type of batches not attached to another one
  Processor,     \* sessions that process the queue
  Manager,       \* sessions that attach and detach batches
  Happening,     \* the kinds of events that happen
  MaxEvents,     \* bound: how many of them happen
  Out,           \* a batch not counted in a total
  None

Kind == {"change", "rescope", "reopen", "move", "reconcile", "failure"}

ASSUME AssetAssumption ==
  /\ Unclassified \in Task
  /\ Happening \subseteq Kind
  /\ MaxEvents \in Nat
  /\ Out \notin Nat
  /\ Batch \cap Task = {}
  /\ None \notin Batch \cup Task

VARIABLES
  facts,       \* version of the counted columns of a batch's episodes
  inScope,     \* the batch and its List are active
  parent,      \* Batch.task_type_id
  rollup,      \* version the BatchAssetRollup was computed from
  total,       \* the roll-ups a TaskAssetRollup was summed from
  batchDirty,  \* batches whose BatchAssetRecomputeJob is pending or failed
  taskDirty,   \* task types whose TaskAssetRecomputeJob is pending or failed
  stage, job,  \* what a processor is doing, and for which batch or task type
  seen,        \* what its transaction read: a batch's version and parent, or
  sum,         \*   the sum over a task type's batches
  moving,      \* a manager's attach or detach, and the parent it read
  reconcile,   \* the reconciliation in progress
  events,      \* bound: how many events happened
  lost         \* history: batches once changed without the mark due, by a rereview or
               \*   a second move, or with a mark that a reconciliation took away

factVars == <<facts, inScope, parent>>
projVars == <<rollup, total, batchDirty, taskDirty>>
procVars == <<stage, job, seen, sum>>
vars == <<factVars, projVars, procVars, moving, reconcile, events, lost>>

Stage == {"idle", "batch_picked", "batch_locked", "task_picked", "task_locked",
          "task_checked", "task_summed", "failed"}
Version == Nat \cup {Out}
NotMoving == [batches |-> {}, from |-> None, to |-> None]
NothingSeen == [version |-> 0, parent |-> None]
NothingSummed == [b \in Batch |-> Out]
NotReconciling == [stage |-> "idle", todo |-> {}, at |-> None, parent |-> None,
                   held |-> {}, read |-> [b \in Batch |-> 0], tasks |-> {},
                   totalled |-> {}, sums |-> [t \in Task |-> NothingSummed]]

TypeOK ==
  /\ facts \in [Batch -> Nat]
  /\ inScope \in [Batch -> BOOLEAN]
  /\ parent \in [Batch -> Task]
  /\ rollup \in [Batch -> Nat]
  /\ total \in [Task -> [Batch -> Version]]
  /\ batchDirty \in SUBSET Batch
  /\ taskDirty \in SUBSET Task
  /\ stage \in [Processor -> Stage]
  /\ job \in [Processor -> Batch \cup Task \cup {None}]
  /\ seen \in [Processor -> [version : Nat, parent : Task \cup {None}]]
  /\ sum \in [Processor -> [Batch -> Version]]
  /\ moving \in [Manager -> [batches : SUBSET Batch, from : Task \cup {None},
                             to : Task \cup {None}]]
  /\ reconcile \in [stage : {"idle", "batches", "tasks"}, todo : SUBSET Batch,
                    at : Batch \cup {None}, parent : Task \cup {None},
                    held : SUBSET Batch, read : [Batch -> Nat], tasks : SUBSET Task,
                    totalled : SUBSET Task, sums : [Task -> [Batch -> Version]]]
  /\ events \in Nat
  /\ lost \in SUBSET Batch

\* New batches are dirty until they are rolled up for the first time.
Init ==
  /\ facts = [b \in Batch |-> 1]
  /\ inScope = [b \in Batch |-> TRUE]
  /\ parent = [b \in Batch |-> Unclassified]
  /\ rollup = [b \in Batch |-> 0]
  /\ total = [t \in Task |-> NothingSummed]
  /\ batchDirty = Batch
  /\ taskDirty = {}
  /\ stage = [p \in Processor |-> "idle"]
  /\ job = [p \in Processor |-> None]
  /\ seen = [p \in Processor |-> NothingSeen]
  /\ sum = [p \in Processor |-> NothingSummed]
  /\ moving = [m \in Manager |-> NotMoving]
  /\ reconcile = NotReconciling
  /\ events = 0
  /\ lost = {}

Happens(k) == /\ k \in Happening
              /\ events < MaxEvents
              /\ events' = events + 1

-----------------------------------------------------------------------------
\* Row locks on the jobs.  A mark waits for them.

\* Seeded defect: processors do not lock the job they work on.
BatchNotLocked(b) == b \in reconcile.held
BatchLocked(b) == \/ \E p \in Processor : stage[p] = "batch_locked" /\ job[p] = b
                  \/ b \in reconcile.held

\* Seeded defect: processors do not lock the job they work on.
TaskNotLocked(t) == t \in reconcile.tasks
TaskLocked(t) ==
  \/ \E p \in Processor :
       stage[p] \in {"task_locked", "task_checked", "task_summed"} /\ job[p] = t
  \/ t \in reconcile.tasks

-----------------------------------------------------------------------------
\* Those who change what is counted, and mark it.

\* A review, an adjudication, a dispatch plan or a publication.
Change(b) ==
  /\ Happens("change")
  /\ ~BatchLocked(b)
  /\ facts' = [facts EXCEPT ![b] = @ + 1]
  /\ batchDirty' = batchDirty \cup {b}
  /\ UNCHANGED <<inScope, parent, rollup, total, taskDirty, procVars, moving, reconcile, lost>>

\* A publication activates or deactivates the List.
Rescope(b) ==
  /\ Happens("rescope")
  /\ ~BatchLocked(b)
  /\ inScope' = [inScope EXCEPT ![b] = ~@]
  /\ batchDirty' = batchDirty \cup {b}
  /\ UNCHANGED <<facts, parent, rollup, total, taskDirty, procVars, moving, reconcile, lost>>

\* An approved rereview takes back a counted result and marks nothing.
Reopen(b) ==
  /\ Happens("reopen")
  /\ facts' = [facts EXCEPT ![b] = @ + 1]
  /\ lost' = lost \cup {b}
  /\ UNCHANGED <<inScope, parent, projVars, procVars, moving, reconcile>>

\* Batches are attached to a task type, detached from it, or left over by its
\* deletion.  The parent is read without a lock.
MoveRead(m, B, from, to) ==
  /\ Happens("move")
  /\ moving[m] = NotMoving
  /\ B # {} /\ \A b \in B : parent[b] = from
  /\ from # to /\ Unclassified \in {from, to}
  /\ moving' = [moving EXCEPT ![m] = [batches |-> B, from |-> from, to |-> to]]
  /\ UNCHANGED <<factVars, projVars, procVars, reconcile, lost>>

\* Seeded defect: only the new parent is marked.
MarkedNewParent(mv) == {mv.to}
\* Seeded defect: the old parent is taken from the batch after it was set.
MarkedAfterReset(mv) == {NotMoving.from, mv.to}
Marked(mv) == {mv.from, mv.to}

MoveCommit(m) ==
  LET mv == moving[m] IN
  /\ mv # NotMoving
  /\ ~TaskLocked(mv.from) /\ ~TaskLocked(mv.to)
  /\ parent' = [b \in Batch |-> IF b \in mv.batches THEN mv.to ELSE parent[b]]
  /\ taskDirty' = taskDirty \cup Marked(mv)
  /\ moving' = [moving EXCEPT ![m] = NotMoving]
  /\ lost' = lost \cup {b \in mv.batches : parent[b] # mv.from}
  /\ UNCHANGED <<facts, inScope, rollup, total, batchDirty, procVars, reconcile, events>>

-----------------------------------------------------------------------------
\* Processing one job.

Become(p, s) == stage' = [stage EXCEPT ![p] = s]

\* The transaction is over: what it read is forgotten.
Over(p) ==
  /\ Become(p, "idle")
  /\ job' = [job EXCEPT ![p] = None]
  /\ seen' = [seen EXCEPT ![p] = NothingSeen]
  /\ sum' = [sum EXCEPT ![p] = NothingSummed]

PickBatch(p, b) ==
  /\ stage[p] = "idle"
  /\ b \in batchDirty
  /\ Become(p, "batch_picked")
  /\ job' = [job EXCEPT ![p] = b]
  /\ UNCHANGED <<factVars, projVars, seen, sum, moving, reconcile, events, lost>>

\* The lock does not refresh the row picked before: the job is processed even if
\* somebody else has finished it meanwhile.
LockBatch(p) ==
  LET b == job[p] IN
  /\ stage[p] = "batch_picked"
  /\ ~BatchLocked(b)
  /\ Become(p, "batch_locked")
  /\ seen' = [seen EXCEPT ![p] = [version |-> facts[b], parent |-> parent[b]]]
  /\ UNCHANGED <<factVars, projVars, job, sum, moving, reconcile, events, lost>>

\* The parent is marked as it was read.
CommitBatch(p) ==
  LET b == job[p] IN
  /\ stage[p] = "batch_locked"
  /\ ~TaskLocked(seen[p].parent)
  /\ rollup' = [rollup EXCEPT ![b] = seen[p].version]
  /\ batchDirty' = batchDirty \ {b}
  /\ taskDirty' = taskDirty \cup {seen[p].parent}
  /\ Over(p)
  /\ UNCHANGED <<factVars, total, moving, reconcile, events, lost>>

PickTask(p, t) ==
  /\ stage[p] = "idle"
  /\ t \in taskDirty
  /\ Become(p, "task_picked")
  /\ job' = [job EXCEPT ![p] = t]
  /\ UNCHANGED <<factVars, projVars, seen, sum, moving, reconcile, events, lost>>

LockTask(p) ==
  /\ stage[p] = "task_picked"
  /\ ~TaskLocked(job[p])
  /\ Become(p, "task_locked")
  /\ UNCHANGED <<factVars, projVars, job, seen, sum, moving, reconcile, events, lost>>

PendingChild(t) == \E b \in batchDirty : inScope[b] /\ parent[b] = t

\* A total waits until all its batches are rolled up.
TaskWaits(p) ==
  /\ stage[p] = "task_locked"
  /\ PendingChild(job[p])
  /\ taskDirty' = taskDirty \cup {job[p]}
  /\ Over(p)
  /\ UNCHANGED <<factVars, rollup, total, batchDirty, moving, reconcile, events, lost>>

CheckTask(p) ==
  /\ stage[p] = "task_locked"
  /\ ~PendingChild(job[p])
  /\ Become(p, "task_checked")
  /\ UNCHANGED <<factVars, projVars, job, seen, sum, moving, reconcile, events, lost>>

Summed(t, R) == [b \in Batch |-> IF inScope[b] /\ parent[b] = t THEN R[b] ELSE Out]

SumTask(p) ==
  /\ stage[p] = "task_checked"
  /\ Become(p, "task_summed")
  /\ sum' = [sum EXCEPT ![p] = Summed(job[p], rollup)]
  /\ UNCHANGED <<factVars, projVars, job, seen, moving, reconcile, events, lost>>

CommitTask(p) ==
  /\ stage[p] = "task_summed"
  /\ total' = [total EXCEPT ![job[p]] = sum[p]]
  /\ taskDirty' = taskDirty \ {job[p]}
  /\ Over(p)
  /\ UNCHANGED <<factVars, rollup, batchDirty, moving, reconcile, events, lost>>

\* Seeded defect: a failed job is not picked again.
GivenUp(dirty, j) == dirty \ {j}
Failed(dirty, j) == dirty \cup {j}

\* The recomputation raises: it is rolled back, and the job is marked failed in
\* a transaction of its own.
Fail(p) ==
  /\ Happens("failure")
  /\ stage[p] \notin {"idle", "failed"}
  /\ Become(p, "failed")
  /\ UNCHANGED <<factVars, projVars, job, seen, sum, moving, reconcile, lost>>

MarkFailed(p) ==
  /\ stage[p] = "failed"
  /\ \/ /\ job[p] \in Batch /\ ~BatchLocked(job[p])
        /\ batchDirty' = Failed(batchDirty, job[p])
        /\ UNCHANGED taskDirty
     \/ /\ job[p] \in Task /\ ~TaskLocked(job[p])
        /\ taskDirty' = Failed(taskDirty, job[p])
        /\ UNCHANGED batchDirty
  /\ Over(p)
  /\ UNCHANGED <<factVars, rollup, total, moving, reconcile, events, lost>>

\* The process is killed, or loses the database: the transaction is rolled back.
Crash(p) ==
  /\ Happens("failure")
  /\ stage[p] # "idle"
  /\ Over(p)
  /\ UNCHANGED <<factVars, projVars, moving, reconcile, lost>>

\* A move is refused, or rolled back.
MoveFails(m) ==
  /\ moving[m] # NotMoving
  /\ moving' = [moving EXCEPT ![m] = NotMoving]
  /\ UNCHANGED <<factVars, projVars, procVars, reconcile, events, lost>>

-----------------------------------------------------------------------------
\* The nightly reconciliation, also the rebuild an administrator asks for: one
\* transaction that recomputes everything in scope, without looking whether it
\* is dirty and without locking the jobs first.

ReconcileStart ==
  /\ Happens("reconcile")
  /\ reconcile.stage = "idle"
  /\ reconcile' = [NotReconciling EXCEPT !.stage = "batches",
                                         !.todo = {b \in Batch : inScope[b]}]
  /\ UNCHANGED <<factVars, projVars, procVars, moving, lost>>

ReconcileRead(b) ==
  /\ b \in reconcile.todo /\ reconcile.at = None
  /\ reconcile' = [reconcile EXCEPT !.at = b, !.todo = @ \ {b}, !.read[b] = facts[b],
                                    !.parent = parent[b]]
  /\ UNCHANGED <<factVars, projVars, procVars, moving, events, lost>>

\* The roll-up is written, its job marked done, its parent marked as it was read;
\* their rows stay locked until the end.
ReconcileWrite ==
  LET b == reconcile.at  t == reconcile.parent IN
  /\ b # None
  /\ ~BatchLocked(b)
  /\ TaskLocked(t) => t \in reconcile.tasks
  /\ reconcile' = [reconcile EXCEPT !.at = None, !.parent = None, !.held = @ \cup {b},
                                    !.tasks = @ \cup {t}]
  /\ lost' = IF parent[b] = t THEN lost ELSE lost \cup {b}
  /\ UNCHANGED <<factVars, projVars, procVars, moving, events>>

RollupsAfter == [b \in Batch |-> IF b \in reconcile.held THEN reconcile.read[b] ELSE rollup[b]]
Unfinished == batchDirty \ reconcile.held

\* Every task type is totalled that does not wait for a batch of its own.
ReconcileSum ==
  /\ reconcile.stage = "batches" /\ reconcile.todo = {} /\ reconcile.at = None
  /\ reconcile' = [reconcile EXCEPT
       !.stage = "tasks",
       !.totalled = {t \in Task : ~\E b \in Unfinished : inScope[b] /\ parent[b] = t},
       !.sums = [t \in Task |-> Summed(t, RollupsAfter)]]
  /\ UNCHANGED <<factVars, projVars, procVars, moving, events, lost>>

\* The row of a job that was not marked here is not locked: its task type may
\* have been marked, even totalled, since it was summed.  The older sum is written
\* over the newer one and the mark is taken away.
ReconcileCommit ==
  LET totalled  == reconcile.totalled
      overtaken == totalled \ reconcile.tasks
  IN
  /\ reconcile.stage = "tasks"
  /\ \A t \in totalled : TaskLocked(t) => t \in reconcile.tasks
  /\ rollup' = RollupsAfter
  /\ batchDirty' = Unfinished
  /\ total' = [t \in Task |-> IF t \in totalled THEN reconcile.sums[t] ELSE total[t]]
  /\ taskDirty' = (taskDirty \cup reconcile.tasks) \ totalled
  /\ lost' = lost
       \cup {b \in reconcile.held : reconcile.read[b] # facts[b]}
       \cup {b \in Batch : \E t \in overtaken :
               \/ reconcile.sums[t][b] # Summed(t, RollupsAfter)[b]
               \/ t \in taskDirty /\ parent[b] = t /\ b \in Unfinished}
  /\ reconcile' = NotReconciling
  /\ UNCHANGED <<factVars, procVars, moving, events>>

ReconcileFails ==
  /\ reconcile.stage # "idle"
  /\ reconcile' = NotReconciling
  /\ UNCHANGED <<factVars, projVars, procVars, moving, events, lost>>

-----------------------------------------------------------------------------
Write ==
  \/ \E b \in Batch : Change(b) \/ Rescope(b) \/ Reopen(b)
  \/ \E m \in Manager :
       \/ \E B \in SUBSET Batch, from, to \in Task : MoveRead(m, B, from, to)
       \/ MoveCommit(m)
       \/ MoveFails(m)

Advance(p) ==
  \/ LockBatch(p)
  \/ CommitBatch(p)
  \/ LockTask(p)
  \/ TaskWaits(p)
  \/ CheckTask(p)
  \/ SumTask(p)
  \/ CommitTask(p)
  \/ MarkFailed(p)

Process(p) ==
  \/ \E b \in Batch : PickBatch(p, b)
  \/ \E t \in Task : PickTask(p, t)
  \/ Advance(p)
  \/ Fail(p)
  \/ Crash(p)

Reconcile ==
  \/ ReconcileStart
  \/ \E b \in Batch : ReconcileRead(b)
  \/ ReconcileWrite
  \/ ReconcileSum
  \/ ReconcileCommit
  \/ ReconcileFails

Next == Write \/ (\E p \in Processor : Process(p)) \/ Reconcile

Spec == Init /\ [][Next]_vars

\* The scheduler and the coordinator run for ever and pick the job requested
\* first: every dirty job has its turn.  Locks are granted in the order they were
\* asked for.  Failures are transient (their number is bounded), and
\* a reconciliation ends.
Fairness ==
  /\ \A p \in Processor : SF_vars(Advance(p))
  /\ \A b \in Batch : SF_vars(\E p \in Processor : PickBatch(p, b))
  /\ \A t \in Task : SF_vars(\E p \in Processor : PickTask(p, t))
  /\ WF_vars(Reconcile)

FairSpec == Spec /\ Fairness

-----------------------------------------------------------------------------
\* Properties.

\* No change that marks its batch is lost: a roll-up that is not up to date is
\* dirty, whatever is changed, picked, retried or killed while it is recomputed;
\* only a reconciliation takes the mark away, and only a rereview leaves none.
BatchFresh == \A b \in Batch \ lost : rollup[b] # facts[b] => b \in batchDirty

\* A total that differs from its batches in scope will be recomputed: it is
\* dirty itself, or it differs in a dirty batch of its own, whose recomputation
\* marks it; in particular when the batch changes parents meanwhile.
TaskFresh ==
  \A t \in Task, b \in Batch \ lost :
    total[t][b] # Summed(t, rollup)[b] =>
      t \in taskDirty \/ (b \in batchDirty /\ parent[b] = t)

\* A late processor never puts an older roll-up or total over a newer one; a
\* reconciliation that was overtaken may.
NeverOlder ==
  [][\A b \in Batch \ lost' :
       /\ rollup'[b] >= rollup[b]
       /\ \A t \in Task : total[t][b] # Out /\ total'[t][b] # Out =>
                            total'[t][b] >= total[t][b]]_vars

\* What is stale becomes fresh, or is lost, once the changes stop.
StaleIsRefreshed ==
  /\ \A b \in Batch : rollup[b] # facts[b] ~> (rollup[b] = facts[b] \/ b \in lost)
  /\ \A t \in Task, b \in Batch :
       total[t][b] # Summed(t, rollup)[b] ~> (total[t][b] = Summed(t, rollup)[b] \/ b \in lost)

\* Claimed by the business logic records: the recomputation queue misses no
\* update, and the reconciliation is there to find missed ones.
NoUpdateMissed == \A b \in Batch : rollup[b] # facts[b] => b \in batchDirty

=============================================================================
