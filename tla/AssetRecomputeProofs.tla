------------------------ MODULE AssetRecomputeProofs ------------------------
(***************************************************************************)
(* Proofs about the recomputation queue, for any batches, task types,       *)
(* processors, managers and number of events: types are correct, the queue  *)
(* itself loses no mark of a batch, no total is forgotten, and nothing      *)
(* older is written over something newer.                                   *)
(***************************************************************************)
EXTENDS AssetRecompute, TLAPS

\* What the holder of a job's lock read is still current: whoever changes and
\* marks the batch waits for the lock.
SeenInv ==
  \A p \in Processor : stage[p] = "batch_locked" =>
    /\ job[p] \in Batch
    /\ job[p] \notin lost => seen[p].version = facts[job[p]]

\* A processor works on a job of the kind its stage says.
JobInv ==
  \A p \in Processor :
    /\ stage[p] \in {"batch_picked", "batch_locked"} => job[p] \in Batch
    /\ stage[p] \in {"task_picked", "task_locked", "task_checked", "task_summed"} =>
         job[p] \in Task
    /\ stage[p] = "batch_locked" => seen[p].parent \in Task

\* A move under way has both its task types; a reconciled batch has its parent.
MoveInv == \A m \in Manager : moving[m] # NotMoving => moving[m].from \in Task /\ moving[m].to \in Task
ReconcileInv == reconcile.at # None => reconcile.parent \in Task

IInv == TypeOK /\ JobInv /\ MoveInv /\ ReconcileInv /\ SeenInv /\ BatchFresh

-----------------------------------------------------------------------------
LEMMA NothingTypes ==
  /\ NothingSeen \in [version : Nat, parent : Task \cup {None}]
  /\ NothingSummed \in [Batch -> Version]
  /\ NotMoving \in [batches : SUBSET Batch, from : Task \cup {None}, to : Task \cup {None}]
  BY DEF NothingSeen, NothingSummed, NotMoving, Version

LEMMA SummedType ==
  ASSUME NEW t \in Task, NEW R \in [Batch -> Nat]
  PROVE  Summed(t, R) \in [Batch -> Version]
  BY DEF Summed, Version

LEMMA InitIInv == Init => IInv
  <1> SUFFICES ASSUME Init PROVE IInv
    OBVIOUS
  <1> USE AssetAssumption DEF Init
  <1>1. NotReconciling \in [stage : {"idle", "batches", "tasks"}, todo : SUBSET Batch,
                    at : Batch \cup {None}, parent : Task \cup {None},
                    held : SUBSET Batch, read : [Batch -> Nat], tasks : SUBSET Task,
                    totalled : SUBSET Task, sums : [Task -> [Batch -> Version]]]
    BY NothingTypes DEF NotReconciling
  <1>2. TypeOK
    BY <1>1, NothingTypes DEF TypeOK, Stage
  <1>3. JobInv /\ MoveInv /\ ReconcileInv /\ SeenInv /\ BatchFresh
    BY DEF JobInv, MoveInv, ReconcileInv, SeenInv, BatchFresh, NotReconciling
  <1> QED BY <1>2, <1>3 DEF IInv

-----------------------------------------------------------------------------
\* Those who change what is counted.

LEMMA ChangeStep ==
  ASSUME IInv, NEW b \in Batch, Change(b) \/ Rescope(b) \/ Reopen(b)
  PROVE  IInv'
  <1> USE DEF IInv, Happens, factVars, projVars, procVars
  <1>1. CASE Change(b)
    <2>1. TypeOK'
      BY <1>1 DEF Change, TypeOK
    <2>2. JobInv' /\ MoveInv' /\ ReconcileInv'
      BY <1>1 DEF Change, JobInv, MoveInv, ReconcileInv
    <2>3. SeenInv'
      BY <1>1 DEF Change, TypeOK, SeenInv, BatchLocked
    <2>4. BatchFresh'
      BY <1>1 DEF Change, TypeOK, BatchFresh
    <2> QED BY <2>1, <2>2, <2>3, <2>4
  <1>2. CASE Rescope(b)
    <2>1. TypeOK'
      BY <1>2 DEF Rescope, TypeOK
    <2>2. JobInv' /\ MoveInv' /\ ReconcileInv' /\ SeenInv' /\ BatchFresh'
      BY <1>2 DEF Rescope, JobInv, MoveInv, ReconcileInv, SeenInv, BatchFresh
    <2> QED BY <2>1, <2>2
  <1>3. CASE Reopen(b)
    <2>1. TypeOK'
      BY <1>3 DEF Reopen, TypeOK
    <2>2. JobInv' /\ MoveInv' /\ ReconcileInv'
      BY <1>3 DEF Reopen, JobInv, MoveInv, ReconcileInv
    <2>3. SeenInv' /\ BatchFresh'
      BY <1>3 DEF Reopen, TypeOK, SeenInv, BatchFresh
    <2> QED BY <2>1, <2>2, <2>3
  <1> QED BY <1>1, <1>2, <1>3

LEMMA MoveStep ==
  ASSUME IInv, NEW m \in Manager,
         \/ \E B \in SUBSET Batch, from, to \in Task : MoveRead(m, B, from, to)
         \/ MoveCommit(m)
         \/ MoveFails(m)
  PROVE  IInv'
  <1> USE DEF IInv, Happens, factVars, projVars, procVars
  <1>1. CASE \E B \in SUBSET Batch, from, to \in Task : MoveRead(m, B, from, to)
    <2> PICK B \in SUBSET Batch, from \in Task, to \in Task : MoveRead(m, B, from, to)
      BY <1>1
    <2>1. TypeOK'
      BY DEF MoveRead, TypeOK
    <2>2. JobInv' /\ ReconcileInv' /\ SeenInv' /\ BatchFresh'
      BY DEF MoveRead, JobInv, ReconcileInv, SeenInv, BatchFresh
    <2>3. MoveInv'
      BY DEF MoveRead, TypeOK, MoveInv
    <2> QED BY <2>1, <2>2, <2>3
  <1>2. CASE MoveCommit(m)
    <2>1. moving[m].from \in Task /\ moving[m].to \in Task
      BY <1>2 DEF MoveCommit, MoveInv
    <2>2. TypeOK'
      BY <1>2, <2>1, NothingTypes DEF MoveCommit, Marked, TypeOK
    <2>3. JobInv' /\ ReconcileInv' /\ SeenInv' /\ BatchFresh'
      BY <1>2 DEF MoveCommit, JobInv, ReconcileInv, SeenInv, BatchFresh
    <2>4. MoveInv'
      BY <1>2 DEF MoveCommit, TypeOK, MoveInv
    <2> QED BY <2>2, <2>3, <2>4
  <1>3. CASE MoveFails(m)
    <2>1. TypeOK'
      BY <1>3, NothingTypes DEF MoveFails, TypeOK
    <2>2. JobInv' /\ ReconcileInv' /\ SeenInv' /\ BatchFresh'
      BY <1>3 DEF MoveFails, JobInv, ReconcileInv, SeenInv, BatchFresh
    <2>3. MoveInv'
      BY <1>3 DEF MoveFails, TypeOK, MoveInv
    <2> QED BY <2>1, <2>2, <2>3
  <1> QED BY <1>1, <1>2, <1>3

-----------------------------------------------------------------------------
\* Processing.

LEMMA BatchJobStep ==
  ASSUME IInv, NEW p \in Processor,
         (\E b \in Batch : PickBatch(p, b)) \/ LockBatch(p) \/ CommitBatch(p)
  PROVE  IInv'
  <1> USE DEF IInv, Become, Over, factVars, projVars
  <1>1. CASE \E b \in Batch : PickBatch(p, b)
    <2> PICK b \in Batch : PickBatch(p, b)
      BY <1>1
    <2>1. TypeOK'
      BY DEF PickBatch, TypeOK, Stage
    <2>2. JobInv' /\ MoveInv' /\ ReconcileInv'
      BY DEF PickBatch, TypeOK, JobInv, MoveInv, ReconcileInv
    <2>3. SeenInv' /\ BatchFresh'
      BY DEF PickBatch, TypeOK, SeenInv, BatchFresh
    <2> QED BY <2>1, <2>2, <2>3
  <1>2. CASE LockBatch(p)
    <2>1. job[p] \in Batch
      BY <1>2 DEF LockBatch, JobInv
    <2>2. TypeOK'
      BY <1>2, <2>1 DEF LockBatch, TypeOK, Stage
    <2>3. JobInv' /\ MoveInv' /\ ReconcileInv'
      BY <1>2, <2>1 DEF LockBatch, TypeOK, JobInv, MoveInv, ReconcileInv
    <2>4. SeenInv' /\ BatchFresh'
      BY <1>2, <2>1 DEF LockBatch, TypeOK, SeenInv, BatchFresh
    <2> QED BY <2>2, <2>3, <2>4
  <1>3. CASE CommitBatch(p)
    <2>1. job[p] \in Batch /\ seen[p].parent \in Task
      BY <1>3 DEF CommitBatch, JobInv
    <2>2. TypeOK'
      BY <1>3, <2>1, NothingTypes DEF CommitBatch, TypeOK, Stage
    <2>3. JobInv' /\ MoveInv' /\ ReconcileInv'
      BY <1>3 DEF CommitBatch, TypeOK, JobInv, MoveInv, ReconcileInv
    <2>4. SeenInv'
      BY <1>3 DEF CommitBatch, TypeOK, SeenInv
    <2>5. BatchFresh'
      BY <1>3, <2>1 DEF CommitBatch, TypeOK, SeenInv, BatchFresh
    <2> QED BY <2>2, <2>3, <2>4, <2>5
  <1> QED BY <1>1, <1>2, <1>3

LEMMA TaskJobStep ==
  ASSUME IInv, NEW p \in Processor,
         \/ \E t \in Task : PickTask(p, t)
         \/ LockTask(p)
         \/ TaskWaits(p)
         \/ CheckTask(p)
         \/ SumTask(p)
         \/ CommitTask(p)
  PROVE  IInv'
  <1> USE DEF IInv, Become, Over, factVars, projVars
  <1>1. CASE \E t \in Task : PickTask(p, t)
    <2> PICK t \in Task : PickTask(p, t)
      BY <1>1
    <2>1. TypeOK'
      BY DEF PickTask, TypeOK, Stage
    <2>2. JobInv' /\ MoveInv' /\ ReconcileInv' /\ SeenInv' /\ BatchFresh'
      BY DEF PickTask, TypeOK, JobInv, MoveInv, ReconcileInv, SeenInv, BatchFresh
    <2> QED BY <2>1, <2>2
  <1>2. CASE LockTask(p) \/ CheckTask(p)
    <2>1. TypeOK'
      BY <1>2 DEF LockTask, CheckTask, TypeOK, Stage
    <2>2. JobInv' /\ MoveInv' /\ ReconcileInv' /\ SeenInv' /\ BatchFresh'
      BY <1>2 DEF LockTask, CheckTask, TypeOK, JobInv, MoveInv, ReconcileInv, SeenInv, BatchFresh
    <2> QED BY <2>1, <2>2
  <1>3. CASE TaskWaits(p)
    <2>1. job[p] \in Task
      BY <1>3 DEF TaskWaits, JobInv
    <2>2. TypeOK'
      BY <1>3, <2>1, NothingTypes DEF TaskWaits, TypeOK, Stage
    <2>3. JobInv' /\ MoveInv' /\ ReconcileInv' /\ SeenInv' /\ BatchFresh'
      BY <1>3 DEF TaskWaits, TypeOK, JobInv, MoveInv, ReconcileInv, SeenInv, BatchFresh
    <2> QED BY <2>2, <2>3
  <1>4. CASE SumTask(p)
    <2>1. Summed(job[p], rollup) \in [Batch -> Version]
      BY <1>4, SummedType DEF SumTask, JobInv, TypeOK
    <2>2. TypeOK'
      BY <1>4, <2>1 DEF SumTask, TypeOK, Stage
    <2>3. JobInv' /\ MoveInv' /\ ReconcileInv' /\ SeenInv' /\ BatchFresh'
      BY <1>4 DEF SumTask, TypeOK, JobInv, MoveInv, ReconcileInv, SeenInv, BatchFresh
    <2> QED BY <2>2, <2>3
  <1>5. CASE CommitTask(p)
    <2>1. TypeOK'
      BY <1>5, NothingTypes DEF CommitTask, TypeOK, Stage
    <2>2. JobInv' /\ MoveInv' /\ ReconcileInv' /\ SeenInv' /\ BatchFresh'
      BY <1>5 DEF CommitTask, TypeOK, JobInv, MoveInv, ReconcileInv, SeenInv, BatchFresh
    <2> QED BY <2>1, <2>2
  <1> QED BY <1>1, <1>2, <1>3, <1>4, <1>5

LEMMA FailureStep ==
  ASSUME IInv, NEW p \in Processor, Fail(p) \/ MarkFailed(p) \/ Crash(p)
  PROVE  IInv'
  <1> USE DEF IInv, Become, Over, Happens, factVars, projVars
  <1>1. CASE Fail(p)
    <2>1. TypeOK'
      BY <1>1 DEF Fail, TypeOK, Stage
    <2>2. JobInv' /\ MoveInv' /\ ReconcileInv' /\ SeenInv' /\ BatchFresh'
      BY <1>1 DEF Fail, TypeOK, JobInv, MoveInv, ReconcileInv, SeenInv, BatchFresh
    <2> QED BY <2>1, <2>2
  <1>2. CASE MarkFailed(p)
    <2>1. TypeOK'
      BY <1>2, NothingTypes DEF MarkFailed, Failed, TypeOK, Stage
    <2>2. JobInv' /\ MoveInv' /\ ReconcileInv' /\ SeenInv'
      BY <1>2 DEF MarkFailed, TypeOK, JobInv, MoveInv, ReconcileInv, SeenInv
    <2>3. BatchFresh'
      BY <1>2 DEF MarkFailed, Failed, BatchFresh
    <2> QED BY <2>1, <2>2, <2>3
  <1>3. CASE Crash(p)
    <2>1. TypeOK'
      BY <1>3, NothingTypes DEF Crash, TypeOK, Stage
    <2>2. JobInv' /\ MoveInv' /\ ReconcileInv' /\ SeenInv' /\ BatchFresh'
      BY <1>3 DEF Crash, TypeOK, JobInv, MoveInv, ReconcileInv, SeenInv, BatchFresh
    <2> QED BY <2>1, <2>2
  <1> QED BY <1>1, <1>2, <1>3

-----------------------------------------------------------------------------
\* The reconciliation.

ReconcileType ==
  [stage : {"idle", "batches", "tasks"}, todo : SUBSET Batch,
   at : Batch \cup {None}, parent : Task \cup {None},
   held : SUBSET Batch, read : [Batch -> Nat], tasks : SUBSET Task,
   totalled : SUBSET Task, sums : [Task -> [Batch -> Version]]]

LEMMA NotReconcilingType == NotReconciling \in ReconcileType /\ NotReconciling.at = None
  BY NothingTypes DEF NotReconciling, ReconcileType

\* Everything but the reconciliation's own record is left alone, or it is over.
LEMMA ReconcileKeeps ==
  ASSUME IInv, reconcile' \in ReconcileType, reconcile'.at # None => reconcile'.parent \in Task,
         UNCHANGED <<factVars, projVars, procVars, moving>>, events' \in Nat,
         lost \subseteq lost', lost' \in SUBSET Batch
  PROVE  IInv'
  <1> USE DEF IInv, factVars, projVars, procVars
  <1>1. TypeOK'
    BY DEF TypeOK, ReconcileType
  <1>2. JobInv' /\ MoveInv' /\ ReconcileInv' /\ SeenInv' /\ BatchFresh'
    BY DEF JobInv, MoveInv, ReconcileInv, SeenInv, BatchFresh
  <1> QED BY <1>1, <1>2

LEMMA RollupsAfterType == ASSUME IInv PROVE RollupsAfter \in [Batch -> Nat]
  BY DEF IInv, TypeOK, RollupsAfter

LEMMA ReconcileCommitStep ==
  ASSUME IInv, ReconcileCommit
  PROVE  IInv'
  <1> USE DEF IInv, ReconcileCommit, factVars, procVars
  <1>1. reconcile' \in ReconcileType /\ reconcile'.at = None
    BY NotReconcilingType
  <1>2. rollup' \in [Batch -> Nat]
    BY RollupsAfterType
  <1>3. total' \in [Task -> [Batch -> Version]]
    BY DEF TypeOK
  <1>4. batchDirty' \in SUBSET Batch /\ taskDirty' \in SUBSET Task /\ lost' \in SUBSET Batch
    BY DEF TypeOK, Unfinished
  <1>5. TypeOK'
    BY <1>1, <1>2, <1>3, <1>4 DEF TypeOK, ReconcileType
  <1>6. JobInv' /\ MoveInv' /\ ReconcileInv' /\ SeenInv'
    BY <1>1 DEF JobInv, MoveInv, ReconcileInv, SeenInv
  <1>7. BatchFresh'
    <2> SUFFICES ASSUME NEW b \in Batch, b \notin lost', rollup'[b] # facts'[b]
                 PROVE  b \in batchDirty'
      BY DEF BatchFresh
    <2>1. b \notin reconcile.held
      BY DEF RollupsAfter
    <2>2. rollup[b] # facts[b] /\ b \notin lost
      BY <2>1 DEF RollupsAfter
    <2> QED BY <2>1, <2>2 DEF BatchFresh, Unfinished
  <1> QED BY <1>5, <1>6, <1>7

LEMMA ReconcileStep ==
  ASSUME IInv, Reconcile
  PROVE  IInv'
  <1> USE DEF IInv
  <1>0. reconcile \in ReconcileType /\ events \in Nat /\ lost \in SUBSET Batch
    BY DEF TypeOK, ReconcileType
  <1>1. CASE ReconcileStart
    <2>1. reconcile' \in ReconcileType /\ reconcile'.at = None
      BY <1>1, NotReconcilingType DEF ReconcileStart, ReconcileType, NotReconciling
    <2> QED BY <1>0, <1>1, <2>1, ReconcileKeeps DEF ReconcileStart, Happens
  <1>2. CASE \E b \in Batch : ReconcileRead(b)
    <2> PICK b \in Batch : ReconcileRead(b)
      BY <1>2
    <2>1. reconcile' \in ReconcileType /\ reconcile'.parent \in Task
      BY <1>0 DEF ReconcileRead, ReconcileType, TypeOK
    <2> QED BY <1>0, <2>1, ReconcileKeeps DEF ReconcileRead
  <1>3. CASE ReconcileWrite
    <2>1. reconcile' \in ReconcileType /\ reconcile'.at = None
      BY <1>0, <1>3 DEF ReconcileWrite, ReconcileType, ReconcileInv
    <2>2. lost \subseteq lost' /\ lost' \in SUBSET Batch
      BY <1>0, <1>3 DEF ReconcileWrite, ReconcileType
    <2> QED BY <1>0, <1>3, <2>1, <2>2, ReconcileKeeps DEF ReconcileWrite
  <1>4. CASE ReconcileSum
    <2>1. \A t \in Task : Summed(t, RollupsAfter) \in [Batch -> Version]
      BY SummedType, RollupsAfterType
    <2>2. reconcile' \in ReconcileType /\ reconcile'.at = None
      BY <1>0, <1>4, <2>1 DEF ReconcileSum, ReconcileType
    <2> QED BY <1>0, <1>4, <2>2, ReconcileKeeps DEF ReconcileSum
  <1>5. CASE ReconcileFails
    BY <1>0, <1>5, NotReconcilingType, ReconcileKeeps DEF ReconcileFails
  <1> QED BY <1>1, <1>2, <1>3, <1>4, <1>5, ReconcileCommitStep DEF Reconcile

-----------------------------------------------------------------------------
LEMMA NextStep ==
  ASSUME IInv, [Next]_vars
  PROVE  IInv'
  <1>1. CASE Write
    BY <1>1, ChangeStep, MoveStep DEF Write
  <1>2. ASSUME NEW p \in Processor, Process(p)
        PROVE  IInv'
    BY <1>2, BatchJobStep, TaskJobStep, FailureStep DEF Process, Advance
  <1>3. CASE Reconcile
    BY <1>3, ReconcileStep
  <1>4. CASE UNCHANGED vars
    BY <1>4 DEF vars, factVars, projVars, procVars, IInv, TypeOK, JobInv, MoveInv,
                ReconcileInv, SeenInv, BatchFresh
  <1> QED BY <1>1, <1>2, <1>3, <1>4 DEF Next

\* The inductive invariant holds in every reachable state.
THEOREM Invariance == Spec => []IInv
  <1>1. Init => IInv
    BY InitIInv
  <1>2. IInv /\ [Next]_vars => IInv'
    BY NextStep
  <1> QED BY <1>1, <1>2, PTL DEF Spec

\* Every variable has its type; in particular only batches and task types that
\* exist are ever marked, whatever a move or a processor read before.
THEOREM TypeCorrect == Spec => []TypeOK
  <1>1. IInv => TypeOK
    BY DEF IInv
  <1> QED BY <1>1, Invariance, PTL

\* The queue loses no mark: however many processors, changes, moves, failures and
\* reconciliations interleave, a stale roll-up is dirty unless a rereview, a
\* second move or a reconciliation is to blame.
THEOREM NoMarkLost == Spec => []BatchFresh
  <1>1. IInv => BatchFresh
    BY DEF IInv
  <1> QED BY <1>1, Invariance, PTL
-----------------------------------------------------------------------------
(***************************************************************************)
(* The totals of the task types do not go stale unnoticed, and nothing      *)
(* older is ever written over something newer.  A total may be written      *)
(* while one of its batches is recomputed by a processor that will mark     *)
(* another task type: the one the batch had when it was locked.             *)
(***************************************************************************)

Late(p, b) ==
  /\ stage[p] = "batch_locked" /\ job[p] = b
  /\ b \in batchDirty \ lost
  /\ parent[b] # seen[p].parent

\* The new parent of such a batch is dirty and waits for it, or does not count it.
NewParentWaits(b) ==
  /\ inScope[b] =>
       /\ parent[b] \in taskDirty
       /\ \A q \in Processor : stage[q] \in {"task_checked", "task_summed"} => job[q] # parent[b]
  /\ ~inScope[b] =>
       /\ parent[b] \in taskDirty \/ total[parent[b]][b] = Out
       /\ \A q \in Processor :
            stage[q] = "task_summed" /\ job[q] = parent[b] => sum[q][b] = Out
  /\ reconcile.stage = "tasks" /\ parent[b] \in reconcile.totalled \cap reconcile.tasks =>
       ~inScope[b] /\ reconcile.sums[parent[b]][b] = Out

LateInv == \A p \in Processor, b \in Batch : Late(p, b) => NewParentWaits(b)

\* The rows of the reconciliation and those of the processors are disjoint.
LockInv ==
  /\ \A p \in Processor : stage[p] = "batch_locked" => job[p] \notin reconcile.held
  /\ \A p \in Processor : stage[p] \in {"task_locked", "task_checked", "task_summed"} =>
       job[p] \notin reconcile.tasks

\* The reconciliation is done with the batches before it sums, and has marked the
\* parents they still have.
HeldInv ==
  /\ reconcile.stage # "batches" => reconcile.todo = {} /\ reconcile.at = None
  /\ \A b \in reconcile.held \ lost : parent[b] \in reconcile.tasks

\* A sum under way is up to date, except for batches that are dirty again.
SumInv ==
  \A q \in Processor, t \in Task, b \in Batch \ lost :
    stage[q] = "task_summed" /\ job[q] = t =>
      \/ sum[q][b] = Summed(t, rollup)[b]
      \/ b \in batchDirty /\ parent[b] = t

ReconcileSumInv ==
  reconcile.stage = "tasks" =>
    \A t \in reconcile.totalled \cap reconcile.tasks, b \in Batch \ lost :
      \/ reconcile.sums[t][b] = Summed(t, RollupsAfter)[b]
      \/ b \in Unfinished /\ parent[b] = t

TInv == LateInv /\ LockInv /\ HeldInv /\ SumInv /\ ReconcileSumInv /\ TaskFresh

Holding == {"task_locked", "task_checked", "task_summed"}

-----------------------------------------------------------------------------
LEMMA InitTInv == Init => TInv
  <1> SUFFICES ASSUME Init PROVE TInv
    OBVIOUS
  <1>1. LateInv /\ LockInv /\ HeldInv /\ SumInv /\ ReconcileSumInv
    BY DEF Init, LateInv, Late, LockInv, HeldInv, SumInv, ReconcileSumInv, NotReconciling
  <1>2. TaskFresh
    BY DEF Init, TaskFresh, Summed, NothingSummed
  <1> QED BY <1>1, <1>2 DEF TInv

\* A step that leaves alone what the totals depend on, or only marks more.
LEMMA MarkingKeeps ==
  ASSUME IInv, TInv,
         UNCHANGED <<inScope, parent, rollup, total, procVars, reconcile>>,
         taskDirty \subseteq taskDirty', lost \subseteq lost',
         batchDirty \subseteq batchDirty',
         \A p \in Processor, b \in Batch :
           stage[p] = "batch_locked" /\ job[p] = b /\ b \in batchDirty' => b \in batchDirty
  PROVE  TInv'
  <1> USE DEF TInv, procVars
  <1>1. \A p \in Processor, b \in Batch : Late(p, b)' => Late(p, b)
    BY DEF Late
  <1>2. LateInv'
    BY <1>1 DEF LateInv, NewParentWaits
  <1>3. LockInv' /\ HeldInv'
    BY DEF LockInv, HeldInv
  <1>4. \A t : Summed(t, rollup)' = Summed(t, rollup) /\ Summed(t, RollupsAfter)' = Summed(t, RollupsAfter)
    BY DEF Summed, RollupsAfter
  <1>5. SumInv'
    BY <1>4 DEF SumInv
  <1>6. ReconcileSumInv'
    BY <1>4 DEF ReconcileSumInv, Unfinished
  <1>7. TaskFresh'
    BY <1>4 DEF TaskFresh
  <1> QED BY <1>2, <1>3, <1>5, <1>6, <1>7

LEMMA ChangeTStep ==
  ASSUME IInv, TInv, NEW b \in Batch, Change(b) \/ Reopen(b)
  PROVE  TInv'
  <1>1. CASE Change(b)
    BY <1>1, MarkingKeeps DEF Change, BatchLocked
  <1>2. CASE Reopen(b)
    BY <1>2, MarkingKeeps DEF Reopen, projVars
  <1> QED BY <1>1, <1>2

LEMMA RescopeTStep ==
  ASSUME IInv, TInv, NEW c \in Batch, Rescope(c)
  PROVE  TInv'
  <1> USE DEF TInv, procVars, Rescope
  <1>0. inScope' = [inScope EXCEPT ![c] = ~@] /\ inScope \in [Batch -> BOOLEAN]
    BY DEF IInv, TypeOK
  <1>1. \A p \in Processor, b \in Batch : Late(p, b)' => Late(p, b) /\ b # c
    BY DEF Late, BatchLocked
  <1>2. LateInv'
    BY <1>0, <1>1 DEF LateInv, NewParentWaits
  <1>3. LockInv' /\ HeldInv'
    BY DEF LockInv, HeldInv
  <1>4. \A t : \A b \in Batch : b # c \/ parent[b] # t =>
          /\ Summed(t, rollup)'[b] = Summed(t, rollup)[b]
          /\ Summed(t, RollupsAfter)'[b] = Summed(t, RollupsAfter)[b]
    BY <1>0 DEF Summed, RollupsAfter
  <1>5. c \in batchDirty' /\ c \in Unfinished'
    BY DEF Unfinished, BatchLocked
  <1>6. SumInv'
    BY <1>4, <1>5 DEF SumInv
  <1>7. ReconcileSumInv'
    BY <1>4, <1>5 DEF ReconcileSumInv, Unfinished
  <1>8. TaskFresh'
    BY <1>4, <1>5 DEF TaskFresh
  <1> QED BY <1>2, <1>3, <1>6, <1>7, <1>8

LEMMA MoveTStep ==
  ASSUME IInv, TInv, NEW m \in Manager,
         \/ \E B \in SUBSET Batch, from, to \in Task : MoveRead(m, B, from, to)
         \/ MoveFails(m)
  PROVE  TInv'
  <1>1. CASE \E B \in SUBSET Batch, from, to \in Task : MoveRead(m, B, from, to)
    BY <1>1, MarkingKeeps DEF MoveRead, factVars, projVars
  <1>2. CASE MoveFails(m)
    BY <1>2, MarkingKeeps DEF MoveFails, factVars, projVars
  <1> QED BY <1>1, <1>2

\* Both parents are marked, and nobody is summing either.
LEMMA MoveCommitTStep ==
  ASSUME IInv, TInv, NEW m \in Manager, MoveCommit(m)
  PROVE  TInv'
  <1> DEFINE mv == moving[m]
  <1> USE DEF TInv, procVars, MoveCommit, Marked
  <1>0. /\ mv.from \in Task /\ mv.to \in Task
        /\ {mv.from, mv.to} \subseteq taskDirty'
        /\ \A t \in {mv.from, mv.to} : ~TaskLocked(t)
    BY DEF IInv, MoveInv
  <1>1. \A b \in Batch \ lost' : parent'[b] # parent[b] => parent[b] = mv.from /\ parent'[b] = mv.to
    BY DEF IInv, TypeOK
  <1>2. \A b \in Batch : b \notin lost' => b \notin lost
    OBVIOUS
  <1>3. \A p \in Processor, b \in Batch : Late(p, b)' => Late(p, b) \/ parent'[b] # parent[b]
    BY DEF Late
  <1>4. LateInv'
    <2> SUFFICES ASSUME NEW p \in Processor, NEW b \in Batch, Late(p, b)'
                 PROVE  NewParentWaits(b)'
      BY DEF LateInv
    <2>1. CASE parent'[b] # parent[b]
      <3>1. parent'[b] = mv.to
        BY <2>1, <1>1 DEF Late
      <3>2. /\ parent'[b] \in taskDirty'
            /\ parent'[b] \notin reconcile.tasks
            /\ \A q \in Processor : stage[q] \in {"task_checked", "task_summed"} => job[q] # parent'[b]
        BY <3>1, <1>0 DEF TaskLocked
      <3> QED BY <3>2 DEF NewParentWaits
    <2>2. CASE parent'[b] = parent[b]
      <3>1. Late(p, b)
        BY <2>2, <1>3
      <3> QED BY <3>1, <2>2 DEF LateInv, NewParentWaits
    <2> QED BY <2>1, <2>2
  <1>5. LockInv'
    BY DEF LockInv
  <1>6. HeldInv'
    <2>1. reconcile.held \subseteq Batch
      BY DEF IInv, TypeOK
    <2> QED BY <2>1, <1>0, <1>1, <1>2 DEF HeldInv, TaskLocked
  <1>7. \A t : t \notin {mv.from, mv.to} => \A b \in Batch \ lost' :
          /\ (parent'[b] = t) <=> (parent[b] = t)
          /\ Summed(t, rollup)'[b] = Summed(t, rollup)[b]
          /\ Summed(t, RollupsAfter)'[b] = Summed(t, RollupsAfter)[b]
    BY <1>1 DEF Summed, RollupsAfter
  <1>8. SumInv'
    BY <1>0, <1>2, <1>7 DEF SumInv, TaskLocked
  <1>9. ReconcileSumInv'
    BY <1>0, <1>2, <1>7 DEF ReconcileSumInv, TaskLocked, Unfinished
  <1>10. TaskFresh'
    BY <1>0, <1>2, <1>7 DEF TaskFresh
  <1> QED BY <1>4, <1>5, <1>6, <1>8, <1>9, <1>10

-----------------------------------------------------------------------------
\* A processor's step after which it holds no lock, and which writes nothing but
\* marks.
LEMMA ReleaseKeeps ==
  ASSUME IInv, TInv, NEW p \in Processor,
         UNCHANGED <<inScope, parent, rollup, total, reconcile, lost>>,
         taskDirty \subseteq taskDirty', batchDirty \subseteq batchDirty',
         \A q \in Processor, b \in Batch :
           stage[q] = "batch_locked" /\ job[q] = b /\ b \in batchDirty' => b \in batchDirty,
         \A q \in Processor \ {p} : /\ stage'[q] = stage[q] /\ job'[q] = job[q]
                                     /\ seen'[q] = seen[q] /\ sum'[q] = sum[q],
         stage'[p] \notin Holding \cup {"batch_locked"}
  PROVE  TInv'
  <1> USE DEF TInv, Holding
  <1>1. \A q \in Processor, b \in Batch : Late(q, b)' => Late(q, b) /\ q # p
    BY DEF Late
  <1>2. LateInv'
    BY <1>1 DEF LateInv, NewParentWaits
  <1>3. LockInv' /\ HeldInv'
    BY DEF LockInv, HeldInv
  <1>4. \A t : Summed(t, rollup)' = Summed(t, rollup) /\ Summed(t, RollupsAfter)' = Summed(t, RollupsAfter)
    BY DEF Summed, RollupsAfter
  <1>5. SumInv'
    BY <1>4 DEF SumInv
  <1>6. ReconcileSumInv'
    BY <1>4 DEF ReconcileSumInv, Unfinished
  <1>7. TaskFresh'
    BY <1>4 DEF TaskFresh
  <1> QED BY <1>2, <1>3, <1>5, <1>6, <1>7

LEMMA ReleaseTStep ==
  ASSUME IInv, TInv, NEW p \in Processor,
         \/ \E b \in Batch : PickBatch(p, b)
         \/ \E t \in Task : PickTask(p, t)
         \/ TaskWaits(p)
         \/ Fail(p)
         \/ MarkFailed(p)
         \/ Crash(p)
  PROVE  TInv'
  <1> USE DEF Become, Over, Holding, factVars, projVars
  <1>0. /\ stage \in [Processor -> Stage] /\ job \in [Processor -> Batch \cup Task \cup {None}]
        /\ DOMAIN seen = Processor /\ DOMAIN sum = Processor
    BY DEF IInv, TypeOK
  <1>1. CASE \E b \in Batch : PickBatch(p, b)
    BY <1>0, <1>1, ReleaseKeeps DEF PickBatch
  <1>2. CASE \E t \in Task : PickTask(p, t)
    BY <1>0, <1>2, ReleaseKeeps DEF PickTask
  <1>3. CASE TaskWaits(p)
    BY <1>0, <1>3, ReleaseKeeps DEF TaskWaits
  <1>4. CASE Fail(p)
    BY <1>0, <1>4, ReleaseKeeps DEF Fail
  <1>5. CASE MarkFailed(p)
    BY <1>0, <1>5, ReleaseKeeps DEF MarkFailed, Failed, BatchLocked
  <1>6. CASE Crash(p)
    BY <1>0, <1>6, ReleaseKeeps DEF Crash
  <1> QED BY <1>1, <1>2, <1>3, <1>4, <1>5, <1>6

LEMMA LockBatchTStep ==
  ASSUME IInv, TInv, NEW p \in Processor, LockBatch(p)
  PROVE  TInv'
  <1> USE DEF TInv, LockBatch, Become, factVars, projVars
  <1>0. /\ job[p] \in Batch /\ ~BatchLocked(job[p])
        /\ stage' = [stage EXCEPT ![p] = "batch_locked"] /\ stage \in [Processor -> Stage]
        /\ seen' = [seen EXCEPT ![p] = [version |-> facts[job[p]], parent |-> parent[job[p]]]]
        /\ DOMAIN seen = Processor
    BY DEF IInv, TypeOK, JobInv
  <1>1. \A q \in Processor, b \in Batch : Late(q, b)' => Late(q, b)
    BY <1>0 DEF Late
  <1>2. \A q \in Processor : stage'[q] \in Holding => stage[q] = stage'[q]
    BY <1>0 DEF Holding
  <1>3. LateInv'
    BY <1>1, <1>2 DEF LateInv, NewParentWaits, Holding
  <1>4. LockInv' /\ HeldInv'
    BY <1>0, <1>2 DEF LockInv, HeldInv, BatchLocked, Holding
  <1>5. \A t : Summed(t, rollup)' = Summed(t, rollup) /\ Summed(t, RollupsAfter)' = Summed(t, RollupsAfter)
    BY DEF Summed, RollupsAfter
  <1>6. SumInv'
    BY <1>2, <1>5 DEF SumInv, Holding
  <1>7. ReconcileSumInv' /\ TaskFresh'
    BY <1>5 DEF ReconcileSumInv, TaskFresh, Unfinished
  <1> QED BY <1>3, <1>4, <1>6, <1>7

\* If the batch was clean its roll-up does not change.  If it was dirty, its
\* parent is marked; or the parent is a new one, and LateInv says it waits.
LEMMA CommitBatchTStep ==
  ASSUME IInv, TInv, NEW p \in Processor, CommitBatch(p)
  PROVE  TInv'
  <1> DEFINE c == job[p]
  <1> USE DEF TInv, CommitBatch, Become, Over, factVars, procVars
  <1>0. /\ c \in Batch /\ c \notin reconcile.held
        /\ ~TaskLocked(seen[p].parent)
        /\ rollup' = [rollup EXCEPT ![c] = seen[p].version] /\ rollup \in [Batch -> Nat]
        /\ seen[p].parent \in taskDirty'
        /\ stage' = [stage EXCEPT ![p] = "idle"] /\ stage \in [Processor -> Stage]
        /\ DOMAIN job = Processor /\ DOMAIN seen = Processor /\ DOMAIN sum = Processor
    BY DEF IInv, TypeOK, JobInv, LockInv
  <1>1. c \notin lost /\ c \notin batchDirty => rollup'[c] = rollup[c]
    BY <1>0 DEF IInv, SeenInv, BatchFresh
  <1>2. c \notin lost /\ c \in batchDirty => parent[c] = seen[p].parent \/ Late(p, c)
    BY DEF Late
  <1>3. \A q \in Processor : q # p =>
          /\ stage'[q] = stage[q] /\ job'[q] = job[q] /\ seen'[q] = seen[q] /\ sum'[q] = sum[q]
    BY <1>0
  <1>4. \A q \in Processor, b \in Batch : Late(q, b)' => Late(q, b) /\ q # p
    BY <1>0, <1>3 DEF Late
  <1>5. LateInv'
    BY <1>0, <1>3, <1>4 DEF LateInv, NewParentWaits
  <1>6. LockInv' /\ HeldInv'
    BY <1>0, <1>3 DEF LockInv, HeldInv
  <1>7. \A t : \A b \in Batch : b # c \/ parent[c] # t \/ ~inScope[c] \/ rollup'[c] = rollup[c] =>
          /\ Summed(t, rollup)'[b] = Summed(t, rollup)[b]
          /\ Summed(t, RollupsAfter)'[b] = Summed(t, RollupsAfter)[b]
    BY <1>0 DEF Summed, RollupsAfter
  <1>8. \A t : ~inScope[c] => Summed(t, rollup)'[c] = Out /\ Summed(t, RollupsAfter)'[c] = Out
    BY <1>0 DEF Summed
  <1>9. SumInv'
    <2>0. \A q \in Processor : stage'[q] = "task_summed" =>
            q # p /\ stage[q] = "task_summed" /\ job'[q] = job[q] /\ sum'[q] = sum[q]
      BY <1>0, <1>3
    <2>1. parent' = parent /\ lost' = lost
      OBVIOUS
    <2> SUFFICES ASSUME NEW q \in Processor, NEW t \in Task, NEW b \in Batch, b \notin lost,
                        q # p, stage[q] = "task_summed", job[q] = t
                 PROVE  \/ sum[q][b] = Summed(t, rollup)'[b]
                        \/ b \in batchDirty' /\ parent[b] = t
      <3> HIDE DEF TInv, CommitBatch, Over, Become, procVars, factVars
      <3> QED BY <2>0, <2>1 DEF SumInv
    <2>2. sum[q][b] = Summed(t, rollup)[b] \/ (b \in batchDirty /\ parent[b] = t)
      BY DEF SumInv
    <2>3. CASE b # c
      BY <2>2, <2>3, <1>7
    <2>4. CASE b = c /\ c \notin batchDirty
      BY <2>2, <2>4, <1>1, <1>7
    <2>5. CASE b = c /\ parent[c] # t
      BY <2>2, <2>5, <1>7
    <2>6. CASE b = c /\ c \in batchDirty /\ parent[c] = t
      <3>1. Late(p, c)
        BY <2>6, <1>0, <1>2 DEF TaskLocked
      <3>2. NewParentWaits(c)
        BY <3>1, <1>0 DEF LateInv
      <3>3. ~inScope[c] /\ sum[q][c] = Out
        BY <3>2, <2>6 DEF NewParentWaits
      <3> QED BY <3>3, <2>6, <1>8
    <2> QED BY <2>3, <2>4, <2>5, <2>6
  <1>10. ReconcileSumInv'
    <2> SUFFICES ASSUME reconcile.stage = "tasks",
                        NEW t \in reconcile.totalled \cap reconcile.tasks,
                        NEW b \in Batch, b \notin lost
                 PROVE  \/ reconcile.sums[t][b] = Summed(t, RollupsAfter)'[b]
                        \/ b \in Unfinished' /\ parent[b] = t
      BY DEF ReconcileSumInv
    <2>1. reconcile.sums[t][b] = Summed(t, RollupsAfter)[b] \/ (b \in Unfinished /\ parent[b] = t)
      BY DEF ReconcileSumInv
    <2>2. CASE b # c
      BY <2>1, <2>2, <1>7 DEF Unfinished
    <2>3. CASE b = c /\ c \notin batchDirty
      BY <2>1, <2>3, <1>1, <1>7 DEF Unfinished
    <2>4. CASE b = c /\ parent[c] # t
      BY <2>1, <2>4, <1>7
    <2>5. CASE b = c /\ c \in batchDirty /\ parent[c] = t
      <3>1. Late(p, c)
        BY <2>5, <1>0, <1>2 DEF TaskLocked
      <3>2. ~inScope[c] /\ reconcile.sums[t][c] = Out
        BY <3>1, <2>5, <1>0 DEF LateInv, NewParentWaits
      <3> QED BY <3>2, <2>5, <1>8
    <2> QED BY <2>2, <2>3, <2>4, <2>5
  <1>11. TaskFresh'
    <2> SUFFICES ASSUME NEW t \in Task, NEW b \in Batch, b \notin lost,
                        total[t][b] # Summed(t, rollup)'[b]
                 PROVE  t \in taskDirty' \/ (b \in batchDirty' /\ parent[b] = t)
      BY DEF TaskFresh
    <2>1. total[t][b] # Summed(t, rollup)[b] => t \in taskDirty \/ (b \in batchDirty /\ parent[b] = t)
      BY DEF TaskFresh
    <2>2. CASE b # c
      BY <2>1, <2>2, <1>7
    <2>3. CASE b = c /\ c \notin batchDirty
      BY <2>1, <2>3, <1>1, <1>7
    <2>4. CASE b = c /\ parent[c] # t
      BY <2>1, <2>4, <1>7
    <2>5. CASE b = c /\ c \in batchDirty /\ parent[c] = t
      <3>1. CASE Late(p, c)
        <4>1. NewParentWaits(c)
          BY <3>1, <1>0 DEF LateInv
        <4> QED BY <4>1, <2>5, <1>8 DEF NewParentWaits
      <3>2. CASE parent[c] = seen[p].parent
        BY <3>2, <2>5, <1>0
      <3> QED BY <3>1, <3>2, <2>5, <1>2
    <2> QED BY <2>2, <2>3, <2>4, <2>5
  <1> QED BY <1>5, <1>6, <1>9, <1>10, <1>11

-----------------------------------------------------------------------------
\* A task type is checked and summed only when none of its batches in scope is
\* dirty: no such batch is late.
LEMMA TaskTStep ==
  ASSUME IInv, TInv, NEW p \in Processor,
         LockTask(p) \/ CheckTask(p) \/ SumTask(p) \/ CommitTask(p)
  PROVE  TInv'
  <1> DEFINE c == job[p]
  <1> USE DEF TInv
  <1>0. /\ stage \in [Processor -> Stage] /\ DOMAIN job = Processor
        /\ DOMAIN sum = Processor /\ DOMAIN seen = Processor
        /\ total \in [Task -> [Batch -> Version]]
        /\ stage[p] \in Holding \cup {"task_picked"} /\ c \in Task
    BY DEF IInv, TypeOK, JobInv, Holding, LockTask, CheckTask, SumTask, CommitTask
  <1>1. /\ inScope' = inScope /\ parent' = parent /\ rollup' = rollup
        /\ batchDirty' = batchDirty /\ lost' = lost /\ reconcile' = reconcile
    BY DEF LockTask, CheckTask, SumTask, CommitTask, factVars, projVars
  <1>2. \A t : Summed(t, rollup)' = Summed(t, rollup) /\ Summed(t, RollupsAfter)' = Summed(t, RollupsAfter)
    BY <1>1 DEF Summed, RollupsAfter
  <1>3. \A q \in Processor \ {p} :
          /\ stage'[q] = stage[q] /\ job'[q] = job[q] /\ seen'[q] = seen[q] /\ sum'[q] = sum[q]
    BY <1>0 DEF LockTask, CheckTask, SumTask, CommitTask, Become, Over
  <1>4. stage'[p] \in Holding \cup {"idle"}
    BY <1>0 DEF LockTask, CheckTask, SumTask, CommitTask, Become, Over, Holding
  <1>5. \A q \in Processor, b \in Batch : Late(q, b)' => Late(q, b) /\ q # p
    BY <1>1, <1>3, <1>4 DEF Late, Holding
  <1>6. LockInv' /\ HeldInv'
    <2>1. stage'[p] \in Holding => job'[p] \notin reconcile.tasks
      BY <1>0 DEF LockTask, CheckTask, SumTask, CommitTask, Become, Over, LockInv, TaskLocked, Holding
    <2> QED BY <2>1, <1>1, <1>3, <1>4 DEF LockInv, HeldInv, Holding
  <1>7. ReconcileSumInv'
    BY <1>1, <1>2 DEF ReconcileSumInv, Unfinished
  <1>8. SumInv'
    <2>1. stage'[p] = "task_summed" => SumTask(p) /\ job'[p] = c /\ sum'[p] = Summed(c, rollup)
      BY <1>0 DEF LockTask, CheckTask, SumTask, CommitTask, Become, Over
    <2>2. \A t \in Task, b \in Batch \ lost :
            stage'[p] = "task_summed" /\ job'[p] = t => sum'[p][b] = Summed(t, rollup)[b]
      BY <2>1
    <2> QED BY <2>2, <1>1, <1>2, <1>3 DEF SumInv
  <1>9. LateInv' /\ TaskFresh'
    <2>1. CASE LockTask(p)
      <3>1. total' = total /\ taskDirty' = taskDirty /\ stage'[p] = "task_locked"
        BY <2>1, <1>0 DEF LockTask, Become, projVars
      <3> QED BY <3>1, <1>1, <1>2, <1>3, <1>5 DEF LateInv, NewParentWaits, TaskFresh
    <2>2. CASE CheckTask(p)
      <3>1. /\ total' = total /\ taskDirty' = taskDirty /\ stage'[p] = "task_checked"
            /\ job' = job /\ ~PendingChild(c)
        BY <2>2, <1>0 DEF CheckTask, Become, projVars
      <3>2. \A q \in Processor, b \in Batch : Late(q, b) /\ inScope[b] => c # parent[b]
        BY <3>1 DEF Late, PendingChild
      <3> QED BY <3>1, <3>2, <1>1, <1>2, <1>3, <1>5 DEF LateInv, NewParentWaits, TaskFresh
    <2>3. CASE SumTask(p)
      <3>1. /\ total' = total /\ taskDirty' = taskDirty /\ stage[p] = "task_checked"
            /\ stage'[p] = "task_summed" /\ job' = job /\ sum'[p] = Summed(c, rollup)
        BY <2>3, <1>0 DEF SumTask, Become, projVars
      <3>2. \A b \in Batch : ~inScope[b] => sum'[p][b] = Out
        BY <3>1 DEF Summed
      <3> QED BY <3>1, <3>2, <1>1, <1>2, <1>3, <1>5 DEF LateInv, NewParentWaits, TaskFresh
    <2>4. CASE CommitTask(p)
      <3>1. /\ total' = [total EXCEPT ![c] = sum[p]] /\ taskDirty' = taskDirty \ {c}
            /\ stage[p] = "task_summed" /\ stage'[p] = "idle"
        BY <2>4, <1>0 DEF CommitTask, Become, Over
      <3>2. LateInv'
        BY <3>1, <1>0, <1>1, <1>3, <1>5 DEF LateInv, NewParentWaits
      <3>3. TaskFresh'
        BY <3>1, <1>0, <1>1, <1>2 DEF TaskFresh, SumInv
      <3> QED BY <3>2, <3>3
    <2> QED BY <2>1, <2>2, <2>3, <2>4
  <1> QED BY <1>6, <1>7, <1>8, <1>9

-----------------------------------------------------------------------------
\* The reconciliation.  Until it sums, only its locks matter.
LEMMA UnsummedKeeps ==
  ASSUME TInv, lost \subseteq lost', (reconcile.stage # "tasks")',
         UNCHANGED <<inScope, parent, rollup, total, batchDirty, taskDirty, procVars>>
  PROVE  LateInv' /\ SumInv' /\ ReconcileSumInv' /\ TaskFresh'
  <1>1. \A p \in Processor, b \in Batch : Late(p, b)' => Late(p, b)
    BY DEF Late, procVars
  <1>2. LateInv'
    BY <1>1 DEF TInv, LateInv, NewParentWaits, procVars
  <1>3. \A t : Summed(t, rollup)' = Summed(t, rollup)
    BY DEF Summed
  <1>4. SumInv' /\ TaskFresh'
    BY <1>3 DEF TInv, SumInv, TaskFresh, procVars
  <1>5. ReconcileSumInv'
    BY DEF ReconcileSumInv
  <1> QED BY <1>2, <1>4, <1>5

LEMMA ReconcileTStep ==
  ASSUME IInv, TInv,
         \/ ReconcileStart
         \/ \E b \in Batch : ReconcileRead(b)
         \/ ReconcileWrite
         \/ ReconcileFails
  PROVE  TInv'
  <1> USE DEF TInv, factVars, projVars, procVars
  <1>0. reconcile.stage \in {"idle", "batches", "tasks"}
    BY DEF IInv, TypeOK
  <1>1. CASE ReconcileStart \/ ReconcileFails
    <2>0. reconcile' = NotReconciling \/ reconcile' = [NotReconciling EXCEPT
            !.stage = "batches", !.todo = {b \in Batch : inScope[b]}]
      BY <1>1 DEF ReconcileStart, ReconcileFails
    <2>1. /\ reconcile'.held = {} /\ reconcile'.tasks = {}
          /\ reconcile'.stage = "batches" \/ reconcile' = NotReconciling
      <3>1. CASE reconcile' = NotReconciling
        BY <3>1 DEF NotReconciling
      <3>2. CASE reconcile' # NotReconciling
        <4>1. reconcile' = [NotReconciling EXCEPT !.stage = "batches",
                                                  !.todo = {b \in Batch : inScope[b]}]
          BY <3>2, <2>0
        <4>2. reconcile'.held = NotReconciling.held /\ reconcile'.tasks = NotReconciling.tasks
          BY <4>1, NotReconcilingType DEF ReconcileType
        <4>3. reconcile'.stage = "batches"
          BY <4>1, NotReconcilingType DEF ReconcileType
        <4>4. NotReconciling.held = {} /\ NotReconciling.tasks = {}
          BY DEF NotReconciling
        <4> QED BY <4>2, <4>3, <4>4
      <3> QED BY <3>1, <3>2
    <2>2. LockInv' /\ HeldInv'
      BY <2>1 DEF LockInv, HeldInv, NotReconciling
    <2>3. reconcile'.stage # "tasks"
      BY <2>1 DEF NotReconciling
    <2>4. lost' = lost /\ UNCHANGED <<factVars, projVars, procVars>>
      BY <1>1 DEF ReconcileStart, ReconcileFails
    <2> QED BY <2>2, <2>3, <2>4, UnsummedKeeps
  <1>2. CASE \E b \in Batch : ReconcileRead(b)
    <2> PICK b \in Batch : ReconcileRead(b)
      BY <1>2
    <2>1. reconcile.stage = "batches"
      BY <1>0 DEF ReconcileRead, HeldInv
    <2>2. /\ reconcile'.stage = "batches"
          /\ reconcile'.held = reconcile.held /\ reconcile'.tasks = reconcile.tasks
      BY <2>1 DEF ReconcileRead, IInv, TypeOK
    <2>3. LockInv' /\ HeldInv'
      BY <2>2 DEF ReconcileRead, LockInv, HeldInv, factVars
    <2> QED BY <2>2, <2>3, UnsummedKeeps DEF ReconcileRead
  <1>3. CASE ReconcileWrite
    <2> DEFINE c == reconcile.at  u == reconcile.parent
    <2>1. reconcile.stage = "batches"
      BY <1>0, <1>3 DEF ReconcileWrite, HeldInv
    <2>2. /\ reconcile'.stage = "batches"
          /\ reconcile'.held = reconcile.held \cup {c}
          /\ reconcile'.tasks = reconcile.tasks \cup {u}
      BY <2>1, <1>3 DEF ReconcileWrite, IInv, TypeOK
    <2>3. LockInv'
      BY <2>2, <1>3 DEF ReconcileWrite, LockInv, BatchLocked, TaskLocked
    <2>4. HeldInv'
      <3>1. \A b \in reconcile'.held \ lost' : parent[b] \in reconcile'.tasks
        BY <2>2, <1>3 DEF ReconcileWrite, HeldInv
      <3> QED BY <3>1, <2>2, <1>3 DEF ReconcileWrite, HeldInv, factVars
    <2> QED BY <1>3, <2>2, <2>3, <2>4, UnsummedKeeps DEF ReconcileWrite
  <1> QED BY <1>1, <1>2, <1>3

LEMMA ReconcileSumTStep ==
  ASSUME IInv, TInv, ReconcileSum
  PROVE  TInv'
  <1> USE DEF TInv, ReconcileSum, factVars, projVars, procVars
  <1>1. /\ reconcile'.stage = "tasks" /\ reconcile'.todo = {} /\ reconcile'.at = None
        /\ reconcile'.held = reconcile.held /\ reconcile'.read = reconcile.read
        /\ reconcile'.tasks = reconcile.tasks
        /\ reconcile'.totalled = {t \in Task : ~\E b \in Unfinished : inScope[b] /\ parent[b] = t}
        /\ reconcile'.sums = [t \in Task |-> Summed(t, RollupsAfter)]
    BY DEF IInv, TypeOK
  <1>2. \A t : Summed(t, rollup)' = Summed(t, rollup) /\ Summed(t, RollupsAfter)' = Summed(t, RollupsAfter)
    BY <1>1 DEF Summed, RollupsAfter
  <1>3. LockInv' /\ HeldInv'
    BY <1>1 DEF LockInv, HeldInv
  <1>4. \A p \in Processor, b \in Batch : Late(p, b)' => Late(p, b) /\ b \in Unfinished
    BY DEF Late, LockInv, Unfinished
  <1>5. LateInv'
    <2> SUFFICES ASSUME NEW p \in Processor, NEW b \in Batch, Late(p, b), b \in Unfinished
                 PROVE  NewParentWaits(b)'
      BY <1>4 DEF LateInv
    <2>1. parent[b] \in reconcile'.totalled => ~inScope[b]
      BY <1>1
    <2>2. parent[b] \in reconcile'.totalled /\ ~inScope[b] => reconcile'.sums[parent[b]][b] = Out
      BY <1>1 DEF Summed
    <2>3. NewParentWaits(b)
      BY DEF LateInv
    <2> QED BY <2>1, <2>2, <2>3 DEF NewParentWaits
  <1>6. SumInv' /\ TaskFresh'
    BY <1>2 DEF SumInv, TaskFresh
  <1>7. ReconcileSumInv'
    BY <1>1, <1>2 DEF ReconcileSumInv
  <1> QED BY <1>3, <1>5, <1>6, <1>7

\* A total is written only if the reconciliation still holds its mark, or if it
\* was overtaken: then what it leaves stale is lost.
LEMMA ReconcileCommitTStep ==
  ASSUME IInv, TInv, ReconcileCommit
  PROVE  TInv'
  <1> DEFINE R == RollupsAfter
             overtaken == reconcile.totalled \ reconcile.tasks
  <1> USE DEF TInv
  <1>1. /\ inScope' = inScope /\ parent' = parent /\ rollup' = R
        /\ batchDirty' = Unfinished /\ taskDirty' = (taskDirty \cup reconcile.tasks) \ reconcile.totalled
        /\ total' = [t \in Task |-> IF t \in reconcile.totalled THEN reconcile.sums[t] ELSE total[t]]
        /\ reconcile' = NotReconciling /\ reconcile.stage = "tasks"
        /\ stage' = stage /\ job' = job /\ seen' = seen /\ sum' = sum
    BY DEF ReconcileCommit, factVars, procVars
  <1>2. /\ lost \subseteq lost'
        /\ \A b \in Batch \ lost', t \in overtaken :
             /\ reconcile.sums[t][b] = Summed(t, R)[b]
             /\ ~(t \in taskDirty /\ parent[b] = t /\ b \in Unfinished)
    BY DEF ReconcileCommit
  <1>3. \A t : Summed(t, rollup)' = Summed(t, R)
    BY <1>1 DEF Summed
  <1>4. \A t : \A b \in Batch : b \notin reconcile.held \/ parent[b] # t =>
          Summed(t, R)[b] = Summed(t, rollup)[b]
    BY DEF Summed, RollupsAfter
  <1>5. LockInv' /\ HeldInv' /\ ReconcileSumInv'
    BY <1>1 DEF LockInv, HeldInv, ReconcileSumInv, NotReconciling
  <1>6. \A p \in Processor, b \in Batch : Late(p, b)' => Late(p, b) /\ b \in Unfinished /\ b \notin lost'
    BY <1>1, <1>2 DEF Late, Unfinished
  <1>7. LateInv'
    <2> SUFFICES ASSUME NEW p \in Processor, NEW b \in Batch, Late(p, b),
                        b \in Unfinished, b \notin lost'
                 PROVE  NewParentWaits(b)'
      BY <1>6 DEF LateInv
    <2> DEFINE u == parent[b]
    <2>1. NewParentWaits(b)
      BY DEF LateInv
    <2>2. u \in Task
      BY DEF IInv, TypeOK
    <2>3. inScope[b] => u \in taskDirty'
      BY <2>1, <1>1, <1>2 DEF NewParentWaits
    <2>4. ~inScope[b] => u \in taskDirty' \/ total'[u][b] = Out
      <3>1. ~inScope[b] => Summed(u, R)[b] = Out
        BY DEF Summed
      <3> QED BY <2>1, <2>2, <3>1, <1>1, <1>2 DEF NewParentWaits
    <2> QED BY <2>1, <2>3, <2>4, <1>1 DEF NewParentWaits, NotReconciling
  <1>8. SumInv'
    <2> SUFFICES ASSUME NEW q \in Processor, NEW t \in Task, NEW b \in Batch, b \notin lost',
                        stage[q] = "task_summed", job[q] = t
                 PROVE  \/ sum[q][b] = Summed(t, R)[b]
                        \/ b \in Unfinished /\ parent[b] = t
      BY <1>1, <1>3 DEF SumInv
    <2>1. sum[q][b] = Summed(t, rollup)[b] \/ (b \in batchDirty /\ parent[b] = t)
      BY <1>2 DEF SumInv
    <2>2. b \in reconcile.held => parent[b] # t
      BY <1>2 DEF HeldInv, LockInv
    <2> QED BY <2>1, <2>2, <1>4 DEF Unfinished
  <1>9. TaskFresh'
    <2> SUFFICES ASSUME NEW t \in Task, NEW b \in Batch, b \notin lost',
                        total'[t][b] # Summed(t, R)[b]
                 PROVE  t \in taskDirty' \/ (b \in Unfinished /\ parent[b] = t)
      BY <1>1, <1>3 DEF TaskFresh
    <2>1. CASE t \in reconcile.totalled
      BY <2>1, <1>1, <1>2 DEF ReconcileSumInv
    <2>2. CASE t \notin reconcile.totalled
      <3>1. total'[t] = total[t]
        BY <2>2, <1>1
      <3>2. CASE b \notin reconcile.held \/ parent[b] # t
        BY <3>1, <3>2, <2>2, <1>1, <1>2, <1>4 DEF TaskFresh, Unfinished
      <3>3. CASE b \in reconcile.held /\ parent[b] = t
        BY <3>3, <2>2, <1>1, <1>2 DEF HeldInv
      <3> QED BY <3>2, <3>3
    <2> QED BY <2>1, <2>2
  <1> QED BY <1>5, <1>7, <1>8, <1>9

-----------------------------------------------------------------------------
LEMMA NextTStep ==
  ASSUME IInv, TInv, [Next]_vars
  PROVE  TInv'
  <1>1. CASE Write
    BY <1>1, ChangeTStep, RescopeTStep, MoveTStep, MoveCommitTStep DEF Write
  <1>2. CASE \E p \in Processor : Process(p)
    BY <1>2, ReleaseTStep, LockBatchTStep, CommitBatchTStep, TaskTStep DEF Process, Advance
  <1>3. CASE Reconcile
    BY <1>3, ReconcileTStep, ReconcileSumTStep, ReconcileCommitTStep DEF Reconcile
  <1>4. CASE UNCHANGED vars
    BY <1>4, MarkingKeeps DEF vars, factVars, projVars
  <1> QED BY <1>1, <1>2, <1>3, <1>4 DEF Next

THEOREM TotalsInvariance == Spec => []TInv
  <1>1. Init => TInv
    BY InitTInv
  <1>2. IInv /\ TInv /\ [Next]_vars => TInv'
    BY NextTStep
  <1> QED BY <1>1, <1>2, Invariance, PTL DEF Spec

\* TaskFresh: a total that differs from its batches will be recomputed, however
\* batches are moved, processed and reconciled meanwhile.
THEOREM NoTotalForgotten == Spec => []TaskFresh
  <1>1. TInv => TaskFresh
    BY DEF TInv
  <1> QED BY <1>1, TotalsInvariance, PTL

-----------------------------------------------------------------------------
(***************************************************************************)
(* Proof that nothing newer is ever replaced by something older.  What is   *)
(* written was read before, and what it replaces may have been written      *)
(* since: the locks and the history variable lost say where it was not.     *)
(***************************************************************************)

\* Two processors never hold the same task type.
HolderInv ==
  \A p, q \in Processor :
    stage[p] \in Holding /\ stage[q] \in Holding /\ job[p] = job[q] => p = q

\* Versions only grow from the facts over the roll-up to the total; a sum under way
\* lies between the total it will replace and the roll-ups.
AgeInv ==
  /\ \A b \in Batch \ lost : rollup[b] <= facts[b]
  /\ \A t \in Task, b \in Batch \ lost : total[t][b] # Out => total[t][b] <= rollup[b]
  /\ \A p \in Processor, b \in Batch \ lost :
       stage[p] = "task_summed" /\ sum[p][b] # Out =>
         /\ sum[p][b] <= rollup[b]
         /\ total[job[p]][b] # Out => total[job[p]][b] <= sum[p][b]

\* The same for the sums of the reconciliation, as long as the batch has not been
\* changed since it was read: otherwise its commit counts the batch as lost.
ReconcileAgeInv ==
  reconcile.stage = "tasks" =>
    \A t \in Task, b \in Batch \ lost :
      (b \in reconcile.held => reconcile.read[b] = facts[b]) /\ reconcile.sums[t][b] # Out =>
        /\ reconcile.sums[t][b] <= RollupsAfter[b]
        /\ t \in reconcile.tasks /\ total[t][b] # Out => total[t][b] <= reconcile.sums[t][b]

OInv == HolderInv /\ AgeInv /\ ReconcileAgeInv

Newer ==
  \A b \in Batch \ lost' :
    /\ rollup'[b] >= rollup[b]
    /\ \A t \in Task : total[t][b] # Out /\ total'[t][b] # Out => total'[t][b] >= total[t][b]

LEMMA InitOInv == Init => OInv
  <1> SUFFICES ASSUME Init PROVE OInv
    OBVIOUS
  <1> QED
    BY DEF Init, OInv, HolderInv, AgeInv, ReconcileAgeInv, Holding, NothingSummed, NotReconciling

LEMMA VersionTypes ==
  ASSUME IInv
  PROVE  /\ \A b \in Batch : rollup[b] \in Nat /\ facts[b] \in Nat /\ RollupsAfter[b] \in Nat
         /\ \A t \in Task, b \in Batch : total[t][b] # Out => total[t][b] \in Nat
         /\ \A p \in Processor, b \in Batch : sum[p][b] # Out => sum[p][b] \in Nat
         /\ \A t \in Task, b \in Batch : reconcile.sums[t][b] # Out => reconcile.sums[t][b] \in Nat
  <1>1. \A b \in Batch : rollup[b] \in Nat /\ facts[b] \in Nat /\ RollupsAfter[b] \in Nat
    BY DEF IInv, TypeOK, RollupsAfter
  <1>2. \A t \in Task, b \in Batch : total[t][b] \in Version
    BY DEF IInv, TypeOK
  <1>3. \A p \in Processor, b \in Batch : sum[p][b] \in Version
    BY DEF IInv, TypeOK
  <1>4. \A t \in Task, b \in Batch : reconcile.sums[t][b] \in Version
    BY DEF IInv, TypeOK
  <1> QED
    BY <1>1, <1>2, <1>3, <1>4 DEF Version

\* Lock holders change one at a time, and a lock is taken only when it is free.
LEMMA HolderStep ==
  ASSUME IInv, HolderInv, [Next]_vars
  PROVE  HolderInv'
  <1> USE DEF IInv, TypeOK, HolderInv, Holding, Become, Over, procVars
  <1>1. CASE Write
    BY <1>1 DEF Write, Change, Rescope, Reopen, MoveRead, MoveCommit, MoveFails, projVars
  <1>2. ASSUME NEW p \in Processor, Process(p)
        PROVE  HolderInv'
    <2>0. \A q \in Processor \ {p} : stage'[q] = stage[q] /\ job'[q] = job[q]
      BY <1>2 DEF Process, Advance, PickBatch, LockBatch, CommitBatch, PickTask, LockTask,
                  TaskWaits, CheckTask, SumTask, CommitTask, Fail, MarkFailed, Crash
    <2>1. CASE LockTask(p)
      <3>1. job' = job /\ stage'[p] = "task_locked" /\ ~TaskLocked(job[p])
        BY <2>1 DEF LockTask
      <3> QED BY <2>0, <3>1 DEF TaskLocked
    <2>2. CASE CheckTask(p) \/ SumTask(p)
      <3>1. job' = job /\ stage[p] \in Holding
        BY <2>2 DEF CheckTask, SumTask
      <3> QED BY <2>0, <3>1
    <2>3. CASE ~(LockTask(p) \/ CheckTask(p) \/ SumTask(p))
      <3>1. stage'[p] \notin Holding
        BY <1>2, <2>3 DEF Process, Advance, PickBatch, LockBatch, CommitBatch, PickTask,
                  TaskWaits, CommitTask, Fail, MarkFailed, Crash
      <3> HIDE DEF IInv, TypeOK, Become, Over, procVars, Holding
      <3> QED BY <2>0, <3>1
    <2> QED BY <2>1, <2>2, <2>3
  <1>3. CASE Reconcile
    BY <1>3 DEF Reconcile, ReconcileStart, ReconcileRead, ReconcileWrite, ReconcileSum,
                ReconcileCommit, ReconcileFails
  <1>4. CASE UNCHANGED vars
    BY <1>4 DEF vars
  <1> QED BY <1>1, <1>2, <1>3, <1>4 DEF Next

\* A step that writes neither roll-ups nor totals, nor sums anything.
LEMMA AgeKeeps ==
  ASSUME IInv, OInv, HolderInv', lost \subseteq lost',
         rollup' = rollup, total' = total, \A b \in Batch : facts'[b] \in Nat,
         \A b \in Batch \ lost' : /\ facts'[b] >= facts[b]
                                  /\ b \in reconcile.held => facts'[b] = facts[b],
         \A q \in Processor : stage'[q] = "task_summed" =>
           stage[q] = "task_summed" /\ job'[q] = job[q] /\ sum'[q] = sum[q],
         reconcile' = reconcile \/ reconcile'.stage # "tasks"
  PROVE  OInv' /\ Newer
  <1> USE VersionTypes DEF OInv
  <1>1. AgeInv'
    <2>1. \A b \in Batch \ lost' : rollup[b] <= facts'[b]
      BY DEF AgeInv
    <2> QED BY <2>1 DEF AgeInv
  <1>2. ReconcileAgeInv'
    <2>1. CASE reconcile' = reconcile
      <3>1. RollupsAfter' = RollupsAfter
        BY <2>1 DEF RollupsAfter
      <3> QED BY <2>1, <3>1 DEF ReconcileAgeInv
    <2> QED BY <2>1 DEF ReconcileAgeInv
  <1>3. Newer
    BY DEF Newer
  <1> QED BY <1>1, <1>2, <1>3

LEMMA WriteOStep ==
  ASSUME IInv, OInv, HolderInv', Write
  PROVE  OInv' /\ Newer
  <1> USE VersionTypes, AgeKeeps DEF procVars, factVars, projVars
  <1>0. facts \in [Batch -> Nat]
    BY DEF IInv, TypeOK
  <1>1. ASSUME NEW b \in Batch, Change(b) \/ Reopen(b)
        PROVE  OInv' /\ Newer
    <2>1. facts' = [facts EXCEPT ![b] = @ + 1]
      BY <1>1 DEF Change, Reopen
    <2>2. \A c \in Batch : facts'[c] \in Nat /\ facts'[c] >= facts[c]
      BY <1>0, <2>1
    <2>3. \A c \in Batch \ lost' : c \in reconcile.held => facts'[c] = facts[c]
      BY <1>0, <1>1, <2>1 DEF Change, Reopen, BatchLocked
    <2>4. lost \subseteq lost' /\ UNCHANGED <<rollup, total, stage, job, sum, reconcile>>
      BY <1>1 DEF Change, Reopen
    <2> QED BY <2>2, <2>3, <2>4
  <1>2. ASSUME NEW b \in Batch, Rescope(b)
        PROVE  OInv' /\ Newer
    BY <1>2 DEF Rescope
  <1>3. ASSUME NEW m \in Manager, NEW B \in SUBSET Batch, NEW from \in Task, NEW to \in Task,
               MoveRead(m, B, from, to)
        PROVE  OInv' /\ Newer
    BY <1>3 DEF MoveRead
  <1>4. ASSUME NEW m \in Manager, MoveCommit(m) \/ MoveFails(m)
        PROVE  OInv' /\ Newer
    BY <1>4 DEF MoveCommit, MoveFails
  <1> QED BY <1>1, <1>2, <1>3, <1>4 DEF Write

\* The steps of a processor that write nothing but marks.
LEMMA MarkOStep ==
  ASSUME IInv, OInv, HolderInv', NEW p \in Processor,
         Process(p), ~CommitBatch(p), ~SumTask(p), ~CommitTask(p)
  PROVE  OInv' /\ Newer
  <1>1. /\ \A q \in Processor : stage'[q] = "task_summed" =>
             stage[q] = "task_summed" /\ job'[q] = job[q] /\ sum'[q] = sum[q]
        /\ UNCHANGED <<facts, rollup, total, reconcile, lost>>
    <2> USE DEF IInv, TypeOK, Become, Over, factVars, projVars
    <2>1. CASE (\E b \in Batch : PickBatch(p, b)) \/ (\E t \in Task : PickTask(p, t))
      BY <2>1 DEF PickBatch, PickTask
    <2>2. CASE LockBatch(p) \/ LockTask(p) \/ CheckTask(p) \/ Fail(p)
      BY <2>2 DEF LockBatch, LockTask, CheckTask, Fail
    <2>3. CASE TaskWaits(p) \/ MarkFailed(p) \/ Crash(p)
      BY <2>3 DEF TaskWaits, MarkFailed, Crash
    <2> QED BY <2>1, <2>2, <2>3 DEF Process, Advance
  <1> QED BY <1>1, VersionTypes, AgeKeeps

\* What the holder of a batch's job read is what the facts still are.
LEMMA CommitBatchOStep ==
  ASSUME IInv, OInv, HolderInv', LockInv, NEW p \in Processor, CommitBatch(p)
  PROVE  OInv' /\ Newer
  <1> DEFINE c == job[p]
  <1>1. /\ c \in Batch /\ c \notin reconcile.held
        /\ rollup' = [rollup EXCEPT ![c] = seen[p].version] /\ rollup \in [Batch -> Nat]
        /\ c \notin lost => seen[p].version = facts[c]
        /\ UNCHANGED <<facts, total, reconcile, lost>>
    BY DEF CommitBatch, IInv, TypeOK, SeenInv, LockInv, factVars
  <1>2. \A b \in Batch \ lost : rollup[b] <= rollup'[b] /\ rollup'[b] <= facts[b] /\ rollup'[b] \in Nat
    BY <1>1, VersionTypes DEF OInv, AgeInv
  <1>3. \A q \in Processor : stage'[q] = "task_summed" =>
          stage[q] = "task_summed" /\ job'[q] = job[q] /\ sum'[q] = sum[q]
    BY DEF CommitBatch, Over, Become, IInv, TypeOK
  <1>4. AgeInv'
    <2>1. \A t \in Task, b \in Batch \ lost : total[t][b] # Out => total[t][b] <= rollup'[b]
      BY <1>2, VersionTypes DEF OInv, AgeInv
    <2>2. \A q \in Processor, b \in Batch \ lost :
            stage[q] = "task_summed" /\ sum[q][b] # Out => sum[q][b] <= rollup'[b]
      BY <1>2, VersionTypes DEF OInv, AgeInv
    <2> QED BY <1>1, <1>2, <1>3, <2>1, <2>2 DEF OInv, AgeInv
  <1>5. ReconcileAgeInv'
    <2>1. \A b \in Batch \ lost : RollupsAfter[b] <= RollupsAfter'[b] /\ RollupsAfter'[b] \in Nat
      BY <1>1, <1>2, VersionTypes DEF RollupsAfter
    <2>2. \A t \in Task, b \in Batch \ lost : reconcile.sums[t][b] # Out /\
            reconcile.sums[t][b] <= RollupsAfter[b] => reconcile.sums[t][b] <= RollupsAfter'[b]
      BY <2>1, VersionTypes
    <2> QED BY <1>1, <2>2 DEF OInv, ReconcileAgeInv
  <1>6. Newer
    BY <1>1, <1>2, VersionTypes DEF Newer
  <1> QED BY <1>4, <1>5, <1>6 DEF OInv

\* A sum is taken of roll-ups, each of which is no older than the total.
LEMMA SumTaskOStep ==
  ASSUME IInv, OInv, HolderInv', NEW p \in Processor, SumTask(p)
  PROVE  OInv' /\ Newer
  <1>1. /\ job[p] \in Task /\ sum' = [sum EXCEPT ![p] = Summed(job[p], rollup)]
        /\ DOMAIN sum = Processor /\ DOMAIN stage = Processor
        /\ stage' = [stage EXCEPT ![p] = "task_summed"]
        /\ UNCHANGED <<facts, rollup, total, reconcile, lost, job>>
    BY DEF SumTask, Become, IInv, TypeOK, JobInv, factVars, projVars
  <1>2. \A b \in Batch : sum'[p][b] # Out => sum'[p][b] = rollup[b]
    BY <1>1 DEF Summed
  <1>3. AgeInv'
    <2> SUFFICES ASSUME NEW q \in Processor, NEW b \in Batch \ lost,
                        stage'[q] = "task_summed", sum'[q][b] # Out
                 PROVE  /\ sum'[q][b] <= rollup[b]
                        /\ total[job[q]][b] # Out => total[job[q]][b] <= sum'[q][b]
      BY <1>1 DEF OInv, AgeInv
    <2>1. CASE q = p
      BY <2>1, <1>1, <1>2, VersionTypes DEF OInv, AgeInv
    <2>2. CASE q # p
      BY <2>2, <1>1 DEF OInv, AgeInv
    <2> QED BY <2>1, <2>2
  <1>4. ReconcileAgeInv'
    BY <1>1 DEF OInv, ReconcileAgeInv, RollupsAfter
  <1>5. Newer
    BY <1>1, VersionTypes DEF Newer
  <1> QED BY <1>3, <1>4, <1>5 DEF OInv

\* The total has not been written since the processor locked its job.
LEMMA CommitTaskOStep ==
  ASSUME IInv, OInv, HolderInv', LockInv, NEW p \in Processor, CommitTask(p)
  PROVE  OInv' /\ Newer
  <1> DEFINE c == job[p]
  <1>1. /\ c \in Task /\ stage[p] = "task_summed" /\ c \notin reconcile.tasks
        /\ total' = [total EXCEPT ![c] = sum[p]] /\ DOMAIN total = Task
        /\ UNCHANGED <<facts, rollup, reconcile, lost>>
    BY DEF CommitTask, IInv, TypeOK, JobInv, LockInv, factVars
  <1>2. \A q \in Processor : stage'[q] = "task_summed" =>
          /\ stage[q] = "task_summed" /\ job'[q] = job[q] /\ sum'[q] = sum[q]
          /\ job[q] # c
    BY <1>1 DEF CommitTask, Over, Become, IInv, TypeOK, OInv, HolderInv, Holding
  <1>3. \A t \in Task, b \in Batch \ lost : total'[t][b] # Out => total'[t][b] <= rollup[b]
    <2> SUFFICES ASSUME NEW t \in Task, NEW b \in Batch \ lost, total'[t][b] # Out
                 PROVE  total'[t][b] <= rollup[b]
      OBVIOUS
    <2>1. CASE t = c
      BY <2>1, <1>1 DEF OInv, AgeInv
    <2>2. CASE t # c
      BY <2>2, <1>1 DEF OInv, AgeInv
    <2> QED BY <2>1, <2>2
  <1>4. AgeInv'
    <2>1. \A q \in Processor : stage'[q] = "task_summed" => total'[job'[q]] = total[job[q]]
      BY <1>1, <1>2
    <2> QED BY <1>1, <1>2, <1>3, <2>1 DEF OInv, AgeInv
  <1>5. ReconcileAgeInv'
    <2>1. \A t \in reconcile.tasks : total'[t] = total[t]
      BY <1>1 DEF IInv, TypeOK
    <2>2. RollupsAfter' = RollupsAfter
      BY <1>1 DEF RollupsAfter
    <2> QED BY <1>1, <2>1, <2>2 DEF OInv, ReconcileAgeInv
  <1>6. Newer
    <2> SUFFICES ASSUME NEW t \in Task, NEW b \in Batch \ lost, total[t][b] # Out, total'[t][b] # Out
                 PROVE  total'[t][b] >= total[t][b]
      BY <1>1, VersionTypes DEF Newer
    <2>1. CASE t = c
      BY <2>1, <1>1, VersionTypes DEF OInv, AgeInv
    <2>2. CASE t # c
      BY <2>2, <1>1, VersionTypes
    <2> QED BY <2>1, <2>2
  <1> QED BY <1>4, <1>5, <1>6 DEF OInv

LEMMA ReconcileSumOStep ==
  ASSUME IInv, OInv, HolderInv', ReconcileSum
  PROVE  OInv' /\ Newer
  <1>1. /\ reconcile'.held = reconcile.held /\ reconcile'.read = reconcile.read
        /\ reconcile'.tasks = reconcile.tasks
        /\ reconcile'.sums = [t \in Task |-> Summed(t, RollupsAfter)]
        /\ UNCHANGED <<facts, rollup, total, stage, job, sum, lost>>
    BY DEF ReconcileSum, IInv, TypeOK, factVars, projVars, procVars
  <1>2. AgeInv'
    BY <1>1 DEF OInv, AgeInv
  <1>3. ReconcileAgeInv'
    <2>1. RollupsAfter' = RollupsAfter
      BY <1>1 DEF RollupsAfter
    <2> SUFFICES ASSUME NEW t \in Task, NEW b \in Batch \ lost, reconcile'.sums[t][b] # Out,
                        b \in reconcile.held => reconcile.read[b] = facts[b]
                 PROVE  /\ reconcile'.sums[t][b] <= RollupsAfter[b]
                        /\ total[t][b] # Out => total[t][b] <= reconcile'.sums[t][b]
      BY <1>1, <2>1 DEF ReconcileAgeInv
    <2>2. reconcile'.sums[t][b] = RollupsAfter[b]
      BY <1>1 DEF Summed
    <2>3. rollup[b] <= RollupsAfter[b]
      BY VersionTypes DEF RollupsAfter, OInv, AgeInv
    <2> QED BY <2>2, <2>3, VersionTypes DEF OInv, AgeInv
  <1>4. Newer
    BY <1>1, VersionTypes DEF Newer
  <1> QED BY <1>2, <1>3, <1>4 DEF OInv

\* A batch changed since it was read is lost; so is one whose total was marked or
\* written since it was summed, unless that makes no difference.
LEMMA ReconcileCommitOStep ==
  ASSUME IInv, OInv, HolderInv', LockInv, HolderInv, ReconcileCommit
  PROVE  OInv' /\ Newer
  <1> DEFINE R == RollupsAfter  T == reconcile.totalled
  <1>1. /\ reconcile.stage = "tasks" /\ reconcile' = NotReconciling /\ rollup' = R
        /\ total' = [t \in Task |-> IF t \in T THEN reconcile.sums[t] ELSE total[t]]
        /\ \A t \in T : TaskLocked(t) => t \in reconcile.tasks
        /\ UNCHANGED <<facts, stage, job, sum>>
    BY DEF ReconcileCommit, factVars, procVars
  <1>2. /\ lost \subseteq lost'
        /\ \A b \in Batch \ lost' : b \in reconcile.held => reconcile.read[b] = facts[b]
        /\ \A b \in Batch \ lost', t \in T \ reconcile.tasks :
             reconcile.sums[t][b] = Summed(t, R)[b]
    BY DEF ReconcileCommit
  <1>3. \A b \in Batch \ lost' : rollup[b] <= R[b] /\ R[b] <= facts[b]
    BY <1>2, VersionTypes DEF RollupsAfter, OInv, AgeInv
  <1>4. \A t \in Task, b \in Batch \ lost' : total[t][b] # Out => total[t][b] <= R[b]
    BY <1>2, <1>3, VersionTypes DEF OInv, AgeInv
  <1>5. \A t \in T, b \in Batch \ lost' : t \in Task /\ reconcile.sums[t][b] # Out =>
          /\ reconcile.sums[t][b] <= R[b]
          /\ total[t][b] # Out => total[t][b] <= reconcile.sums[t][b]
    <2> SUFFICES ASSUME NEW t \in T, t \in Task, NEW b \in Batch \ lost', reconcile.sums[t][b] # Out
                 PROVE  /\ reconcile.sums[t][b] <= R[b]
                        /\ total[t][b] # Out => total[t][b] <= reconcile.sums[t][b]
      OBVIOUS
    <2>1. CASE t \in reconcile.tasks
      BY <2>1, <1>1, <1>2 DEF OInv, ReconcileAgeInv
    <2>2. CASE t \notin reconcile.tasks
      <3>1. reconcile.sums[t][b] = R[b]
        BY <2>2, <1>2 DEF Summed
      <3> QED BY <3>1, <1>4, VersionTypes
    <2> QED BY <2>1, <2>2
  <1>6. \A t \in Task, b \in Batch \ lost' : total'[t][b] # Out =>
          /\ total'[t][b] <= R[b]
          /\ total[t][b] # Out => total[t][b] <= total'[t][b]
    BY <1>1, <1>4, <1>5, VersionTypes
  <1>7. \A p \in Processor : stage[p] = "task_summed" => job[p] \in Task /\ total'[job[p]] = total[job[p]]
    <2>1. \A p \in Processor : stage[p] = "task_summed" =>
            job[p] \in Task /\ job[p] \notin reconcile.tasks /\ TaskLocked(job[p])
      BY DEF IInv, JobInv, LockInv, TaskLocked
    <2> QED BY <2>1, <1>1
  <1>8. AgeInv'
    <2>1. \A p \in Processor, b \in Batch \ lost' :
            stage[p] = "task_summed" /\ sum[p][b] # Out =>
              /\ sum[p][b] <= R[b]
              /\ total'[job[p]][b] # Out => total'[job[p]][b] <= sum[p][b]
      BY <1>2, <1>3, <1>7, VersionTypes DEF OInv, AgeInv
    <2> QED BY <1>1, <1>3, <1>6, <2>1 DEF AgeInv
  <1>9. ReconcileAgeInv'
    BY <1>1 DEF ReconcileAgeInv, NotReconciling
  <1>10. Newer
    <2>1. \A t \in Task, b \in Batch \ lost' : total[t][b] # Out /\ total'[t][b] # Out =>
            total[t][b] <= total'[t][b] /\ total'[t][b] \in Nat
      BY <1>1, <1>6, VersionTypes
    <2> QED BY <1>1, <1>2, <1>3, <2>1, VersionTypes DEF Newer
  <1> QED BY <1>8, <1>9, <1>10 DEF OInv

LEMMA ReconcileOStep ==
  ASSUME IInv, OInv, HolderInv', HeldInv, LockInv, Reconcile
  PROVE  OInv' /\ Newer
  <1> USE DEF procVars, factVars, projVars
  <1>1. CASE ReconcileStart \/ ReconcileFails
    <2>1. reconcile'.stage # "tasks"
      <3>1. ReconcileStart => reconcile'.stage = "batches"
        BY DEF ReconcileStart, NotReconciling
      <3>2. ReconcileFails => reconcile'.stage = "idle"
        BY DEF ReconcileFails, NotReconciling
      <3> QED BY <1>1, <3>1, <3>2
    <2> QED BY VersionTypes, AgeKeeps, <1>1, <2>1 DEF ReconcileStart, ReconcileFails
  <1>2. ASSUME NEW b \in Batch, ReconcileRead(b)
        PROVE  OInv' /\ Newer
    <2>1. reconcile.stage # "tasks"
      BY <1>2 DEF ReconcileRead, HeldInv
    <2> QED BY VersionTypes, AgeKeeps, <1>2, <2>1 DEF ReconcileRead, IInv, TypeOK
  <1>3. CASE ReconcileWrite
    <2>1. reconcile.stage # "tasks"
      BY <1>3 DEF ReconcileWrite, HeldInv
    <2> QED BY VersionTypes, AgeKeeps, <1>3, <2>1 DEF ReconcileWrite, IInv, TypeOK
  <1> QED
    BY <1>1, <1>2, <1>3, ReconcileSumOStep, ReconcileCommitOStep DEF Reconcile, OInv

LEMMA NextOStep ==
  ASSUME IInv, TInv, OInv, [Next]_vars
  PROVE  OInv' /\ Newer
  <1>1. HolderInv' /\ LockInv /\ HeldInv
    BY HolderStep DEF TInv, OInv
  <1>2. CASE Write
    BY <1>1, <1>2, WriteOStep
  <1>3. CASE \E p \in Processor : Process(p)
    BY <1>1, <1>3, MarkOStep, CommitBatchOStep, SumTaskOStep, CommitTaskOStep
  <1>4. CASE Reconcile
    BY <1>1, <1>4, ReconcileOStep
  <1>5. CASE UNCHANGED vars
    BY <1>1, <1>5, VersionTypes, AgeKeeps DEF vars, factVars, projVars, procVars
  <1> QED BY <1>2, <1>3, <1>4, <1>5 DEF Next

\* NeverOlder: whatever a late processor or an overtaken reconciliation read, it
\* does not put an older version over a newer one, except for the batches that a
\* rereview, a second move or a reconciliation lost.
THEOREM NewerStays == Spec => NeverOlder
  <1>1. Init => OInv
    BY InitOInv
  <1>2. IInv /\ TInv /\ OInv /\ [Next]_vars => OInv' /\ [Newer]_vars
    BY NextOStep
  <1>3. NeverOlder <=> [][Newer]_vars
    BY PTL DEF NeverOlder, Newer
  <1> QED BY <1>1, <1>2, <1>3, Invariance, TotalsInvariance, PTL DEF Spec
=============================================================================
