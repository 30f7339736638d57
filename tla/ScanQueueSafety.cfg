CONSTANTS
  Job = {j1, j2}
  Prefix = {p1}
  Worker = {w1, w2}
  MaxAttempts = 2
  MaxConfirm = 1
  MaxRetries = 1
  Modes = {"full", "smart", "manual_prefix"}
  Root = Root
  NoJob = NoJob
  NoWorker = NoWorker
  NoShard = NoShard
SPECIFICATION Spec
SYMMETRY Symmetry
CONSTRAINT Small
INVARIANTS
  TypeOK
  EndedJobIsQuiet
  PublishedByLatestClaim
  OneActiveJob
  GivenUpAfterAllAttempts
PROPERTIES
  ClaimEndedByItsOwner
  CancelledJobDoesNoWork
  QueueIsLeasedWork
