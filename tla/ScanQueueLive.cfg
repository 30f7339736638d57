CONSTANTS
  Job = {j1}
  Prefix = {p1}
  Worker = {w1, w2}
  MaxAttempts = 2
  MaxConfirm = 0
  MaxRetries = 1
  Modes = {"full"}
  Root = Root
  NoJob = NoJob
  NoWorker = NoWorker
  NoShard = NoShard
SPECIFICATION FairSpec
PROPERTIES
  UncancelledJobEnds
  CancelEndsOrStrands
