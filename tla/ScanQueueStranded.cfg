CONSTANTS
  Job = {j1}
  Prefix = {p1}
  Worker = {w1}
  MaxAttempts = 2
  MaxConfirm = 0
  MaxRetries = 0
  Modes = {"full"}
  Root = Root
  NoJob = NoJob
  NoWorker = NoWorker
  NoShard = NoShard
SPECIFICATION FairSpec
PROPERTIES
  EveryJobEnds
