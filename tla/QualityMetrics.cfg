SPECIFICATION Spec
CONSTANTS
  SoftMotion = 20
  SoftLearn = 20
  SoftData = 40
  WeightMotion = 40
  WeightLearn = 40
  WeightData = 20
  MetricBad = 300
  MetricWarn = 500
  CapStrict = 300
  CapModerate = 600
  LevelGood = 750
  LevelWarn = 500
  Aspect <- Aspects
  Reading <- Readings
  MaxFrames <- Bounds
  Header <- Headers
  MinFrames = 3
  LagRatio = 2
  WarnMultiple = 2
INVARIANTS TypeOK IntegrityCaps TimelineShowsTheFlags SyncPenaltyIsShown
PROPERTIES WorseNeverScoresHigher
CHECK_DEADLOCK FALSE
