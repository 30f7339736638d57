---------------------------- MODULE QualityScore ----------------------------
(***************************************************************************)
(* How the training quality of an episode is fused from the scores of its   *)
(* metrics.  A score is counted in hundredths of a point, from 0 to Ten;    *)
(* a ratio in parts of Whole.  Quotients are rounded down where the code    *)
(* computes with floating point and rounds a dimension's score to two       *)
(* decimals.  The parameters are those that an administrator may set.       *)
(***************************************************************************)
EXTENDS Integers

CONSTANTS
  SoftMotion, SoftLearn, SoftData,        \* share of the worst metric in its dimension, in percent
  WeightMotion, WeightLearn, WeightData,  \* weights of the dimensions, in percent
  MetricBad, MetricWarn,                  \* below these an integrity metric caps the total
  CapStrict, CapModerate,                 \* the caps
  LevelGood, LevelWarn                    \* where the levels begin

Ten == 1000
Half == 500
Whole == 10000

\* The parameters are saved as they are entered; these hold of the default ones.
ASSUME ParametersAssumption ==
  /\ SoftMotion \in 0..100 /\ SoftLearn \in 0..100 /\ SoftData \in 0..100
  /\ WeightMotion \in Nat /\ WeightLearn \in Nat /\ WeightData \in Nat
  /\ WeightMotion + WeightLearn + WeightData = 100
  /\ MetricBad \in 0..Ten /\ MetricWarn \in 0..Ten /\ MetricBad <= MetricWarn
  /\ CapStrict \in 0..Ten /\ CapModerate \in 0..Ten /\ CapStrict <= CapModerate
  /\ LevelGood \in 0..Ten /\ LevelWarn \in 0..Ten

Motion == {"MQ01", "MQ02", "MQ03"}
Learnability == {"LQ01", "LQ02", "LQ03"}
Integrity == {"DI01", "DI02", "DI03", "DI04"}
Metric == Motion \cup Learnability \cup Integrity

Lesser(a, b) == IF a <= b THEN a ELSE b
Greater(a, b) == IF a >= b THEN a ELSE b

Clamp(v) == Greater(0, Lesser(Ten, v))

Level(s) == IF s >= LevelGood THEN "good" ELSE IF s >= LevelWarn THEN "warn" ELSE "bad"

\* Lower is better: full marks up to good, half at warn, none from bad on.
ScoreInverse(v, good, warn, bad) ==
  IF v <= good THEN Ten
  ELSE IF v >= bad THEN 0
  ELSE IF v <= warn THEN Ten - (Half * (v - good)) \div (warn - good)
  ELSE Half - (Half * (v - warn)) \div (bad - warn)

\* Higher is better.
ScoreRatio(v, good, warn, bad) ==
  IF v >= good THEN Ten
  ELSE IF v <= bad THEN 0
  ELSE IF v >= warn THEN Half + (Half * (v - warn)) \div (good - warn)
  ELSE (Half * (v - bad)) \div (warn - bad)

\* The mean of n scores, mixed with the least of them.
SoftMin(share, n, sum, least) ==
  ((100 - share) * sum + share * n * least) \div (100 * n)

MotionScore(s) ==
  SoftMin(SoftMotion, 3, s.MQ01 + s.MQ02 + s.MQ03,
          Lesser(s.MQ01, Lesser(s.MQ02, s.MQ03)))

LearnScore(s) ==
  SoftMin(SoftLearn, 3, s.LQ01 + s.LQ02 + s.LQ03,
          Lesser(s.LQ01, Lesser(s.LQ02, s.LQ03)))

\* A metric of weight 0 counts here as any other: the weights are the evidence groups'.
WorstIntegrity(s) ==
  Lesser(Lesser(s.DI01, s.DI02), Lesser(s.DI03, s.DI04))

DataScore(s) ==
  SoftMin(SoftData, 4, s.DI01 + s.DI02 + s.DI03 + s.DI04, WorstIntegrity(s))

Weighted(s) ==
  (WeightMotion * MotionScore(s) + WeightLearn * LearnScore(s) + WeightData * DataScore(s))
    \div 100

\* Seeded defect: it is the dimension's score that is held against the thresholds.
TotalByDimension(s) ==
  IF DataScore(s) < MetricBad THEN Lesser(Weighted(s), CapStrict)
  ELSE IF DataScore(s) < MetricWarn THEN Lesser(Weighted(s), CapModerate)
  ELSE Weighted(s)

\* The training quality score: one failing integrity metric caps it, whatever the rest.
Total(s) ==
  IF WorstIntegrity(s) < MetricBad THEN Lesser(Weighted(s), CapStrict)
  ELSE IF WorstIntegrity(s) < MetricWarn THEN Lesser(Weighted(s), CapModerate)
  ELSE Weighted(s)

\* The warnings of the report.
Warnings(s) ==
  {w \in {"sync", "timestamps", "capped", "strictly capped"} :
     \/ w = "sync" /\ Level(s.DI02) = "bad"
     \/ w = "timestamps" /\ Level(s.DI01) = "bad"
     \/ w = "capped" /\ WorstIntegrity(s) < MetricWarn
     \/ w = "strictly capped" /\ WorstIntegrity(s) < MetricBad}
=============================================================================
