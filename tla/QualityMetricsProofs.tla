------------------------ MODULE QualityMetricsProofs ------------------------
(***************************************************************************)
(* What holds of every report, for every recording of any length, clock and *)
(* norms and for every setting of the parameters that the assumptions       *)
(* allow.  In this order: the scores of readings and their fusion; order    *)
(* statistics and percentiles; stretches joined to segments, the time in    *)
(* them and the runs of flags they come from; then, of the engine, that the *)
(* scores are in range, that the timeline shows the flags, that a deduction *)
(* is explained, and that worse telemetry never scores better.              *)
(***************************************************************************)
EXTENDS QualityMetrics, Counting, TLAPS

\* A share of half a score: how far x is on the way to d.
LEMMA HalfShare ==
  ASSUME NEW d \in Nat \ {0}, NEW x \in 0..d
  PROVE  (Half * x) \div d \in 0..Half
<1>1. Half * x \in Int /\ Half * d \in Int /\ 0 <= Half * x /\ Half * x <= Half * d
  BY DEF Half
<1>2. 0 \div d <= (Half * x) \div d
  BY <1>1, QuotientMonotone
<1>3. (Half * x) \div d <= (Half * d) \div d
  BY <1>1, QuotientMonotone
<1>4. 0 \div d = 0 /\ (Half * d) \div d = Half
  BY QuotientOfMultiple DEF Half
<1>5. (Half * x) \div d \in Int
  BY <1>1
<1> QED
  BY <1>2, <1>3, <1>4, <1>5 DEF Half

\* The further on the way, the larger the share.
LEMMA HalfShareMonotone ==
  ASSUME NEW d \in Nat \ {0}, NEW x \in 0..d, NEW y \in 0..d, x <= y
  PROVE  (Half * x) \div d <= (Half * y) \div d
<1>1. Half * x \in Int /\ Half * y \in Int /\ Half * x <= Half * y
  BY DEF Half
<1> QED
  BY <1>1, QuotientMonotone

\* score_inverse: a score between 0 and Ten, whatever the reading.
THEOREM InverseInRange ==
  ASSUME NEW good \in Int, NEW warn \in Int, NEW bad \in Int, good <= warn, warn <= bad,
         NEW v \in Int
  PROVE  ScoreInverse(v, good, warn, bad) \in 0..Ten
<1>1. CASE v <= good \/ v >= bad
  BY <1>1 DEF ScoreInverse, Ten
<1>2. CASE good < v /\ v < bad /\ v <= warn
  <2>1. warn - good \in Nat \ {0} /\ v - good \in 0..(warn - good)
    BY <1>2
  <2>2. (Half * (v - good)) \div (warn - good) \in 0..Half
    BY <2>1, HalfShare
  <2> QED
    BY <1>2, <2>2 DEF ScoreInverse, Ten, Half
<1>3. CASE good < v /\ v < bad /\ warn < v
  <2>1. bad - warn \in Nat \ {0} /\ v - warn \in 0..(bad - warn)
    BY <1>3
  <2>2. (Half * (v - warn)) \div (bad - warn) \in 0..Half
    BY <2>1, HalfShare
  <2>3. ScoreInverse(v, good, warn, bad) = Half - (Half * (v - warn)) \div (bad - warn)
    BY <1>3 DEF ScoreInverse
  <2> DEFINE x == (Half * (v - warn)) \div (bad - warn)
  <2> HIDE DEF x
  <2>4. Half - x \in 0..Half /\ x = (Half * (v - warn)) \div (bad - warn)
    BY <2>2 DEF Half, x
  <2> QED
    BY <2>3, <2>4 DEF Ten, Half
<1> QED
  BY <1>1, <1>2, <1>3

\* score_inverse: a worse reading never scores higher.
THEOREM InverseAntitone ==
  ASSUME NEW good \in Int, NEW warn \in Int, NEW bad \in Int, good <= warn, warn <= bad,
         NEW v \in Int, NEW w \in Int, v <= w
  PROVE  ScoreInverse(w, good, warn, bad) <= ScoreInverse(v, good, warn, bad)
<1>1. /\ ScoreInverse(v, good, warn, bad) \in 0..Ten
      /\ ScoreInverse(w, good, warn, bad) \in 0..Ten
  BY InverseInRange
<1>2. CASE v <= good
  <2>1. ScoreInverse(v, good, warn, bad) = Ten
    BY <1>2 DEF ScoreInverse
  <2> QED
    BY <1>1, <2>1 DEF Ten
<1>3. CASE good < v /\ w >= bad
  <2>1. ScoreInverse(w, good, warn, bad) = 0
    BY <1>3 DEF ScoreInverse
  <2> QED
    BY <1>1, <2>1 DEF Ten
<1>4. CASE good < v /\ w < bad /\ w <= warn
  <2> DEFINE p == (Half * (v - good)) \div (warn - good)
  <2> DEFINE q == (Half * (w - good)) \div (warn - good)
  <2>1. /\ warn - good \in Nat \ {0}
        /\ v - good \in 0..(warn - good) /\ w - good \in 0..(warn - good)
        /\ v - good <= w - good
    BY <1>4
  <2>2. p <= q
    BY <2>1, HalfShareMonotone
  <2>3. /\ p \in 0..Half
        /\ q \in 0..Half
    BY <2>1, HalfShare
  <2>4. /\ ScoreInverse(v, good, warn, bad) = Ten - p
        /\ ScoreInverse(w, good, warn, bad) = Ten - q
    BY <1>4 DEF ScoreInverse
  <2> HIDE DEF p, q
  <2> QED
    BY <2>2, <2>3, <2>4 DEF Ten, Half
<1>5. CASE good < v /\ w < bad /\ warn < w /\ v <= warn
  <2> DEFINE p == (Half * (v - good)) \div (warn - good)
  <2> DEFINE q == (Half * (w - warn)) \div (bad - warn)
  <2>1. /\ warn - good \in Nat \ {0} /\ v - good \in 0..(warn - good)
        /\ bad - warn \in Nat \ {0} /\ w - warn \in 0..(bad - warn)
    BY <1>5
  <2>2. /\ p \in 0..Half
        /\ q \in 0..Half
    BY <2>1, HalfShare
  <2>3. /\ ScoreInverse(v, good, warn, bad) = Ten - p
        /\ ScoreInverse(w, good, warn, bad) = Half - q
    BY <1>5 DEF ScoreInverse
  <2> HIDE DEF p, q
  <2> QED
    BY <2>2, <2>3 DEF Ten, Half
<1>6. CASE good < v /\ w < bad /\ warn < v
  <2> DEFINE p == (Half * (v - warn)) \div (bad - warn)
  <2> DEFINE q == (Half * (w - warn)) \div (bad - warn)
  <2>1. /\ bad - warn \in Nat \ {0}
        /\ v - warn \in 0..(bad - warn) /\ w - warn \in 0..(bad - warn)
        /\ v - warn <= w - warn
    BY <1>6
  <2>2. p <= q
    BY <2>1, HalfShareMonotone
  <2>3. /\ p \in 0..Half
        /\ q \in 0..Half
    BY <2>1, HalfShare
  <2>4. /\ ScoreInverse(v, good, warn, bad) = Half - p
        /\ ScoreInverse(w, good, warn, bad) = Half - q
    BY <1>6 DEF ScoreInverse
  <2> HIDE DEF p, q
  <2> QED
    BY <2>2, <2>3, <2>4 DEF Half
<1> QED
  BY <1>2, <1>3, <1>4, <1>5, <1>6

-----------------------------------------------------------------------------
\* The mixture of mean and least grows with both.
LEMMA SoftMinMonotone ==
  ASSUME NEW share \in 0..100, NEW size \in Nat \ {0},
         NEW a \in Int, NEW b \in Int, a <= b, NEW l \in Int, NEW m \in Int, l <= m
  PROVE  /\ SoftMin(share, size, a, l) \in Int /\ SoftMin(share, size, b, m) \in Int
         /\ SoftMin(share, size, a, l) <= SoftMin(share, size, b, m)
<1> DEFINE x == (100 - share) * a + share * size * l
<1> DEFINE y == (100 - share) * b + share * size * m
<1>1. (100 - share) * a \in Int /\ (100 - share) * b \in Int
      /\ (100 - share) * a <= (100 - share) * b
  <2>1. 100 - share \in Nat
    OBVIOUS
  <2> QED
    BY <2>1, ProductMonotone
<1>2. share * size * l \in Int /\ share * size * m \in Int /\ share * size * l <= share * size * m
  <2>1. share * size \in Nat
    OBVIOUS
  <2> QED
    BY <2>1, ProductMonotone
<1>3. x \in Int /\ y \in Int /\ x <= y
  BY <1>1, <1>2
<1>4. 100 * size \in Nat \ {0}
  OBVIOUS
<1>5. x \div (100 * size) \in Int /\ y \div (100 * size) \in Int
      /\ x \div (100 * size) <= y \div (100 * size)
  <2> HIDE DEF x, y
  <2> QED
    BY <1>3, <1>4, QuotientMonotone
<1> QED
  BY <1>5 DEF SoftMin

\* Of scores in range it is in range.
LEMMA SoftMinInRange ==
  ASSUME NEW share \in 0..100, NEW size \in Nat \ {0},
         NEW a \in 0..(size * Ten), NEW l \in 0..Ten
  PROVE  SoftMin(share, size, a, l) \in 0..Ten
<1>1. 100 * size \in Nat \ {0} /\ size * Ten \in Int /\ Ten \in Int
  BY DEF Ten
<1>2. SoftMin(share, size, 0, 0) = 0
  <2>1. (100 - share) * 0 + share * size * 0 = 0 * (100 * size)
    OBVIOUS
  <2> QED
    BY <1>1, <2>1, QuotientOfMultiple DEF SoftMin
<1>3. SoftMin(share, size, size * Ten, Ten) = Ten
  <2>1. (100 - share) * (size * Ten) + share * size * Ten = Ten * (100 * size)
    BY DEF Ten
  <2>2. (Ten * (100 * size)) \div (100 * size) = Ten
    BY <1>1, QuotientOfMultiple
  <2> QED
    BY <2>1, <2>2 DEF SoftMin
<1>4. a \in Int /\ l \in Int /\ 0 <= a /\ a <= size * Ten /\ 0 <= l /\ l <= Ten
  BY <1>1
<1>5. /\ SoftMin(share, size, a, l) \in Int
      /\ SoftMin(share, size, 0, 0) <= SoftMin(share, size, a, l)
  <2>1. PICK z \in Int : z = 0
    OBVIOUS
  <2>2. z <= a /\ z <= l
    BY <1>4, <2>1
  <2>3. /\ SoftMin(share, size, a, l) \in Int
        /\ SoftMin(share, size, z, z) <= SoftMin(share, size, a, l)
    BY <1>4, <2>2, SoftMinMonotone
  <2> QED
    BY <2>1, <2>3
<1>6. SoftMin(share, size, a, l) <= SoftMin(share, size, size * Ten, Ten)
  BY <1>1, <1>4, SoftMinMonotone
<1> QED
  BY <1>1, <1>2, <1>3, <1>5, <1>6

Scoring == [Metric -> 0..Ten]

\* A score is a number.
LEMMA ScoreIsInt == ASSUME NEW x \in 0..Ten PROVE x \in Int
  BY DEF Ten

\* A hundredth of a hundred scores is a score.
LEMMA HundredthInRange ==
  ASSUME NEW x \in 0..(100 * Ten)
  PROVE  x \in Int /\ x \div 100 \in 0..Ten
<1>1. /\ x \in Int /\ 0 <= x /\ x <= Ten * 100
      /\ Ten * 100 \in Int /\ Ten \in Int
  <2>1. 100 * Ten = 100000 /\ Ten * 100 = 100000 /\ Ten \in Int
    BY DEF Ten
  <2> QED BY <2>1
<1>2. x \div 100 \in Int /\ 0 <= x \div 100
  BY <1>1
<1>3. x \div 100 <= (Ten * 100) \div 100
  BY <1>1, QuotientMonotone
<1>4. (Ten * 100) \div 100 = Ten
  BY <1>1, QuotientOfMultiple
<1>5. \A y \in Int : 0 <= y /\ y <= Ten => y \in 0..Ten
  BY <1>1
<1> QED
  BY <1>1, <1>2, <1>3, <1>4, <1>5

\* The lesser of two, and what it keeps.
LEMMA LesserFacts ==
  ASSUME NEW a \in 0..Ten, NEW b \in 0..Ten
  PROVE  Lesser(a, b) \in 0..Ten /\ Lesser(a, b) <= a /\ Lesser(a, b) <= b
  BY DEF Lesser, Ten

\* The lesser of two grows with both.
LEMMA LesserMonotone ==
  ASSUME NEW a \in 0..Ten, NEW b \in 0..Ten, NEW c \in 0..Ten, NEW d \in 0..Ten,
         a <= c, b <= d
  PROVE  Lesser(a, b) <= Lesser(c, d)
  BY DEF Lesser, Ten

\* Sums of three and of four scores.
LEMMA SumOfThree ==
  ASSUME NEW a \in 0..Ten, NEW b \in 0..Ten, NEW c \in 0..Ten
  PROVE  a + b + c \in 0..(3 * Ten)
  BY DEF Ten

LEMMA SumOfFour ==
  ASSUME NEW a \in 0..Ten, NEW b \in 0..Ten, NEW c \in 0..Ten, NEW d \in 0..Ten
  PROVE  a + b + c + d \in 0..(4 * Ten)
  BY DEF Ten

\* The scores of the dimensions are in range, and so is the worst integrity metric.
LEMMA DimensionsInRange ==
  ASSUME NEW s \in Scoring
  PROVE  /\ MotionScore(s) \in 0..Ten /\ LearnScore(s) \in 0..Ten
         /\ DataScore(s) \in 0..Ten /\ WorstIntegrity(s) \in 0..Ten
<1>1. \A m \in Metric : s[m] \in 0..Ten
  BY DEF Scoring
<1>2. /\ s.MQ01 \in 0..Ten /\ s.MQ02 \in 0..Ten /\ s.MQ03 \in 0..Ten
      /\ s.LQ01 \in 0..Ten /\ s.LQ02 \in 0..Ten /\ s.LQ03 \in 0..Ten
      /\ s.DI01 \in 0..Ten /\ s.DI02 \in 0..Ten /\ s.DI03 \in 0..Ten /\ s.DI04 \in 0..Ten
  BY <1>1 DEF Metric, Motion, Learnability, Integrity
<1>3. MotionScore(s) \in 0..Ten
  <2>1. /\ s.MQ01 + s.MQ02 + s.MQ03 \in 0..(3 * Ten)
        /\ Lesser(s.MQ01, Lesser(s.MQ02, s.MQ03)) \in 0..Ten
    BY <1>2, SumOfThree, LesserFacts
  <2>2. 3 \in Nat \ {0} /\ SoftMotion \in 0..100
    BY ParametersAssumption
  <2> QED
    BY <2>1, <2>2, SoftMinInRange DEF MotionScore
<1>4. LearnScore(s) \in 0..Ten
  <2>1. /\ s.LQ01 + s.LQ02 + s.LQ03 \in 0..(3 * Ten)
        /\ Lesser(s.LQ01, Lesser(s.LQ02, s.LQ03)) \in 0..Ten
    BY <1>2, SumOfThree, LesserFacts
  <2>2. 3 \in Nat \ {0} /\ SoftLearn \in 0..100
    BY ParametersAssumption
  <2> QED
    BY <2>1, <2>2, SoftMinInRange DEF LearnScore
<1>5. WorstIntegrity(s) \in 0..Ten
  BY <1>2, LesserFacts DEF WorstIntegrity
<1>6. DataScore(s) \in 0..Ten
  <2>1. s.DI01 + s.DI02 + s.DI03 + s.DI04 \in 0..(4 * Ten)
    BY <1>2, SumOfFour
  <2>2. 4 \in Nat \ {0} /\ SoftData \in 0..100
    BY ParametersAssumption
  <2> QED
    BY <2>1, <2>2, <1>5, SoftMinInRange DEF DataScore
<1> QED
  BY <1>3, <1>4, <1>5, <1>6

\* Sums grow with their terms.
LEMMA SumOfThreeMonotone ==
  ASSUME NEW a \in 0..Ten, NEW b \in 0..Ten, NEW c \in 0..Ten,
         NEW x \in 0..Ten, NEW y \in 0..Ten, NEW z \in 0..Ten, a <= x, b <= y, c <= z
  PROVE  a + b + c \in Int /\ x + y + z \in Int /\ a + b + c <= x + y + z
  BY DEF Ten

NowhereHigher(s, u) == \A m \in Metric : s[m] <= u[m]

\* Every dimension's score grows with the scores of its metrics.
LEMMA DimensionsMonotone ==
  ASSUME NEW s \in Scoring, NEW u \in Scoring, NowhereHigher(s, u)
  PROVE  /\ MotionScore(s) <= MotionScore(u) /\ LearnScore(s) <= LearnScore(u)
         /\ DataScore(s) <= DataScore(u) /\ WorstIntegrity(s) <= WorstIntegrity(u)
<1>1. \A m \in Metric : s[m] \in 0..Ten /\ u[m] \in 0..Ten /\ s[m] <= u[m]
  BY DEF Scoring, NowhereHigher
<1>2. /\ s.MQ01 \in 0..Ten /\ u.MQ01 \in 0..Ten /\ s.MQ01 <= u.MQ01
      /\ s.MQ02 \in 0..Ten /\ u.MQ02 \in 0..Ten /\ s.MQ02 <= u.MQ02
      /\ s.MQ03 \in 0..Ten /\ u.MQ03 \in 0..Ten /\ s.MQ03 <= u.MQ03
  BY <1>1 DEF Metric, Motion
<1>3. /\ s.LQ01 \in 0..Ten /\ u.LQ01 \in 0..Ten /\ s.LQ01 <= u.LQ01
      /\ s.LQ02 \in 0..Ten /\ u.LQ02 \in 0..Ten /\ s.LQ02 <= u.LQ02
      /\ s.LQ03 \in 0..Ten /\ u.LQ03 \in 0..Ten /\ s.LQ03 <= u.LQ03
  BY <1>1 DEF Metric, Learnability
<1>4. /\ s.DI01 \in 0..Ten /\ u.DI01 \in 0..Ten /\ s.DI01 <= u.DI01
      /\ s.DI02 \in 0..Ten /\ u.DI02 \in 0..Ten /\ s.DI02 <= u.DI02
      /\ s.DI03 \in 0..Ten /\ u.DI03 \in 0..Ten /\ s.DI03 <= u.DI03
      /\ s.DI04 \in 0..Ten /\ u.DI04 \in 0..Ten /\ s.DI04 <= u.DI04
  BY <1>1 DEF Metric, Integrity
<1>5. MotionScore(s) <= MotionScore(u)
  <2> DEFINE least(t) == Lesser(t.MQ01, Lesser(t.MQ02, t.MQ03))
  <2>1. /\ Lesser(s.MQ02, s.MQ03) \in 0..Ten /\ Lesser(u.MQ02, u.MQ03) \in 0..Ten
        /\ Lesser(s.MQ02, s.MQ03) <= Lesser(u.MQ02, u.MQ03)
    BY <1>2, LesserFacts, LesserMonotone
  <2>2. /\ least(s) \in 0..Ten /\ least(u) \in 0..Ten /\ least(s) <= least(u)
    BY <1>2, <2>1, LesserFacts, LesserMonotone
  <2>3. /\ s.MQ01 + s.MQ02 + s.MQ03 \in Int /\ u.MQ01 + u.MQ02 + u.MQ03 \in Int
        /\ s.MQ01 + s.MQ02 + s.MQ03 <= u.MQ01 + u.MQ02 + u.MQ03
    BY <1>2, SumOfThreeMonotone
  <2>4. 3 \in Nat \ {0} /\ SoftMotion \in 0..100 /\ least(s) \in Int /\ least(u) \in Int
    BY <2>2, ParametersAssumption, ScoreIsInt
  <2> QED
    BY <2>2, <2>3, <2>4, SoftMinMonotone DEF MotionScore
<1>6. LearnScore(s) <= LearnScore(u)
  <2> DEFINE least(t) == Lesser(t.LQ01, Lesser(t.LQ02, t.LQ03))
  <2>1. /\ Lesser(s.LQ02, s.LQ03) \in 0..Ten /\ Lesser(u.LQ02, u.LQ03) \in 0..Ten
        /\ Lesser(s.LQ02, s.LQ03) <= Lesser(u.LQ02, u.LQ03)
    BY <1>3, LesserFacts, LesserMonotone
  <2>2. /\ least(s) \in 0..Ten /\ least(u) \in 0..Ten /\ least(s) <= least(u)
    BY <1>3, <2>1, LesserFacts, LesserMonotone
  <2>3. /\ s.LQ01 + s.LQ02 + s.LQ03 \in Int /\ u.LQ01 + u.LQ02 + u.LQ03 \in Int
        /\ s.LQ01 + s.LQ02 + s.LQ03 <= u.LQ01 + u.LQ02 + u.LQ03
    BY <1>3, SumOfThreeMonotone
  <2>4. 3 \in Nat \ {0} /\ SoftLearn \in 0..100 /\ least(s) \in Int /\ least(u) \in Int
    BY <2>2, ParametersAssumption, ScoreIsInt
  <2> QED
    BY <2>2, <2>3, <2>4, SoftMinMonotone DEF LearnScore
<1>7. WorstIntegrity(s) <= WorstIntegrity(u)
  <2>1. /\ Lesser(s.DI01, s.DI02) \in 0..Ten /\ Lesser(u.DI01, u.DI02) \in 0..Ten
        /\ Lesser(s.DI03, s.DI04) \in 0..Ten /\ Lesser(u.DI03, u.DI04) \in 0..Ten
    BY <1>4, LesserFacts
  <2>2. /\ Lesser(s.DI01, s.DI02) <= Lesser(u.DI01, u.DI02)
        /\ Lesser(s.DI03, s.DI04) <= Lesser(u.DI03, u.DI04)
    BY <1>4, LesserMonotone
  <2> QED
    BY <2>1, <2>2, LesserMonotone DEF WorstIntegrity
<1>8. DataScore(s) <= DataScore(u)
  <2>1. s.DI01 + s.DI02 + s.DI03 \in Int /\ u.DI01 + u.DI02 + u.DI03 \in Int
        /\ s.DI01 + s.DI02 + s.DI03 <= u.DI01 + u.DI02 + u.DI03
    BY <1>4, SumOfThreeMonotone
  <2>2. /\ s.DI01 + s.DI02 + s.DI03 + s.DI04 \in Int /\ u.DI01 + u.DI02 + u.DI03 + u.DI04 \in Int
        /\ s.DI01 + s.DI02 + s.DI03 + s.DI04 <= u.DI01 + u.DI02 + u.DI03 + u.DI04
    <3> DEFINE x == s.DI01 + s.DI02 + s.DI03
    <3> DEFINE y == u.DI01 + u.DI02 + u.DI03
    <3>1. s.DI04 \in Int /\ u.DI04 \in Int /\ s.DI04 <= u.DI04
      BY <1>4, ScoreIsInt
    <3>2. x \in Int /\ y \in Int /\ x <= y
      BY <2>1
    <3> HIDE DEF x, y
    <3>3. x + s.DI04 \in Int /\ y + u.DI04 \in Int /\ x + s.DI04 <= y + u.DI04
      BY <3>1, <3>2
    <3> QED
      BY <3>3 DEF x, y
  <2>3. 4 \in Nat \ {0} /\ SoftData \in 0..100
        /\ WorstIntegrity(s) \in Int /\ WorstIntegrity(u) \in Int
    BY DimensionsInRange, ParametersAssumption, ScoreIsInt
  <2> QED
    BY <2>2, <2>3, <1>7, SoftMinMonotone DEF DataScore
<1> QED
  BY <1>5, <1>6, <1>7, <1>8

\* The weighted mean of three scores is a score.
LEMMA WeightedMean ==
  ASSUME NEW a \in 0..Ten, NEW b \in 0..Ten, NEW c \in 0..Ten
  PROVE  /\ WeightMotion * a + WeightLearn * b + WeightData * c \in Int
         /\ (WeightMotion * a + WeightLearn * b + WeightData * c) \div 100 \in 0..Ten
<1>1. /\ WeightMotion \in Nat /\ WeightLearn \in Nat /\ WeightData \in Nat
      /\ WeightMotion + WeightLearn + WeightData = 100
  BY ParametersAssumption
<1>2. /\ WeightMotion * a \in Int /\ 0 <= WeightMotion * a /\ WeightMotion * a <= WeightMotion * Ten
      /\ WeightLearn * b \in Int /\ 0 <= WeightLearn * b /\ WeightLearn * b <= WeightLearn * Ten
      /\ WeightData * c \in Int /\ 0 <= WeightData * c /\ WeightData * c <= WeightData * Ten
  BY <1>1 DEF Ten
<1>3. WeightMotion * Ten + WeightLearn * Ten + WeightData * Ten = 100 * Ten
  BY <1>1 DEF Ten
<1> DEFINE x == WeightMotion * a
<1> DEFINE y == WeightLearn * b
<1> DEFINE z == WeightData * c
<1>4. x + y + z \in 0..(100 * Ten)
  <2> DEFINE p == WeightMotion * Ten
  <2> DEFINE q == WeightLearn * Ten
  <2> DEFINE r == WeightData * Ten
  <2>1. /\ x \in Int /\ 0 <= x /\ x <= p
        /\ y \in Int /\ 0 <= y /\ y <= q
        /\ z \in Int /\ 0 <= z /\ z <= r
    BY <1>2
  <2>2. p \in Int /\ q \in Int /\ r \in Int /\ p + q + r = 100 * Ten /\ 100 * Ten \in Int
    BY <1>1, <1>3 DEF Ten
  <2> HIDE DEF x, y, z, p, q, r
  <2> QED
    BY <2>1, <2>2
<1>5. x + y + z \in Int /\ (x + y + z) \div 100 \in 0..Ten
  <2> HIDE DEF x, y, z
  <2> QED
    BY <1>4, HundredthInRange
<1> QED
  BY <1>5

\* The weighted mean grows with its terms.
LEMMA WeightedMeanMonotone ==
  ASSUME NEW a \in 0..Ten, NEW b \in 0..Ten, NEW c \in 0..Ten,
         NEW d \in 0..Ten, NEW e \in 0..Ten, NEW f \in 0..Ten, a <= d, b <= e, c <= f
  PROVE  (WeightMotion * a + WeightLearn * b + WeightData * c) \div 100
           <= (WeightMotion * d + WeightLearn * e + WeightData * f) \div 100
<1>1. WeightMotion \in Nat /\ WeightLearn \in Nat /\ WeightData \in Nat
  BY ParametersAssumption
<1>2. /\ WeightMotion * a \in Int /\ WeightMotion * d \in Int /\ WeightMotion * a <= WeightMotion * d
      /\ WeightLearn * b \in Int /\ WeightLearn * e \in Int /\ WeightLearn * b <= WeightLearn * e
      /\ WeightData * c \in Int /\ WeightData * f \in Int /\ WeightData * c <= WeightData * f
  BY <1>1, ProductMonotone DEF Ten
<1>3. /\ WeightMotion * a + WeightLearn * b + WeightData * c \in Int
      /\ WeightMotion * d + WeightLearn * e + WeightData * f \in Int
      /\ WeightMotion * a + WeightLearn * b + WeightData * c
           <= WeightMotion * d + WeightLearn * e + WeightData * f
  BY <1>2
<1>4. 100 \in Nat \ {0}
  OBVIOUS
<1> QED
  BY <1>3, <1>4, QuotientMonotone

-----------------------------------------------------------------------------
\* The weighted score of a report is in range.
LEMMA WeightedInRange ==
  ASSUME NEW s \in Scoring
  PROVE  Weighted(s) \in 0..Ten
  BY DimensionsInRange, WeightedMean DEF Weighted

\* The training quality score is between 0 and Ten (QualityEngine.build_report).
THEOREM TotalInRange ==
  ASSUME NEW s \in Scoring
  PROVE  Total(s) \in 0..Ten
<1>1. Weighted(s) \in 0..Ten /\ CapStrict \in 0..Ten /\ CapModerate \in 0..Ten
  BY WeightedInRange, ParametersAssumption
<1> QED
  BY <1>1, LesserFacts DEF Total

\* One integrity metric below a threshold holds the total down to its cap, whatever the
\* other metrics are and however the weights are set; and the report says so.
THEOREM TotalIsCapped ==
  ASSUME NEW s \in Scoring
  PROVE  /\ \A m \in Integrity : s[m] < MetricBad => Total(s) <= CapStrict
         /\ \A m \in Integrity : s[m] < MetricWarn => Total(s) <= CapModerate
         /\ Total(s) < Weighted(s) => "capped" \in Warnings(s)
<1>1. /\ Weighted(s) \in 0..Ten /\ CapStrict \in 0..Ten /\ CapModerate \in 0..Ten
      /\ WorstIntegrity(s) \in 0..Ten /\ MetricBad \in 0..Ten /\ MetricWarn \in 0..Ten
      /\ MetricBad <= MetricWarn /\ CapStrict <= CapModerate
  BY WeightedInRange, DimensionsInRange, ParametersAssumption
<1>2. \A m \in Integrity : s[m] \in 0..Ten /\ WorstIntegrity(s) <= s[m]
  <2>1. \A m \in Metric : s[m] \in 0..Ten
    BY DEF Scoring
  <2>2. s.DI01 \in 0..Ten /\ s.DI02 \in 0..Ten /\ s.DI03 \in 0..Ten /\ s.DI04 \in 0..Ten
    BY <2>1 DEF Metric, Integrity
  <2>3. /\ WorstIntegrity(s) <= s.DI01 /\ WorstIntegrity(s) <= s.DI02
        /\ WorstIntegrity(s) <= s.DI03 /\ WorstIntegrity(s) <= s.DI04
    <3> DEFINE p == Lesser(s.DI01, s.DI02)
    <3> DEFINE q == Lesser(s.DI03, s.DI04)
    <3>1. /\ p \in 0..Ten /\ p <= s.DI01 /\ p <= s.DI02
          /\ q \in 0..Ten /\ q <= s.DI03 /\ q <= s.DI04
      BY <2>2, LesserFacts
    <3>2. WorstIntegrity(s) = Lesser(p, q)
      BY DEF WorstIntegrity
    <3>3. /\ s.DI01 \in Int /\ s.DI02 \in Int /\ s.DI03 \in Int /\ s.DI04 \in Int
          /\ p \in Int /\ q \in Int
      BY <2>2, <3>1, ScoreIsInt
    <3> HIDE DEF p, q
    <3>4. Lesser(p, q) \in Int /\ Lesser(p, q) <= p /\ Lesser(p, q) <= q
      BY <3>3 DEF Lesser
    <3> QED
      BY <3>1, <3>2, <3>3, <3>4
  <2> QED
    BY <2>2, <2>3 DEF Integrity
<1>3. WorstIntegrity(s) < MetricBad => Total(s) <= CapStrict
  BY <1>1, LesserFacts DEF Total
<1>4. WorstIntegrity(s) < MetricWarn => Total(s) <= CapModerate
  <2>1. CASE WorstIntegrity(s) < MetricBad
    <3>1. Total(s) \in Int /\ CapStrict \in Int /\ CapModerate \in Int
      BY <1>1, TotalInRange, ScoreIsInt
    <3> QED
      BY <1>1, <1>3, <2>1, <3>1
  <2>2. CASE ~(WorstIntegrity(s) < MetricBad)
    BY <1>1, <2>2, LesserFacts DEF Total
  <2> QED
    BY <2>1, <2>2
<1>5. Total(s) < Weighted(s) => "capped" \in Warnings(s)
  <2>1. WorstIntegrity(s) \in Int /\ MetricBad \in Int /\ MetricWarn \in Int /\ Weighted(s) \in Int
    BY <1>1, ScoreIsInt
  <2>2. Total(s) < Weighted(s) => WorstIntegrity(s) < MetricWarn
    BY <1>1, <2>1 DEF Total
  <2> QED
    BY <2>2 DEF Warnings
<1>6. \A m \in Integrity :
        /\ s[m] < MetricBad => WorstIntegrity(s) < MetricBad
        /\ s[m] < MetricWarn => WorstIntegrity(s) < MetricWarn
  <2>1. /\ WorstIntegrity(s) \in Int /\ MetricBad \in Int /\ MetricWarn \in Int
        /\ \A m \in Integrity : s[m] \in Int /\ WorstIntegrity(s) <= s[m]
    BY <1>1, <1>2, ScoreIsInt
  <2> QED
    BY <2>1
<1> QED
  BY <1>3, <1>4, <1>5, <1>6

\* A report none of whose scores is lower has no lower total: neither the worst metric's
\* share nor the caps reward a loss anywhere.
THEOREM TotalIsMonotone ==
  ASSUME NEW s \in Scoring, NEW u \in Scoring, NowhereHigher(s, u)
  PROVE  Total(s) <= Total(u)
<1>1. /\ Weighted(s) \in 0..Ten /\ Weighted(u) \in 0..Ten
      /\ WorstIntegrity(s) \in 0..Ten /\ WorstIntegrity(u) \in 0..Ten
  BY WeightedInRange, DimensionsInRange
<1>2. Weighted(s) <= Weighted(u)
  <2>1. \A x \in {s, u} : /\ MotionScore(x) \in 0..Ten /\ LearnScore(x) \in 0..Ten
                          /\ DataScore(x) \in 0..Ten
    BY DimensionsInRange
  <2>2. /\ MotionScore(s) <= MotionScore(u) /\ LearnScore(s) <= LearnScore(u)
        /\ DataScore(s) <= DataScore(u)
    BY DimensionsMonotone
  <2> QED
    BY <2>1, <2>2, WeightedMeanMonotone DEF Weighted
<1>3. WorstIntegrity(s) <= WorstIntegrity(u)
  BY DimensionsMonotone
<1>4. /\ Weighted(s) \in Int /\ Weighted(u) \in Int
      /\ WorstIntegrity(s) \in Int /\ WorstIntegrity(u) \in Int
      /\ CapStrict \in Int /\ CapModerate \in Int /\ CapStrict <= CapModerate
      /\ MetricBad \in Int /\ MetricWarn \in Int /\ MetricBad <= MetricWarn
  BY <1>1, ParametersAssumption, ScoreIsInt
<1> QED
  BY <1>2, <1>3, <1>4 DEF Total, Lesser

-----------------------------------------------------------------------------
(* Reports.                                                                 *)

\* Whatever the telemetry: if the scores are scores, a failing integrity metric caps the
\* total.
LEMMA ReportIsCapped == score \in [Metric -> 0..Ten] => IntegrityCaps
  BY TotalIsCapped DEF IntegrityCaps, Scoring
-----------------------------------------------------------------------------
(* Percentiles.                                                             *)

Numbers(v) == IsFiniteSet(DOMAIN v) /\ \A i \in DOMAIN v : v[i] \in Int

\* The numbers of v below x, and those up to x.
Below(v, x) == {i \in DOMAIN v : v[i] < x}
UpTo(v, x) == {i \in DOMAIN v : v[i] <= x}

\* They are finitely many, and no more if x is lower.
LEMMA BelowAndUpTo ==
  ASSUME NEW v, Numbers(v), NEW x \in Int
  PROVE  /\ IsFiniteSet(Below(v, x)) /\ Cardinality(Below(v, x)) \in Nat
         /\ IsFiniteSet(UpTo(v, x)) /\ Cardinality(UpTo(v, x)) \in Nat
         /\ Cardinality(UpTo(v, x)) <= Cardinality(DOMAIN v)
<1>1. Below(v, x) \subseteq DOMAIN v /\ UpTo(v, x) \subseteq DOMAIN v
  BY DEF Below, UpTo
<1> QED
  BY <1>1, PartIsSmaller DEF Numbers

IsRanked(v, k, x) ==
  /\ x \in Range(v)
  /\ Cardinality(Below(v, x)) < k
  /\ k <= Cardinality(UpTo(v, x))

\* Among the numbers of v there is a k-th least.
LEMMA SomeIsRanked ==
  ASSUME NEW v, Numbers(v), NEW k \in 1..Cardinality(DOMAIN v)
  PROVE  \E i \in DOMAIN v : IsRanked(v, k, v[i])
<1> DEFINE D == DOMAIN v
           rank == [i \in D |-> Cardinality(UpTo(v, v[i]))]
           Enough == {i \in D : k <= rank[i]}
<1>0. IsFiniteSet(D) /\ Cardinality(D) \in Nat /\ k \in Nat /\ 1 <= k /\ k <= Cardinality(D)
  BY FS_CardinalityType DEF Numbers
<1>1. \A i \in D : v[i] \in Int /\ rank[i] \in Nat
  BY BelowAndUpTo DEF Numbers
<1>2. Enough # {}
  <2>1. D # {}
    BY <1>0, FS_EmptySet
  <2>2. PICK i \in D : \A j \in D : v[j] <= v[i]
    <3> HIDE DEF D
    <3> QED BY <1>0, <1>1, <2>1, Greatest
  <2>3. UpTo(v, v[i]) = D
    BY <2>2 DEF UpTo
  <2>4. i \in Enough
    BY <1>0, <2>3
  <2> QED BY <2>4
<1>3. PICK i \in Enough : \A j \in Enough : rank[i] <= rank[j]
  <2>1. IsFiniteSet(Enough)
    <3>1. Enough \subseteq D
      OBVIOUS
    <3> HIDE DEF Enough, D
    <3> QED BY <1>0, <3>1, PartIsSmaller
  <2>2. \A j \in Enough : rank[j] \in Int
    BY <1>1
  <2> HIDE DEF Enough, rank
  <2> QED BY <1>2, <2>1, <2>2, Least
<1>4. i \in D /\ k <= Cardinality(UpTo(v, v[i])) /\ v[i] \in Int
  BY <1>1
<1>5. ASSUME k <= Cardinality(Below(v, v[i])) PROVE FALSE
  <2>1. /\ IsFiniteSet(Below(v, v[i])) /\ Cardinality(Below(v, v[i])) \in Nat
        /\ Below(v, v[i]) # {}
    BY <1>0, <1>4, <1>5, BelowAndUpTo, FS_EmptySet
  <2>2. \A j \in Below(v, v[i]) : v[j] \in Int
    BY <1>1 DEF Below
  <2>3. PICK j \in Below(v, v[i]) : \A l \in Below(v, v[i]) : v[l] <= v[j]
    BY <2>1, <2>2, Greatest
  <2>4. j \in D /\ v[j] < v[i] /\ v[j] \in Int
    BY <1>1 DEF Below
  <2>5. UpTo(v, v[j]) = Below(v, v[i])
    <3>1. \A l \in DOMAIN v : v[l] \in Int
      BY DEF Numbers
    <3>2. \A l \in DOMAIN v : v[l] < v[i] => v[l] <= v[j]
      BY <2>3 DEF Below
    <3> QED BY <1>4, <2>4, <3>1, <3>2 DEF UpTo, Below
  <2>6. j \in Enough
    BY <1>5, <2>4, <2>5
  <2>7. i \in UpTo(v, v[i]) /\ i \notin UpTo(v, v[j]) /\ UpTo(v, v[j]) \subseteq UpTo(v, v[i])
    <3>1. \A l \in DOMAIN v : v[l] \in Int
      BY DEF Numbers
    <3> QED BY <1>4, <2>4, <3>1 DEF UpTo
  <2>8. rank[j] < rank[i]
    <3>1. Cardinality(UpTo(v, v[j])) < Cardinality(UpTo(v, v[i]))
      BY <1>4, <2>4, <2>7, BelowAndUpTo, ProperPart
    <3> QED BY <1>4, <2>4, <3>1
  <2>9. rank[i] \in Nat /\ rank[j] \in Nat /\ rank[i] <= rank[j]
    <3> HIDE DEF rank
    <3> QED BY <1>1, <1>3, <1>4, <2>4, <2>6
  <2> HIDE DEF rank
  <2> QED BY <2>8, <2>9
<1>6. Cardinality(Below(v, v[i])) < k
  BY <1>0, <1>4, <1>5, BelowAndUpTo
<1> QED
  BY <1>4, <1>6 DEF IsRanked, Range

LEMMA RankedFacts ==
  ASSUME NEW v, Numbers(v), NEW k \in 1..Cardinality(DOMAIN v)
  PROVE  /\ IsRanked(v, k, Ranked(v, k))
         /\ Ranked(v, k) \in Int
         /\ \E i \in DOMAIN v : Ranked(v, k) = v[i]
<1>1. Ranked(v, k) = CHOOSE x \in Range(v) : IsRanked(v, k, x)
  BY DEF Ranked, IsRanked, Below, UpTo
<1>2. \E x \in Range(v) : IsRanked(v, k, x)
  BY SomeIsRanked DEF IsRanked
<1>3. IsRanked(v, k, Ranked(v, k))
  BY <1>1, <1>2
<1> QED
  BY <1>3 DEF IsRanked, Range, Numbers

\* The k-th least of numbers is no more than the l-th least of larger ones, if k <= l.
LEMMA RankedMonotone ==
  ASSUME NEW v, Numbers(v), NEW w, Numbers(w), DOMAIN v = DOMAIN w,
         \A i \in DOMAIN v : v[i] <= w[i],
         NEW k \in 1..Cardinality(DOMAIN v), NEW l \in 1..Cardinality(DOMAIN v), k <= l
  PROVE  Ranked(v, k) <= Ranked(w, l)
<1> DEFINE x == Ranked(v, k)
           y == Ranked(w, l)
<1>1. /\ x \in Int /\ Cardinality(Below(v, x)) < k
      /\ y \in Int /\ l <= Cardinality(UpTo(w, y))
  BY RankedFacts DEF IsRanked
<1> HIDE DEF x, y
<1>2. ASSUME y < x PROVE FALSE
  <2>1. UpTo(w, y) \subseteq Below(v, x)
    BY <1>1, <1>2 DEF UpTo, Below, Numbers
  <2>2. Cardinality(UpTo(w, y)) <= Cardinality(Below(v, x))
    BY <1>1, <2>1, BelowAndUpTo, PartIsSmaller
  <2>3. /\ Cardinality(UpTo(w, y)) \in Nat
        /\ Cardinality(Below(v, x)) \in Nat
    BY <1>1, BelowAndUpTo
  <2>4. k \in Int /\ l \in Int
    OBVIOUS
  <2> QED BY <1>1, <2>2, <2>3, <2>4
<1>3. x <= y
  BY <1>1, <1>2
<1> QED BY <1>3 DEF x, y

\* The two neighbours of a percentile.
LEMMA Neighbours ==
  ASSUME NEW size \in Nat \ {0}, NEW q \in 0..100
  PROVE  LET h == (size - 1) * q
         IN  /\ h \in Nat /\ h % 100 \in 0..99
             /\ h \div 100 + 1 \in 1..size
             /\ Lesser(h \div 100 + 2, size) \in 1..size
             /\ h \div 100 + 1 <= Lesser(h \div 100 + 2, size)
<1> DEFINE h == (size - 1) * q
<1>1. h \in Int /\ 0 <= h /\ h <= (size - 1) * 100
  <2>1. PICK z \in Int : z = 0
    OBVIOUS
  <2>2. size - 1 \in Nat /\ q \in Int /\ 100 \in Int /\ z <= q /\ q <= 100
    BY <2>1
  <2>3. (size - 1) * z <= (size - 1) * q /\ (size - 1) * q <= (size - 1) * 100 /\ (size - 1) * q \in Int
    BY <2>1, <2>2, ProductMonotone
  <2> QED BY <2>1, <2>3
<1> HIDE DEF h
<1>2. h % 100 \in 0..99 /\ h \div 100 \in Nat /\ h \div 100 <= size - 1
  BY <1>1
<1>3. /\ h \in Nat /\ h % 100 \in 0..99
      /\ h \div 100 + 1 \in 1..size
      /\ Lesser(h \div 100 + 2, size) \in 1..size
      /\ h \div 100 + 1 <= Lesser(h \div 100 + 2, size)
  BY <1>1, <1>2 DEF Lesser
<1> QED BY <1>3 DEF h

Between(low, high, r) == ((100 - r) * low + r * high) \div 100

\* What lies between two numbers grows with them, and is no less than the lower one and
\* no more than the higher one.
LEMMA BetweenMonotone ==
  ASSUME NEW a \in Int, NEW b \in Int, NEW c \in Int, NEW d \in Int, a <= c, b <= d,
         NEW r \in 0..99
  PROVE  /\ Between(a, b, r) \in Int /\ Between(c, d, r) \in Int
         /\ Between(a, b, r) <= Between(c, d, r)
<1>1. 100 - r \in Nat /\ r \in Nat
  OBVIOUS
<1>2. /\ (100 - r) * a \in Int /\ (100 - r) * c \in Int /\ (100 - r) * a <= (100 - r) * c
      /\ r * b \in Int /\ r * d \in Int /\ r * b <= r * d
  BY <1>1, ProductMonotone
<1>3. /\ (100 - r) * a + r * b \in Int /\ (100 - r) * c + r * d \in Int
      /\ (100 - r) * a + r * b <= (100 - r) * c + r * d
  BY <1>2
<1> QED
  BY <1>3, QuotientMonotone DEF Between

LEMMA BetweenEqual ==
  ASSUME NEW a \in Int, NEW r \in 0..99
  PROVE  Between(a, a, r) = a
<1>1. (100 - r) * a + r * a = a * 100
  OBVIOUS
<1> QED
  BY <1>1, QuotientOfMultiple DEF Between

\* Where the neighbours of a percentile rank, and how far it is from the lower one.
Lower(v, q) == ((Cardinality(DOMAIN v) - 1) * q) \div 100 + 1
Upper(v, q) == Lesser(((Cardinality(DOMAIN v) - 1) * q) \div 100 + 2, Cardinality(DOMAIN v))
Rest(v, q) == ((Cardinality(DOMAIN v) - 1) * q) % 100

\* A percentile is between two numbers it is taken of.
LEMMA PercentileIsBetween ==
  ASSUME NEW v, Numbers(v), DOMAIN v # {}, NEW q \in 0..100
  PROVE  /\ Lower(v, q) \in 1..Cardinality(DOMAIN v) /\ Ranked(v, Lower(v, q)) \in Int
         /\ Upper(v, q) \in 1..Cardinality(DOMAIN v) /\ Ranked(v, Upper(v, q)) \in Int
         /\ Rest(v, q) \in 0..99
         /\ Percentile(v, q) = Between(Ranked(v, Lower(v, q)), Ranked(v, Upper(v, q)), Rest(v, q))
<1> DEFINE size == Cardinality(DOMAIN v)
<1>1. size \in Nat \ {0}
  BY FS_CardinalityType, FS_EmptySet DEF Numbers
<1>2. Percentile(v, q) = Between(Ranked(v, Lower(v, q)), Ranked(v, Upper(v, q)), Rest(v, q))
  BY <1>1 DEF Percentile, Between, Lower, Upper, Rest
<1>3. /\ Lower(v, q) \in 1..size
      /\ Upper(v, q) \in 1..size
      /\ Rest(v, q) \in 0..99
  <2>1. /\ Lower(v, q) = ((size - 1) * q) \div 100 + 1
        /\ Upper(v, q) = Lesser(((size - 1) * q) \div 100 + 2, size)
        /\ Rest(v, q) = ((size - 1) * q) % 100
    BY DEF Lower, Upper, Rest
  <2> DEFINE h == (size - 1) * q
  <2> HIDE DEF size
  <2>2. /\ h % 100 \in 0..99 /\ h \div 100 + 1 \in 1..size
        /\ Lesser(h \div 100 + 2, size) \in 1..size
    BY <1>1, Neighbours
  <2> HIDE DEF h
  <2>3. /\ Lower(v, q) = h \div 100 + 1 /\ Upper(v, q) = Lesser(h \div 100 + 2, size)
        /\ Rest(v, q) = h % 100
    BY <2>1 DEF h
  <2> QED BY <2>2, <2>3
<1>4. Ranked(v, Lower(v, q)) \in Int /\ Ranked(v, Upper(v, q)) \in Int
  BY <1>3, RankedFacts
<1> QED
  BY <1>2, <1>3, <1>4

\* A percentile is a number within the bounds of those it is taken of.
LEMMA PercentileType ==
  ASSUME NEW v, Numbers(v), NEW q \in 0..100
  PROVE  Percentile(v, q) \in Int
<1>1. CASE DOMAIN v = {}
  BY <1>1, FS_EmptySet DEF Percentile
<1>2. CASE DOMAIN v # {}
  <2>1. PICK x \in Int, y \in Int, r \in 0..99 : Percentile(v, q) = Between(x, y, r)
    BY <1>2, PercentileIsBetween
  <2>2. x <= x /\ y <= y
    OBVIOUS
  <2>3. Between(x, y, r) \in Int
    BY <2>2, BetweenMonotone
  <2> QED BY <2>1, <2>3
<1> QED BY <1>1, <1>2

LEMMA PercentileAtLeast ==
  ASSUME NEW v, Numbers(v), DOMAIN v # {}, NEW q \in 0..100,
         NEW a \in Int, \A i \in DOMAIN v : a <= v[i]
  PROVE  a <= Percentile(v, q)
<1>1. PICK x \in Int, y \in Int, r \in 0..99 :
        Percentile(v, q) = Between(x, y, r) /\ a <= x /\ a <= y
  <2> DEFINE x == Ranked(v, Lower(v, q))
             y == Ranked(v, Upper(v, q))
  <2>1. a <= x
    BY PercentileIsBetween, RankedFacts
  <2>2. a <= y
    BY PercentileIsBetween, RankedFacts
  <2>3. x \in Int /\ y \in Int /\ Rest(v, q) \in 0..99 /\ Percentile(v, q) = Between(x, y, Rest(v, q))
    BY PercentileIsBetween
  <2> HIDE DEF x, y
  <2> QED BY <2>1, <2>2, <2>3
<1>2. Between(a, a, r) <= Between(x, y, r)
  BY <1>1, BetweenMonotone
<1> QED BY <1>1, <1>2, BetweenEqual

LEMMA PercentileAtMost ==
  ASSUME NEW v, Numbers(v), DOMAIN v # {}, NEW q \in 0..100,
         NEW b \in Int, \A i \in DOMAIN v : v[i] <= b
  PROVE  Percentile(v, q) <= b
<1>1. PICK x \in Int, y \in Int, r \in 0..99 :
        Percentile(v, q) = Between(x, y, r) /\ x <= b /\ y <= b
  <2> DEFINE x == Ranked(v, Lower(v, q))
             y == Ranked(v, Upper(v, q))
  <2>1. x <= b
    BY PercentileIsBetween, RankedFacts
  <2>2. y <= b
    BY PercentileIsBetween, RankedFacts
  <2>3. x \in Int /\ y \in Int /\ Rest(v, q) \in 0..99 /\ Percentile(v, q) = Between(x, y, Rest(v, q))
    BY PercentileIsBetween
  <2> HIDE DEF x, y
  <2> QED BY <2>1, <2>2, <2>3
<1>2. Between(x, y, r) <= Between(b, b, r)
  BY <1>1, BetweenMonotone
<1> QED BY <1>1, <1>2, BetweenEqual

\* A percentile grows with the numbers.
LEMMA PercentileMonotone ==
  ASSUME NEW v, Numbers(v), NEW w, Numbers(w), DOMAIN v = DOMAIN w,
         \A i \in DOMAIN v : v[i] <= w[i], NEW q \in 0..100
  PROVE  Percentile(v, q) <= Percentile(w, q)
<1>1. CASE DOMAIN v = {}
  BY <1>1, FS_EmptySet DEF Percentile
<1>2. CASE DOMAIN v # {}
  <2> DEFINE k == Lower(v, q)
             l == Upper(v, q)
             r == Rest(v, q)
  <2>1. /\ k \in 1..Cardinality(DOMAIN v) /\ l \in 1..Cardinality(DOMAIN v) /\ r \in 0..99
        /\ Ranked(v, k) \in Int /\ Ranked(v, l) \in Int
        /\ Percentile(v, q) = Between(Ranked(v, k), Ranked(v, l), r)
    BY <1>2, PercentileIsBetween
  <2>2. Lower(w, q) = k /\ Upper(w, q) = l /\ Rest(w, q) = r
    BY DEF Lower, Upper, Rest
  <2>3. /\ Ranked(w, k) \in Int /\ Ranked(w, l) \in Int
        /\ Percentile(w, q) = Between(Ranked(w, k), Ranked(w, l), r)
    BY <1>2, <2>2, PercentileIsBetween
  <2> HIDE DEF k, l, r
  <2>4. k <= k /\ l <= l
    BY <2>1
  <2>5. Ranked(v, k) <= Ranked(w, k)
    BY <2>1, <2>4, RankedMonotone
  <2>6. Ranked(v, l) <= Ranked(w, l)
    BY <2>1, <2>4, RankedMonotone
  <2>7. PICK a, b, c, d \in Int :
          a = Ranked(v, k) /\ b = Ranked(v, l) /\ c = Ranked(w, k) /\ d = Ranked(w, l)
    BY <2>1, <2>3
  <2>8. Between(a, b, r) <= Between(c, d, r)
    BY <2>1, <2>5, <2>6, <2>7, BetweenMonotone
  <2> QED BY <2>1, <2>3, <2>7, <2>8
<1> QED BY <1>1, <1>2

-----------------------------------------------------------------------------
(* Segments.                                                                *)

Segment == [start : Int, end : Int]
Proper(s) == s \in Segment /\ s.start <= s.end

\* The segments of a timeline are apart by more than gap, in their order.
Apart(segments, gap) ==
  /\ segments \in Seq(Segment)
  /\ \A k \in 1..Len(segments) : segments[k].start <= segments[k].end
  /\ \A k, l \in 1..Len(segments) : k < l => segments[k].end + gap < segments[l].start

Inside(s, t) == t.start <= s.start /\ s.end <= t.end

\* The segments begin and end with stretches, and every stretch is inside one of them.
Holds(segments, stretches) ==
  /\ \A k \in 1..Len(segments) : \E s \in stretches : segments[k].start = s.start
  /\ \A k \in 1..Len(segments) : \E s \in stretches : segments[k].end = s.end
  /\ \A s \in stretches : \E k \in 1..Len(segments) : Inside(s, segments[k])

\* Nothing lies between p and q.
Clear(segments, p, q) ==
  \A k \in 1..Len(segments) : segments[k].end <= p \/ q <= segments[k].start

\* Every segment is inside one of the wider ones.
Within(segments, wider) ==
  \A k \in 1..Len(segments) : \E l \in 1..Len(wider) : Inside(segments[k], wider[l])

\* The two ways a stretch joins the segments.
LEMMA ProlongedFacts ==
  ASSUME NEW segs \in Seq(Segment), segs # <<>>, NEW s \in Segment
  PROVE  /\ Prolonged(segs, s) \in Seq(Segment)
         /\ Len(Prolonged(segs, s)) = Len(segs) /\ Len(segs) \in Nat \ {0}
         /\ \A k \in 1..(Len(segs) - 1) : Prolonged(segs, s)[k] = segs[k]
         /\ Prolonged(segs, s)[Len(segs)].start = segs[Len(segs)].start
         /\ Prolonged(segs, s)[Len(segs)].end = Greater(segs[Len(segs)].end, s.end)
<1> DEFINE z == [start |-> segs[Len(segs)].start, end |-> Greater(segs[Len(segs)].end, s.end)]
<1>1. Len(segs) \in Nat \ {0} /\ segs[Len(segs)] \in Segment
  OBVIOUS
<1>2. z \in Segment /\ z.start = segs[Len(segs)].start /\ z.end = Greater(segs[Len(segs)].end, s.end)
  BY <1>1 DEF Segment, Greater
<1>3. Prolonged(segs, s) = [segs EXCEPT ![Len(segs)] = z]
  BY DEF Prolonged
<1> HIDE DEF z
<1> QED BY <1>1, <1>2, <1>3

LEMMA AppendFacts ==
  ASSUME NEW segs \in Seq(Segment), NEW s \in Segment
  PROVE  /\ Append(segs, s) \in Seq(Segment)
         /\ Len(Append(segs, s)) = Len(segs) + 1 /\ Len(segs) \in Nat
         /\ \A k \in 1..Len(segs) : Append(segs, s)[k] = segs[k]
         /\ Append(segs, s)[Len(segs) + 1] = s
  OBVIOUS

\* Joined returns segments, whatever it is given.
LEMMA JoinedType ==
  ASSUME NEW segs \in Seq(Segment), NEW s \in Segment, NEW gap
  PROVE  Joined(segs, s, gap) \in Seq(Segment)
  BY ProlongedFacts, AppendFacts DEF Joined

\* A later stretch joins segments that are apart: they stay apart, and hold it too.
LEMMA JoinedFacts ==
  ASSUME NEW gap \in Nat, NEW segs, Apart(segs, gap), NEW T, Holds(segs, T),
         \A u \in T : Proper(u),
         NEW s, Proper(s), \A u \in T : u.start <= s.start
  PROVE  Apart(Joined(segs, s, gap), gap) /\ Holds(Joined(segs, s, gap), T \cup {s})
<1> DEFINE n0 == Len(segs)
           new == Joined(segs, s, gap)
<1>0. /\ segs \in Seq(Segment) /\ n0 \in Nat /\ s \in Segment /\ s.start \in Int /\ s.end \in Int
      /\ s.start <= s.end
  BY DEF Apart, Proper, Segment
<1>1. \A k \in 1..n0 : /\ segs[k].start \in Int /\ segs[k].end \in Int
                       /\ segs[k].start <= segs[k].end /\ segs[k].start <= s.start
  <2>1. \A k \in 1..n0 : segs[k] \in Segment
    BY <1>0
  <2> QED BY <1>0, <2>1 DEF Apart, Holds, Segment
<1>2. CASE segs # <<>> /\ s.start <= segs[n0].end + gap
  <2>1. /\ new \in Seq(Segment) /\ Len(new) = n0 /\ n0 \in Nat \ {0}
        /\ \A k \in 1..(n0 - 1) : new[k] = segs[k]
        /\ new[n0].start = segs[n0].start
        /\ new[n0].end = Greater(segs[n0].end, s.end)
    BY <1>0, <1>2, ProlongedFacts DEF Joined
  <2> HIDE DEF new, n0
  <2>2. n0 \in 1..n0 /\ \A k \in 1..n0 : k = n0 \/ k \in 1..(n0 - 1)
    BY <2>1
  <2>3. /\ \A k \in 1..n0 : new[k].start = segs[k].start /\ new[k].start \in Int
        /\ \A k \in 1..n0 : new[k].end \in Int /\ segs[k].end <= new[k].end /\ new[k].start <= new[k].end
        /\ s.end <= new[n0].end
        /\ (new[n0].end = segs[n0].end \/ new[n0].end = s.end)
    <3>1. /\ new[n0].end \in Int /\ segs[n0].end <= new[n0].end /\ s.end <= new[n0].end
          /\ (new[n0].end = segs[n0].end \/ new[n0].end = s.end)
      BY <1>0, <1>1, <2>1, <2>2 DEF Greater
    <3>2. ASSUME NEW k \in 1..n0
          PROVE  /\ new[k].start = segs[k].start /\ new[k].start \in Int
                 /\ new[k].end \in Int /\ segs[k].end <= new[k].end /\ new[k].start <= new[k].end
      <4>1. CASE k = n0
        BY <1>1, <2>1, <2>2, <3>1, <4>1
      <4>2. CASE k \in 1..(n0 - 1)
        <5>1. new[k] = segs[k]
          BY <2>1, <4>2
        <5> QED BY <1>1, <5>1
      <4> QED BY <2>2, <4>1, <4>2
    <3> QED BY <3>1, <3>2
  <2>4. Apart(new, gap)
    <3>1. ASSUME NEW k \in 1..n0, NEW l \in 1..n0, k < l
          PROVE  new[k].end + gap < new[l].start
      <4>1. k \in 1..(n0 - 1) /\ segs[k].end + gap < segs[l].start
        BY <2>1, <3>1 DEF Apart, n0
      <4> QED BY <2>1, <2>3, <4>1
    <3> QED BY <2>1, <2>3, <3>1 DEF Apart
  <2>5. Holds(new, T \cup {s})
    <3>1. \A k \in 1..n0 : \E u \in T : new[k].start = u.start
      BY <2>3 DEF Holds, n0
    <3>2. ASSUME NEW k \in 1..n0 PROVE \E u \in T \cup {s} : new[k].end = u.end
      <4>1. CASE k = n0 /\ new[n0].end = s.end
        BY <4>1
      <4>2. CASE new[k].end = segs[k].end
        BY <4>2 DEF Holds, n0
      <4> QED BY <2>1, <2>2, <2>3, <4>1, <4>2
    <3>3. ASSUME NEW u \in T PROVE \E k \in 1..n0 : Inside(u, new[k])
      <4>1. PICK k \in 1..n0 : Inside(u, segs[k])
        BY DEF Holds, n0
      <4>2. u.start \in Int /\ u.end \in Int
        BY DEF Proper, Segment
      <4>3. Inside(u, new[k])
        BY <1>1, <2>3, <4>1, <4>2 DEF Inside
      <4> QED BY <4>3
    <3>4. Inside(s, new[n0])
      BY <1>1, <2>2, <2>3 DEF Inside
    <3> QED BY <2>1, <2>2, <3>1, <3>2, <3>3, <3>4 DEF Holds
  <2> QED BY <2>4, <2>5 DEF new
<1>3. CASE ~(segs # <<>> /\ s.start <= segs[n0].end + gap)
  <2>1. /\ new \in Seq(Segment) /\ Len(new) = n0 + 1
        /\ \A k \in 1..n0 : new[k] = segs[k]
        /\ new[n0 + 1] = s
    BY <1>0, <1>3, AppendFacts DEF Joined
  <2>2. n0 # 0 => n0 \in 1..n0 /\ segs[n0].end + gap < s.start
    BY <1>0, <1>1, <1>3
  <2> HIDE DEF new, n0
  <2>3. n0 + 1 \in 1..(n0 + 1) /\ \A k \in 1..(n0 + 1) : k = n0 + 1 \/ k \in 1..n0
    BY <1>0
  <2>4. Apart(new, gap)
    <3>1. ASSUME NEW k \in 1..(n0 + 1), NEW l \in 1..(n0 + 1), k < l
          PROVE  new[k].end + gap < new[l].start
      <4>0. k \in 1..n0 /\ n0 \in 1..n0 /\ n0 # 0
        BY <1>0, <3>1
      <4>1. CASE l \in 1..n0
        BY <2>1, <3>1, <4>0, <4>1 DEF Apart, n0
      <4>2. CASE l = n0 + 1 /\ k = n0
        BY <2>1, <2>2, <4>0, <4>2
      <4>3. CASE l = n0 + 1 /\ k # n0
        <5>1. k < n0 /\ segs[k].end + gap < segs[n0].start
          BY <1>0, <4>0, <4>3 DEF Apart, n0
        <5>2. segs[n0].start <= segs[n0].end /\ segs[n0].end + gap < s.start
          BY <1>1, <2>2, <4>0
        <5>3. new[k] = segs[k] /\ new[l] = s
          BY <2>1, <4>0, <4>3
        <5>4. /\ segs[k].end \in Int /\ segs[n0].start \in Int /\ segs[n0].end \in Int
              /\ s.start \in Int
          BY <1>0, <1>1, <4>0
        <5>5. segs[k].end + gap < s.start
          BY <5>1, <5>2, <5>4
        <5> QED BY <5>3, <5>5
      <4> QED BY <2>3, <4>1, <4>2, <4>3
    <3>2. \A k \in 1..(n0 + 1) : new[k].start <= new[k].end
      BY <1>0, <1>1, <2>1, <2>3
    <3> QED BY <2>1, <3>1, <3>2 DEF Apart
  <2>5. Holds(new, T \cup {s})
    <3>1. \A k \in 1..n0 : (\E u \in T : new[k].start = u.start) /\ (\E u \in T : new[k].end = u.end)
      BY <2>1 DEF Holds, n0
    <3>2. \A u \in T : \E k \in 1..n0 : Inside(u, new[k])
      BY <2>1 DEF Holds, n0
    <3>3. 1..n0 \subseteq 1..(n0 + 1)
      BY <1>0
    <3>4. Inside(s, new[n0 + 1])
      BY <1>0, <2>1 DEF Inside
    <3>5. \A k \in 1..(n0 + 1) : \E u \in T \cup {s} : new[k].start = u.start
      BY <2>1, <2>3, <3>1
    <3>6. \A k \in 1..(n0 + 1) : \E u \in T \cup {s} : new[k].end = u.end
      BY <2>1, <2>3, <3>1
    <3>7. \A u \in T \cup {s} : \E k \in 1..(n0 + 1) : Inside(u, new[k])
      BY <2>3, <3>2, <3>3, <3>4
    <3> QED BY <2>1, <3>5, <3>6, <3>7 DEF Holds
  <2> QED BY <2>4, <2>5 DEF new
<1> QED BY <1>2, <1>3

\* A stretch that does not reach into a hole wider than the gap does not bridge it.
LEMMA JoinedClear ==
  ASSUME NEW gap \in Nat, NEW segs, Apart(segs, gap), NEW p \in Int, NEW q \in Int, p + gap < q,
         Clear(segs, p, q), NEW s, Proper(s), s.end <= p \/ q <= s.start,
         \A k \in 1..Len(segs) : segs[k].start <= s.start
  PROVE  Clear(Joined(segs, s, gap), p, q)
<1> DEFINE n0 == Len(segs)
           new == Joined(segs, s, gap)
<1>0. /\ segs \in Seq(Segment) /\ n0 \in Nat /\ s \in Segment /\ s.start \in Int /\ s.end \in Int
      /\ s.start <= s.end
  BY DEF Apart, Proper, Segment
<1>1. \A k \in 1..n0 : segs[k].start \in Int /\ segs[k].end \in Int
  <2>1. \A k \in 1..n0 : segs[k] \in Segment
    BY <1>0
  <2> QED BY <2>1 DEF Segment
<1>2. CASE segs # <<>> /\ s.start <= segs[n0].end + gap
  <2>1. /\ new \in Seq(Segment) /\ Len(new) = n0 /\ n0 \in Nat \ {0}
        /\ \A k \in 1..(n0 - 1) : new[k] = segs[k]
        /\ new[n0].start = segs[n0].start
        /\ new[n0].end = Greater(segs[n0].end, s.end)
    BY <1>0, <1>2, ProlongedFacts DEF Joined
  <2>2. n0 \in 1..n0 /\ \A k \in 1..n0 : k = n0 \/ k \in 1..(n0 - 1)
    BY <2>1
  <2>3. segs[n0].end <= p \/ q <= segs[n0].start
    BY <2>2 DEF Clear
  <2>4. segs[n0].start <= s.start /\ segs[n0].start \in Int /\ segs[n0].end \in Int
    BY <1>1, <2>2
  <2> HIDE DEF new, n0
  <2>5. new[n0].end <= p \/ q <= new[n0].start
    <3>1. CASE s.end <= p
      <4>1. segs[n0].end <= p
        BY <1>0, <2>3, <2>4, <3>1
      <4> QED BY <1>0, <2>1, <2>4, <3>1, <4>1 DEF Greater
    <3>2. CASE q <= s.start
      BY <1>0, <1>2, <2>1, <2>3, <2>4, <3>2
    <3> QED BY <3>1, <3>2
  <2>6. \A k \in 1..(n0 - 1) : new[k].end <= p \/ q <= new[k].start
    BY <2>1 DEF Clear, n0
  <2> QED BY <2>1, <2>2, <2>5, <2>6 DEF Clear, new
<1>3. CASE ~(segs # <<>> /\ s.start <= segs[n0].end + gap)
  <2>1. /\ Len(new) = n0 + 1
        /\ \A k \in 1..n0 : new[k] = segs[k]
        /\ new[n0 + 1] = s
    BY <1>0, <1>3, AppendFacts DEF Joined
  <2> HIDE DEF new, n0
  <2>2. \A k \in 1..(n0 + 1) : k = n0 + 1 \/ k \in 1..n0
    BY <1>0
  <2>3. \A k \in 1..n0 : new[k].end <= p \/ q <= new[k].start
    BY <2>1 DEF Clear, n0
  <2> QED BY <2>1, <2>2, <2>3 DEF Clear, new
<1> QED BY <1>2, <1>3

\* A stretch inside wider segments, joined to others inside them, stays inside them.
LEMMA JoinedWithin ==
  ASSUME NEW gap \in Nat, NEW segs, Apart(segs, gap), NEW wider, Apart(wider, gap),
         Within(segs, wider), NEW s, Proper(s), NEW l \in 1..Len(wider), Inside(s, wider[l]),
         \A k \in 1..Len(segs) : segs[k].start <= s.start
  PROVE  Within(Joined(segs, s, gap), wider)
<1> DEFINE n0 == Len(segs)
           new == Joined(segs, s, gap)
           W == 1..Len(wider)
<1>0. /\ segs \in Seq(Segment) /\ n0 \in Nat /\ s \in Segment /\ s.start \in Int /\ s.end \in Int
      /\ s.start <= s.end
  BY DEF Apart, Proper, Segment
<1>1. \A k \in 1..n0 : segs[k].start \in Int /\ segs[k].end \in Int /\ segs[k].start <= segs[k].end
  <2>1. \A k \in 1..n0 : segs[k] \in Segment
    BY <1>0
  <2> QED BY <2>1 DEF Segment, Apart
<1>2. \A k \in W : wider[k].start \in Int /\ wider[k].end \in Int
  <2>1. \A k \in W : wider[k] \in Segment
    BY DEF Apart
  <2> QED BY <2>1 DEF Segment
<1>3. CASE segs # <<>> /\ s.start <= segs[n0].end + gap
  <2>1. /\ Len(new) = n0 /\ n0 \in Nat \ {0}
        /\ \A k \in 1..(n0 - 1) : new[k] = segs[k]
        /\ new[n0].start = segs[n0].start
        /\ new[n0].end = Greater(segs[n0].end, s.end)
    BY <1>0, <1>3, ProlongedFacts DEF Joined
  <2>2. n0 \in 1..n0 /\ \A k \in 1..n0 : k = n0 \/ k \in 1..(n0 - 1)
    BY <2>1
  <2>3. PICK m \in W : Inside(segs[n0], wider[m])
    BY <2>2 DEF Within
  <2>4. m = l
    <3>1. /\ wider[m].start \in Int /\ wider[m].end \in Int
          /\ wider[l].start \in Int /\ wider[l].end \in Int
          /\ segs[n0].start \in Int /\ segs[n0].end \in Int /\ segs[n0].start <= segs[n0].end
          /\ segs[n0].start <= s.start
          /\ s.start \in Int /\ s.end \in Int /\ s.start <= s.end
      BY <1>0, <1>1, <1>2, <2>2
    <3>2. /\ wider[m].start <= segs[n0].start /\ segs[n0].end <= wider[m].end
          /\ wider[l].start <= s.start /\ s.end <= wider[l].end
      BY <2>3 DEF Inside
    <3>3. ASSUME m < l PROVE FALSE
      <4>1. wider[m].end + gap < wider[l].start
        BY <3>3 DEF Apart
      <4>2. s.start <= segs[n0].end + gap
        BY <1>3
      <4> HIDE DEF n0
      <4>3. segs[n0].end + gap <= wider[m].end + gap
        BY <3>1, <3>2
      <4>4. wider[l].start <= segs[n0].end + gap
        BY <1>0, <3>1, <3>2, <4>2
      <4> QED BY <3>1, <4>1, <4>3, <4>4
    <3>4. ASSUME l < m PROVE FALSE
      <4>1. wider[l].end + gap < wider[m].start
        BY <3>4 DEF Apart
      <4> HIDE DEF n0
      <4>2. wider[m].start <= s.start
        BY <3>1, <3>2
      <4>3. s.start <= wider[l].end
        BY <3>1, <3>2
      <4> QED BY <3>1, <4>1, <4>2, <4>3
    <3>5. m \in Int /\ l \in Int
      OBVIOUS
    <3> QED BY <3>3, <3>4, <3>5
  <2>5. Inside(new[n0], wider[l])
    <3>1. segs[n0].end \in Int /\ wider[l].end \in Int
      BY <1>1, <1>2, <2>2
    <3>2. /\ wider[l].start <= segs[n0].start /\ segs[n0].end <= wider[l].end
          /\ s.end <= wider[l].end
      BY <2>3, <2>4 DEF Inside
    <3> HIDE DEF new, n0
    <3> QED BY <1>0, <2>1, <3>1, <3>2 DEF Inside, Greater
  <2> HIDE DEF new, n0
  <2>6. \A k \in 1..(n0 - 1) : \E j \in W : Inside(new[k], wider[j])
    BY <2>1 DEF Within, n0
  <2> QED BY <2>1, <2>2, <2>5, <2>6 DEF Within, new
<1>4. CASE ~(segs # <<>> /\ s.start <= segs[n0].end + gap)
  <2>1. /\ Len(new) = n0 + 1
        /\ \A k \in 1..n0 : new[k] = segs[k]
        /\ new[n0 + 1] = s
    BY <1>0, <1>4, AppendFacts DEF Joined
  <2> HIDE DEF new, n0
  <2>2. \A k \in 1..(n0 + 1) : k = n0 + 1 \/ k \in 1..n0
    BY <1>0
  <2>3. \A k \in 1..n0 : \E j \in W : Inside(new[k], wider[j])
    BY <2>1 DEF Within, n0
  <2> QED BY <2>1, <2>2, <2>3 DEF Within, new
<1> QED BY <1>3, <1>4

\* Among finitely many segments one comes last.
LEMMA LatestFacts ==
  ASSUME NEW T, IsFiniteSet(T), T # {}, T \subseteq Segment
  PROVE  Latest(T) \in T /\ \A u \in T : u.start <= Latest(T).start
<1> DEFINE starts == [u \in T |-> u.start]
           ends == [u \in T |-> u.end]
<1>1. \A u \in T : u.start \in Int /\ u.end \in Int
  BY DEF Segment
<1>2. \A u \in T : starts[u] \in Int /\ ends[u] \in Int /\ starts[u] = u.start /\ ends[u] = u.end
  BY <1>1
<1> HIDE DEF starts, ends
<1>3. PICK b \in T : \A u \in T : starts[u] <= starts[b]
  BY <1>2, Greatest
<1> DEFINE B == {u \in T : u.start = b.start}
<1>4. IsFiniteSet(B) /\ b \in B /\ B \subseteq T
  <2>1. B \subseteq T /\ b \in B
    OBVIOUS
  <2> HIDE DEF B
  <2> QED BY <2>1, PartIsSmaller
<1>5. PICK e \in B : \A u \in B : ends[u] <= ends[e]
  <2>1. \A u \in B : ends[u] \in Int
    BY <1>2
  <2> HIDE DEF B
  <2> QED BY <1>4, <2>1, Greatest
<1>6. \A u, w \in T : u.start = w.start /\ u.end = w.end => u = w
  BY DEF Segment
<1>7. e \in T /\ \A u \in T : u = e \/ Earlier(u, e)
  <2>1. e \in T /\ e.start = b.start
    OBVIOUS
  <2>2. ASSUME NEW u \in T PROVE u = e \/ Earlier(u, e)
    <3>1. u.start <= b.start
      BY <1>2, <1>3
    <3>2. u.start = b.start => u.end <= e.end
      BY <1>2, <1>5
    <3> QED BY <1>1, <1>6, <2>1, <3>1, <3>2 DEF Earlier
  <2> QED BY <2>1, <2>2
<1>8. Latest(T) \in T /\ \A u \in T : u = Latest(T) \/ Earlier(u, Latest(T))
  BY <1>7 DEF Latest
<1>9. ASSUME NEW u \in T PROVE u.start <= Latest(T).start
  <2>1. Latest(T).start \in Int /\ u.start \in Int
    BY <1>1, <1>8
  <2> QED BY <1>8, <2>1 DEF Earlier
<1> QED BY <1>8, <1>9

\* g joins the parts of S, the latest stretch last.
Joins(g, S, gap) ==
  /\ g[{}] = <<>>
  /\ \A T \in SUBSET S : T # {} => g[T] = Joined(g[T \ {Latest(T)}], Latest(T), gap)

\* So does Joining.
LEMMA JoiningUnfolds ==
  ASSUME NEW S, IsFiniteSet(S), S \subseteq Segment, NEW gap
  PROVE  \E g : Joining(S, gap) = g[S] /\ Joins(g, S, gap)
<1> DEFINE Chain(g) == g = [s \in SUBSET S |->
                              IF s = {} THEN <<>> ELSE Joined(g[s \ {Latest(s)}], Latest(s), gap)]
           pick == [s \in SUBSET S |-> Latest(s)]
           op == [z \in S \X Seq(Segment) |-> Joined(z[2], z[1], gap)]
<1>1. \A s \in SUBSET S : s # {} => Latest(s) \in s /\ pick[s] = Latest(s)
  <2>1. ASSUME NEW s \in SUBSET S, s # {} PROVE Latest(s) \in s
    <3>1. IsFiniteSet(s) /\ s \subseteq Segment
      BY PartIsSmaller
    <3> QED BY <2>1, <3>1, LatestFacts
  <2> QED BY <2>1
<1>2. op \in [S \X Seq(Segment) -> Seq(Segment)]
  BY JoinedType
<1>3. <<>> \in Seq(Segment)
  OBVIOUS
<1>4. PICK g : Folds(g, S, <<>>, op, pick)
  <2> HIDE DEF op, pick
  <2> QED BY <1>1, <1>2, <1>3, FoldExists
<1> DEFINE Bad == {s \in SUBSET S : g[s] \notin Seq(Segment)}
<1>5. ASSUME NEW s \in SUBSET S, s # {}
      PROVE  g[s] = op[<<Latest(s), g[s \ {Latest(s)}]>>]
  <2> HIDE DEF op, pick
  <2> QED BY <1>1, <1>4, <1>5 DEF Folds
<1>6. g[{}] = <<>>
  <2> HIDE DEF op, pick
  <2> QED BY <1>4 DEF Folds
<1>7. Bad = {}
  <2>1. SUFFICES ASSUME Bad # {} PROVE FALSE
    OBVIOUS
  <2>2. Bad \subseteq SUBSET S
    OBVIOUS
  <2>3. PICK s \in Bad : \A u \in Bad : ~(u \subseteq s /\ u # s)
    <3> HIDE DEF Bad
    <3> QED BY <2>1, <2>2, LeastPart
  <2>4. s \in SUBSET S /\ g[s] \notin Seq(Segment) /\ s # {}
    BY <1>3, <1>6
  <2>5. s \ {Latest(s)} \notin Bad /\ s \ {Latest(s)} \in SUBSET S /\ Latest(s) \in S
    <3> HIDE DEF Bad, pick
    <3> QED BY <1>1, <2>3, <2>4
  <2>6. <<Latest(s), g[s \ {Latest(s)}]>> \in S \X Seq(Segment)
    BY <2>5
  <2> HIDE DEF op, Bad
  <2> QED BY <1>2, <1>5, <2>4, <2>6
<1>8. ASSUME NEW s \in SUBSET S, s # {}
      PROVE  g[s] = Joined(g[s \ {Latest(s)}], Latest(s), gap)
  <2>1. s \ {Latest(s)} \in SUBSET S /\ Latest(s) \in S
    <3> HIDE DEF pick
    <3> QED BY <1>1, <1>8
  <2>2. g[s \ {Latest(s)}] \in Seq(Segment)
    BY <1>7, <2>1
  <2>3. <<Latest(s), g[s \ {Latest(s)}]>> \in S \X Seq(Segment)
    BY <2>1, <2>2
  <2>4. op[<<Latest(s), g[s \ {Latest(s)}]>>] = Joined(g[s \ {Latest(s)}], Latest(s), gap)
    BY <2>3
  <2> HIDE DEF op, Bad
  <2> QED BY <1>5, <1>8, <2>4
<1>9. \E h : Chain(h)
  <2>1. g = [s \in SUBSET S |-> g[s]]
    <3> HIDE DEF op, pick
    <3> QED BY <1>4 DEF Folds
  <2>2. Chain(g)
    <3> HIDE DEF op, pick, Bad
    <3> QED BY <1>6, <1>8, <2>1
  <2> HIDE DEF Chain
  <2> QED BY <2>2
<1>10. Joining(S, gap) = (CHOOSE h : Chain(h))[S]
  BY Zenon DEF Joining, MapThenFoldSet
<1>11. PICK h : h = (CHOOSE f : Chain(f))
  OBVIOUS
<1>12. Chain(h)
  <2> HIDE DEF Chain
  <2> QED BY <1>9, <1>11
<1>13. Joining(S, gap) = h[S]
  <2> HIDE DEF Chain
  <2> QED BY <1>10, <1>11
<1>14. Joins(h, S, gap)
  BY <1>12 DEF Joins
<1> QED BY <1>13, <1>14

\* No segment lies in a hole between stretches that is wider than the gap.
KeepsClear(segments, stretches, gap) ==
  \A p, q \in Int :
    p + gap < q /\ (\A s \in stretches : s.end <= p \/ q <= s.start) => Clear(segments, p, q)

\* Stretches inside wider segments join to segments inside them.
KeepsWithin(segments, stretches, gap) ==
  \A wider :
    Apart(wider, gap) /\ (\A s \in stretches : \E l \in 1..Len(wider) : Inside(s, wider[l]))
      => Within(segments, wider)

\* The segments the stretches join to are apart and hold the stretches, bridge no hole
\* wider than the gap, and are no longer than those of longer stretches (mask_to_segments).
THEOREM JoiningFacts ==
  ASSUME NEW S, IsFiniteSet(S), \A s \in S : Proper(s), NEW gap \in Nat
  PROVE  /\ Apart(Joining(S, gap), gap)
         /\ Holds(Joining(S, gap), S)
         /\ KeepsClear(Joining(S, gap), S, gap)
         /\ KeepsWithin(Joining(S, gap), S, gap)
<1>0. S \subseteq Segment
  BY DEF Proper
<1>1. PICK g : Joining(S, gap) = g[S] /\ Joins(g, S, gap)
  BY <1>0, JoiningUnfolds
<1> DEFINE Good(T) == /\ Apart(g[T], gap)
                      /\ Holds(g[T], T)
                      /\ KeepsClear(g[T], T, gap)
                      /\ KeepsWithin(g[T], T, gap)
           Bad == {T \in SUBSET S : ~Good(T)}
<1>2. Bad = {}
  <2>1. SUFFICES ASSUME Bad # {} PROVE FALSE
    OBVIOUS
  <2>2. Bad \subseteq SUBSET S
    OBVIOUS
  <2>3. PICK T \in Bad : \A U \in Bad : ~(U \subseteq T /\ U # T)
    <3> HIDE DEF Bad
    <3> QED BY <2>1, <2>2, LeastPart
  <2>4. T \in SUBSET S /\ ~Good(T)
    <3> HIDE DEF Good
    <3> QED OBVIOUS
  <2>5. CASE T = {}
    <3>1. g[{}] = <<>>
      BY <1>1 DEF Joins
    <3>2. Good({})
      BY <3>1 DEF Apart, Holds, KeepsClear, KeepsWithin, Clear, Within
    <3> HIDE DEF Good
    <3> QED BY <2>4, <2>5, <3>2
  <2>6. CASE T # {}
    <3> DEFINE s == Latest(T)
               U == T \ {s}
    <3>1. s \in T /\ \A u \in T : u.start <= s.start
      <4>1. IsFiniteSet(T) /\ T \subseteq Segment
        BY <1>0, <2>4, PartIsSmaller
      <4> QED BY <2>6, <4>1, LatestFacts
    <3>2. g[T] = Joined(g[U], s, gap)
      BY <1>1, <2>4, <2>6 DEF Joins
    <3> HIDE DEF s
    <3>3. U \in SUBSET S /\ U \notin Bad /\ U \cup {s} = T
      <4> HIDE DEF Bad
      <4> QED BY <2>3, <2>4, <3>1
    <3>4. Good(U)
      <4> HIDE DEF Good, U
      <4> QED BY <3>3
    <3>5. (\A u \in U : Proper(u)) /\ Proper(s) /\ \A u \in U : u.start <= s.start
      BY <2>4, <3>1
    <3> HIDE DEF U
    <3>6. \A k \in 1..Len(g[U]) : g[U][k].start <= s.start
      BY <3>4, <3>5 DEF Holds
    <3>7. Apart(g[T], gap) /\ Holds(g[T], T)
      <4>1. Apart(Joined(g[U], s, gap), gap) /\ Holds(Joined(g[U], s, gap), U \cup {s})
        BY <3>4, <3>5, JoinedFacts
      <4> QED BY <3>2, <3>3, <4>1
    <3>8. KeepsClear(g[T], T, gap)
      <4>1. ASSUME NEW p \in Int, NEW q \in Int, p + gap < q,
                   \A u \in T : u.end <= p \/ q <= u.start
            PROVE  Clear(g[T], p, q)
        <5>1. Clear(g[U], p, q)
          BY <3>3, <3>4, <4>1 DEF KeepsClear
        <5>2. s.end <= p \/ q <= s.start
          BY <3>1, <4>1
        <5>3. Clear(Joined(g[U], s, gap), p, q)
          BY <3>4, <3>5, <3>6, <4>1, <5>1, <5>2, JoinedClear
        <5> QED BY <3>2, <5>3
      <4> QED BY <4>1 DEF KeepsClear
    <3>9. KeepsWithin(g[T], T, gap)
      <4>1. ASSUME NEW wider, Apart(wider, gap),
                   \A u \in T : \E l \in 1..Len(wider) : Inside(u, wider[l])
            PROVE  Within(g[T], wider)
        <5>1. Within(g[U], wider)
          BY <3>3, <3>4, <4>1 DEF KeepsWithin
        <5>2. PICK l \in 1..Len(wider) : Inside(s, wider[l])
          BY <3>1, <4>1
        <5>3. Within(Joined(g[U], s, gap), wider)
          BY <3>4, <3>5, <3>6, <4>1, <5>1, <5>2, JoinedWithin
        <5> QED BY <3>2, <5>3
      <4> QED BY <4>1 DEF KeepsWithin
    <3>10. Good(T)
      BY <3>7, <3>8, <3>9
    <3> HIDE DEF Good
    <3> QED BY <2>4, <3>10
  <2> QED BY <2>5, <2>6
<1>3. Good(S)
  <2> HIDE DEF Good
  <2> QED BY <1>2
<1> QED BY <1>1, <1>3

-----------------------------------------------------------------------------
(* The time in segments, counted in ticks.                                  *)

Long(segments, least) ==
  {k \in 1..Len(segments) : segments[k].end - segments[k].start >= least}

Ticks(s) == (s.start + 1)..s.end
TicksIn(segments, least) == UNION {Ticks(segments[k]) : k \in Long(segments, least)}

\* Segments that are apart have no tick in common: their time is the number of their ticks.
LEMMA TimeInIsSize ==
  ASSUME NEW gap \in Nat, NEW segs, Apart(segs, gap), NEW least \in Nat
  PROVE  /\ IsFiniteSet(TicksIn(segs, least))
         /\ TimeIn(segs, least) = Cardinality(TicksIn(segs, least))
<1> DEFINE D == 1..Len(segs)
           length == [k \in D |-> segs[k].end - segs[k].start]
           B == [k \in D |-> Ticks(segs[k])]
           L == Long(segs, least)
<1>0. segs \in Seq(Segment) /\ Len(segs) \in Nat /\ DOMAIN segs = D
  BY DEF Apart
<1>1. \A k \in D : segs[k].start \in Int /\ segs[k].end \in Int /\ segs[k].start <= segs[k].end
  <2>1. \A k \in D : segs[k] \in Segment
    BY <1>0
  <2> QED BY <2>1 DEF Segment, Apart
<1>2. IsFiniteSet(L) /\ L \subseteq D
  <2>1. IsFiniteSet(D)
    BY <1>0, FS_Interval
  <2>2. L \subseteq D
    BY DEF Long
  <2> HIDE DEF D, L
  <2> QED BY <2>1, <2>2, PartIsSmaller
<1>3. ASSUME NEW k \in D
      PROVE  IsFiniteSet(B[k]) /\ Cardinality(B[k]) = length[k]
  <2>1. PICK a \in Int, b \in Int : a = segs[k].start /\ b = segs[k].end /\ a <= b
    BY <1>1
  <2>2. IsFiniteSet((a + 1)..b) /\ Cardinality((a + 1)..b) = b - a
    <3>1. PICK c \in Int : c = a + 1
      BY <2>1
    <3>2. IsFiniteSet(c..b) /\ Cardinality(c..b) = IF c > b THEN 0 ELSE b - c + 1
      BY FS_Interval
    <3>3. (IF c > b THEN 0 ELSE b - c + 1) = b - a
      BY <2>1, <3>1
    <3> QED BY <3>1, <3>2, <3>3
  <2>3. B[k] = (a + 1)..b /\ length[k] = b - a
    BY <2>1 DEF Ticks
  <2> HIDE DEF B, length
  <2> QED BY <2>2, <2>3
<1>4. ASSUME NEW k \in D, NEW l \in D, k # l PROVE B[k] \cap B[l] = {}
  <2>1. /\ k \in Int /\ l \in Int
        /\ k < l => segs[k].end + gap < segs[l].start
        /\ l < k => segs[l].end + gap < segs[k].start
    BY <1>0 DEF Apart
  <2>2. segs[k].end < segs[l].start \/ segs[l].end < segs[k].start
    BY <1>1, <1>4, <2>1
  <2> QED BY <1>1, <2>2 DEF Ticks
<1>5. TimeIn(segs, least) = SumFunctionOnSet(length, L)
  <2>1. {k \in DOMAIN segs : length[k] >= least} = L
    BY <1>0 DEF Long
  <2> QED BY <1>0, <2>1 DEF TimeIn
<1>6. TicksIn(segs, least) = UNION {B[k] : k \in L}
  BY <1>2 DEF TicksIn
<1>7. /\ \A k \in L : IsFiniteSet(B[k]) /\ Cardinality(B[k]) = length[k]
      /\ \A k, l \in L : k # l => B[k] \cap B[l] = {}
  <2> HIDE DEF B, L, length, D
  <2> QED BY <1>2, <1>3, <1>4
<1> HIDE DEF B, L, length, D
<1>8. /\ IsFiniteSet(UNION {B[k] : k \in L})
      /\ SumFunctionOnSet(length, L) = Cardinality(UNION {B[k] : k \in L})
  <2>1. IsFiniteSet(L)
    BY <1>2
  <2> DEFINE all == UNION {B[k] : k \in L}
  <2>2. IsFiniteSet(all) /\ SumFunctionOnSet(length, L) = Cardinality(all)
    BY <1>7, <2>1, SumIsSize, SMTT(30)
  <2> QED BY <2>2
<1> QED BY <1>5, <1>6, <1>8

\* Segments inside wider ones last no longer.
LEMMA TimeInMonotone ==
  ASSUME NEW gap \in Nat, NEW segs, Apart(segs, gap), NEW wider, Apart(wider, gap),
         Within(segs, wider), NEW least \in Nat
  PROVE  /\ TimeIn(segs, least) \in Nat
         /\ TimeIn(wider, least) \in Nat
         /\ TimeIn(segs, least) <= TimeIn(wider, least)
<1>1. ASSUME NEW s, Apart(s, gap), NEW k \in 1..Len(s)
      PROVE  s[k].start \in Int /\ s[k].end \in Int
  <2>1. s[k] \in Segment
    BY <1>1 DEF Apart
  <2> QED BY <2>1 DEF Segment
<1>2. ASSUME NEW x \in TicksIn(segs, least) PROVE x \in TicksIn(wider, least)
  <2>1. PICK k \in Long(segs, least) : x \in Ticks(segs[k])
    BY DEF TicksIn
  <2>2. k \in 1..Len(segs) /\ segs[k].end - segs[k].start >= least
    BY DEF Long
  <2>3. PICK l \in 1..Len(wider) : Inside(segs[k], wider[l])
    BY <2>2 DEF Within
  <2>4. /\ segs[k].start \in Int /\ segs[k].end \in Int
        /\ wider[l].start \in Int /\ wider[l].end \in Int
        /\ wider[l].start <= segs[k].start /\ segs[k].end <= wider[l].end
    BY <1>1, <2>2, <2>3 DEF Inside
  <2>5. l \in Long(wider, least)
    BY <2>2, <2>4 DEF Long
  <2>6. x \in Ticks(wider[l])
    BY <2>1, <2>4 DEF Ticks
  <2> QED BY <2>5, <2>6 DEF TicksIn
<1>3. /\ IsFiniteSet(TicksIn(segs, least)) /\ IsFiniteSet(TicksIn(wider, least))
      /\ TimeIn(segs, least) = Cardinality(TicksIn(segs, least))
      /\ TimeIn(wider, least) = Cardinality(TicksIn(wider, least))
  BY TimeInIsSize
<1>4. TicksIn(segs, least) \subseteq TicksIn(wider, least)
  BY <1>2
<1> QED BY <1>3, <1>4, PartIsSmaller, FS_CardinalityType

\* Segments of a recording last no longer than it.
LEMMA TimeInBounded ==
  ASSUME NEW gap \in Nat, NEW segs, Apart(segs, gap), NEW least \in Nat, NEW last \in Nat,
         \A k \in 1..Len(segs) : 0 <= segs[k].start /\ segs[k].end <= last
  PROVE  TimeIn(segs, least) \in 0..last
<1>1. ASSUME NEW k \in 1..Len(segs)
      PROVE  segs[k].start \in Int /\ segs[k].end \in Int
  <2>1. segs[k] \in Segment
    BY DEF Apart
  <2> QED BY <2>1 DEF Segment
<1>2. TicksIn(segs, least) \subseteq 1..last
  BY <1>1 DEF TicksIn, Ticks, Long
<1>3. IsFiniteSet(1..last) /\ Cardinality(1..last) = last
  BY FS_Interval
<1>4. TimeIn(segs, least) = Cardinality(TicksIn(segs, least))
  BY TimeInIsSize
<1>5. Cardinality(TicksIn(segs, least)) \in Nat /\ Cardinality(TicksIn(segs, least)) <= last
  BY <1>2, <1>3, PartIsSmaller
<1> QED BY <1>4, <1>5

-----------------------------------------------------------------------------
(* Runs of flagged frames.                                                  *)

\* Flagged frames without a pause are in one run.
LEMMA RunAround ==
  ASSUME NEW size \in Nat, NEW mask, mask \subseteq 1..size,
         NEW i \in mask, NEW j \in mask, i <= j, i..j \subseteq mask
  PROVE  \E r \in Runs(mask) : r[1] <= i /\ j <= r[2]
<1> DEFINE Firsts == {a \in 1..i : a..i \subseteq mask}
           Lasts == {b \in j..size : j..b \subseteq mask}
<1>0. i \in Nat /\ j \in Nat /\ 1 <= i /\ i <= j /\ j <= size
  OBVIOUS
<1>1. PICK a \in Firsts : \A x \in Firsts : a <= x
  <2>1. i \in Firsts /\ Firsts \subseteq Nat
    BY <1>0
  <2> HIDE DEF Firsts
  <2> QED BY <2>1, LeastNumber
<1>2. PICK b \in Lasts : \A x \in Lasts : x <= b
  <2> DEFINE f == [x \in Lasts |-> x]
  <2>1. j \in Lasts /\ Lasts \subseteq j..size /\ \A x \in Lasts : x \in Int
    BY <1>0
  <2>2. IsFiniteSet(Lasts)
    <3>1. IsFiniteSet(j..size)
      BY <1>0, FS_Interval
    <3> HIDE DEF Lasts
    <3> QED BY <2>1, <3>1, PartIsSmaller
  <2> HIDE DEF Lasts
  <2>3. PICK b \in Lasts : \A x \in Lasts : f[x] <= f[b]
    <3>1. \A x \in Lasts : f[x] \in Int
      BY <2>1
    <3> HIDE DEF f
    <3> QED BY <2>1, <2>2, <3>1, Greatest
  <2> QED BY <2>3
<1>3. /\ a \in Nat /\ 1 <= a /\ a <= i /\ a..i \subseteq mask
      /\ b \in Nat /\ j <= b /\ b <= size /\ j..b \subseteq mask
  BY <1>0
<1>4. a \in mask /\ b \in mask /\ a <= b /\ a..b \subseteq mask
  <2>1. \A x \in a..b : x \in a..i \/ x \in i..j \/ x \in j..b
    BY <1>0, <1>3
  <2>2. a \in a..i /\ b \in j..b
    BY <1>0, <1>3
  <2> QED BY <1>0, <1>3, <2>1, <2>2
<1>5. ASSUME a - 1 \in mask PROVE FALSE
  <2>1. a - 1 \in 1..i /\ \A x \in (a - 1)..i : x = a - 1 \/ x \in a..i
    BY <1>0, <1>3, <1>5
  <2>2. a - 1 \in Firsts
    BY <1>3, <1>5, <2>1
  <2> HIDE DEF Firsts
  <2> QED BY <1>1, <1>3, <2>2
<1>6. ASSUME b + 1 \in mask PROVE FALSE
  <2>1. b + 1 \in j..size /\ \A x \in j..(b + 1) : x = b + 1 \/ x \in j..b
    BY <1>0, <1>3, <1>6
  <2>2. b + 1 \in Lasts
    BY <1>3, <1>6, <2>1
  <2> HIDE DEF Lasts
  <2> QED BY <1>2, <1>3, <2>2
<1>7. <<a, b>> \in Runs(mask)
  <2>1. <<a, b>> \in mask \X mask /\ <<a, b>>[1] = a /\ <<a, b>>[2] = b
    BY <1>4
  <2> HIDE DEF Firsts, Lasts
  <2> QED BY <1>4, <1>5, <1>6, <2>1 DEF Runs
<1> QED BY <1>3, <1>7

\* The runs are finitely many.
LEMMA RunsFacts ==
  ASSUME NEW size \in Nat, NEW mask, mask \subseteq 1..size
  PROVE  /\ IsFiniteSet(Runs(mask))
         /\ \A r \in Runs(mask) : /\ r[1] \in mask /\ r[2] \in mask
                                  /\ r[1] \in 1..size /\ r[2] \in 1..size
                                  /\ r[1] <= r[2] /\ r[1]..r[2] \subseteq mask
<1>1. IsFiniteSet(mask)
  <2>1. IsFiniteSet(1..size)
    BY FS_Interval
  <2> QED BY <2>1, PartIsSmaller
<1>2. IsFiniteSet(mask \X mask)
  BY <1>1, FS_Product
<1>3. Runs(mask) \subseteq mask \X mask
  BY DEF Runs
<1>4. IsFiniteSet(Runs(mask))
  BY <1>2, <1>3, PartIsSmaller
<1> QED BY <1>4 DEF Runs

-----------------------------------------------------------------------------
(* Recordings.                                                              *)

Telemetry ==
  [t : Int, depth : Int, jerk : Nat, cont : Nat, osc : Nat, chat : Nat, arm : Nat, hand : Nat,
   state : Nat, valid : BOOLEAN, diff : Nat, err : Nat, lost : Nat]

\* A recording begins with time 0.
RecordingInv ==
  /\ aspect \in Aspect
  /\ header \in [interval : Nat, count : Nat, depth : BOOLEAN]
  /\ frames \in Seq(Telemetry)
  /\ n > 0 => frames[1].t = 0
  /\ stuck \in Nat /\ spiky \in Nat

NormOf(recording, f) ==
  [i \in 1..Len(recording) |-> IF i <= Offset[f] THEN 0 ELSE recording[i][f]]

\* The norms of a recording are natural numbers, one for each frame.
LEMMA NormFacts ==
  ASSUME NEW r \in Seq(Telemetry), NEW f \in DOMAIN Offset
  PROVE  /\ DOMAIN NormOf(r, f) = 1..Len(r)
         /\ \A i \in 1..Len(r) : NormOf(r, f)[i] \in Nat
         /\ Numbers(NormOf(r, f))
         /\ Len(r) \in Nat /\ IsFiniteSet(1..Len(r)) /\ Cardinality(1..Len(r)) = Len(r)
<1>1. Len(r) \in Nat /\ IsFiniteSet(1..Len(r)) /\ Cardinality(1..Len(r)) = Len(r)
  <2>1. PICK N \in Nat : N = Len(r)
    OBVIOUS
  <2>2. IsFiniteSet(1..N) /\ Cardinality(1..N) = N
    <3>1. 1 \in Int /\ N \in Int /\ (IF 1 > N THEN 0 ELSE N - 1 + 1) = N
      OBVIOUS
    <3> QED BY <3>1, FS_Interval
  <2> QED BY <2>1, <2>2
<1>2. DOMAIN NormOf(r, f) = 1..Len(r)
  BY DEF NormOf
<1>3. ASSUME NEW i \in 1..Len(r) PROVE NormOf(r, f)[i] \in Nat
  <2>1. r[i] \in Telemetry
    OBVIOUS
  <2>2. f \in {"jerk", "cont", "osc", "chat", "arm", "hand", "state", "diff", "err"}
    BY DEF Offset
  <2>3. r[i][f] \in Nat
    BY <2>1, <2>2 DEF Telemetry
  <2> QED BY <2>3 DEF NormOf
<1>4. Numbers(NormOf(r, f))
  BY <1>1, <1>2, <1>3 DEF Numbers
<1> QED BY <1>1, <1>2, <1>3, <1>4

LEMMA NormIsNormOf == \A f : Norm(f) = NormOf(frames, f)
  BY DEF Norm, NormOf, Frames, n

\* The frames, their times and the flags among them.
LEMMA FramesFacts ==
  ASSUME RecordingInv
  PROVE  /\ n \in Nat /\ IsFiniteSet(Frames) /\ Cardinality(Frames) = n
         /\ DOMAIN Time = Frames /\ \A i \in Frames : Time[i] \in Int
         /\ Duration \in Int /\ (n > 0 => Time[1] = 0)
<1>1. n \in Nat
  BY DEF RecordingInv, n
<1>2. IsFiniteSet(Frames) /\ Cardinality(Frames) = n
  BY <1>1, FS_Interval DEF Frames
<1>3. DOMAIN Time = Frames /\ \A i \in Frames : Time[i] \in Int
  <2>1. \A i \in Frames : frames[i] \in Telemetry
    BY DEF RecordingInv, Frames, n
  <2> QED BY <2>1 DEF Time, Telemetry
<1>4. Duration \in Int
  BY <1>1, <1>3 DEF Duration, Frames
<1>5. n > 0 => Time[1] = 0
  BY <1>1 DEF Time, RecordingInv, Frames
<1> QED BY <1>1, <1>2, <1>3, <1>4, <1>5

\* The norms of the telemetry.
LEMMA NormType ==
  ASSUME RecordingInv, NEW f \in DOMAIN Offset
  PROVE  /\ DOMAIN Norm(f) = Frames
         /\ \A i \in Frames : Norm(f)[i] \in Nat
         /\ Numbers(Norm(f))
<1>1. frames \in Seq(Telemetry) /\ Frames = 1..Len(frames)
  BY DEF RecordingInv, Frames, n
<1>2. Norm(f) = NormOf(frames, f)
  BY NormIsNormOf
<1> QED BY <1>1, <1>2, NormFacts

LEMMA AboveFacts ==
  ASSUME NEW v, Numbers(v), NEW threshold
  PROVE  Above(v, threshold) \subseteq DOMAIN v /\ IsFiniteSet(Above(v, threshold))
<1>1. Above(v, threshold) \subseteq DOMAIN v
  BY DEF Above
<1> QED BY <1>1, PartIsSmaller DEF Numbers

\* Numbers restricted to some of their indices.
LEMMA RestrictFacts ==
  ASSUME NEW v, Numbers(v), NEW S, S \subseteq DOMAIN v
  PROVE  /\ DOMAIN Restrict(v, S) = S
         /\ \A i \in S : Restrict(v, S)[i] = v[i]
         /\ Numbers(Restrict(v, S))
<1>1. DOMAIN Restrict(v, S) = S /\ \A i \in S : Restrict(v, S)[i] = v[i]
  BY DEF Restrict
<1>2. IsFiniteSet(S)
  BY PartIsSmaller DEF Numbers
<1> QED BY <1>1, <1>2 DEF Numbers

\* A share is a number, and larger for a larger set.
LEMMA ShareType ==
  ASSUME NEW S, IsFiniteSet(S), NEW size \in Nat
  PROVE  Share(S, size) \in Nat
<1>1. Whole * Cardinality(S) \in Nat
  BY FS_CardinalityType DEF Whole
<1> QED BY <1>1 DEF Share

LEMMA ShareMonotone ==
  ASSUME NEW S, NEW T, IsFiniteSet(T), S \subseteq T, NEW size \in Nat
  PROVE  Share(S, size) <= Share(T, size)
<1>1. /\ Cardinality(S) \in Nat /\ Cardinality(T) \in Nat
      /\ Cardinality(S) <= Cardinality(T)
  BY PartIsSmaller, FS_CardinalityType
<1>2. /\ Whole * Cardinality(S) \in Int /\ Whole * Cardinality(T) \in Int
      /\ Whole * Cardinality(S) <= Whole * Cardinality(T)
  BY <1>1 DEF Whole
<1>3. CASE size # 0
  <2>1. size \in Nat \ {0}
    BY <1>3
  <2>2. (Whole * Cardinality(S)) \div size <= (Whole * Cardinality(T)) \div size
    BY <1>2, <2>1, QuotientMonotone
  <2> QED BY <1>3, <2>2 DEF Share
<1>4. CASE size = 0
  BY <1>4 DEF Share
<1> QED BY <1>3, <1>4

\* A share of nothing is none.
LEMMA ShareOfNone == \A size \in Nat : Share({}, size) = 0
<1>1. ASSUME NEW size \in Nat PROVE Share({}, size) = 0
  <2>1. CASE size # 0
    <3>1. (Whole * 0) \div size = 0
      BY <2>1 DEF Whole
    <3> QED BY <3>1, FS_EmptySet DEF Share
  <2> QED BY <2>1 DEF Share
<1> QED BY <1>1

\* A clamped number is a score.
LEMMA ClampType == \A v \in Int : Clamp(v) \in 0..Ten
  BY DEF Clamp, Lesser, Greater, Ten

LEMMA ClampMonotone == \A v, w \in Int : v <= w => Clamp(v) <= Clamp(w)
  BY DEF Clamp, Lesser, Greater, Ten

LEMMA InverseType ==
  ASSUME NEW good \in Int, NEW warn \in Int, NEW bad \in Int, good <= warn, warn <= bad,
         NEW v \in Int
  PROVE  ScoreInverse(v, good, warn, bad) \in Int
  BY InverseInRange, ScoreIsInt

LEMMA RatioType ==
  ASSUME NEW good \in Int, NEW warn \in Int, NEW bad \in Int, warn < good, bad < warn,
         NEW v \in Int
  PROVE  ScoreRatio(v, good, warn, bad) \in Int
<1>1. good - warn \in Nat \ {0} /\ warn - bad \in Nat \ {0}
  OBVIOUS
<1>2. Half * (v - warn) \in Int /\ Half * (v - bad) \in Int
  BY DEF Half
<1>3. (Half * (v - warn)) \div (good - warn) \in Int /\ (Half * (v - bad)) \div (warn - bad) \in Int
  BY <1>1, <1>2
<1> QED BY <1>3 DEF ScoreRatio, Ten, Half

-----------------------------------------------------------------------------
(* The segments of a mask.                                                  *)

StretchOf(time, r) == [start |-> time[r[1]], end |-> Greater(time[r[1]], time[r[2]])]
StretchesOf(time, mask) == {StretchOf(time, r) : r \in Runs(mask)}
MergedOf(time, mask, gap) == Joining(StretchesOf(time, mask), gap)

LEMMA MergedIsMergedOf == \A mask, gap : Merged(mask, gap) = MergedOf(Time, mask, gap)
  BY DEF Merged, MergedOf, StretchesOf, StretchOf, Stretch

\* There are finitely many stretches, and none of them ends before it starts.
LEMMA StretchesFacts ==
  ASSUME NEW size \in Nat, NEW time, \A i \in 1..size : time[i] \in Int,
         NEW mask, mask \subseteq 1..size
  PROVE  /\ IsFiniteSet(StretchesOf(time, mask))
         /\ \A s \in StretchesOf(time, mask) : Proper(s)
<1>1. /\ IsFiniteSet(Runs(mask))
      /\ \A r \in Runs(mask) : r[1] \in 1..size /\ r[2] \in 1..size
  BY RunsFacts
<1>2. IsFiniteSet(StretchesOf(time, mask))
  <2> DEFINE R == Runs(mask)
             T == StretchesOf(time, mask)
             f == [r \in R |-> StretchOf(time, r)]
  <2>1. f \in Surjection(R, T)
    BY DEF StretchesOf, Surjection
  <2>2. IsFiniteSet(R)
    BY <1>1
  <2> HIDE DEF R, T, f
  <2>3. IsFiniteSet(T)
    BY <2>1, <2>2, FS_Surjection
  <2> QED BY <2>3 DEF T
<1>3. ASSUME NEW r \in Runs(mask) PROVE Proper(StretchOf(time, r))
  <2>1. PICK a \in Int, b \in Int : a = time[r[1]] /\ b = time[r[2]]
    BY <1>1
  <2>2. StretchOf(time, r) = [start |-> a, end |-> Greater(a, b)]
    BY <2>1 DEF StretchOf
  <2> QED BY <2>2 DEF Proper, Segment, Greater
<1> QED BY <1>2, <1>3 DEF StretchesOf

\* The segments of a mask (mask_to_segments).
LEMMA MergedOfFacts ==
  ASSUME NEW size \in Nat, NEW time, \A i \in 1..size : time[i] \in Int,
         NEW mask, mask \subseteq 1..size, NEW gap \in Nat
  PROVE  /\ Apart(MergedOf(time, mask, gap), gap)
         /\ Holds(MergedOf(time, mask, gap), StretchesOf(time, mask))
         /\ KeepsClear(MergedOf(time, mask, gap), StretchesOf(time, mask), gap)
         /\ KeepsWithin(MergedOf(time, mask, gap), StretchesOf(time, mask), gap)
         /\ \A least \in Nat : TimeIn(MergedOf(time, mask, gap), least) \in Nat
<1> DEFINE S == StretchesOf(time, mask)
           M == MergedOf(time, mask, gap)
<1>1. IsFiniteSet(S) /\ \A s \in S : Proper(s)
  BY StretchesFacts
<1>2. M = Joining(S, gap)
  BY DEF MergedOf
<1> HIDE DEF S, M
<1>3. Apart(M, gap) /\ Holds(M, S) /\ KeepsClear(M, S, gap) /\ KeepsWithin(M, S, gap)
  BY <1>1, <1>2, JoiningFacts
<1>4. ASSUME NEW least \in Nat PROVE TimeIn(M, least) \in Nat
  <2>1. IsFiniteSet(TicksIn(M, least)) /\ TimeIn(M, least) = Cardinality(TicksIn(M, least))
    BY <1>3, TimeInIsSize
  <2> QED BY <2>1, FS_CardinalityType
<1> QED BY <1>3, <1>4 DEF S, M

\* Those of the telemetry.
LEMMA MergedFacts ==
  ASSUME RecordingInv, NEW mask, mask \subseteq Frames, NEW gap \in Nat
  PROVE  /\ Apart(Merged(mask, gap), gap)
         /\ Holds(Merged(mask, gap), StretchesOf(Time, mask))
         /\ KeepsClear(Merged(mask, gap), StretchesOf(Time, mask), gap)
         /\ \A least \in Nat : TimeIn(Merged(mask, gap), least) \in Nat
<1>1. n \in Nat /\ (\A i \in 1..n : Time[i] \in Int) /\ mask \subseteq 1..n
  BY FramesFacts DEF Frames
<1>2. Merged(mask, gap) = MergedOf(Time, mask, gap)
  BY MergedIsMergedOf
<1>3. PICK size, time : size = n /\ time = Time
  OBVIOUS
<1>4. /\ Apart(MergedOf(time, mask, gap), gap)
      /\ Holds(MergedOf(time, mask, gap), StretchesOf(time, mask))
      /\ KeepsClear(MergedOf(time, mask, gap), StretchesOf(time, mask), gap)
      /\ \A least \in Nat : TimeIn(MergedOf(time, mask, gap), least) \in Nat
  BY <1>1, <1>3, MergedOfFacts
<1> QED BY <1>2, <1>3, <1>4

-----------------------------------------------------------------------------
(* The scores are scores.                                                   *)

\* What is flagged is some of the frames.
LEMMA FlagsFacts ==
  ASSUME RecordingInv, NEW f \in DOMAIN Offset, NEW threshold
  PROVE  Above(Norm(f), threshold) \subseteq Frames /\ IsFiniteSet(Above(Norm(f), threshold))
  BY NormType, AboveFacts

LEMMA ShareOfFrames ==
  ASSUME RecordingInv, NEW S, S \subseteq Frames
  PROVE  IsFiniteSet(S) /\ Share(S, n) \in Nat
<1>1. n \in Nat /\ IsFiniteSet(Frames)
  BY FramesFacts
<1>2. IsFiniteSet(S)
  BY <1>1, PartIsSmaller
<1> QED BY <1>1, <1>2, ShareType

\* A percentile of norms is a natural number.
LEMMA NormPercentile ==
  ASSUME RecordingInv, NEW f \in DOMAIN Offset, NEW q \in 0..100
  PROVE  Percentile(Norm(f), q) \in Nat
<1>1. DOMAIN Norm(f) = Frames /\ Numbers(Norm(f)) /\ \A i \in Frames : Norm(f)[i] \in Nat
  BY NormType
<1>2. CASE Frames = {}
  <2>1. Cardinality(DOMAIN Norm(f)) = 0
    BY <1>1, <1>2, FS_EmptySet
  <2> QED BY <2>1 DEF Percentile
<1>3. CASE Frames # {}
  <2>1. Percentile(Norm(f), q) \in Int
    BY <1>1, PercentileType
  <2>2. PICK z \in Int : z = 0
    OBVIOUS
  <2>3. \A i \in DOMAIN Norm(f) : z <= Norm(f)[i]
    BY <1>1, <2>2
  <2>4. z <= Percentile(Norm(f), q)
    BY <1>1, <1>3, <2>3, PercentileAtLeast
  <2> QED BY <2>1, <2>2, <2>4
<1> QED BY <1>2, <1>3

LEMMA MotionTyped ==
  ASSUME RecordingInv
  PROVE  Smoothness \in Int /\ Continuity \in Int /\ Stability \in Int
<1>1. Percentile(Norm("jerk"), 95) \in Nat /\ Percentile(Norm("cont"), 95) \in Nat
  BY NormPercentile DEF Offset
<1>2. Share(Oscillating, n) \in Nat /\ Share(Chattering, n) \in Nat
  BY FlagsFacts, ShareOfFrames DEF Offset, Oscillating, Chattering
<1>3. (60 * Share(Oscillating, n) + 40 * Share(Chattering, n)) \div 100 \in Int
  BY <1>2
<1>4. Smoothness \in Int
  <2>1. PICK x \in Int : x = Percentile(Norm("jerk"), 95)
    BY <1>1
  <2>2. ScoreInverse(x, 60, 180, 450) \in Int
    BY InverseType
  <2> QED BY <2>1, <2>2 DEF Smoothness
<1>5. Continuity \in Int
  <2>1. PICK x \in Int : x = Percentile(Norm("cont"), 95)
    BY <1>1
  <2>2. ScoreInverse(x, 100, 300, 800) \in Int
    BY InverseType
  <2> QED BY <2>1, <2>2 DEF Continuity
<1>6. Stability \in Int
  BY <1>3, InverseType DEF Stability
<1> QED BY <1>4, <1>5, <1>6

LEMMA LearnTyped ==
  ASSUME RecordingInv
  PROVE  /\ EffectiveRatio \in Int /\ InformationDensity \in Int /\ LowValueSegments \in Int
         /\ LowValueShare \in Int /\ Effective \subseteq Frames /\ LowValue \subseteq Frames
<1>1. Effective \subseteq Frames
  BY FlagsFacts DEF Offset, Effective
<1>2. Share(Effective, n) \in Nat
  BY <1>1, ShareOfFrames
<1>3. EffectiveRatio \in Int
  BY <1>2, RatioType DEF EffectiveRatio
<1>4. Percentile(Restrict(Both, Effective), 75) \in Int
  <2>1. Numbers(Both) /\ DOMAIN Both = Frames
    <3>1. \A i \in Frames : Norm("arm")[i] \in Nat /\ Norm("hand")[i] \in Nat
      BY NormType DEF Offset
    <3>2. IsFiniteSet(Frames)
      BY FramesFacts
    <3> QED BY <3>1, <3>2 DEF Both, Numbers, Greater
  <2>2. Numbers(Restrict(Both, Effective))
    BY <1>1, <2>1, RestrictFacts
  <2> QED BY <2>2, PercentileType
<1>5. Percentile(Norm("state"), 75) \in Nat
  BY NormPercentile DEF Offset
<1>6. Density \in Int
  <2>1. (Share(Effective, n) * Percentile(Restrict(Both, Effective), 75)) \div Whole \in Int
    BY <1>2, <1>4 DEF Whole
  <2> QED BY <1>5, <2>1 DEF Density
<1>7. InformationDensity \in Int
  BY <1>6, RatioType DEF InformationDensity
<1>8. LowValue \subseteq Frames
  BY DEF LowValue, Ineffective
<1>9. LowValueShare \in Int
  <2>1. n \in Nat /\ (\A i \in 1..n : Time[i] \in Int) /\ Duration \in Int /\ Frames = 1..n
    BY FramesFacts DEF Frames
  <2>2. TimeIn(Merged(LowValue, 300), 1000) \in Nat
    <3>1. \A gap \in Nat, least \in Nat : TimeIn(Merged(LowValue, gap), least) \in Nat
      BY <1>8, MergedFacts
    <3> QED BY <3>1
  <2> QED BY <2>1, <2>2 DEF LowValueShare, Whole
<1>10. LowValueSegments \in Int
  BY <1>9, InverseType DEF LowValueSegments
<1> QED BY <1>1, <1>3, <1>7, <1>8, <1>9, <1>10

\* The median of the intervals that are positive is positive.
LEMMA MedianPositive ==
  ASSUME NEW v, Numbers(v), Above(v, 0) # {}
  PROVE  Percentile(Positive(v), 50) \in Nat \ {0}
<1>1. /\ Above(v, 0) \subseteq DOMAIN v
      /\ \A i \in Above(v, 0) : v[i] \in Int /\ v[i] > 0
  BY DEF Above, Numbers
<1>2. /\ DOMAIN Positive(v) = Above(v, 0)
      /\ \A i \in Above(v, 0) : Positive(v)[i] = v[i]
      /\ Numbers(Positive(v))
  BY <1>1, RestrictFacts DEF Positive
<1>3. PICK one \in Int : one = 1
  OBVIOUS
<1>4. \A i \in DOMAIN Positive(v) : one <= Positive(v)[i]
  BY <1>1, <1>2, <1>3
<1>5. Percentile(Positive(v), 50) \in Int
  BY <1>2, PercentileType
<1>6. one <= Percentile(Positive(v), 50)
  BY <1>2, <1>4, PercentileAtLeast
<1> QED BY <1>3, <1>5, <1>6

LEMMA IntervalsType ==
  ASSUME RecordingInv, NEW clock \in {"t", "depth"}
  PROVE  Numbers(Intervals(clock)) /\ DOMAIN Intervals(clock) = 1..(n - 1)
<1>1. n \in Nat
  BY FramesFacts
<1>2. \A i \in 1..n : frames[i] \in Telemetry
  BY DEF RecordingInv, n
<1>3. \A i \in 1..n : frames[i][clock] \in Int
  BY <1>2 DEF Telemetry
<1>4. IsFiniteSet(1..(n - 1))
  BY <1>1, FS_Interval
<1>5. \A i \in 1..(n - 1) : i \in 1..n /\ i + 1 \in 1..n
  BY <1>1
<1> QED BY <1>3, <1>4, <1>5 DEF Intervals, Numbers

LEMMA ExpectedPositive ==
  ASSUME RecordingInv
  PROVE  /\ Expected \in Nat \ {0} /\ MedianInterval(Interval) \in Int
         /\ Numbers(Interval) /\ DOMAIN Interval = 1..(n - 1)
<1>1. Numbers(Interval) /\ DOMAIN Interval = 1..(n - 1)
  BY IntervalsType DEF Interval, Clock
<1>2. MedianInterval(Interval) \in Nat \ {0}
  BY <1>1, MedianPositive DEF MedianInterval
<1>3. header.interval \in Nat
  BY DEF RecordingInv
<1> QED BY <1>1, <1>2, <1>3 DEF Expected

LEMMA RegularityTyped ==
  ASSUME RecordingInv
  PROVE  TimestampRegularity \in Int
<1>1. /\ Expected \in Nat \ {0} /\ MedianInterval(Interval) \in Int
      /\ Numbers(Interval) /\ DOMAIN Interval = 1..(n - 1) /\ n \in Nat
  BY ExpectedPositive, FramesFacts
<1>2. \A x \in Int : Off(x) \in Int
  <2> TAKE x \in Int
  <2>1. Whole * (IF x < Expected THEN Expected - x ELSE x - Expected) \in Int
    BY <1>1 DEF Whole
  <2> QED BY <1>1, <2>1 DEF Off
<1>3. Percentile([i \in DOMAIN Interval |-> Off(Interval[i])], 95) \in Int
  <2>1. Numbers([i \in DOMAIN Interval |-> Off(Interval[i])])
    BY <1>1, <1>2 DEF Numbers
  <2> QED BY <2>1, PercentileType
<1>4. CASE n >= 2
  <2>1. n - 1 \in Nat
    BY <1>1, <1>4
  <2>2. IsFiniteSet(Dropped) /\ IsFiniteSet(Backward)
    <3>1. Dropped \subseteq DOMAIN Interval /\ Backward \subseteq DOMAIN Interval
      BY DEF Dropped, Backward
    <3> QED BY <1>1, <3>1, PartIsSmaller DEF Numbers
  <2>3. Share(Dropped, n - 1) \in Nat /\ Share(Backward, n - 1) \in Nat
    BY <2>1, <2>2, ShareType
  <2>4. Irregularity \in Int
    <3> DEFINE a == Percentile([i \in DOMAIN Interval |-> Off(Interval[i])], 95)
               b == Share(Dropped, n - 1)
               c == Share(Backward, n - 1)
               d == Off(MedianInterval(Interval))
               e == IF Clock = "t" /\ header.interval > 0 THEN 25 * d ELSE 0
    <3>1. a \in Int /\ b \in Int /\ c \in Int /\ d \in Int
      BY <1>1, <1>2, <1>3, <2>3
    <3>2. Irregularity = (35 * a + 25 * b + 15 * c + e) \div 100
      BY DEF Irregularity
    <3> HIDE DEF a, b, c, d
    <3>3. e \in Int
      BY <3>1
    <3> HIDE DEF e
    <3> QED BY <3>1, <3>2, <3>3
  <2> QED BY <2>4, InverseType DEF TimestampRegularity
<1>5. CASE n < 2
  BY <1>5 DEF TimestampRegularity
<1> QED BY <1>1, <1>4, <1>5

LEMMA SyncThresholds ==
  ASSUME RecordingInv
  PROVE  /\ SyncInterval \in Nat \ {0} /\ SyncWarn \in Nat /\ SyncBad \in Nat \ {0}
         /\ Invalid \subseteq Frames /\ Soft \subseteq Frames /\ Severe \subseteq Frames
         /\ Above(Norm("diff"), SyncBad) \subseteq Frames
<1>1. SyncInterval \in Nat \ {0}
  BY IntervalsType, MedianPositive DEF SyncInterval
<1>2. WarnMultiple \in Nat
  BY MetricsAssumption
<1>3. WarnMultiple * SyncInterval \in Int
  BY <1>1, <1>2
<1>4. SyncWarn \in Nat
  BY <1>3 DEF SyncWarn, Greater
<1>5. SyncBad \in Nat \ {0}
  BY <1>1 DEF SyncBad, Greater
<1>6. Invalid \subseteq Frames /\ Soft \subseteq Frames /\ Above(Norm("diff"), SyncBad) \subseteq Frames
  BY FlagsFacts DEF Offset, Invalid, Soft
<1> QED BY <1>1, <1>4, <1>5, <1>6 DEF Severe

LEMMA SyncTyped ==
  ASSUME RecordingInv
  PROVE  SyncValidity \in Int /\ OutOfSyncShare \in Int
<1>1. OutOfSyncShare \in Int
  <2>1. n \in Nat /\ (\A i \in 1..n : Time[i] \in Int) /\ Duration \in Int /\ Frames = 1..n
    BY FramesFacts DEF Frames
  <2>2. Invalid \cup Soft \subseteq Frames
    BY SyncThresholds
  <2>3. OutOfSyncTime \in Nat
    <3>1. PICK flags : flags = Invalid \cup Soft /\ flags \subseteq Frames
      BY <2>2
    <3>2. \A gap \in Nat, least \in Nat : TimeIn(Merged(flags, gap), least) \in Nat
      BY <3>1, MergedFacts
    <3>3. OutOfSyncTime = TimeIn(Merged(flags, 300), 500)
      BY <3>1 DEF OutOfSyncTime
    <3> QED BY <3>2, <3>3
  <2> QED BY <2>1, <2>3 DEF OutOfSyncShare, Whole
<1>2. Difference \in Nat
  BY NormPercentile DEF Offset, Difference
<1>3. Lesser((Whole * Difference) \div SyncBad, Whole) \in Int
  <2>1. SyncBad \in Nat \ {0} /\ Whole * Difference \in Int
    BY <1>2, SyncThresholds DEF Whole
  <2> QED BY <2>1 DEF Lesser, Whole
<1>4. /\ Share(Invalid, n) \in Nat /\ Share(Above(Norm("diff"), SyncBad), n) \in Nat
      /\ Share(Soft, n) \in Nat
  BY SyncThresholds, ShareOfFrames
<1>5. Desync \in Int
  BY <1>1, <1>3, <1>4 DEF Desync
<1> QED BY <1>1, <1>5, InverseType DEF SyncValidity

\* Whatever the telemetry, every metric scores between 0 and Ten.
LEMMA ScoresInRange ==
  ASSUME RecordingInv
  PROVE  Scores \in [Metric -> 0..Ten]
<1>1. DimensionHealth \in Int
  <2>1. stuck + spiky \in Int
    BY DEF RecordingInv
  <2>2. Lesser(stuck + spiky, Dims) \in Int
    BY <2>1 DEF Lesser, Dims
  <2>3. (Ten * 3 * Lesser(stuck + spiky, Dims)) \div (2 * Dims) \in Int
    BY <2>2 DEF Ten, Dims
  <2>4. Ten - (Ten * 3 * Lesser(stuck + spiky, Dims)) \div (2 * Dims) \in Int
    BY <2>3 DEF Ten
  <2>5. \A v \in Int : Clamp(v) \in Int
    BY ClampType, ScoreIsInt
  <2> QED BY <2>4, <2>5 DEF DimensionHealth
<1>2. Completeness \in Int
  BY DEF Completeness, Ten
<1>3. /\ Scores.MQ01 \in 0..Ten /\ Scores.MQ02 \in 0..Ten /\ Scores.MQ03 \in 0..Ten
      /\ Scores.LQ01 \in 0..Ten /\ Scores.LQ02 \in 0..Ten /\ Scores.LQ03 \in 0..Ten
      /\ Scores.DI01 \in 0..Ten /\ Scores.DI02 \in 0..Ten /\ Scores.DI03 \in 0..Ten
      /\ Scores.DI04 \in 0..Ten
  BY <1>1, <1>2, ClampType, MotionTyped, LearnTyped, RegularityTyped, SyncTyped DEF Scores
<1>4. DOMAIN Scores = Metric
  BY DEF Scores, Metric, Motion, Learnability, Integrity
<1>5. Scores = [m \in Metric |-> Scores[m]]
  BY <1>4 DEF Scores
<1>6. \A m \in Metric : Scores[m] \in 0..Ten
  BY <1>3 DEF Metric, Motion, Learnability, Integrity
<1> HIDE DEF Scores
<1> QED BY <1>5, <1>6

-----------------------------------------------------------------------------
(* The diagnostics and the shares of time.                                  *)

\* From one of the lags on, the median of the errors is least, and no smaller lag has it.
LEMMA SomeLag ==
  ASSUME NEW last \in Nat, NEW median, \A k \in 0..last : median[k] \in Int
  PROVE  \E k \in 0..last : \A j \in 0..last :
           IF j < k THEN median[k] < median[j] ELSE median[k] <= median[j]
<1> DEFINE K == 0..last
           Best == {k \in K : \A j \in K : median[k] <= median[j]}
<1>1. IsFiniteSet(K) /\ K # {} /\ K \subseteq Nat
  <2>1. IsFiniteSet(K)
    <3>1. 0 \in Int /\ last \in Int
      OBVIOUS
    <3> QED BY <3>1, FS_Interval
  <2>2. 0 \in K
    OBVIOUS
  <2> QED BY <2>1, <2>2
<1>2. Best # {}
  <2>1. \A k \in K : median[k] \in Int
    OBVIOUS
  <2> HIDE DEF K
  <2>2. \E k \in K : \A j \in K : median[k] <= median[j]
    BY <1>1, <2>1, Least
  <2> QED BY <2>2
<1>3. PICK k \in Best : \A j \in Best : k <= j
  <2>1. Best \subseteq Nat
    BY <1>1
  <2> HIDE DEF Best
  <2> QED BY <1>2, <2>1, LeastNumber
<1>4. ASSUME NEW j \in K, j < k PROVE median[k] < median[j]
  <2>1. j \notin Best
    BY <1>3, <1>4
  <2>2. PICK l \in K : ~(median[j] <= median[l])
    BY <2>1
  <2> QED BY <1>3, <2>2
<1> QED BY <1>3, <1>4

\* The lag leaves some of the frames to be judged.
LEMMA LagFacts ==
  ASSUME RecordingInv
  PROVE  /\ Lag \in Nat /\ (n > 0 => Lag \in 0..(n - 1))
         /\ Numbers(Aligned) /\ DOMAIN Aligned = (Lag + 1)..n
<1> DEFINE last == Lesser(5, n \div LagRatio)
           median == [k \in 0..last |-> Percentile(From(k), 50)]
<1>1. n \in Nat /\ LagRatio \in Nat \ {0, 1}
  BY FramesFacts, MetricsAssumption
<1>2. last \in Nat /\ (n > 0 => last \in 0..(n - 1))
  <2>1. PICK N \in Nat, d \in Nat \ {0, 1} : N = n /\ d = LagRatio
    BY <1>1
  <2>2. N \div d \in Nat /\ (N > 0 => N \div d < N)
    OBVIOUS
  <2> QED BY <2>1, <2>2 DEF Lesser
<1>3. ASSUME NEW k \in 0..last
      PROVE  Numbers(From(k)) /\ DOMAIN From(k) = (k + 1)..n
  <2>1. DOMAIN Norm("err") = 1..n /\ Numbers(Norm("err"))
    BY NormType DEF Offset, Frames
  <2>2. (k + 1)..n \subseteq 1..n
    OBVIOUS
  <2> QED BY <2>1, <2>2, RestrictFacts DEF From
<1>4. \A k \in 0..last : median[k] \in Int
  BY <1>3, PercentileType
<1>5. \E k \in 0..last : \A j \in 0..last :
        IF j < k THEN median[k] < median[j] ELSE median[k] <= median[j]
  <2>1. last \in Nat
    BY <1>1, <1>2
  <2> HIDE DEF last, median
  <2> QED BY <1>4, <2>1, SomeLag
<1>6. Lag \in 0..last
  BY <1>5 DEF Lag
<1>7. Lag \in Nat /\ (n > 0 => Lag \in 0..(n - 1))
  BY <1>1, <1>2, <1>6
<1> QED BY <1>3, <1>6, <1>7 DEF Aligned

LEMMA DiagnosticsInRange ==
  ASSUME RecordingInv
  PROVE  Tracking \in 0..Ten /\ DataValidity \in 0..Ten
<1>1. n \in Nat
  BY FramesFacts
<1>2. Tracking \in 0..Ten
  <2>1. CASE n = 0
    BY <2>1 DEF Tracking, Ten
  <2>2. CASE n > 0
    <3>1. /\ Lag \in 0..(n - 1) /\ Numbers(Aligned) /\ DOMAIN Aligned = (Lag + 1)..n
      BY <2>2, LagFacts
    <3>2. Percentile(Aligned, 95) \in Int
      BY <3>1, PercentileType
    <3>3. Mean(Aligned) \in Int
      <4>1. /\ IsFiniteSet(DOMAIN Aligned) /\ DOMAIN Aligned # {}
            /\ \A i \in DOMAIN Aligned : Aligned[i] \in Int
        <5>1. n \in DOMAIN Aligned
          BY <1>1, <2>2, <3>1
        <5> QED BY <3>1, <5>1 DEF Numbers
      <4>2. SumFunctionOnSet(Aligned, DOMAIN Aligned) \in Int
        BY <4>1, SumIsInt
      <4>3. Cardinality(DOMAIN Aligned) \in Nat \ {0}
        BY <4>1, FS_CardinalityType, FS_EmptySet
      <4> QED BY <4>2, <4>3 DEF Mean, SumFunction
    <3>4. Share(Deviating, n - Lag) \in Nat
      <4>1. IsFiniteSet(Deviating)
        BY <3>1, AboveFacts DEF Deviating
      <4>2. n - Lag \in Nat
        BY <1>1, <3>1
      <4> QED BY <4>1, <4>2, ShareType
    <3>5. TrackingSeverity \in Int
      <4>1. /\ Lesser((Whole * Percentile(Aligned, 95)) \div 3500, Whole) \in Int
            /\ Lesser((Whole * Mean(Aligned)) \div 2000, Whole) \in Int
        BY <3>2, <3>3 DEF Lesser, Whole
      <4> QED BY <3>4, <4>1 DEF TrackingSeverity
    <3>6. Ten - TrackingSeverity \div 10 \in Int
      BY <3>5 DEF Ten
    <3> QED BY <2>2, <3>6, ClampType DEF Tracking
  <2> QED BY <1>1, <2>1, <2>2
<1>3. DataValidity \in 0..Ten
  <2>1. \A i \in Frames : frames[i].lost \in Int
    <3>1. \A i \in Frames : frames[i] \in Telemetry
      BY DEF RecordingInv, Frames, n
    <3> QED BY <3>1 DEF Telemetry
  <2> DEFINE lost == [i \in Frames |-> frames[i].lost]
  <2>2. DOMAIN lost = Frames /\ \A i \in Frames : lost[i] \in Int
    BY <2>1
  <2>3. IsFiniteSet(Frames)
    BY FramesFacts
  <2>4. Lost = SumFunctionOnSet(lost, Frames)
    BY DEF Lost, SumFunction
  <2> HIDE DEF lost
  <2>5. Lost \in Int
    BY <2>2, <2>3, <2>4, SumIsInt
  <2>6. Ten - 10 * Lesser(Lost, 100) \in Int
    BY <2>5 DEF Lesser, Ten
  <2> QED BY <2>6, ClampType DEF DataValidity
<1> QED BY <1>2, <1>3

\* A clock that runs forward from frame to frame runs forward.
LEMMA Sorted ==
  ASSUME NEW size \in Nat, NEW time, \A i \in 1..size : time[i] \in Int,
         \A i \in 1..(size - 1) : time[i] <= time[i + 1]
  PROVE  \A i, j \in 1..size : i <= j => time[i] <= time[j]
<1> SUFFICES ASSUME NEW i \in 1..size, NEW j \in 1..size, i <= j, ~(time[i] <= time[j])
             PROVE  FALSE
  OBVIOUS
<1> DEFINE Later == {k \in 1..size : i <= k /\ ~(time[i] <= time[k])}
<1>1. j \in Later /\ Later \subseteq Nat
  OBVIOUS
<1>2. PICK k \in Later : \A l \in Later : k <= l
  <2> HIDE DEF Later
  <2> QED BY <1>1, LeastNumber
<1>3. k # i /\ k \in 1..size /\ i <= k /\ ~(time[i] <= time[k])
  OBVIOUS
<1>4. PICK l \in 1..(size - 1) : k = l + 1 /\ i <= l
  <2>1. k - 1 \in 1..(size - 1) /\ k = (k - 1) + 1 /\ i <= k - 1
    BY <1>3
  <2> QED BY <2>1
<1>5. l \in 1..size /\ l \notin Later
  BY <1>2, <1>4
<1>6. time[i] <= time[l]
  BY <1>4, <1>5
<1>7. time[l] <= time[k]
  BY <1>4
<1> QED BY <1>3, <1>5, <1>6, <1>7

LEMMA ForwardIsSorted ==
  ASSUME RecordingInv, Forward
  PROVE  \A i, j \in Frames : i <= j => Time[i] <= Time[j]
<1>1. n \in Nat /\ (\A i \in 1..n : Time[i] \in Int) /\ Frames = 1..n
  BY FramesFacts DEF Frames
<1>2. \A i \in 1..(n - 1) : Time[i] <= Time[i + 1]
  BY DEF Forward
<1> QED BY <1>1, <1>2, Sorted

\* Segments last no longer than the recording.
LEMMA SegmentsInTime ==
  ASSUME RecordingInv, Forward, NEW mask, mask \subseteq Frames, NEW gap \in Nat,
         NEW least \in Nat, Duration > 0
  PROVE  TimeIn(Merged(mask, gap), least) \in 0..Duration
<1>1. /\ n \in Nat /\ Frames = 1..n /\ Duration \in Nat
      /\ (\A i \in 1..n : Time[i] \in Int) /\ (n > 0 => Time[1] = 0)
  BY FramesFacts DEF Frames
<1>2. n > 0 /\ Duration = Time[n]
  BY <1>1 DEF Duration
<1>3. \A i \in Frames : Time[i] \in 0..Duration
  <2> TAKE i \in Frames
  <2>1. 1 \in Frames /\ n \in Frames /\ 1 <= i /\ i <= n
    BY <1>1, <1>2
  <2>2. Time[1] <= Time[i] /\ Time[i] <= Time[n]
    BY <2>1, ForwardIsSorted
  <2> QED BY <1>1, <1>2, <2>2
<1> DEFINE M == Merged(mask, gap)
           S == StretchesOf(Time, mask)
<1>4. Apart(M, gap) /\ Holds(M, S)
  BY MergedFacts
<1>5. \A s \in S : 0 <= s.start /\ s.end <= Duration
  <2>1. \A r \in Runs(mask) : r[1] \in Frames /\ r[2] \in Frames
    BY <1>1, RunsFacts
  <2>2. \A r \in Runs(mask) :
          0 <= StretchOf(Time, r).start /\ StretchOf(Time, r).end <= Duration
    <3> TAKE r \in Runs(mask)
    <3>1. Time[r[1]] \in 0..Duration /\ Time[r[2]] \in 0..Duration
      BY <1>3, <2>1
    <3> QED BY <1>1, <3>1 DEF StretchOf, Greater
  <2> QED BY <2>2 DEF StretchesOf
<1>6. \A k \in 1..Len(M) : 0 <= M[k].start /\ M[k].end <= Duration
  <2> HIDE DEF M, S
  <2> QED BY <1>4, <1>5 DEF Holds
<1> HIDE DEF M
<1>7. TimeIn(M, least) \in 0..Duration
  BY <1>1, <1>4, <1>6, TimeInBounded
<1> QED BY <1>7 DEF M

\* A part of a duration is a share of it.
LEMMA PartOfDuration ==
  ASSUME NEW d \in Nat \ {0}, NEW x \in 0..d
  PROVE  (Whole * x) \div d \in 0..Whole
<1>1. Whole * x \in Int /\ Whole * d \in Int /\ 0 <= Whole * x /\ Whole * x <= Whole * d
  BY DEF Whole
<1>2. 0 \div d <= (Whole * x) \div d
  BY <1>1, QuotientMonotone
<1>3. (Whole * x) \div d <= (Whole * d) \div d
  BY <1>1, QuotientMonotone
<1>4. 0 \div d = 0 /\ (Whole * d) \div d = Whole
  BY QuotientOfMultiple DEF Whole
<1> DEFINE y == (Whole * x) \div d
<1>5. y \in Int
  BY <1>1
<1>6. 0 <= y /\ y <= Whole
  BY <1>2, <1>3, <1>4
<1> HIDE DEF y
<1>7. y \in 0..Whole
  BY <1>5, <1>6 DEF Whole
<1> QED BY <1>7 DEF y

LEMMA SharesInRange ==
  ASSUME RecordingInv, Forward
  PROVE  LowValueShare \in 0..Whole /\ OutOfSyncShare \in 0..Whole
<1>1. Duration \in Int
  BY FramesFacts
<1>2. LowValueShare \in 0..Whole
  <2>1. CASE Duration > 0
    <3>1. LowValue \subseteq Frames
      BY LearnTyped
    <3>2. \A gap \in Nat, least \in Nat : TimeIn(Merged(LowValue, gap), least) \in 0..Duration
      BY <2>1, <3>1, SegmentsInTime
    <3>3. PICK d \in Nat \ {0}, x \in 0..Duration :
            d = Duration /\ x = TimeIn(Merged(LowValue, 300), 1000)
      BY <1>1, <2>1, <3>2
    <3>4. (Whole * x) \div d \in 0..Whole
      BY <3>3, PartOfDuration
    <3> QED BY <2>1, <3>3, <3>4 DEF LowValueShare
  <2>2. CASE ~(Duration > 0)
    BY <2>2 DEF LowValueShare, Whole
  <2> QED BY <2>1, <2>2
<1>3. OutOfSyncShare \in 0..Whole
  <2>1. CASE Duration > 0
    <3>1. PICK flags : flags = Invalid \cup Soft /\ flags \subseteq Frames
      BY SyncThresholds
    <3>2. \A gap \in Nat, least \in Nat : TimeIn(Merged(flags, gap), least) \in 0..Duration
      BY <2>1, <3>1, SegmentsInTime
    <3>3. OutOfSyncTime = TimeIn(Merged(flags, 300), 500)
      BY <3>1 DEF OutOfSyncTime
    <3>4. PICK d \in Nat \ {0}, x \in 0..Duration : d = Duration /\ x = OutOfSyncTime
      <4>1. Duration \in Nat \ {0} /\ OutOfSyncTime \in 0..Duration
        BY <1>1, <2>1, <3>2, <3>3
      <4> QED BY <4>1
    <3>5. (Whole * x) \div d \in 0..Whole
      BY <3>4, PartOfDuration
    <3> QED BY <2>1, <3>4, <3>5 DEF OutOfSyncShare
  <2>2. CASE ~(Duration > 0)
    BY <2>2 DEF OutOfSyncShare, Whole
  <2> QED BY <2>1, <2>2
<1> QED BY <1>2, <1>3

-----------------------------------------------------------------------------
(* Type correctness.                                                        *)

CoreInv == RecordingInv /\ score \in Scoring

\* A frame is read with the values its aspect varies.
LEMMA AtType ==
  ASSUME aspect \in Aspect, NEW f \in Reading[aspect], NEW t \in Int, NEW depth \in Int
  PROVE  At(f, t, depth) \in Telemetry /\ At(f, t, depth).t = t
<1>1. f \in [dt : Int, ddt : Int, jerk : Nat, cont : Nat, osc : Nat, chat : Nat, arm : Nat,
             hand : Nat, state : Nat, valid : BOOLEAN, diff : Nat, err : Nat, lost : Nat]
  BY ReadingAssumption
<1>2. /\ f.jerk \in Nat /\ f.cont \in Nat /\ f.osc \in Nat /\ f.chat \in Nat /\ f.arm \in Nat
      /\ f.hand \in Nat /\ f.state \in Nat /\ f.valid \in BOOLEAN /\ f.diff \in Nat
      /\ f.err \in Nat /\ f.lost \in Nat
  BY <1>1
<1> QED BY <1>2 DEF At, Telemetry

LEMMA RecordKeeps ==
  ASSUME CoreInv, NEW f \in Reading[aspect], Record(f)
  PROVE  CoreInv'
<1>1. /\ frames \in Seq(Telemetry) /\ aspect \in Aspect /\ n \in Nat /\ n = Len(frames)
      /\ (n > 0 => frames[1].t = 0)
  BY FramesFacts DEF CoreInv, RecordingInv, n
<1>2. frames' = Append(frames, Placed(f)) /\ UNCHANGED <<aspect, header, stuck, spiky, score>>
  BY DEF Record
<1>3. Placed(f) \in Telemetry /\ (n = 0 => Placed(f).t = 0)
  <2>1. CASE n = 0
    BY <1>1, <2>1, AtType DEF Placed
  <2>2. CASE n # 0
    <3>1. f.dt \in Int /\ f.ddt \in Int
      <4>1. f \in [dt : Int, ddt : Int, jerk : Nat, cont : Nat, osc : Nat, chat : Nat, arm : Nat,
                   hand : Nat, state : Nat, valid : BOOLEAN, diff : Nat, err : Nat, lost : Nat]
        BY <1>1, ReadingAssumption
      <4> QED BY <4>1
    <3>2. frames[n] \in Telemetry
      BY <1>1, <2>2
    <3>3. frames[n].t + f.dt \in Int /\ frames[n].depth + f.ddt \in Int
      BY <3>1, <3>2 DEF Telemetry
    <3> QED BY <1>1, <2>2, <3>3, AtType DEF Placed
  <2> QED BY <2>1, <2>2
<1>4. /\ frames' \in Seq(Telemetry)
      /\ frames'[1] = IF n = 0 THEN Placed(f) ELSE frames[1]
  BY <1>1, <1>2, <1>3
<1>5. n' > 0 => (frames[1].t)' = 0
  BY <1>1, <1>3, <1>4
<1> QED BY <1>2, <1>4, <1>5 DEF CoreInv, RecordingInv, n

LEMMA WorsenKeeps ==
  ASSUME CoreInv, NEW f \in Reading[aspect], NEW i \in Frames, Worsen(i, f)
  PROVE  CoreInv'
<1>1. /\ frames \in Seq(Telemetry) /\ aspect \in Aspect /\ n \in Nat /\ n = Len(frames)
      /\ (n > 0 => frames[1].t = 0) /\ i \in 1..Len(frames)
  BY FramesFacts DEF CoreInv, RecordingInv, n, Frames
<1>2. /\ frames' = [frames EXCEPT ![i] = At(f, frames[i].t, frames[i].depth)]
      /\ UNCHANGED <<aspect, header, stuck, spiky, score>>
  BY DEF Worsen
<1>3. /\ At(f, frames[i].t, frames[i].depth) \in Telemetry
      /\ At(f, frames[i].t, frames[i].depth).t = frames[i].t
  <2>1. frames[i] \in Telemetry
    BY <1>1
  <2>2. frames[i].t \in Int /\ frames[i].depth \in Int
    BY <2>1 DEF Telemetry
  <2> QED BY <1>1, <2>2, AtType
<1>4. frames' \in Seq(Telemetry) /\ Len(frames') = Len(frames)
  BY <1>1, <1>2, <1>3
<1>5. n > 0 => frames'[1].t = 0
  BY <1>1, <1>2, <1>3
<1> QED BY <1>1, <1>2, <1>4, <1>5 DEF CoreInv, RecordingInv, n

LEMMA CoreInit == Init => CoreInv
<1> SUFFICES ASSUME Init PROVE CoreInv
  OBVIOUS
<1>1. /\ aspect \in Aspect /\ header \in Header[aspect] /\ frames = <<>>
      /\ stuck = 0 /\ spiky = 0 /\ score = [m \in Metric |-> 0]
  BY DEF Init
<1>2. header \in [interval : Nat, count : Nat, depth : BOOLEAN]
  BY <1>1, ReadingAssumption
<1>3. n = 0
  BY <1>1 DEF n
<1>4. score \in Scoring
  BY <1>1 DEF Scoring, Ten
<1> QED BY <1>1, <1>2, <1>3, <1>4 DEF CoreInv, RecordingInv

LEMMA CoreStep == CoreInv /\ [Next]_vars => CoreInv'
<1> SUFFICES ASSUME CoreInv, [Next]_vars PROVE CoreInv'
  OBVIOUS
<1>1. ASSUME NEW f \in Reading[aspect], Record(f) PROVE CoreInv'
  BY <1>1, RecordKeeps
<1>2. ASSUME NEW f \in Reading[aspect], NEW i \in Frames, Worsen(i, f) PROVE CoreInv'
  BY <1>2, WorsenKeeps
<1>3. CASE Deteriorate
  BY <1>3 DEF Deteriorate, CoreInv, RecordingInv, n
<1>4. CASE Compute
  <2>1. score' = Scores /\ UNCHANGED <<aspect, header, frames, stuck, spiky>>
    BY <1>4 DEF Compute
  <2>2. Scores \in Scoring
    BY ScoresInRange DEF CoreInv, Scoring
  <2> QED BY <2>1, <2>2 DEF CoreInv, RecordingInv, n
<1>5. CASE UNCHANGED vars
  BY <1>5 DEF vars, CoreInv, RecordingInv, n
<1> QED BY <1>1, <1>2, <1>3, <1>4, <1>5 DEF Next

LEMMA CoreInvariance == Spec => []CoreInv
  BY CoreInit, CoreStep, PTL DEF Spec

\* Whatever is recorded and however it deteriorates, every metric scores between 0 and
\* Ten, and so do the total and the diagnostics; and if the clock runs forward, what is
\* of low value or out of sync is a share of the recording.
THEOREM TypeCorrect == Spec => []TypeOK
<1>1. CoreInv => TypeOK
  <2> SUFFICES ASSUME CoreInv PROVE TypeOK
    OBVIOUS
  <2>1. \A m \in Metric : score[m] \in 0..Ten
    BY DEF CoreInv, Scoring
  <2>2. Total(score) \in 0..Ten
    BY TotalInRange DEF CoreInv
  <2> QED BY <2>1, <2>2, DiagnosticsInRange, SharesInRange DEF CoreInv, TypeOK
<1> QED BY <1>1, CoreInvariance, PTL

\* Of every report, whatever was recorded: a failing integrity metric caps the total.
THEOREM ReportsAreCapped == Spec => []IntegrityCaps
<1>1. CoreInv => IntegrityCaps
  BY ReportIsCapped DEF CoreInv, Scoring
<1> QED BY <1>1, CoreInvariance, PTL

-----------------------------------------------------------------------------
(* The timeline.                                                            *)

\* What a lane flags are frames of the recording.
LEMMA LaneFacts ==
  ASSUME RecordingInv, NEW lane \in Lane
  PROVE  lane.mask \subseteq Frames /\ lane.gap \in Nat /\ lane.least \in Nat
<1>1. Spikes \subseteq Frames /\ Jumps \subseteq Frames
  BY FlagsFacts DEF Offset, Spikes, Jumps
<1>2. Oscillating \subseteq Frames /\ Chattering \subseteq Frames
  BY FlagsFacts DEF Offset, Oscillating, Chattering
<1>3. Ineffective \subseteq Frames /\ LowValue \subseteq Frames
  BY DEF Ineffective, LowValue
<1>4. Soft \subseteq Frames /\ Severe \subseteq Frames
  BY SyncThresholds
<1>5. Deviating \subseteq Frames /\ Above(Aligned, 3500) \subseteq Frames
  <2>1. Lag \in Nat /\ DOMAIN Aligned = (Lag + 1)..n
    BY LagFacts
  <2>2. DOMAIN Aligned \subseteq Frames
    BY <2>1 DEF Frames
  <2> QED BY <2>2 DEF Deviating, Above
<1>6. Backward \subseteq Frames /\ Dropped \subseteq Frames
  <2>1. n \in Nat /\ DOMAIN Interval = 1..(n - 1)
    BY FramesFacts, ExpectedPositive
  <2>2. DOMAIN Interval \subseteq Frames
    BY <2>1 DEF Frames
  <2> QED BY <2>2 DEF Backward, Dropped
<1> QED BY <1>1, <1>2, <1>3, <1>4, <1>5, <1>6 DEF Lane

LEMMA ApartFacts ==
  ASSUME NEW gap, NEW segs, Apart(segs, gap), NEW k \in 1..Len(segs)
  PROVE  /\ segs[k].start \in Int /\ segs[k].end \in Int
         /\ \A l \in 1..Len(segs) : k < l => segs[k].end + gap < segs[l].start
<1>1. segs[k] \in Segment
  BY DEF Apart
<1> QED BY <1>1 DEF Apart, Segment

\* A flagged frame, and flagged frames next to each other, are in one segment.
LEMMA FlagsAreHeld ==
  ASSUME RecordingInv, Forward, NEW mask, mask \subseteq Frames, NEW gap \in Nat,
         NEW i \in mask, NEW j \in mask, i <= j, i..j \subseteq mask
  PROVE  \E k \in 1..Len(Merged(mask, gap)) :
           InSegment(Time[i], Merged(mask, gap)[k]) /\ InSegment(Time[j], Merged(mask, gap)[k])
<1> DEFINE M == Merged(mask, gap)
           S == StretchesOf(Time, mask)
<1>1. /\ n \in Nat /\ Frames = 1..n /\ \A x \in Frames : Time[x] \in Int
      /\ \A x, y \in Frames : x <= y => Time[x] <= Time[y]
  BY FramesFacts, ForwardIsSorted DEF Frames
<1>2. PICK r \in Runs(mask) : r[1] <= i /\ j <= r[2]
  BY <1>1, RunAround
<1>3. r[1] \in Frames /\ r[2] \in Frames /\ i \in Frames /\ j \in Frames
  BY <1>1, RunsFacts
<1>4. PICK s \in S : s = StretchOf(Time, r)
  BY DEF StretchesOf
<1>5. /\ s.start <= Time[i] /\ Time[i] <= Time[j] /\ Time[j] <= s.end
      /\ s.start \in Int /\ s.end \in Int
  <2>1. /\ Time[r[1]] <= Time[i] /\ Time[i] <= Time[j] /\ Time[j] <= Time[r[2]]
        /\ Time[r[1]] \in Int /\ Time[i] \in Int /\ Time[j] \in Int /\ Time[r[2]] \in Int
    BY <1>1, <1>2, <1>3
  <2> QED BY <1>4, <2>1 DEF StretchOf, Greater
<1>6. Apart(M, gap) /\ Holds(M, S)
  BY MergedFacts
<1> HIDE DEF M, S
<1>7. PICK k \in 1..Len(M) : Inside(s, M[k])
  BY <1>6 DEF Holds
<1>8. M[k].start \in Int /\ M[k].end \in Int
  BY <1>6, ApartFacts
<1>9. Time[i] \in Int /\ Time[j] \in Int
  BY <1>1, <1>3
<1>10. InSegment(Time[i], M[k]) /\ InSegment(Time[j], M[k])
  BY <1>5, <1>7, <1>8, <1>9 DEF Inside, InSegment
<1> QED BY <1>10 DEF M

\* Whichever way the clock runs, a flagged frame that is not astray is in a segment.
LEMMA NoFlagIsLost ==
  ASSUME RecordingInv, NEW mask, mask \subseteq Frames, NEW gap \in Nat,
         NEW i \in mask, ~Astray(mask, i)
  PROVE  \E k \in 1..Len(Merged(mask, gap)) : InSegment(Time[i], Merged(mask, gap)[k])
<1> DEFINE M == Merged(mask, gap)
           S == StretchesOf(Time, mask)
<1>1. n \in Nat /\ Frames = 1..n /\ \A x \in Frames : Time[x] \in Int
  BY FramesFacts DEF Frames
<1>2. PICK r \in Runs(mask) : r[1] <= i /\ i <= r[2]
  <2>1. i \in Nat /\ i <= i /\ i..i \subseteq mask
    BY <1>1
  <2> QED BY <1>1, <2>1, RunAround
<1>3. r[1] \in Frames /\ r[2] \in Frames /\ i \in Frames
  BY <1>1, RunsFacts
<1>4. Time[r[1]] \in Int /\ Time[i] \in Int /\ Time[r[2]] \in Int
  BY <1>1, <1>3
<1>5. r[1] = i \/ (Time[r[1]] <= Time[i] /\ Time[i] <= Time[r[2]])
  <2>1. r[1] = i \/ r[1] < i
    BY <1>1, <1>2, <1>3
  <2>2. ASSUME r[1] < i
        PROVE  ~(Time[i] < Time[r[1]]) /\ ~(Time[r[2]] < Time[i])
    BY <1>2, <2>2 DEF Astray
  <2> QED BY <1>4, <2>1, <2>2
<1>6. PICK s \in S : s = StretchOf(Time, r)
  BY DEF StretchesOf
<1>7. s.start <= Time[i] /\ Time[i] <= s.end /\ s.start \in Int /\ s.end \in Int
  BY <1>4, <1>5, <1>6 DEF StretchOf, Greater
<1>8. Apart(M, gap) /\ Holds(M, S)
  BY MergedFacts
<1> HIDE DEF M, S
<1>9. PICK k \in 1..Len(M) : Inside(s, M[k])
  BY <1>8 DEF Holds
<1>10. M[k].start \in Int /\ M[k].end \in Int
  BY <1>8, ApartFacts
<1>11. InSegment(Time[i], M[k])
  BY <1>4, <1>7, <1>9, <1>10 DEF Inside, InSegment
<1> QED BY <1>11 DEF M

\* Flagged frames are in different segments if no flag comes between them for longer than
\* the gap.
LEMMA PauseSeparates ==
  ASSUME RecordingInv, Forward, NEW mask, mask \subseteq Frames, NEW gap \in Nat,
         NEW i \in mask, NEW j \in mask, i + 1 < j,
         \A k \in (i + 1)..(j - 1) : k \notin mask,
         Time[i] + gap < Time[j],
         NEW k \in 1..Len(Merged(mask, gap))
  PROVE  ~(InSegment(Time[i], Merged(mask, gap)[k]) /\ InSegment(Time[j], Merged(mask, gap)[k]))
<1> DEFINE M == Merged(mask, gap)
           S == StretchesOf(Time, mask)
<1>1. /\ n \in Nat /\ Frames = 1..n /\ \A x \in Frames : Time[x] \in Int
      /\ \A x, y \in Frames : x <= y => Time[x] <= Time[y]
  BY FramesFacts, ForwardIsSorted DEF Frames
<1>2. i \in Frames /\ j \in Frames /\ i \in Nat /\ j \in Nat /\ Time[i] \in Int /\ Time[j] \in Int
  BY <1>1
<1>3. ASSUME NEW r \in Runs(mask)
      PROVE  StretchOf(Time, r).end <= Time[i] \/ Time[j] <= StretchOf(Time, r).start
  <2>1. /\ r[1] \in Frames /\ r[2] \in Frames /\ r[1] \in mask /\ r[2] \in mask
        /\ r[1] <= r[2] /\ r[1]..r[2] \subseteq mask /\ r[1] \in Nat /\ r[2] \in Nat
    <3>1. PICK size \in Nat : Frames = 1..size
      BY <1>1
    <3>2. /\ r[1] \in 1..size /\ r[2] \in 1..size /\ r[1] \in mask /\ r[2] \in mask
          /\ r[1] <= r[2] /\ r[1]..r[2] \subseteq mask
      BY <3>1, RunsFacts
    <3>3. r[1] \in Nat /\ r[2] \in Nat
      BY <3>2
    <3> QED BY <3>1, <3>2, <3>3
  <2>2. r[2] <= i \/ j <= r[1]
    <3>1. i + 1 \notin mask
      BY <1>2
    <3>2. ~(r[1] <= i + 1 /\ i + 1 <= r[2])
      BY <1>2, <2>1, <3>1
    <3>3. ~(i + 1 <= r[1] /\ r[1] <= j - 1)
      BY <1>2, <2>1
    <3> QED BY <1>2, <2>1, <3>2, <3>3
  <2>3. /\ Time[r[1]] <= Time[r[2]] /\ Time[r[1]] \in Int /\ Time[r[2]] \in Int
        /\ Time[r[2]] <= Time[i] \/ Time[j] <= Time[r[1]]
    BY <1>1, <1>2, <2>1, <2>2
  <2> QED BY <2>3 DEF StretchOf, Greater
<1>4. \A s \in S : s.end <= Time[i] \/ Time[j] <= s.start
  BY <1>3 DEF StretchesOf
<1>5. Apart(M, gap) /\ KeepsClear(M, S, gap)
  BY MergedFacts
<1> HIDE DEF M, S
<1>6. Clear(M, Time[i], Time[j])
  BY <1>2, <1>4, <1>5 DEF KeepsClear
<1>7. M[k].end <= Time[i] \/ Time[j] <= M[k].start
  BY <1>6 DEF Clear, M
<1>8. M[k].start \in Int /\ M[k].end \in Int
  <2>1. k \in 1..Len(M)
    BY DEF M
  <2> QED BY <1>5, <2>1, ApartFacts
<1>9. ~(InSegment(Time[i], M[k]) /\ InSegment(Time[j], M[k]))
  BY <1>2, <1>7, <1>8 DEF InSegment
<1> QED BY <1>9 DEF M

\* Flagged frames that are in time within the gap are in one segment.
LEMMA CloseFlagsAreOne ==
  ASSUME RecordingInv, Forward, NEW mask, mask \subseteq Frames, NEW gap \in Nat,
         NEW i \in mask, NEW j \in mask, i <= j, Time[j] - Time[i] <= gap
  PROVE  \E k \in 1..Len(Merged(mask, gap)) :
           InSegment(Time[i], Merged(mask, gap)[k]) /\ InSegment(Time[j], Merged(mask, gap)[k])
<1> DEFINE M == Merged(mask, gap)
<1>1. /\ i \in Nat /\ j \in Nat /\ Time[i] \in Int /\ Time[j] \in Int /\ Time[i] <= Time[j]
      /\ i..i = {i} /\ j..j = {j}
  <2>1. /\ n \in Nat /\ Frames = 1..n /\ \A x \in Frames : Time[x] \in Int
        /\ \A x, y \in Frames : x <= y => Time[x] <= Time[y]
    BY FramesFacts, ForwardIsSorted DEF Frames
  <2> QED BY <2>1
<1>2. PICK k \in 1..Len(M) : InSegment(Time[i], M[k])
  <2>1. i <= i /\ i..i \subseteq mask
    BY <1>1
  <2> QED BY <2>1, FlagsAreHeld
<1>3. PICK l \in 1..Len(M) : InSegment(Time[j], M[l])
  <2>1. j <= j /\ j..j \subseteq mask
    BY <1>1
  <2> QED BY <2>1, FlagsAreHeld
<1>4. Apart(M, gap)
  BY MergedFacts
<1> HIDE DEF M
<1>5. /\ M[k].start \in Int /\ M[k].end \in Int /\ M[l].start \in Int /\ M[l].end \in Int
      /\ k < l => M[k].end + gap < M[l].start
      /\ l < k => M[l].end + gap < M[k].start
      /\ k \in Int /\ l \in Int
  BY <1>4, ApartFacts
<1>6. ~(k < l) /\ ~(l < k)
  <2>1. /\ M[k].start <= Time[i] /\ Time[i] <= M[k].end
        /\ M[l].start <= Time[j] /\ Time[j] <= M[l].end
    BY <1>2, <1>3 DEF InSegment
  <2>2. ASSUME k < l PROVE FALSE
    <3>1. M[k].end + gap < M[l].start
      BY <1>5, <2>2
    <3> QED BY <1>1, <1>5, <2>1, <3>1
  <2>3. ASSUME l < k PROVE FALSE
    <3>1. M[l].end + gap < M[k].start
      BY <1>5, <2>3
    <3> QED BY <1>1, <1>5, <2>1, <3>1
  <2> QED BY <2>2, <2>3
<1>7. k = l
  BY <1>5, <1>6
<1>8. \E x \in 1..Len(M) : InSegment(Time[i], M[x]) /\ InSegment(Time[j], M[x])
  BY <1>2, <1>3, <1>7
<1> QED BY <1>8 DEF M

\* On the timeline a segment begins where it began and ends no earlier.
LEMMA ShownFacts ==
  ASSUME NEW segs \in Seq(Segment), NEW least \in Nat
  PROVE  /\ DOMAIN Shown(segs, least) = 1..Len(segs) /\ DOMAIN segs = 1..Len(segs)
         /\ \A t \in Int : \A k \in 1..Len(segs) :
              InSegment(t, segs[k]) => InSegment(t, Shown(segs, least)[k])
<1>1. DOMAIN Shown(segs, least) = 1..Len(segs) /\ DOMAIN segs = 1..Len(segs)
  BY DEF Shown
<1>2. ASSUME NEW t \in Int, NEW k \in 1..Len(segs), InSegment(t, segs[k])
      PROVE  InSegment(t, Shown(segs, least)[k])
  <2>1. segs[k] \in Segment
    OBVIOUS
  <2>2. segs[k].start \in Int /\ segs[k].end \in Int
    BY <2>1 DEF Segment
  <2>3. Shown(segs, least)[k] =
          [segs[k] EXCEPT !.end = Greater(segs[k].end, segs[k].start + least)]
    BY <1>1 DEF Shown
  <2>4. /\ Shown(segs, least)[k].start = segs[k].start
        /\ Shown(segs, least)[k].end = Greater(segs[k].end, segs[k].start + least)
    BY <2>1, <2>3 DEF Segment
  <2> QED BY <1>2, <2>2, <2>4 DEF InSegment, Greater
<1> QED BY <1>1, <1>2

\* Whatever was recorded, the timeline shows what was flagged, in every lane.
THEOREM FlagsAreShown ==
  ASSUME RecordingInv
  PROVE  TimelineShowsTheFlags
<1> DEFINE Shows(lane, merged, shown) ==
             /\ \A k \in 1..(Len(merged) - 1) : merged[k].end + lane.gap < merged[k + 1].start
             /\ \A i \in lane.mask :
                  Astray(lane.mask, i) \/ \E k \in DOMAIN shown : InSegment(Time[i], shown[k])
             /\ Forward =>
                  \A i, j \in lane.mask :
                    i < j /\ (\A k \in (i + 1)..(j - 1) : k \notin lane.mask) =>
                      (\E k \in DOMAIN merged :
                         InSegment(Time[i], merged[k]) /\ InSegment(Time[j], merged[k]))
                        <=> (j = i + 1 \/ Time[j] - Time[i] <= lane.gap)
<1> SUFFICES ASSUME NEW lane \in Lane
             PROVE  Shows(lane, Merged(lane.mask, lane.gap),
                          Shown(Merged(lane.mask, lane.gap), lane.least))
  BY Zenon DEF TimelineShowsTheFlags
<1>1. PICK mask \in SUBSET Frames, gap \in Nat, least \in Nat :
        mask = lane.mask /\ gap = lane.gap /\ least = lane.least
  <2>1. lane.mask \subseteq Frames /\ lane.gap \in Nat /\ lane.least \in Nat
    BY LaneFacts
  <2> QED BY <2>1
<1> DEFINE M == Merged(mask, gap)
<1>2. Apart(M, gap)
  BY <1>1, MergedFacts
<1>3. M \in Seq(Segment) /\ Len(M) \in Nat
  BY <1>2 DEF Apart
<1>4. /\ DOMAIN Shown(M, least) = 1..Len(M) /\ DOMAIN M = 1..Len(M)
      /\ \A t \in Int : \A k \in 1..Len(M) :
           InSegment(t, M[k]) => InSegment(t, Shown(M, least)[k])
  <2> HIDE DEF M
  <2> QED BY <1>3, ShownFacts
<1>5. \A k \in 1..(Len(M) - 1) : M[k].end + gap < M[k + 1].start
  <2> HIDE DEF M
  <2> TAKE k \in 1..(Len(M) - 1)
  <2>1. k \in 1..Len(M) /\ k + 1 \in 1..Len(M) /\ k < k + 1
    BY <1>3
  <2> QED BY <1>2, <2>1 DEF Apart
<1>6. \A i \in mask : i \in Nat /\ Time[i] \in Int
  BY <1>1, FramesFacts DEF Frames
<1>7. ASSUME NEW i \in mask, ~Astray(mask, i)
      PROVE  \E k \in DOMAIN Shown(M, least) : InSegment(Time[i], Shown(M, least)[k])
  <2>1. PICK k \in 1..Len(M) : InSegment(Time[i], M[k])
    BY <1>1, <1>7, NoFlagIsLost
  <2> HIDE DEF M
  <2> QED BY <1>4, <1>6, <2>1
<1>8. ASSUME Forward, NEW i \in mask, NEW j \in mask, i < j,
             \A k \in (i + 1)..(j - 1) : k \notin mask
      PROVE  (\E k \in DOMAIN M : InSegment(Time[i], M[k]) /\ InSegment(Time[j], M[k]))
               <=> (j = i + 1 \/ Time[j] - Time[i] <= gap)
  <2>1. i \in Nat /\ j \in Nat /\ Time[i] \in Int /\ Time[j] \in Int /\ i <= j
    BY <1>6, <1>8
  <2>2. CASE j = i + 1
    <3>1. i..j \subseteq mask
      BY <2>1, <2>2
    <3>2. \E k \in 1..Len(M) : InSegment(Time[i], M[k]) /\ InSegment(Time[j], M[k])
      BY <1>1, <1>8, <2>1, <3>1, FlagsAreHeld
    <3> QED BY <1>4, <2>2, <3>2
  <2>3. CASE Time[j] - Time[i] <= gap
    <3>1. \E k \in 1..Len(M) : InSegment(Time[i], M[k]) /\ InSegment(Time[j], M[k])
      BY <1>1, <1>8, <2>1, <2>3, CloseFlagsAreOne
    <3> QED BY <1>4, <2>3, <3>1
  <2>4. CASE j # i + 1 /\ ~(Time[j] - Time[i] <= gap)
    <3>1. i + 1 < j /\ Time[i] + gap < Time[j]
      BY <1>8, <2>1, <2>4
    <3>2. \A k \in 1..Len(M) : ~(InSegment(Time[i], M[k]) /\ InSegment(Time[j], M[k]))
      BY <1>1, <1>8, <3>1, PauseSeparates
    <3> QED BY <1>4, <2>4, <3>2
  <2> QED BY <2>2, <2>3, <2>4
<1> HIDE DEF M
<1>9. M = Merged(lane.mask, lane.gap)
  BY <1>1 DEF M
<1> QED BY <1>1, <1>5, <1>7, <1>8, <1>9

\* In every report the timeline shows what was flagged.
THEOREM TimelineIsTrue == Spec => []TimelineShowsTheFlags
<1>1. CoreInv => TimelineShowsTheFlags
  BY FlagsAreShown DEF CoreInv
<1> QED BY <1>1, CoreInvariance, PTL

-----------------------------------------------------------------------------
(* Explained deductions.                                                    *)

\* Of no flags there are no segments.
LEMMA NoFlagsNoTime ==
  ASSUME RecordingInv
  PROVE  \A gap, least \in Nat : TimeIn(Merged({}, gap), least) = 0
<1> TAKE gap, least \in Nat
<1> DEFINE M == Merged({}, gap)
<1>1. Apart(M, gap) /\ Holds(M, StretchesOf(Time, {}))
  <2>1. {} \subseteq Frames
    OBVIOUS
  <2> QED BY <2>1, MergedFacts
<1>2. StretchesOf(Time, {}) = {}
  <2>1. Runs({}) = {}
    BY DEF Runs
  <2> QED BY <2>1 DEF StretchesOf
<1> HIDE DEF M
<1>3. 1..Len(M) = {}
  BY <1>1, <1>2 DEF Holds
<1>4. TicksIn(M, least) = {}
  BY <1>3 DEF TicksIn, Long
<1>5. TimeIn(M, least) = 0
  BY <1>1, <1>4, TimeInIsSize, FS_EmptySet
<1> QED BY <1>5 DEF M

\* What is not flagged as out of sync at all is not deducted either.
LEMMA PenaltyNeedsFlags ==
  ASSUME RecordingInv, WarnMultiple <= 2, n > 0, Soft = {}, Severe = {}
  PROVE  SyncValidity = Ten
<1>1. /\ n \in Nat \ {0} /\ SyncInterval \in Nat \ {0} /\ SyncWarn \in Nat
      /\ SyncBad \in Nat \ {0} /\ Invalid = {} /\ Above(Norm("diff"), SyncBad) = {}
  BY FramesFacts, SyncThresholds DEF Severe
<1>2. Share(Invalid, n) = 0 /\ Share(Above(Norm("diff"), SyncBad), n) = 0 /\ Share(Soft, n) = 0
  BY <1>1, ShareOfNone
<1>3. OutOfSyncShare = 0
  <2>1. OutOfSyncTime = 0
    <3>1. Invalid \cup Soft = {}
      BY <1>1
    <3>2. OutOfSyncTime = TimeIn(Merged({}, 300), 500)
      BY <3>1 DEF OutOfSyncTime
    <3> QED BY <3>2, NoFlagsNoTime
  <2>2. Duration \in Int
    BY FramesFacts
  <2>3. \A d \in Int : d > 0 => (Whole * 0) \div d = 0
    BY DEF Whole
  <2> QED BY <2>1, <2>2, <2>3 DEF OutOfSyncShare
<1>4. Difference \in Nat /\ Difference <= SyncWarn
  <2>1. /\ DOMAIN Norm("diff") = Frames /\ Numbers(Norm("diff"))
        /\ \A i \in Frames : Norm("diff")[i] \in Nat
    BY NormType DEF Offset
  <2>2. Frames # {}
    BY <1>1 DEF Frames
  <2>3. \A i \in DOMAIN Norm("diff") : Norm("diff")[i] <= SyncWarn
    BY <1>1, <2>1 DEF Soft, Above
  <2>4. Percentile(Norm("diff"), 95) <= SyncWarn
    BY <1>1, <2>1, <2>2, <2>3, PercentileAtMost
  <2>5. Percentile(Norm("diff"), 95) \in Nat
    BY NormPercentile DEF Offset
  <2> QED BY <2>4, <2>5 DEF Difference
<1>5. 5 * SyncWarn <= 2 * SyncBad
  <2>1. WarnMultiple \in Nat
    BY MetricsAssumption
  <2>2. PICK k \in Nat, s \in Nat \ {0} : k = WarnMultiple /\ s = SyncInterval /\ k <= 2
    BY <1>1, <2>1
  <2>3. k * s \in Int /\ k * s <= 2 * s
    BY <2>2
  <2> QED BY <2>2, <2>3 DEF SyncWarn, SyncBad, Greater
<1>6. /\ (Whole * Difference) \div SyncBad \in Int
      /\ (Whole * Difference) \div SyncBad <= 4000
  <2>1. Whole * Difference \in Int /\ 4000 * SyncBad \in Int /\ Whole * Difference <= 4000 * SyncBad
    BY <1>1, <1>4, <1>5 DEF Whole
  <2>2. (Whole * Difference) \div SyncBad <= (4000 * SyncBad) \div SyncBad
    BY <1>1, <2>1, QuotientMonotone
  <2>3. (4000 * SyncBad) \div SyncBad = 4000
    BY <1>1, QuotientOfMultiple
  <2>4. (Whole * Difference) \div SyncBad \in Int
    BY <1>1, <2>1, QuotientMonotone
  <2> QED BY <2>2, <2>3, <2>4
<1>7. Desync \in Int /\ Desync <= 600
  <2>1. PICK x \in Int : x = Lesser((Whole * Difference) \div SyncBad, Whole) /\ x <= 4000
    BY <1>6 DEF Lesser, Whole
  <2>2. Desync = (30 * 0 + 25 * 0 + 20 * 0 + 15 * x + 10 * 0) \div 100
    BY <1>2, <1>3, <2>1 DEF Desync
  <2> QED BY <2>1, <2>2
<1> QED BY <1>1, <1>7 DEF SyncValidity, ScoreInverse

\* The flags are those of the telemetry.
LEMMA SameTelemetry ==
  ASSUME UNCHANGED <<aspect, header, frames, stuck, spiky>>
  PROVE  Soft' = Soft /\ Severe' = Severe /\ n' = n
  BY DEF Soft, Severe, Invalid, SyncWarn, SyncBad, SyncInterval, Norm, Intervals, Frames, n

\* A deduction for sync is explained by the timeline, if frames are flagged from twice the
\* interval between frames on at the latest, as they are by default.
THEOREM PenaltyIsExplained ==
  ASSUME WarnMultiple <= 2
  PROVE  Spec => []SyncPenaltyIsShown
<1>1. Init => SyncPenaltyIsShown
  BY DEF Init, SyncPenaltyIsShown
<1>2. SyncPenaltyIsShown /\ CoreInv /\ [Next]_vars => SyncPenaltyIsShown'
  <2> SUFFICES ASSUME SyncPenaltyIsShown, CoreInv, [Next]_vars PROVE SyncPenaltyIsShown'
    OBVIOUS
  <2>1. ASSUME NEW f \in Reading[aspect], Record(f) PROVE SyncPenaltyIsShown'
    BY <2>1 DEF Record, SyncPenaltyIsShown
  <2>2. ASSUME NEW f \in Reading[aspect], NEW i \in Frames, Worsen(i, f)
        PROVE  SyncPenaltyIsShown'
    BY <2>2 DEF Worsen, SyncPenaltyIsShown
  <2>3. CASE Deteriorate
    BY <2>3 DEF Deteriorate, SyncPenaltyIsShown
  <2>4. CASE Compute
    <3>1. score' = Scores /\ Soft' = Soft /\ Severe' = Severe /\ n' = n
      BY <2>4, SameTelemetry DEF Compute
    <3>2. Scores.DI02 = Clamp(SyncValidity)
      BY DEF Scores
    <3>3. n > 0 /\ Soft = {} /\ Severe = {} => Scores.DI02 = Ten
      BY <3>2, PenaltyNeedsFlags DEF CoreInv, Clamp, Lesser, Greater, Ten
    <3> QED BY <3>1, <3>3 DEF SyncPenaltyIsShown, Ten
  <2>5. CASE UNCHANGED vars
    <3>1. Soft' = Soft /\ Severe' = Severe /\ n' = n /\ score' = score /\ since' = since
      BY <2>5, SameTelemetry DEF vars
    <3> QED BY <3>1 DEF SyncPenaltyIsShown
  <2> QED BY <2>1, <2>2, <2>3, <2>4, <2>5 DEF Next
<1> QED BY <1>1, <1>2, CoreInvariance, PTL DEF Spec

-----------------------------------------------------------------------------
(* What does not depend on how bad the frames are.                          *)

Steady ==
  /\ header' = header /\ Len(frames') = Len(frames)
  /\ \A j \in 1..Len(frames) :
       /\ frames'[j].t = frames[j].t /\ frames'[j].depth = frames[j].depth
       /\ frames'[j].arm = frames[j].arm /\ frames'[j].hand = frames[j].hand
       /\ frames'[j].state = frames[j].state

LEMMA SteadyFrames ==
  ASSUME Steady
  PROVE  /\ n' = n /\ Frames' = Frames /\ Time' = Time /\ Duration' = Duration
         /\ Forward' = Forward
<1>1. n' = n /\ Frames' = Frames
  BY DEF Steady, n, Frames
<1>2. Time' = Time
  BY <1>1 DEF Steady, Time, Frames, n
<1>3. Duration' = Duration
  BY <1>1, <1>2 DEF Duration
<1>4. Forward' = Forward
  BY <1>1, <1>2 DEF Forward
<1> QED BY <1>1, <1>2, <1>3, <1>4

LEMMA SteadyNorms ==
  ASSUME Steady
  PROVE  Norm("arm")' = Norm("arm") /\ Norm("hand")' = Norm("hand") /\ Norm("state")' = Norm("state")
<1>1. Frames' = Frames /\ Frames = 1..Len(frames)
  BY SteadyFrames DEF Frames, n
<1> QED BY <1>1 DEF Norm, Steady



LEMMA SteadyLearning ==
  ASSUME Steady
  PROVE  /\ EffectiveRatio' = EffectiveRatio /\ InformationDensity' = InformationDensity
         /\ LowValueSegments' = LowValueSegments
<1>1. /\ n' = n /\ Frames' = Frames /\ Time' = Time /\ Duration' = Duration
      /\ Norm("arm")' = Norm("arm") /\ Norm("hand")' = Norm("hand")
      /\ Norm("state")' = Norm("state")
  BY SteadyFrames, SteadyNorms
<1>2. Effective' = Effective
  BY <1>1 DEF Effective, Threshold
<1>3. EffectiveRatio' = EffectiveRatio
  BY <1>1, <1>2 DEF EffectiveRatio
<1>4. Both' = Both
  BY <1>1 DEF Both
<1>5. InformationDensity' = InformationDensity
  BY <1>1, <1>2, <1>4 DEF InformationDensity, Density
<1>6. LowValue' = LowValue
  BY <1>1, <1>2 DEF LowValue, Ineffective, Threshold
<1>7. Merged(LowValue, 300)' = Merged(LowValue, 300)
  BY <1>1, <1>6 DEF Merged, Stretch
<1>8. LowValueSegments' = LowValueSegments
  BY <1>1, <1>7 DEF LowValueSegments, LowValueShare
<1> QED BY <1>3, <1>5, <1>8

LEMMA SteadyClock ==
  ASSUME Steady, RecordingInv
  PROVE  /\ TimestampRegularity' = TimestampRegularity /\ Completeness' = Completeness
         /\ SyncWarn' = SyncWarn /\ SyncBad' = SyncBad
<1>1. n' = n /\ n = Len(frames) /\ n \in Nat /\ header' = header
  BY SteadyFrames, FramesFacts DEF Steady, n
<1>2. \A j \in 1..(n - 1) : j \in 1..Len(frames) /\ j + 1 \in 1..Len(frames)
  BY <1>1
<1>3. Intervals("t")' = Intervals("t") /\ Intervals("depth")' = Intervals("depth")
  BY <1>1, <1>2 DEF Intervals, Steady
<1>4. Clock' = Clock
  BY <1>1 DEF Clock
<1>5. Interval' = Interval
  BY <1>3, <1>4 DEF Interval, Clock
<1>6. MedianInterval(Interval)' = MedianInterval(Interval)
  BY <1>5 DEF MedianInterval
<1>7. Expected' = Expected
  BY <1>1, <1>4, <1>6 DEF Expected
<1>8. Dropped' = Dropped /\ Backward' = Backward
  BY <1>5, <1>7 DEF Dropped, Backward
<1>9. Irregularity' = Irregularity
  BY <1>1, <1>4, <1>5, <1>6, <1>7, <1>8 DEF Irregularity, Off
<1>10. TimestampRegularity' = TimestampRegularity
  BY <1>1, <1>9 DEF TimestampRegularity
<1>11. SyncWarn' = SyncWarn /\ SyncBad' = SyncBad
  BY <1>3 DEF SyncWarn, SyncBad, SyncInterval
<1>12. Completeness' = Completeness
  BY <1>1 DEF Completeness
<1> QED BY <1>10, <1>11, <1>12

\* The metrics of frames that are the same are the same.
LEMMA SameMetrics ==
  ASSUME RecordingInv, UNCHANGED <<header, frames>>
  PROVE  /\ Smoothness' = Smoothness /\ Continuity' = Continuity /\ Stability' = Stability
         /\ EffectiveRatio' = EffectiveRatio /\ InformationDensity' = InformationDensity
         /\ LowValueSegments' = LowValueSegments
         /\ TimestampRegularity' = TimestampRegularity /\ SyncValidity' = SyncValidity
         /\ Completeness' = Completeness /\ Forward' = Forward
<1>1. Steady
  BY DEF Steady
<1>2. n' = n /\ Frames' = Frames /\ Time' = Time /\ Duration' = Duration /\ Forward' = Forward
  BY <1>1, SteadyFrames
<1>3. /\ Norm("jerk")' = Norm("jerk") /\ Norm("cont")' = Norm("cont") /\ Norm("osc")' = Norm("osc")
      /\ Norm("chat")' = Norm("chat") /\ Norm("diff")' = Norm("diff")
  BY <1>2 DEF Norm
<1>4. Smoothness' = Smoothness /\ Continuity' = Continuity /\ Stability' = Stability
  BY <1>2, <1>3 DEF Smoothness, Continuity, Stability, Oscillating, Chattering
<1>5. SyncValidity' = SyncValidity
  <2>1. SyncWarn' = SyncWarn /\ SyncBad' = SyncBad
    BY <1>1, SteadyClock
  <2>2. Invalid' = Invalid /\ Soft' = Soft
    BY <1>2, <1>3, <2>1 DEF Invalid, Soft
  <2>3. OutOfSyncTime' = OutOfSyncTime
    BY <1>2, <2>2 DEF OutOfSyncTime, Merged, Stretch
  <2>4. OutOfSyncShare' = OutOfSyncShare /\ Difference' = Difference
    BY <1>2, <1>3, <2>3 DEF OutOfSyncShare, Difference
  <2>5. Desync' = Desync
    BY <1>2, <1>3, <2>1, <2>2, <2>4 DEF Desync
  <2> QED BY <1>2, <2>5 DEF SyncValidity
<1>6. /\ EffectiveRatio' = EffectiveRatio /\ InformationDensity' = InformationDensity
      /\ LowValueSegments' = LowValueSegments /\ TimestampRegularity' = TimestampRegularity
      /\ Completeness' = Completeness
  BY <1>1, SteadyLearning, SteadyClock
<1> QED BY <1>2, <1>4, <1>5, <1>6

\* So is the report.
LEMMA SameScores ==
  ASSUME RecordingInv, UNCHANGED <<header, frames, stuck, spiky>>
  PROVE  Scores' = Scores /\ Forward' = Forward
<1>1. DimensionHealth' = DimensionHealth
  BY DEF DimensionHealth
<1> QED BY <1>1, SameMetrics DEF Scores

-----------------------------------------------------------------------------
(* Telemetry that gets worse.                                               *)

\* Both are recordings, the second at least as bad as the first in every frame.
Worse(r, w) ==
  /\ r \in Seq(Telemetry) /\ w \in Seq(Telemetry) /\ Len(w) = Len(r)
  /\ \A j \in 1..Len(r) :
       /\ \A x \in {"jerk", "cont", "osc", "chat", "diff"} : r[j][x] <= w[j][x]
       /\ w[j].valid => r[j].valid

LEMMA WorsenFacts ==
  ASSUME CoreInv, NEW f \in Reading[aspect], NEW i \in Frames, Worsen(i, f)
  PROVE  /\ Steady /\ Worse(frames, frames') /\ UNCHANGED <<header, stuck, spiky, score>>
<1>1. /\ frames \in Seq(Telemetry) /\ i \in 1..Len(frames)
      /\ UNCHANGED <<header, stuck, spiky, score>>
      /\ frames' = [frames EXCEPT ![i] = At(f, frames[i].t, frames[i].depth)]
  BY DEF CoreInv, RecordingInv, Worsen, Frames, n
<1>2. frames' \in Seq(Telemetry)
  BY WorsenKeeps DEF CoreInv, RecordingInv
<1>3. Len(frames') = Len(frames)
  BY <1>1
<1>4. /\ \A x \in {"jerk", "cont", "osc", "chat", "diff"} : f[x] >= frames[i][x]
      /\ f.valid => frames[i].valid
      /\ f.arm = frames[i].arm /\ f.hand = frames[i].hand /\ f.state = frames[i].state
  BY DEF Worsen, AsBad
<1> DEFINE w == At(f, frames[i].t, frames[i].depth)
<1>5. /\ w.t = frames[i].t /\ w.depth = frames[i].depth
      /\ w.arm = f.arm /\ w.hand = f.hand /\ w.state = f.state /\ w.valid = f.valid
      /\ w.jerk = f.jerk /\ w.cont = f.cont /\ w.osc = f.osc /\ w.chat = f.chat
      /\ w.diff = f.diff
  BY DEF At
<1>6. ASSUME NEW j \in 1..Len(frames)
      PROVE  /\ frames'[j].t = frames[j].t /\ frames'[j].depth = frames[j].depth
             /\ frames'[j].arm = frames[j].arm /\ frames'[j].hand = frames[j].hand
             /\ frames'[j].state = frames[j].state
             /\ frames'[j].valid => frames[j].valid
             /\ frames[j].jerk <= frames'[j].jerk /\ frames[j].cont <= frames'[j].cont
             /\ frames[j].osc <= frames'[j].osc /\ frames[j].chat <= frames'[j].chat
             /\ frames[j].diff <= frames'[j].diff
  <2>1. CASE j = i
    <3>1. frames'[j] = w
      BY <1>1, <2>1
    <3>2. w \in Telemetry /\ frames[i] \in Telemetry
      BY <1>1, <1>2, <2>1, <3>1
    <3> HIDE DEF w
    <3> QED BY <1>4, <1>5, <2>1, <3>1, <3>2 DEF Telemetry
  <2>2. CASE j # i
    <3>1. frames'[j] = frames[j]
      BY <1>1, <2>2
    <3>2. frames[j] \in Telemetry
      BY <1>1
    <3> QED BY <3>1, <3>2 DEF Telemetry
  <2> QED BY <2>1, <2>2
<1>7. Steady
  BY <1>1, <1>3, <1>6 DEF Steady
<1>8. Worse(frames, frames')
  BY <1>1, <1>2, <1>3, <1>6 DEF Worse
<1> QED BY <1>1, <1>7, <1>8

\* The norms of worse telemetry are larger, and so are their percentiles.
LEMMA WorseNorms ==
  ASSUME NEW r, NEW w, Worse(r, w), NEW x \in {"jerk", "cont", "osc", "chat", "diff"}
  PROVE  /\ Numbers(NormOf(r, x)) /\ Numbers(NormOf(w, x))
         /\ DOMAIN NormOf(r, x) = 1..Len(r) /\ DOMAIN NormOf(w, x) = 1..Len(r)
         /\ \A j \in 1..Len(r) : NormOf(r, x)[j] <= NormOf(w, x)[j]
<1>1. /\ r \in Seq(Telemetry) /\ w \in Seq(Telemetry) /\ Len(w) = Len(r)
      /\ x \in DOMAIN Offset
  BY DEF Worse, Offset
<1>2. /\ Numbers(NormOf(r, x)) /\ Numbers(NormOf(w, x))
      /\ DOMAIN NormOf(r, x) = 1..Len(r) /\ DOMAIN NormOf(w, x) = 1..Len(r)
  BY <1>1, NormFacts
<1>3. \A j \in 1..Len(r) : NormOf(r, x)[j] <= NormOf(w, x)[j]
  BY <1>1 DEF NormOf, Worse
<1> QED BY <1>2, <1>3

LEMMA WorsePercentiles ==
  ASSUME NEW r, NEW w, Worse(r, w), NEW x \in {"jerk", "cont", "osc", "chat", "diff"},
         NEW q \in 0..100
  PROVE  /\ Percentile(NormOf(r, x), q) \in Int /\ Percentile(NormOf(w, x), q) \in Int
         /\ Percentile(NormOf(r, x), q) <= Percentile(NormOf(w, x), q)
<1> DEFINE v == NormOf(r, x)
           u == NormOf(w, x)
<1>1. /\ Numbers(v) /\ Numbers(u) /\ DOMAIN v = 1..Len(r) /\ DOMAIN u = 1..Len(r)
      /\ \A j \in 1..Len(r) : v[j] <= u[j]
  BY WorseNorms
<1> HIDE DEF v, u
<1>2. Percentile(v, q) \in Int /\ Percentile(u, q) \in Int /\ Percentile(v, q) <= Percentile(u, q)
  BY <1>1, PercentileMonotone, PercentileType
<1> QED BY <1>2 DEF v, u

\* So what is scored by a percentile scores no higher.
LEMMA WorseReading ==
  ASSUME NEW r, NEW w, Worse(r, w), NEW x \in {"jerk", "cont", "osc", "chat", "diff"},
         NEW q \in 0..100,
         NEW good \in Int, NEW warn \in Int, NEW bad \in Int, good <= warn, warn <= bad
  PROVE  ScoreInverse(Percentile(NormOf(w, x), q), good, warn, bad)
           <= ScoreInverse(Percentile(NormOf(r, x), q), good, warn, bad)
<1>1. /\ Percentile(NormOf(r, x), q) \in Int /\ Percentile(NormOf(w, x), q) \in Int
      /\ Percentile(NormOf(r, x), q) <= Percentile(NormOf(w, x), q)
  BY WorsePercentiles
<1> QED BY <1>1, InverseAntitone

\* And more of them are above a threshold.
LEMMA WorseAbove ==
  ASSUME NEW r, NEW w, Worse(r, w), NEW x \in {"jerk", "cont", "osc", "chat", "diff"},
         NEW threshold \in Int
  PROVE  /\ Above(NormOf(r, x), threshold) \subseteq Above(NormOf(w, x), threshold)
         /\ Above(NormOf(w, x), threshold) \subseteq 1..Len(r)
         /\ IsFiniteSet(Above(NormOf(w, x), threshold))
<1>1. /\ Numbers(NormOf(r, x)) /\ Numbers(NormOf(w, x))
      /\ DOMAIN NormOf(r, x) = 1..Len(r) /\ DOMAIN NormOf(w, x) = 1..Len(r)
      /\ \A j \in 1..Len(r) : NormOf(r, x)[j] <= NormOf(w, x)[j]
  BY WorseNorms
<1>2. Above(NormOf(r, x), threshold) \subseteq Above(NormOf(w, x), threshold)
  BY <1>1 DEF Above, Numbers
<1> QED BY <1>1, <1>2, AboveFacts

\* Worse telemetry moves no better.
LEMMA WorseMotion ==
  ASSUME CoreInv, CoreInv', Steady, Worse(frames, frames')
  PROVE  /\ Smoothness' <= Smoothness /\ Continuity' <= Continuity /\ Stability' <= Stability
<1>1. /\ \A x : Norm(x) = NormOf(frames, x)
      /\ \A x : Norm(x)' = NormOf(frames', x)
  BY DEF Norm, NormOf, Frames, n
<1>2. n' = n /\ n = Len(frames) /\ n \in Nat
  BY SteadyFrames, FramesFacts DEF CoreInv, n
<1>3. Smoothness' <= Smoothness
  <2>1. /\ Smoothness = ScoreInverse(Percentile(NormOf(frames, "jerk"), 95), 60, 180, 450)
        /\ Smoothness' = ScoreInverse(Percentile(NormOf(frames', "jerk"), 95), 60, 180, 450)
    BY <1>1 DEF Smoothness
  <2>2. \A q \in 0..100 :
          \A good, warn, bad \in Int :
            good <= warn /\ warn <= bad =>
              ScoreInverse(Percentile(NormOf(frames', "jerk"), q), good, warn, bad)
                <= ScoreInverse(Percentile(NormOf(frames, "jerk"), q), good, warn, bad)
    BY WorseReading
  <2> QED BY <2>1, <2>2
<1>4. Continuity' <= Continuity
  <2>1. /\ Continuity = ScoreInverse(Percentile(NormOf(frames, "cont"), 95), 100, 300, 800)
        /\ Continuity' = ScoreInverse(Percentile(NormOf(frames', "cont"), 95), 100, 300, 800)
    BY <1>1 DEF Continuity
  <2>2. \A q \in 0..100 :
          \A good, warn, bad \in Int :
            good <= warn /\ warn <= bad =>
              ScoreInverse(Percentile(NormOf(frames', "cont"), q), good, warn, bad)
                <= ScoreInverse(Percentile(NormOf(frames, "cont"), q), good, warn, bad)
    BY WorseReading
  <2> QED BY <2>1, <2>2
<1>5. Stability' <= Stability
  <2>1. /\ Oscillating = Above(NormOf(frames, "osc"), 300)
        /\ Oscillating' = Above(NormOf(frames', "osc"), 300)
        /\ Chattering = Above(NormOf(frames, "chat"), 800)
        /\ Chattering' = Above(NormOf(frames', "chat"), 800)
    BY <1>1 DEF Oscillating, Chattering
  <2>2. /\ Oscillating \subseteq Oscillating' /\ IsFiniteSet(Oscillating')
        /\ Chattering \subseteq Chattering' /\ IsFiniteSet(Chattering')
    BY <2>1, WorseAbove
  <2>3. IsFiniteSet(Oscillating) /\ IsFiniteSet(Chattering)
    BY <2>2, PartIsSmaller
  <2>4. PICK a \in Nat, b \in Nat, c \in Nat, d \in Nat :
          /\ a = Share(Oscillating, n) /\ b = Share(Oscillating', n) /\ a <= b
          /\ c = Share(Chattering, n) /\ d = Share(Chattering', n) /\ c <= d
    BY <1>2, <2>2, <2>3, ShareType, ShareMonotone
  <2>5. /\ (60 * a + 40 * c) \div 100 \in Int /\ (60 * b + 40 * d) \div 100 \in Int
        /\ (60 * a + 40 * c) \div 100 <= (60 * b + 40 * d) \div 100
    <3>1. 60 * a + 40 * c \in Int /\ 60 * b + 40 * d \in Int /\ 60 * a + 40 * c <= 60 * b + 40 * d
      BY <2>4
    <3> QED BY <3>1, QuotientMonotone
  <2>6. /\ Stability = ScoreInverse((60 * a + 40 * c) \div 100, 500, 1500, 3500)
        /\ Stability' = ScoreInverse((60 * b + 40 * d) \div 100, 500, 1500, 3500)
    BY <1>2, <2>4 DEF Stability
  <2> QED BY <2>5, <2>6, InverseAntitone
<1> QED BY <1>3, <1>4, <1>5

\* More flags, and the segments are as wide: no less time.
LEMMA MoreFlagsMoreTime ==
  ASSUME RecordingInv, Forward, NEW mask, NEW wider, mask \subseteq wider, wider \subseteq Frames,
         NEW gap \in Nat, NEW least \in Nat
  PROVE  /\ TimeIn(Merged(mask, gap), least) \in Nat /\ TimeIn(Merged(wider, gap), least) \in Nat
         /\ TimeIn(Merged(mask, gap), least) <= TimeIn(Merged(wider, gap), least)
<1> DEFINE M == Merged(mask, gap)
           W == Merged(wider, gap)
           S == StretchesOf(Time, mask)
<1>1. /\ n \in Nat /\ Frames = 1..n /\ \A x \in Frames : Time[x] \in Int
      /\ \A x, y \in Frames : x <= y => Time[x] <= Time[y]
  BY FramesFacts, ForwardIsSorted DEF Frames
<1>2. Apart(M, gap) /\ Apart(W, gap) /\ KeepsWithin(M, S, gap)
  <2>1. mask \subseteq 1..n /\ \A x \in 1..n : Time[x] \in Int
    BY <1>1
  <2>2. KeepsWithin(MergedOf(Time, mask, gap), S, gap)
    BY <1>1, <2>1, MergedOfFacts
  <2> QED BY <2>2, MergedFacts, MergedIsMergedOf
<1>3. \A s \in S : \E l \in 1..Len(W) : Inside(s, W[l])
  <2>1. ASSUME NEW r \in Runs(mask)
        PROVE  \E l \in 1..Len(W) : Inside(StretchOf(Time, r), W[l])
    <3>1. PICK size \in Nat : Frames = 1..size
      BY <1>1
    <3>2. /\ r[1] \in 1..size /\ r[2] \in 1..size /\ r[1] \in mask /\ r[2] \in mask
          /\ r[1] <= r[2] /\ r[1]..r[2] \subseteq mask
      BY <3>1, RunsFacts
    <3>3. PICK l \in 1..Len(W) : InSegment(Time[r[1]], W[l]) /\ InSegment(Time[r[2]], W[l])
      BY <3>2, FlagsAreHeld
    <3>4. Time[r[1]] \in Int /\ Time[r[2]] \in Int
      BY <1>1, <3>1, <3>2
    <3> QED BY <3>3, <3>4 DEF Inside, InSegment, StretchOf, Greater
  <2> QED BY <2>1 DEF StretchesOf
<1>4. Within(M, W)
  <2> HIDE DEF M, W, S
  <2> QED BY <1>2, <1>3 DEF KeepsWithin
<1> HIDE DEF M, W, S
<1>5. TimeIn(M, least) \in Nat /\ TimeIn(W, least) \in Nat /\ TimeIn(M, least) <= TimeIn(W, least)
  BY <1>2, <1>4, TimeInMonotone
<1> QED BY <1>5 DEF M, W

\* Worse telemetry is no better in sync, if the clock runs forward.
LEMMA WorseFlags ==
  ASSUME CoreInv, CoreInv', Steady, Worse(frames, frames')
  PROVE  /\ Invalid \subseteq Invalid' /\ Soft \subseteq Soft'
         /\ Above(Norm("diff"), SyncBad) \subseteq Above(Norm("diff"), SyncBad)'
         /\ Invalid' \subseteq Frames /\ Soft' \subseteq Frames
         /\ Above(Norm("diff"), SyncBad)' \subseteq Frames
<1>1. /\ n' = n /\ Frames' = Frames /\ Frames = 1..Len(frames)
      /\ SyncWarn' = SyncWarn /\ SyncBad' = SyncBad /\ SyncWarn \in Int /\ SyncBad \in Int
  BY SteadyFrames, SteadyClock, SyncThresholds DEF CoreInv, Frames, n
<1>2. Norm("diff") = NormOf(frames, "diff") /\ Norm("diff")' = NormOf(frames', "diff")
  BY DEF Norm, NormOf, Frames, n
<1>3. \A x \in Int :
        /\ Above(NormOf(frames, "diff"), x) \subseteq Above(NormOf(frames', "diff"), x)
        /\ Above(NormOf(frames', "diff"), x) \subseteq Frames
  BY <1>1, WorseAbove
<1>4. Soft' = Above(NormOf(frames', "diff"), SyncWarn)
  BY <1>1, <1>2 DEF Soft
<1>5. Above(Norm("diff"), SyncBad)' = Above(NormOf(frames', "diff"), SyncBad)
  BY <1>1, <1>2 DEF Above
<1>6. Soft \subseteq Soft' /\ Soft' \subseteq Frames
  BY <1>1, <1>2, <1>3, <1>4 DEF Soft
<1>7. /\ Above(Norm("diff"), SyncBad) \subseteq Above(Norm("diff"), SyncBad)'
      /\ Above(Norm("diff"), SyncBad)' \subseteq Frames
  BY <1>1, <1>2, <1>3, <1>5
<1>8. Invalid \subseteq Invalid' /\ Invalid' \subseteq Frames
  BY <1>1 DEF Invalid, Worse
<1> QED BY <1>6, <1>7, <1>8

LEMMA WorseOutOfSync ==
  ASSUME CoreInv, CoreInv', Steady, Worse(frames, frames'), Forward
  PROVE  /\ OutOfSyncShare \in Int /\ OutOfSyncShare' \in Int
         /\ OutOfSyncShare <= OutOfSyncShare'
<1>1. Time' = Time /\ Duration' = Duration /\ Duration \in Int
  BY SteadyFrames, FramesFacts DEF CoreInv
<1>2. PICK mask, wider :
        /\ mask = Invalid \cup Soft /\ wider = Invalid' \cup Soft'
        /\ mask \subseteq wider /\ wider \subseteq Frames
  BY WorseFlags
<1>3. /\ OutOfSyncTime = TimeIn(Merged(mask, 300), 500)
      /\ OutOfSyncTime' = TimeIn(Merged(wider, 300), 500)
  BY <1>1, <1>2 DEF OutOfSyncTime, Merged, Stretch
<1>4. \A gap, least \in Nat :
        /\ TimeIn(Merged(mask, gap), least) \in Nat /\ TimeIn(Merged(wider, gap), least) \in Nat
        /\ TimeIn(Merged(mask, gap), least) <= TimeIn(Merged(wider, gap), least)
  BY <1>2, MoreFlagsMoreTime DEF CoreInv
<1>5. PICK a \in Nat, b \in Nat : a = OutOfSyncTime /\ b = OutOfSyncTime' /\ a <= b
  BY <1>3, <1>4
<1>6. CASE Duration > 0
  <2>1. PICK d \in Nat \ {0} : d = Duration
    BY <1>1, <1>6
  <2>2. Whole * a \in Int /\ Whole * b \in Int /\ Whole * a <= Whole * b
    <3>1. Whole \in Nat /\ a \in Int /\ b \in Int /\ a <= b
      BY <1>5 DEF Whole
    <3> QED BY <3>1, ProductMonotone
  <2>3. /\ (Whole * a) \div d \in Int /\ (Whole * b) \div d \in Int
        /\ (Whole * a) \div d <= (Whole * b) \div d
    BY <2>2, QuotientMonotone
  <2> QED BY <1>1, <1>5, <1>6, <2>1, <2>3 DEF OutOfSyncShare
<1>7. CASE ~(Duration > 0)
  BY <1>1, <1>7 DEF OutOfSyncShare
<1> QED BY <1>6, <1>7

LEMMA WorseSync ==
  ASSUME CoreInv, CoreInv', Steady, Worse(frames, frames'), Forward
  PROVE  SyncValidity' <= SyncValidity
<1>1. /\ n' = n /\ n \in Nat /\ Frames' = Frames /\ IsFiniteSet(Frames)
      /\ SyncBad' = SyncBad /\ SyncBad \in Nat \ {0}
  BY SteadyFrames, SteadyClock, FramesFacts, SyncThresholds DEF CoreInv
<1>2. ASSUME NEW S, NEW T, S \subseteq T, T \subseteq Frames
      PROVE  Share(S, n) \in Nat /\ Share(T, n) \in Nat /\ Share(S, n) <= Share(T, n)
  <2>1. IsFiniteSet(T) /\ IsFiniteSet(S)
    BY <1>1, <1>2, PartIsSmaller
  <2> QED BY <1>1, <1>2, <2>1, ShareType, ShareMonotone
<1>3. PICK a \in Nat, b \in Nat :
        a = Share(Invalid, n) /\ b = Share(Invalid', n) /\ a <= b
  BY <1>2, WorseFlags
<1>4. PICK c \in Nat, d \in Nat :
        /\ c = Share(Above(Norm("diff"), SyncBad), n)
        /\ d = Share(Above(Norm("diff"), SyncBad)', n) /\ c <= d
  BY <1>2, WorseFlags
<1>5. PICK e \in Nat, g \in Nat : e = Share(Soft, n) /\ g = Share(Soft', n) /\ e <= g
  BY <1>2, WorseFlags
<1>6. PICK h \in Int, k \in Int :
        /\ h = Lesser((Whole * Difference) \div SyncBad, Whole)
        /\ k = Lesser((Whole * Difference') \div SyncBad, Whole) /\ h <= k
  <2>1. /\ Difference = Percentile(NormOf(frames, "diff"), 95)
        /\ Difference' = Percentile(NormOf(frames', "diff"), 95)
    BY DEF Difference, Norm, NormOf, Frames, n
  <2>2. \A q \in 0..100 :
          /\ Percentile(NormOf(frames, "diff"), q) \in Int
          /\ Percentile(NormOf(frames', "diff"), q) \in Int
          /\ Percentile(NormOf(frames, "diff"), q) <= Percentile(NormOf(frames', "diff"), q)
    BY WorsePercentiles
  <2>3. PICK p \in Int, q \in Int : p = Difference /\ q = Difference' /\ p <= q
    BY <2>1, <2>2
  <2>4. Whole * p \in Int /\ Whole * q \in Int /\ Whole * p <= Whole * q
    <3>1. Whole \in Nat /\ p <= q
      BY <2>3 DEF Whole
    <3> QED BY <3>1, ProductMonotone
  <2>5. PICK x \in Int, y \in Int :
          x = (Whole * p) \div SyncBad /\ y = (Whole * q) \div SyncBad /\ x <= y
    BY <1>1, <2>4, QuotientMonotone
  <2>6. /\ Lesser(x, Whole) \in Int /\ Lesser(y, Whole) \in Int
        /\ Lesser(x, Whole) <= Lesser(y, Whole)
    BY <2>5 DEF Lesser, Whole
  <2> QED BY <2>3, <2>5, <2>6
<1>7. PICK u \in Int, v \in Int : u = OutOfSyncShare /\ v = OutOfSyncShare' /\ u <= v
  <2>1. /\ OutOfSyncShare \in Int /\ OutOfSyncShare' \in Int
        /\ OutOfSyncShare <= OutOfSyncShare'
    BY WorseOutOfSync
  <2> QED BY <2>1
<1>8. /\ Desync = (30 * a + 25 * c + 20 * e + 15 * h + 10 * u) \div 100
      /\ Desync' = (30 * b + 25 * d + 20 * g + 15 * k + 10 * v) \div 100
  BY <1>1, <1>3, <1>4, <1>5, <1>6, <1>7 DEF Desync
<1> DEFINE x == 30 * a + 25 * c + 20 * e + 15 * h + 10 * u
           y == 30 * b + 25 * d + 20 * g + 15 * k + 10 * v
<1>9. x \in Int /\ y \in Int /\ x <= y
  <2>1. /\ a \in Int /\ b \in Int /\ a <= b /\ c \in Int /\ d \in Int /\ c <= d
        /\ e \in Int /\ g \in Int /\ e <= g /\ h \in Int /\ k \in Int /\ h <= k
        /\ u \in Int /\ v \in Int /\ u <= v
    BY <1>3, <1>4, <1>5, <1>6, <1>7
  <2> QED BY <2>1
<1>10. Desync = x \div 100 /\ Desync' = y \div 100
  BY <1>8
<1> HIDE DEF x, y
<1>11. x \div 100 \in Int /\ y \div 100 \in Int /\ x \div 100 <= y \div 100
  BY <1>9, QuotientMonotone
<1>12. ScoreInverse(y \div 100, 600, 1500, 3500) <= ScoreInverse(x \div 100, 600, 1500, 3500)
  <2>1. \A good, warn, bad \in Int : good <= warn /\ warn <= bad =>
          ScoreInverse(y \div 100, good, warn, bad) <= ScoreInverse(x \div 100, good, warn, bad)
    BY <1>11, InverseAntitone
  <2> QED BY <2>1
<1> QED BY <1>1, <1>10, <1>12 DEF SyncValidity

\* A dimension that stops to vary or has outliers does not make the health better.
LEMMA WorseHealth ==
  ASSUME NEW a \in Nat, NEW b \in Nat, a <= b
  PROVE  Clamp(Clamp(Ten - (Ten * 3 * Lesser(b, Dims)) \div (2 * Dims)))
           <= Clamp(Clamp(Ten - (Ten * 3 * Lesser(a, Dims)) \div (2 * Dims)))
<1>1. PICK x \in Int, y \in Int : x = Lesser(a, Dims) /\ y = Lesser(b, Dims) /\ x <= y
  BY DEF Lesser, Dims
<1>2. PICK u \in Int, v \in Int :
        u = (Ten * 3 * x) \div (2 * Dims) /\ v = (Ten * 3 * y) \div (2 * Dims) /\ u <= v
  BY <1>1 DEF Ten, Dims
<1>3. PICK s \in Int, t \in Int : s = Ten - v /\ t = Ten - u /\ s <= t
  BY <1>2 DEF Ten
<1>4. Clamp(s) \in Int /\ Clamp(t) \in Int /\ Clamp(s) <= Clamp(t)
  BY <1>3, ClampType, ClampMonotone, ScoreIsInt
<1> QED BY <1>1, <1>2, <1>3, <1>4, ClampMonotone

LEMMA MetricsTyped ==
  CoreInv => /\ Smoothness \in Int /\ Continuity \in Int /\ Stability \in Int
             /\ EffectiveRatio \in Int /\ InformationDensity \in Int /\ LowValueSegments \in Int
             /\ TimestampRegularity \in Int /\ SyncValidity \in Int /\ Completeness \in Int
  BY MotionTyped, LearnTyped, RegularityTyped, SyncTyped DEF CoreInv, Completeness, Ten

LEMMA ClampNoHigher == \A v \in Int : Clamp(v) <= Clamp(v)
  BY ClampMonotone

\* No metric of worse telemetry scores higher.
LEMMA WorseScores ==
  ASSUME CoreInv, CoreInv', Steady, Worse(frames, frames'), UNCHANGED <<stuck, spiky>>
  PROVE  \A m \in Metric : Scores'[m] <= Scores[m] \/ (m = "DI02" /\ ~Forward')
<1>1. /\ Smoothness \in Int /\ Continuity \in Int /\ Stability \in Int
      /\ EffectiveRatio \in Int /\ InformationDensity \in Int /\ LowValueSegments \in Int
      /\ TimestampRegularity \in Int /\ SyncValidity \in Int /\ Completeness \in Int
  BY MetricsTyped
<1>2. Smoothness' \in Int /\ Continuity' \in Int /\ Stability' \in Int /\ SyncValidity' \in Int
  <2>1. (Smoothness \in Int /\ Continuity \in Int /\ Stability \in Int
         /\ EffectiveRatio \in Int /\ InformationDensity \in Int /\ LowValueSegments \in Int
         /\ TimestampRegularity \in Int /\ SyncValidity \in Int /\ Completeness \in Int)'
    BY MetricsTyped, PTL
  <2> QED BY <2>1
<1>3. Scores'.MQ01 <= Scores.MQ01 /\ Scores'.MQ02 <= Scores.MQ02 /\ Scores'.MQ03 <= Scores.MQ03
  <2>1. Smoothness' <= Smoothness /\ Continuity' <= Continuity /\ Stability' <= Stability
    BY WorseMotion
  <2>2. /\ Clamp(Smoothness') <= Clamp(Smoothness) /\ Clamp(Continuity') <= Clamp(Continuity)
        /\ Clamp(Stability') <= Clamp(Stability)
    BY <1>1, <1>2, <2>1, ClampMonotone
  <2>3. /\ Scores.MQ01 = Clamp(Smoothness) /\ Scores'.MQ01 = Clamp(Smoothness')
        /\ Scores.MQ02 = Clamp(Continuity) /\ Scores'.MQ02 = Clamp(Continuity')
        /\ Scores.MQ03 = Clamp(Stability) /\ Scores'.MQ03 = Clamp(Stability')
    BY DEF Scores, Clamp
  <2> QED BY <2>2, <2>3
<1>4. Scores'.LQ01 <= Scores.LQ01 /\ Scores'.LQ02 <= Scores.LQ02 /\ Scores'.LQ03 <= Scores.LQ03
  <2>1. /\ EffectiveRatio' = EffectiveRatio /\ InformationDensity' = InformationDensity
        /\ LowValueSegments' = LowValueSegments
    BY SteadyLearning
  <2>2. /\ Scores.LQ01 = Clamp(EffectiveRatio) /\ Scores'.LQ01 = Clamp(EffectiveRatio')
        /\ Scores.LQ02 = Clamp(InformationDensity) /\ Scores'.LQ02 = Clamp(InformationDensity')
        /\ Scores.LQ03 = Clamp(LowValueSegments) /\ Scores'.LQ03 = Clamp(LowValueSegments')
    BY DEF Scores, Clamp
  <2> QED BY <1>1, <2>1, <2>2, ClampNoHigher
<1>5. Scores'.DI01 <= Scores.DI01 /\ Scores'.DI04 <= Scores.DI04
  <2>1. TimestampRegularity' = TimestampRegularity /\ Completeness' = Completeness
    BY SteadyClock DEF CoreInv
  <2>2. /\ Scores.DI01 = Clamp(TimestampRegularity) /\ Scores'.DI01 = Clamp(TimestampRegularity')
        /\ Scores.DI04 = Clamp(Completeness) /\ Scores'.DI04 = Clamp(Completeness')
    BY DEF Scores, Clamp
  <2> QED BY <1>1, <2>1, <2>2, ClampNoHigher
<1>6. Scores'.DI03 <= Scores.DI03
  <2>1. DimensionHealth' = DimensionHealth
    BY DEF DimensionHealth
  <2>2. Scores.DI03 = Clamp(DimensionHealth) /\ Scores'.DI03 = Clamp(DimensionHealth')
    BY DEF Scores, Clamp
  <2>3. stuck + spiky \in Nat
    BY DEF CoreInv, RecordingInv
  <2>4. Clamp(DimensionHealth) <= Clamp(DimensionHealth)
    BY <2>3, WorseHealth DEF DimensionHealth
  <2> QED BY <2>1, <2>2, <2>4
<1>7. Scores'.DI02 <= Scores.DI02 \/ ~Forward'
  <2>1. CASE Forward
    <3>1. SyncValidity' <= SyncValidity
      BY <2>1, WorseSync
    <3>2. Clamp(SyncValidity') <= Clamp(SyncValidity)
      BY <1>1, <1>2, <3>1, ClampMonotone
    <3>3. Scores.DI02 = Clamp(SyncValidity) /\ Scores'.DI02 = Clamp(SyncValidity')
      BY DEF Scores, Clamp
    <3> QED BY <3>2, <3>3
  <2>2. CASE ~Forward
    BY <2>2, SteadyFrames
  <2> QED BY <2>1, <2>2
<1> QED BY <1>3, <1>4, <1>5, <1>6, <1>7 DEF Metric, Motion, Learnability, Integrity

-----------------------------------------------------------------------------
(* Worse telemetry never scores better.                                     *)

WorseInv ==
  /\ since = "reported" => score = Scores
  /\ since = "worsened" => \A m \in Metric : Scores[m] <= score[m] \/ (m = "DI02" /\ ~Forward)

LEMMA WorseInit == Init => WorseInv
  BY DEF Init, WorseInv

LEMMA DeteriorateScores ==
  ASSUME CoreInv, Deteriorate
  PROVE  (\A m \in Metric : Scores'[m] <= Scores[m]) /\ Forward' = Forward
<1>1. UNCHANGED <<header, frames>> /\ RecordingInv
  BY DEF Deteriorate, CoreInv
<1>2. /\ Smoothness' = Smoothness /\ Continuity' = Continuity /\ Stability' = Stability
      /\ EffectiveRatio' = EffectiveRatio /\ InformationDensity' = InformationDensity
      /\ LowValueSegments' = LowValueSegments
      /\ TimestampRegularity' = TimestampRegularity /\ SyncValidity' = SyncValidity
      /\ Completeness' = Completeness /\ Forward' = Forward
  BY <1>1, SameMetrics
<1>3. \A m \in Metric \ {"DI03"} : Scores'[m] = Scores[m] /\ Scores[m] <= Scores[m]
  <2>1. \A m \in Metric : Scores[m] \in Int
    BY <1>1, ScoresInRange, ScoreIsInt
  <2>2. \A m \in Metric : Scores[m] <= Scores[m]
    BY <2>1
  <2>3. \A m \in Metric \ {"DI03"} : Scores'[m] = Scores[m]
    BY <1>2 DEF Scores, Metric, Motion, Learnability, Integrity
  <2> QED BY <2>2, <2>3
<1>4. Scores'.DI03 <= Scores.DI03
  <2>1. /\ stuck + spiky \in Nat /\ stuck' + spiky' \in Nat
        /\ stuck + spiky <= stuck' + spiky'
    BY <1>1 DEF Deteriorate, RecordingInv
  <2>2. PICK a \in Nat, b \in Nat : a = stuck + spiky /\ b = stuck' + spiky' /\ a <= b
    BY <2>1
  <2>3. /\ Scores.DI03 = Clamp(Clamp(Ten - (Ten * 3 * Lesser(a, Dims)) \div (2 * Dims)))
        /\ Scores'.DI03 = Clamp(Clamp(Ten - (Ten * 3 * Lesser(b, Dims)) \div (2 * Dims)))
    BY <2>2 DEF Scores, DimensionHealth
  <2> QED BY <2>2, <2>3, WorseHealth
<1> QED BY <1>2, <1>3, <1>4

LEMMA WorseStep == WorseInv /\ CoreInv /\ CoreInv' /\ [Next]_vars => WorseInv'
<1> SUFFICES ASSUME WorseInv, CoreInv, CoreInv', [Next]_vars PROVE WorseInv'
  OBVIOUS
<1>1. ASSUME NEW f \in Reading[aspect], Record(f) PROVE WorseInv'
  BY <1>1 DEF Record, WorseInv
<1>2. ASSUME NEW f \in Reading[aspect], NEW i \in Frames, Worsen(i, f) PROVE WorseInv'
  <2>1. Steady /\ Worse(frames, frames') /\ UNCHANGED <<stuck, spiky, score>>
    BY <1>2, WorsenFacts
  <2>2. \A m \in Metric : Scores'[m] <= Scores[m] \/ (m = "DI02" /\ ~Forward')
    BY <2>1, WorseScores
  <2>3. score = Scores /\ since' = "worsened"
    BY <1>2 DEF Worsen, WorseInv
  <2> QED BY <2>1, <2>2, <2>3 DEF WorseInv
<1>3. CASE Deteriorate
  <2>1. (\A m \in Metric : Scores'[m] <= Scores[m]) /\ Forward' = Forward
    BY <1>3, DeteriorateScores
  <2>2. score = Scores /\ score' = score /\ since' = "worsened"
    BY <1>3 DEF Deteriorate, WorseInv
  <2> QED BY <2>1, <2>2 DEF WorseInv
<1>4. CASE Compute
  <2>1. Scores' = Scores
    BY <1>4, SameScores DEF Compute, CoreInv
  <2> QED BY <1>4, <2>1 DEF Compute, WorseInv
<1>5. CASE UNCHANGED vars
  <2>1. Scores' = Scores /\ Forward' = Forward
    BY <1>5, SameScores DEF vars, CoreInv
  <2> QED BY <1>5, <2>1 DEF vars, WorseInv
<1> QED BY <1>1, <1>2, <1>3, <1>4, <1>5 DEF Next

\* Between two reports of telemetry that only got worse, no metric scores higher, and the
\* total does not either; only the sync of a recording whose clock ran backward may.
THEOREM WorseIsNoBetter == Spec => WorseNeverScoresHigher
<1> DEFINE NoBetter ==
             since = "worsened" =>
               /\ \A m \in Metric : score'[m] <= score[m] \/ (m = "DI02" /\ ~Forward)
               /\ Forward => Total(score') <= Total(score)
<1>1. WorseInv /\ CoreInv /\ CoreInv' /\ [Next]_vars => [NoBetter]_vars
  <2> SUFFICES ASSUME WorseInv, CoreInv, CoreInv', Next, since = "worsened"
               PROVE  /\ \A m \in Metric : score'[m] <= score[m] \/ (m = "DI02" /\ ~Forward)
                      /\ Forward => Total(score') <= Total(score)
    OBVIOUS
  <2>1. Compute
    BY DEF Next, Record, Worsen, Deteriorate
  <2>2. score' = Scores /\ \A m \in Metric : Scores[m] <= score[m] \/ (m = "DI02" /\ ~Forward)
    BY <2>1 DEF Compute, WorseInv
  <2>3. \A m \in Metric : score'[m] <= score[m] \/ (m = "DI02" /\ ~Forward)
    BY <2>2
  <2>4. ASSUME Forward PROVE Total(score') <= Total(score)
    <3>1. score \in Scoring /\ score' \in Scoring
      BY DEF CoreInv
    <3>2. NowhereHigher(score', score)
      BY <2>3, <2>4 DEF NowhereHigher
    <3> QED BY <3>1, <3>2, TotalIsMonotone
  <2> QED BY <2>3, <2>4
<1>2. Spec => []WorseInv
  BY WorseInit, WorseStep, CoreInvariance, PTL DEF Spec
<1> QED BY <1>1, <1>2, CoreInvariance, PTL DEF Spec, WorseNeverScoresHigher

=============================================================================
