--------------------------- MODULE QualityMetrics ---------------------------
(***************************************************************************)
(* The metrics of an episode, the timeline that explains them and the       *)
(* score they add up to, as functions of its telemetry.  The engine keeps   *)
(* no state: what changes here is the telemetry, a frame being recorded or  *)
(* one that is there getting worse, and each time the report is computed    *)
(* anew, so that the properties can compare what the engine makes of two    *)
(* recordings that differ in one frame.                                     *)
(*                                                                          *)
(* A frame has the norms the feature layer derives: jerk, cont (second      *)
(* difference of the action), osc, chat, arm and hand (differences of the   *)
(* action), state (the larger difference of the state), err (tracking), in  *)
(* parts of 10000; its time t and its sync difference diff in milliseconds; *)
(* whether its sync is valid; and how many of its numbers are lost to NaN.  *)
(* What a NaN does to a norm is left out, as are the descriptions.          *)
(***************************************************************************)
EXTENDS QualityScore, Sequences, FiniteSets, SequencesExt

CONSTANTS
  Aspect,     \* what varies in an episode; the rest of it is unremarkable
  Reading,    \* per aspect, the frames it is recorded with (dt in place of t)
  MaxFrames,  \* bound, per aspect: frames of an episode
  Header,     \* per aspect: declared interval (0 if none) and frame count, and if depth has a clock
  MinFrames,  \* di04_min_frames
  LagRatio,   \* dx01_lag_ratio
  WarnMultiple \* di02_tau_warn_mult

ASSUME MetricsAssumption ==
  /\ \A a \in Aspect : MaxFrames[a] \in Nat
  /\ MinFrames \in Nat /\ LagRatio \in Nat \ {0, 1} /\ WarnMultiple \in Nat

\* A recording may have any clock, also one that stands still or runs backward.
ASSUME ReadingAssumption ==
  /\ \A a \in Aspect :
       Reading[a] \subseteq
         [dt : Int, ddt : Int, jerk : Nat, cont : Nat, osc : Nat, chat : Nat, arm : Nat,
          hand : Nat, state : Nat, valid : BOOLEAN, diff : Nat, err : Nat, lost : Nat]
  /\ \A a \in Aspect : Header[a] \subseteq [interval : Nat, count : Nat, depth : BOOLEAN]

Dims == 4  \* dimensions examined for their health

VARIABLES
  aspect,
  header,
  frames,  \* the telemetry
  stuck,   \* the dimensions that never vary
  spiky,   \* those with too many outliers
  score,   \* the scores of the metrics in the report
  since    \* what has happened to the telemetry since

vars == <<aspect, header, frames, stuck, spiky, score, since>>

n == Len(frames)
Frames == 1..n
Time == [i \in Frames |-> frames[i].t]
Duration == IF n = 0 THEN 0 ELSE Time[n]

-----------------------------------------------------------------------------
(* Features.                                                                *)

\* A difference of order k has no value in the first k frames.
Offset == [jerk |-> 3, cont |-> 2, osc |-> 2, chat |-> 2, arm |-> 1, hand |-> 1, state |-> 1,
           diff |-> 0, err |-> 0]
Norm(f) == [i \in Frames |-> IF i <= Offset[f] THEN 0 ELSE frames[i][f]]
Both == [i \in Frames |-> Greater(Norm("arm")[i], Norm("hand")[i])]

Intervals(clock) == [i \in 1..(n - 1) |-> frames[i + 1][clock] - frames[i][clock]]

Above(v, threshold) == {i \in DOMAIN v : v[i] > threshold}
Positive(v) == Restrict(v, Above(v, 0))

\* The k-th least of the numbers v has at its indices.
Ranked(v, k) ==
  CHOOSE x \in Range(v) :
    /\ Cardinality({i \in DOMAIN v : v[i] < x}) < k
    /\ k <= Cardinality({i \in DOMAIN v : v[i] <= x})

\* The q-th percentile, interpolated between its neighbours.
Percentile(v, q) ==
  LET size == Cardinality(DOMAIN v)
      h == (size - 1) * q
      low == Ranked(v, h \div 100 + 1)
      high == Ranked(v, Lesser(h \div 100 + 2, size))
  IN IF size = 0 THEN 0 ELSE ((100 - (h % 100)) * low + (h % 100) * high) \div 100

Mean(v) == SumFunction(v) \div Cardinality(DOMAIN v)
Share(set, of) == IF of = 0 THEN 0 ELSE (Whole * Cardinality(set)) \div of

-----------------------------------------------------------------------------
(* Segments: the flagged frames as stretches of time.                       *)

\* A run ends where a frame is not flagged, or with the last frame.
Runs(mask) ==
  {r \in mask \X mask :
     r[1] <= r[2] /\ r[1]..r[2] \subseteq mask /\ r[1] - 1 \notin mask /\ r[2] + 1 \notin mask}

Stretch(r) == [start |-> Time[r[1]], end |-> Greater(Time[r[1]], Time[r[2]])]
Earlier(a, b) == a.start < b.start \/ (a.start = b.start /\ a.end < b.end)

Latest(stretches) == CHOOSE s \in stretches : \A u \in stretches : u = s \/ Earlier(u, s)

Prolonged(segments, s) ==
  [segments EXCEPT ![Len(segments)] = [start |-> @.start, end |-> Greater(@.end, s.end)]]

\* Seeded defect: a stretch that begins just at the gap is kept apart.
JoinedApart(segments, s, gap) ==
  IF segments # <<>> /\ s.start < segments[Len(segments)].end + gap
  THEN Prolonged(segments, s)
  ELSE Append(segments, s)

\* A stretch that begins within gap of the last segment prolongs it.
Joined(segments, s, gap) ==
  IF segments # <<>> /\ s.start <= segments[Len(segments)].end + gap
  THEN Prolonged(segments, s)
  ELSE Append(segments, s)

\* The stretches join the segments in their order, the latest after all the others.
Joining(stretches, gap) ==
  MapThenFoldSet(LAMBDA s, segments : Joined(segments, s, gap), <<>>, LAMBDA s : s, Latest,
                 stretches)

Merged(mask, gap) == Joining({Stretch(r) : r \in Runs(mask)}, gap)

\* On the timeline a segment is long enough to be seen.
Shown(segments, least) ==
  [i \in DOMAIN segments |->
     [segments[i] EXCEPT !.end = Greater(@, segments[i].start + least)]]

TimeIn(segments, least) ==
  LET length == [k \in DOMAIN segments |-> segments[k].end - segments[k].start]
  IN SumFunctionOnSet(length, {k \in DOMAIN segments : length[k] >= least})

-----------------------------------------------------------------------------
(* Motion quality.                                                          *)

Smoothness == ScoreInverse(Percentile(Norm("jerk"), 95), 60, 180, 450)
Spikes == Above(Norm("jerk"), Greater(350, Percentile(Norm("jerk"), 98)))

Continuity == ScoreInverse(Percentile(Norm("cont"), 95), 100, 300, 800)
Jumps == Above(Norm("cont"), Greater(600, Percentile(Norm("cont"), 98)))

Oscillating == Above(Norm("osc"), 300)
Chattering == Above(Norm("chat"), 800)
Stability ==
  ScoreInverse((60 * Share(Oscillating, n) + 40 * Share(Chattering, n)) \div 100, 500, 1500, 3500)

-----------------------------------------------------------------------------
(* Learnability.  The thresholds follow the episode, from a floor upwards.  *)

Threshold(f, floor) == IF n > 1 THEN Greater(Percentile(Norm(f), 20), floor) ELSE floor
Effective ==
  Above(Norm("arm"), Threshold("arm", 40)) \cup Above(Norm("hand"), Threshold("hand", 117))
Ineffective == Frames \ Effective

EffectiveRatio == ScoreRatio(Share(Effective, n), 5000, 2500, 800)

\* Coverage times intensity of the action, and the intensity of the state.
Density ==
  (70 * ((Share(Effective, n) * Percentile(Restrict(Both, Effective), 75)) \div Whole)
   + 30 * Percentile(Norm("state"), 75)) \div 100
InformationDensity == ScoreRatio(Density, 300, 120, 30)

LowValue == Ineffective \ Above(Norm("state"), Threshold("state", 5))
LowValueShare ==
  IF Duration > 0 THEN (Whole * TimeIn(Merged(LowValue, 300), 1000)) \div Duration ELSE 0
LowValueSegments == ScoreInverse(LowValueShare, 1800, 3800, 6500)

-----------------------------------------------------------------------------
(* Data integrity.                                                          *)

\* The depth camera's clock is judged where there is one, the telemetry's otherwise.
Clock == IF header.depth /\ n > 1 THEN "depth" ELSE "t"
Interval == Intervals(Clock)
MedianInterval(intervals) ==
  IF Above(intervals, 0) = {} THEN 1000 ELSE Percentile(Positive(intervals), 50)
Expected ==
  IF Clock = "t" /\ header.interval > 0 THEN header.interval ELSE MedianInterval(Interval)
Dropped == {i \in DOMAIN Interval : 2 * Interval[i] > 3 * Expected}
Backward == {i \in DOMAIN Interval : Interval[i] <= 0}

Off(x) == (Whole * (IF x < Expected THEN Expected - x ELSE x - Expected)) \div Expected
Irregularity ==
  (35 * Percentile([i \in DOMAIN Interval |-> Off(Interval[i])], 95)
   + 25 * Share(Dropped, n - 1) + 15 * Share(Backward, n - 1)
   + IF Clock = "t" /\ header.interval > 0 THEN 25 * Off(MedianInterval(Interval)) ELSE 0)
    \div 100
TimestampRegularity == IF n < 2 THEN 0 ELSE ScoreInverse(Irregularity, 500, 1500, 3500)

\* What counts as out of sync follows the frame rate.
SyncInterval ==
  IF Above(Intervals("t"), 0) = {} THEN 50 ELSE Percentile(Positive(Intervals("t")), 50)

\* Seeded defect: the two thresholds are set too close to each other.
SyncWarnLoose == Greater(50, 2 * WarnMultiple * SyncInterval)

SyncWarn == Greater(50, WarnMultiple * SyncInterval)
SyncBad == Greater(200, 6 * SyncInterval)
Invalid == {i \in Frames : ~frames[i].valid}
Soft == Above(Norm("diff"), SyncWarn)
Severe == Invalid \cup Above(Norm("diff"), SyncBad)

\* Seeded defect: the minimal length is applied before the time is added up.
OutOfSyncTimeShown == TimeIn(Shown(Merged(Invalid \cup Soft, 300), 500), 500)

OutOfSyncTime == TimeIn(Merged(Invalid \cup Soft, 300), 500)
OutOfSyncShare == IF Duration > 0 THEN (Whole * OutOfSyncTime) \div Duration ELSE 0

\* Seeded defect: only the frames that are valid are measured.
DifferenceOfValid == Percentile(Restrict(Norm("diff"), Frames \ Invalid), 95)

Difference == Percentile(Norm("diff"), 95)

Desync ==
  (30 * Share(Invalid, n) + 25 * Share(Above(Norm("diff"), SyncBad), n) + 20 * Share(Soft, n)
   + 15 * Lesser((Whole * Difference) \div SyncBad, Whole)
   + 10 * OutOfSyncShare) \div 100
SyncValidity == IF n = 0 THEN 0 ELSE ScoreInverse(Desync, 600, 1500, 3500)

DimensionHealth == Clamp(Ten - (Ten * 3 * Lesser(stuck + spiky, Dims)) \div (2 * Dims))

Completeness ==
  IF n < MinFrames THEN 200
  ELSE IF header.count > 0 /\
          20 * (IF header.count > n THEN header.count - n ELSE n - header.count) > header.count
       THEN 700
  ELSE Ten

-----------------------------------------------------------------------------
(* Diagnostics, which do not count towards the score.                       *)

\* The errors are aligned at the lag, if there is one, that makes their median least.
From(k) == Restrict(Norm("err"), (k + 1)..n)
Lag ==
  CHOOSE k \in 0..Lesser(5, n \div LagRatio) :
    \A j \in 0..Lesser(5, n \div LagRatio) :
      IF j < k THEN Percentile(From(k), 50) < Percentile(From(j), 50)
      ELSE Percentile(From(k), 50) <= Percentile(From(j), 50)
Aligned == From(Lag)
Deviating == Above(Aligned, 2000)

TrackingSeverity ==
  (50 * Lesser((Whole * Percentile(Aligned, 95)) \div 3500, Whole)
   + 30 * Lesser((Whole * Mean(Aligned)) \div 2000, Whole)
   + 20 * Share(Deviating, n - Lag)) \div 100
Tracking == IF n = 0 THEN 0 ELSE Clamp(Ten - TrackingSeverity \div 10)

Lost == SumFunction([i \in Frames |-> frames[i].lost])
DataValidity == Clamp(Ten - 10 * Lesser(Lost, 100))

-----------------------------------------------------------------------------
Scores ==
  [MQ01 |-> Clamp(Smoothness), MQ02 |-> Clamp(Continuity), MQ03 |-> Clamp(Stability),
   LQ01 |-> Clamp(EffectiveRatio), LQ02 |-> Clamp(InformationDensity),
   LQ03 |-> Clamp(LowValueSegments),
   DI01 |-> Clamp(TimestampRegularity), DI02 |-> Clamp(SyncValidity),
   DI03 |-> Clamp(DimensionHealth), DI04 |-> Clamp(Completeness)]

\* The lanes of the timeline: what is flagged, the gap that is bridged and the length
\* that is shown at least.  (The segment for a
\* frame rate other than the declared one spans the episode, and is left out.)
Lane ==
  {[mask |-> Spikes, gap |-> 300, least |-> 500],
   [mask |-> Jumps, gap |-> 300, least |-> 500],
   [mask |-> Oscillating, gap |-> 300, least |-> 500],
   [mask |-> Chattering, gap |-> 300, least |-> 500],
   [mask |-> Ineffective, gap |-> 300, least |-> 1000],
   [mask |-> LowValue, gap |-> 300, least |-> 1000],
   [mask |-> Soft, gap |-> 300, least |-> 500],
   [mask |-> Severe, gap |-> 300, least |-> 500],
   [mask |-> Deviating, gap |-> 300, least |-> 500],
   [mask |-> Above(Aligned, 3500), gap |-> 300, least |-> 500]}
  \cup IF Clock = "depth" THEN {}
       ELSE {[mask |-> Backward, gap |-> 100, least |-> 0],
             [mask |-> Dropped, gap |-> 300, least |-> 0]}

-----------------------------------------------------------------------------
Init ==
  /\ aspect \in Aspect /\ header \in Header[aspect]
  /\ frames = <<>> /\ stuck = 0 /\ spiky = 0
  /\ score = [m \in Metric |-> 0] /\ since = "recorded"

At(f, t, depth) ==
  [t |-> t, depth |-> depth, jerk |-> f.jerk, cont |-> f.cont, osc |-> f.osc, chat |-> f.chat,
   arm |-> f.arm, hand |-> f.hand, state |-> f.state, valid |-> f.valid, diff |-> f.diff,
   err |-> f.err, lost |-> f.lost]

\* The telemetry's time begins with 0.
Placed(f) ==
  IF n = 0 THEN At(f, 0, 0) ELSE At(f, frames[n].t + f.dt, frames[n].depth + f.ddt)

Record(f) ==
  /\ since = "reported"
  /\ n < MaxFrames[aspect]
  /\ frames' = Append(frames, Placed(f))
  /\ since' = "recorded"
  /\ UNCHANGED <<aspect, header, stuck, spiky, score>>

\* f is at least as bad as g in all that is bad the more there is of it.
AsBad(f, g) ==
  /\ \A x \in {"jerk", "cont", "osc", "chat", "diff", "err", "lost"} : f[x] >= g[x]
  /\ f.valid => g.valid
  /\ \A x \in {"arm", "hand", "state"} : f[x] = g[x]

Worsen(i, f) ==
  /\ since = "reported"
  /\ AsBad(f, frames[i])
  /\ frames' = [frames EXCEPT ![i] = At(f, frames[i].t, frames[i].depth)]
  /\ since' = "worsened"
  /\ UNCHANGED <<aspect, header, stuck, spiky, score>>

Deteriorate ==
  /\ since = "reported" /\ aspect = "health"
  /\ stuck + spiky < Dims
  /\ \/ stuck' = stuck + 1 /\ UNCHANGED spiky
     \/ spiky' = spiky + 1 /\ UNCHANGED stuck
  /\ since' = "worsened"
  /\ UNCHANGED <<aspect, header, frames, score>>

\* The report, from the metrics to the score.
Compute ==
  /\ since # "reported"
  /\ score' = Scores /\ since' = "reported"
  /\ UNCHANGED <<aspect, header, frames, stuck, spiky>>

Next ==
  \/ \E f \in Reading[aspect] : Record(f) \/ \E i \in Frames : Worsen(i, f)
  \/ Deteriorate
  \/ Compute

Spec == Init /\ [][Next]_vars

-----------------------------------------------------------------------------
Forward == \A i \in 1..(n - 1) : Time[i] <= Time[i + 1]

TypeOK ==
  /\ \A m \in Metric : score[m] \in 0..Ten
  /\ Total(score) \in 0..Ten
  /\ Tracking \in 0..Ten /\ DataValidity \in 0..Ten
  /\ Forward => LowValueShare \in 0..Whole /\ OutOfSyncShare \in 0..Whole

\* The documentation promises a person who reads the report that no good motion makes
\* up for bad data: one integrity metric below its threshold caps the total, whatever
\* the other integrity metrics are, and a total that was capped carries a warning
\* (QualityEngine.build_report).
IntegrityCaps ==
  /\ \A m \in Integrity : score[m] < MetricBad => Total(score) <= CapStrict
  /\ \A m \in Integrity : score[m] < MetricWarn => Total(score) <= CapModerate
  /\ Total(score) < Weighted(score) => "capped" \in Warnings(score)

InSegment(t, s) == s.start <= t /\ t <= s.end

\* Whose time is before that of the first frame of its run, or after that of the last.
Astray(mask, i) ==
  \E r \in Runs(mask) :
    r[1] < i /\ i <= r[2] /\ (Time[i] < Time[r[1]] \/ Time[r[2]] < Time[i])

\* The timeline shows what was flagged.  Every flagged frame is in a segment but one
\* that is astray: a clock that runs backward within a run of flagged frames leaves
\* those out that lie beyond the run's first and last frame, even in the lane of the
\* backward timestamps, where only the first of a row is sure to be shown; no other
\* flag is lost.  Segments do not come closer than the gap; and while the clock runs
\* forward, two flagged frames are in one segment exactly if the flags between them
\* never pause for longer than it (mask_to_segments).
TimelineShowsTheFlags ==
  since = "reported" =>
  \A lane \in Lane :
    LET merged == Merged(lane.mask, lane.gap)
        shown == Shown(merged, lane.least)
    IN
    /\ \A k \in 1..(Len(merged) - 1) : merged[k].end + lane.gap < merged[k + 1].start
    /\ \A i \in lane.mask :
         Astray(lane.mask, i) \/ \E k \in DOMAIN shown : InSegment(Time[i], shown[k])
    /\ Forward =>
         \A i, j \in lane.mask :
           i < j /\ (\A k \in (i + 1)..(j - 1) : k \notin lane.mask) =>
             (\E k \in DOMAIN merged : InSegment(Time[i], merged[k]) /\ InSegment(Time[j], merged[k]))
               <=> (j = i + 1 \/ Time[j] - Time[i] <= lane.gap)

\* A deduction for sync is explained: if DI-02 has less than full marks, the timeline
\* has a segment of it, although what deducts (the 95th percentile among it) and what
\* is shown (frames beyond a threshold) are computed apart (_sync_validity).
SyncPenaltyIsShown ==
  since = "reported" /\ n > 0 /\ score.DI02 < Ten => Soft # {} \/ Severe # {}

\* Telemetry that only gets worse never scores better, in any metric or in total, for
\* all the percentiles, adaptive thresholds, merged segments and caps in between.  Only
\* DI-02 may, and only if the clock runs backward: a stretch of flagged frames whose
\* last frame has an earlier time loses its length (mask_to_segments).
WorseNeverScoresHigher ==
  [][since = "worsened" =>
        /\ \A m \in Metric : score'[m] <= score[m] \/ (m = "DI02" /\ ~Forward)
        /\ Forward => Total(score') <= Total(score)]_vars
=============================================================================
