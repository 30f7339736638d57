-------------------------- MODULE MCQualityMetrics --------------------------
\* Episodes of a few frames in which one aspect varies.
EXTENDS QualityMetrics

Calm == [dt |-> 100, ddt |-> 100, jerk |-> 0, cont |-> 0, osc |-> 0, chat |-> 0,
         arm |-> 300, hand |-> 0, state |-> 50, valid |-> TRUE, diff |-> 0, err |-> 0, lost |-> 0]

Aspects == {"jerk", "cont", "stability", "action", "time", "sync", "tracking", "health"}

Readings ==
  [a \in Aspects |->
     CASE a = "jerk" -> {[Calm EXCEPT !.jerk = x] : x \in {0, 100, 500}}
       [] a = "cont" -> {[Calm EXCEPT !.cont = x] : x \in {0, 200, 900}}
       [] a = "stability" -> {[Calm EXCEPT !.osc = x, !.chat = y] : x \in {0, 400}, y \in {0, 900}}
       [] a = "action" -> {[Calm EXCEPT !.dt = d, !.arm = x, !.state = y] :
                             d \in {200, 600}, x \in {0, 300}, y \in {0, 50}}
       [] a = "time" -> {[Calm EXCEPT !.dt = d, !.ddt = d, !.valid = v] :
                             d \in {-300, 0, 100, 300}, v \in BOOLEAN}
       [] a = "sync" -> {[Calm EXCEPT !.dt = d, !.diff = x, !.valid = v] :
                             d \in {100, 400}, x \in {0, 150, 300, 700}, v \in BOOLEAN}
       [] a = "tracking" -> {[Calm EXCEPT !.err = x, !.lost = k] : x \in {0, 3000, 4000}, k \in {0, 60}}
       [] a = "health" -> {Calm}]

Bounds == [a \in Aspects |->
             CASE a \in {"sync", "time"} -> 4 [] a \in {"jerk", "cont"} -> 6 [] OTHER -> 5]

Plain == [interval |-> 0, count |-> 4, depth |-> FALSE]

Headers ==
  [a \in Aspects |->
     IF a = "time" THEN {Plain, [Plain EXCEPT !.interval = 100], [Plain EXCEPT !.depth = TRUE]}
     ELSE {Plain}]
=============================================================================
