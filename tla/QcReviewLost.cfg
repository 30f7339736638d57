SPECIFICATION Spec
CONSTANTS
  Episode = {e1, e2}
  Admin = {a}
  Reviewer = {r1}
  Request = {q1, q2}
  Threshold = 50
  MaxGeneration = 1
  MayAsk = {}
  Presence <- AllOrNone
  MayFail = FALSE
  Nobody = Nobody
  NoRequest = NoRequest
SYMMETRY Symmetric
INVARIANTS AdjudicatedWhenSubmitted
