SPECIFICATION Spec
CONSTANTS
  Episode = {e1}
  Admin = {a, b}
  Reviewer = {}
  Request = {q1, q2}
  Threshold = 50
  MaxGeneration = 1
  MayAsk = {}
  Presence <- AllOrNone
  MayFail = TRUE
  Nobody = Nobody
  NoRequest = NoRequest
PROPERTIES LiveLockRespected
