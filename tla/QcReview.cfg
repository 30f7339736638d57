SPECIFICATION Spec
CONSTANTS
  Episode = {e1, e2}
  Admin = {a}
  Reviewer = {r1}
  Request = {q1, q2}
  Threshold = 50
  MaxGeneration = 2
  MayAsk = {r1}
  Presence <- AllOrNone
  MayFail = TRUE
  Nobody = Nobody
  NoRequest = NoRequest
CONSTRAINT Small
INVARIANTS TypeOK OneGeneration ReviewedByLockHolder TaskAgreesWithEpisode
PROPERTIES ResultLostOnlyByReopening DoneByItsReviewer RecomputeDecides
SYMMETRY Symmetric
