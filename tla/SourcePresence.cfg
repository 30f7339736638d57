SPECIFICATION Spec
CONSTANTS
  e1 = e1
  e2 = e2
  Episode = {e1, e2}
  View <- Views
  Confirm = 2
  MaxClock = 3
  MaxScans = 4
  TheList = TheList
INVARIANTS
  TypeOK
  MissingNeedsTwoAbsences
  AbsenceIsConcluded
  ActiveScopeAgrees
  SuspectIsFollowedUp
PROPERTIES
  ReadinessDropsOnEvidence
