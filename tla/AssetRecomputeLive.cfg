SPECIFICATION FairSpec
CONSTANTS
  Batch = {b1}
  Task = {u, t1}
  Unclassified = u
  Processor = {p1, p2}
  Manager = {m1}
  Happening <- Everything
  MaxEvents = 2
  Out = Out
  None = None
\* With the events used up and nothing dirty the queue is idle.
CHECK_DEADLOCK FALSE
PROPERTIES StaleIsRefreshed
