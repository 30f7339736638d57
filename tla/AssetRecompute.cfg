SPECIFICATION Spec
CONSTANTS
  Batch = {b1, b2}
  Task = {u, t1, t2}
  Unclassified = u
  Processor = {p1, p2}
  Manager = {m1, m2}
  Happening <- Everything
  MaxEvents = 3
  Out = Out
  None = None
SYMMETRY Symmetric
\* With the events used up and nothing dirty the queue is idle.
CHECK_DEADLOCK FALSE
INVARIANTS TypeOK BatchFresh TaskFresh
PROPERTIES NeverOlder
