SPECIFICATION Spec
CONSTANTS
  Request = {r1, r2, r3}
  Topic = {t1, t2}
  Conversation = {c1, c2, c3}
  MaxMessages = 2
  NoTopic = NoTopic
  NoConversation = NoConversation
SYMMETRY Symmetric
\* Every request is made once; when the last has ended nothing is left to do.
CHECK_DEADLOCK FALSE
INVARIANTS TypeOK TrimmedToTheNewest
