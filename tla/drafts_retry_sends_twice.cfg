SPECIFICATION Spec
CONSTANTS
  Clients = {c1}
  Texts = {t1, t2}
  NoText = NoText
  Spliced = Spliced
  Empty = Empty
  Absent = Absent
  MaxCalls = 2
  MaxAborts = 1
INVARIANT SentAtMostOnce
CHECK_DEADLOCK FALSE
