SPECIFICATION Spec
CONSTANTS
  Clients = {c1, c2}
  Texts = {t1, t2}
  NoText = NoText
  Spliced = Spliced
  Empty = Empty
  Absent = Absent
  MaxCalls = 2
  MaxAborts = 0
PROPERTY MovedStaysMoved
CHECK_DEADLOCK FALSE
