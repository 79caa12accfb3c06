SPECIFICATION Spec
CONSTANTS
  Clients = {c1}
  Texts = {t1, t2}
  NoText = NoText
  Spliced = Spliced
  Empty = Empty
  Absent = Absent
  MaxCalls = 4
  MaxAborts = 3
INVARIANTS NothingLost OutboxWellFormed RejectedIsMarked
CHECK_DEADLOCK FALSE
PROPERTY ImplementsLifecycle
