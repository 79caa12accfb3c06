SPECIFICATION Spec
CONSTANTS
  Clients = {c1, c2}
  Texts = {t1, t2}
  NoText = NoText
  Spliced = Spliced
  Empty = Empty
  Absent = Absent
  MaxCalls = 4
  MaxAborts = 2
SYMMETRY Symmetry
INVARIANTS TypeOK DraftAccountedFor SafeguardRespected SendsBackedByApprovals
CHECK_DEADLOCK FALSE
