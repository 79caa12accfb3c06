SPECIFICATION Spec
CONSTANTS
  NumContacts = 1
  Profiles <- SomeProfiles
  Signatures <- SomeSignatures
  Writers = {w1}
  NoRow = NoRow
  NoStamp = NoStamp
  NoMark = NoMark
  MaxChanges = 2
  MaxFaults = 1
INVARIANTS TypeOK MergeConservative MergeLayered HistoryDescribesRows SupersededWasUndone
PROPERTY StampQuotesItsContext
CHECK_DEADLOCK FALSE
