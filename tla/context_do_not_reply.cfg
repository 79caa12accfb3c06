SPECIFICATION Spec
CONSTANTS
  NumContacts = 1
  Profiles <- SomeProfiles
  Signatures <- SomeSignatures
  Writers = {w1}
  NoRow = NoRow
  NoStamp = NoStamp
  NoMark = NoMark
  MaxChanges = 1
  MaxFaults = 0
PROPERTY DoNotReplyNeedsOverride
CHECK_DEADLOCK FALSE
