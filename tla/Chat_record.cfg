SPECIFICATION FairSpec
CONSTANTS
  Escrows = {e1}
  Parties = {buyer}
  Admins = {a1}
  Tasks = {m1, m2}
  Limit = 2
  MaxMessages = 3
  Faults = TRUE
INVARIANTS
  IInv
  RecordIsOfRelayed
  EvidenceNeedsDispute
PROPERTY
  LimitEnds
