SPECIFICATION FairSpec
CONSTANTS
  e1 = e1
  e2 = e2
  buyer = buyer
  other = other
  Escrows = {e1}
  Users = {buyer, other}
  Buyer <- MCBuyer
  Admins = {a1}
  Calls = {c1, c2}
  LargeEscrows = {}
  EnvPaused = FALSE
  BackOfficeEdges <- AnyEdge
  Resubmits = TRUE
  Faults = TRUE
INVARIANTS
  PaidAtMostOnce
  PaidEscrowIsSpent
  PaidOnlyOnRelease
  RecordedPayoutIsReal
  OneDispute
  IInv
PROPERTIES
  ImplementsCustody
  CallsEnd
