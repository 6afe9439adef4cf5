SPECIFICATION Spec
CONSTANTS
  e1 = e1
  e2 = e2
  buyer = buyer
  other = other
  Escrows = {e1}
  Users = {buyer}
  Buyer <- MCBuyer
  Admins = {}
  Calls = {c1}
  LargeEscrows = {}
  EnvPaused = FALSE
  BackOfficeEdges <- DepositEdge
  Resubmits = FALSE
  Faults = FALSE
PROPERTY
  DisputeIsReviewed
