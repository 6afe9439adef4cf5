SPECIFICATION ServiceSpec
CONSTANTS
  e1 = e1
  e2 = e2
  t1 = t1
  t2 = t2
  buyer = buyer
  Escrows = {e1, e2}
  Users = {buyer}
  Buyer <- MCBuyer
  Admins = {a1}
  Calls = {c1}
  LargeEscrows = {e2}
  EnvPaused = FALSE
  BackOfficeEdges <- MCEdges
  Resubmits = TRUE
  Faults = TRUE
  Transfers = {t1, t2}
  Address <- MCAddress
  Expected <- MCExpected
  TxOf <- MCTxOf
  To <- MCTo
  Sent <- MCSent
  Confirmations = 1
  Window = 1
  MaxHeight = 3
  ScanFaults = TRUE
VIEW LiveState
INVARIANTS
  ServiceIInv
  PayoutsAreBacked
  LargeWaitsForAdmin
PROPERTY
  ImplementsVault
