SPECIFICATION Spec
CONSTANTS
  e1 = e1
  e2 = e2
  e3 = e3
  t1 = t1
  t2 = t2
  t3 = t3
  Escrows = {e1, e2, e3}
  Transfers = {t1, t2, t3}
  Address <- MCAddress
  Expected <- MCExpected
  TxOf <- MCTxOf
  To <- MCTo
  Sent <- MCSent
  Confirmations = 1
  Window = 1
  MaxHeight = 4
  RowEdges <- MCRowEdges
  Faults = TRUE
INVARIANTS
  IInv
  RecordedIsConfirmed
  LockedOnExactDeposit
  CreditedOnce
  PendingIsAhead
PROPERTIES
  DepositIsKept
  NothingDueIsPassed
