SPECIFICATION Spec
CONSTANTS
  e1 = e1
  e2 = e2
  e3 = e3
  t1 = t1
  t2 = t2
  t3 = t3
  Escrows = {e1}
  Transfers = {t2}
  Address <- MCAddress
  Expected <- MCExpected
  TxOf <- MCTxOf
  To <- MCTo
  Sent <- MCExact
  Confirmations = 2
  Window = 3
  MaxHeight = 4
  RowEdges <- NoEdges
  Faults = FALSE
INVARIANT
  UnconfirmedIsAhead
