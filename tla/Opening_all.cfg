SPECIFICATION Spec
CONSTANTS
  Users = {u1}
  Tasks = {m1, m2}
  Of <- MCOf
  Keys <- MCKeys
  Rows = {k1, k2}
  MaxStops = 1
SYMMETRY OpeningSymmetry
INVARIANTS
  IInv
  PayoutMatchesChain
  AddressesAreDistinct
CHECK_DEADLOCK FALSE
