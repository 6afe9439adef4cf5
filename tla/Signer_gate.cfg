SPECIFICATION Spec
CONSTANTS
  Admins = {a1}
  Tasks = {t1, t2, c1, c2}
  Calls = {c1, c2}
  EnvPaused = FALSE
  Requests = {r1}
  MaxTaps = 4
  Window = 1
  Life = 4
  Skew = 1
  MaxDelay = 1
  MaxNow = 4
  MaxRestarts = 1
SYMMETRY HandlerSymmetry
INVARIANTS
  IInv
  SwitchIsLastChange
  AcceptedOnce
  SwitchStops
CHECK_DEADLOCK FALSE
