SPECIFICATION Spec
CONSTANTS
  Calls = {c1, c2}
  Received = {30, 56, 82}
  Flat = 50
  Percent = 20
  Threshold = 60
  AutoMax = 60
  HardMax = 70
  DailyMax = 60
  HourlyMax = 1
  Day <- MCDay
  MaxHour = 2
  MaxAttempts = 4
  MaxRestarts = 1
SYMMETRY CallSymmetry
INVARIANTS
  IInv
  DailyMaxHolds
  HourlyMaxHolds
CHECK_DEADLOCK FALSE
