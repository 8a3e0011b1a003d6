SPECIFICATION LiveSpec
CONSTANTS
  Device = {d1, d2}  Caller = {c1, c2}  None = None
  MaxRevokes = 1  MaxUndos = 1  MaxCuts = 1  MaxLosses = 1
CHECK_DEADLOCK FALSE
INVARIANTS RevokedCut OneDialPerDevice
PROPERTIES NeverHandedOut Answered
