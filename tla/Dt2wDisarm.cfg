SPECIFICATION Spec
CONSTANTS
  QCap = 3
  UevCap = 2
  MaxFaults = 0
  Noise = TRUE
  ClearFirst = TRUE
INVARIANT DisabledIsDisarmed
