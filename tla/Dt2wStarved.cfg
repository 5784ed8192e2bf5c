SPECIFICATION FairSpec
CONSTANTS
  QCap = 3
  UevCap = 2
  MaxFaults = 0
  Noise = TRUE
  ClearFirst = FALSE
PROPERTIES
  ReArmed
