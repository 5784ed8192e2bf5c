SPECIFICATION FairSpec
CONSTANTS
  QCap = 3
  UevCap = 2
  MaxFaults = 1
  Noise = TRUE
  ClearFirst = FALSE
PROPERTIES
  EnabledRuns
  DisabledStops
  ImplementsWakeBridge
  ReArmedInQuiet
