SPECIFICATION Spec
CONSTANTS
  QCap = 4
  UevCap = 2
  MaxFaults = 1
  Noise = TRUE
  ClearFirst = TRUE
INVARIANTS
  TypeOK
  SettingFollows
  NoLostArm
