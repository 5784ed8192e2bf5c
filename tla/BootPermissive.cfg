SPECIFICATION BootSpec
CONSTANTS
  File = {"cali_0_0", "cali_0_1", "cali_2"}
  Seeds <- MCSeeds
  CalFiles = {"cali_0_0", "cali_2"}
  MaxQueue = 3
  MaxStarts = 2
INVARIANTS
  StaysPermissive
