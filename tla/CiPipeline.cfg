SPECIFICATION MCSpec
CONSTANTS
  Patches <- MCPatches
  Folded = {}
  Window = 1
  MaxLog = 2
  MaxRev = 2
  MaxJobs = 2
  HandPatches <- MCHandPatches
  HandFolded = {"charge"}
  HandWindow = 2
  HandLog = 3
INVARIANTS
  HandPresentOrFailed
  HandHealed
  OneRevision
  PatchedOrReported
CHECK_DEADLOCK FALSE
