SPECIFICATION Spec
CONSTANTS
  AidlPrebuilts <- MCPrebuilts
  AidlTrees <- MCAidlTrees
  CcDump <- MCDump
  CcTrees <- MCCcTrees
  Universe <- MCUniverse
  SystemLibs <- MCSystem
  Excluded <- MCExcluded
  DisableDeps <- MCDisable
  ModuleRename <- MCRename
  FixSoname <- MCSoname
  LibFixup <- MCFixup
  Removed <- MCRemoved
  Replaced <- MCReplaced
  SourceBuilt <- MCSource
  Wants <- MCWants
  Blob = {1, 2, 3, 4, 5, 6, 7, 8}
  Dirs <- MCDirs
  Base <- MCBase
  LibDirs = {"lib", "lib64"}
  Numeric = {"2"}
  Words <- MCWords
  Manual <- MCManual
INVARIANTS
  DropIsBuilt
  KeepIsOrphan
  DropIsVendor
  KeepIsCanonical
  SilenceLoads
  VendorCopyLoads
  VendorCopyLinks
  DistinctNames
  OneDefault
CHECK_DEADLOCK FALSE
