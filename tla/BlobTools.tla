------------------------------ MODULE BlobTools ------------------------------
(***************************************************************************)
(* The developer's tools around the blob lists.  They are run one at a     *)
(* time and share no state but the files they read, which none of them     *)
(* writes: verify_aidl_versions.py, verify_cc_libs.py, the DT_NEEDED walk  *)
(* of closure.py with the fixups of extract-files.py, and the module names *)
(* of closure.py.  This module runs one of the four.                       *)
(***************************************************************************)
CONSTANTS
  AidlPrebuilts, AidlTrees,                        \* of VerifyAidl
  CcDump, CcTrees,                                 \* of VerifyCc
  Universe, SystemLibs, Excluded, DisableDeps, ModuleRename, FixSoname,
  LibFixup, Removed, Replaced, SourceBuilt, Wants, \* of NeededProps
  Blob, Dirs, Base, LibDirs, Numeric, Words, Manual \* of ModuleNames

VARIABLES
  tool,                                 \* the one that is run
  aTree, aRows, aRoot, aSkipped,        \* of VerifyAidl
  cTree, cScanned, cIndexed, cRows,     \* of VerifyCc
  listed, todo, unresolved, mute,       \* of Needed
  files, names                          \* of ModuleNames
aVars == <<aTree, aRows, aRoot, aSkipped>>
cVars == <<cTree, cScanned, cIndexed, cRows>>
nVars == <<listed, todo, unresolved, mute>>
mVars == <<files, names>>
vars  == <<tool, aVars, cVars, nVars, mVars>>

Aidl == INSTANCE VerifyAidlProps WITH
  Prebuilts <- AidlPrebuilts, Trees <- AidlTrees,
  tree <- aTree, rows <- aRows, root <- aRoot, skipped <- aSkipped
Cc == INSTANCE VerifyCcProps WITH
  Dump <- CcDump, Trees <- CcTrees,
  tree <- cTree, scanned <- cScanned, indexed <- cIndexed, rows <- cRows
Walk  == INSTANCE NeededProps
Naming == INSTANCE ModuleNames

ASSUME AidlTreesAssumption == Aidl!TreesAreFiles
ASSUME CcTreesAssumption == Cc!TreesAreSoong
ASSUME DumpsAssumption == Aidl!DumpIsList /\ Cc!DumpIsList
ASSUME NamesAssumption == Naming!NamesAreParts

AidlIdle   == aTree = <<>> /\ aRows = <<>> /\ aRoot = 0 /\ aSkipped = FALSE
CcIdle     == cTree = <<>> /\ cScanned = 0 /\ cIndexed = {} /\ cRows = <<>>
WalkIdle   == listed = {} /\ todo = {} /\ unresolved = {} /\ mute = {}
NamingIdle == files = {} /\ names = <<>>

Init ==
  \/ tool = "aidl"   /\ Aidl!Init /\ CcIdle /\ WalkIdle /\ NamingIdle
  \/ tool = "cc"     /\ AidlIdle /\ Cc!Init /\ WalkIdle /\ NamingIdle
  \/ tool = "walk"   /\ AidlIdle /\ CcIdle /\ Walk!Init /\ NamingIdle
  \/ tool = "naming" /\ AidlIdle /\ CcIdle /\ WalkIdle /\ Naming!Init

Next ==
  /\ UNCHANGED tool
  /\ \/ tool = "aidl" /\ Aidl!Next /\ UNCHANGED <<cVars, nVars, mVars>>
     \/ tool = "cc" /\ Cc!Next /\ UNCHANGED <<aVars, nVars, mVars>>
     \/ tool = "walk" /\ Walk!Next /\ UNCHANGED <<aVars, cVars, mVars>>
     \/ tool = "naming" /\ Naming!Next /\ UNCHANGED <<aVars, cVars, nVars>>

Spec == Init /\ [][Next]_vars

-----------------------------------------------------------------------------
\* Every tool keeps its own types.
TypeOK ==
  /\ tool \in {"aidl", "cc", "walk", "naming"}
  /\ tool = "aidl" => Aidl!TypeOK
  /\ tool = "cc" => Cc!TypeOK
  /\ Walk!TypeOK

\* verify_aidl_versions.py: what it drops is built, what it keeps is not; see
\* VerifyAidlProps.
DropIsBuilt  == Aidl!DropIsBuilt
KeepIsOrphan == Aidl!KeepIsOrphan

\* verify_cc_libs.py: what it drops is in the source for vendor, what it keeps is
\* not; see VerifyCcProps.
DropIsVendor    == Cc!DropIsVendor
KeepIsCanonical == Cc!KeepIsCanonical

\* closure.py's report and extract-files.py's fixups: what the report is silent of
\* loads, and consumers get the vendor's copy; see NeededProps.
SilenceLoads    == Walk!SilenceLoads
VendorCopyLoads == Walk!VendorCopyLoads
VendorCopyLinks == Walk!VendorCopyLinks

\* closure.py's module names: copies differ, one keeps the basename; see ModuleNames.
DistinctNames == Naming!DistinctNames
OneDefault    == Naming!OneDefault
=============================================================================
