----------------------------- MODULE MCBlobTools -----------------------------
(***************************************************************************)
(* The instances of the four tools, each described in a module of its own. *)
(***************************************************************************)
EXTENDS BlobTools

LOCAL A == INSTANCE MCVerifyAidl
LOCAL C == INSTANCE MCVerifyCc
LOCAL W == INSTANCE MCNeeded
LOCAL M == INSTANCE MCModuleNames

MCPrebuilts == A!MCPrebuilts
MCAidlTrees == A!MCTrees
MCDump      == C!MCDump
MCCcTrees   == C!MCTrees
MCUniverse  == W!MCUniverse
MCSystem    == W!MCSystemLibs
MCExcluded  == W!MCExcluded
MCDisable   == W!MCDisable
MCRename    == W!MCRename
MCSoname    == W!MCSoname
MCFixup     == W!MCFixup
MCRemoved   == W!MCRemoved
MCReplaced  == W!MCReplaced
MCSource    == W!MCSource
MCWants     == W!MCWants
\* The hypotheses of the theorems of BlobProofs hold of these tables and this dump.
ASSUME MCTablesAgree == Walk!TablesAgree
ASSUME MCCopiesDiffer == Naming!CopiesDiffer
MCDirs      == M!MCDirs
MCBase      == M!MCBase
MCWords     == M!MCWords
MCManual    == M!MCManual
=============================================================================
