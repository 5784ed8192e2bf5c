---------------------------- MODULE MCCiPipeline ----------------------------
(***************************************************************************)
(* The jobs of build.yml on a repository with one patch, or the script run *)
(* by hand on one with three: a behaviour has either.                      *)
(***************************************************************************)
EXTENDS CiPipeline

CONSTANTS HandPatches, HandFolded, HandWindow, HandLog  \* of the script run by hand

VARIABLES
  focus,   \* "jobs" or "hand"
  hThere, hLog, hPresent, hEntangled, hSession, hNext, hReport, hAstray, hRewound, hRuns
handVars == <<hThere, hLog, hPresent, hEntangled, hSession, hNext, hReport, hAstray,
              hRewound, hRuns>>

Hand == INSTANCE ApplyPatches WITH
  Patches <- HandPatches, Folded <- HandFolded, Window <- HandWindow, MaxLog <- HandLog,
  there <- hThere, log <- hLog, present <- hPresent, entangled <- hEntangled,
  session <- hSession, next <- hNext, report <- hReport, astray <- hAstray,
  rewound <- hRewound, runs <- hRuns

\* The one that is not looked at stays in one of its initial states.
MCInit ==
  /\ CiInit /\ Hand!PatchInit
  /\ \/ focus = "jobs" /\ ~hThere /\ hEntangled = {}
     \/ focus = "hand" /\ ~there /\ entangled = {}

MCNext ==
  /\ UNCHANGED focus
  /\ \/ focus = "jobs" /\ CiNext /\ UNCHANGED handVars
     \/ focus = "hand" /\ Hand!PatchNext /\ UNCHANGED ciVars

MCSpec == MCInit /\ [][MCNext]_<<focus, ciVars, handVars>>

\* apply-patches.sh loses no patch in silence; see PresentOrFailed in ApplyPatches.
HandPresentOrFailed == Hand!PresentOrFailed

\* Two runs mend what a killed one left; see Healed in ApplyPatches.
HandHealed == Hand!Healed

MCPatches == <<"udfps">>
MCHandPatches == <<"udfps", "charge", "volte">>
=============================================================================
