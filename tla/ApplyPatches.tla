---------------------------- MODULE ApplyPatches ----------------------------
(***************************************************************************)
(* apply-patches.sh on one repository: each patch whose subject is among   *)
(* the last commits is skipped, each other one given to git am; a patch    *)
(* that fails is reported and the script goes on.  The script is run       *)
(* again after a repo sync, or after it was killed.                        *)
(***************************************************************************)
EXTENDS Integers, Sequences

CONSTANTS
  Patches,    \* a sequence, in the order of the file names
  Folded,     \* those whose Subject: header takes two lines
  Window,     \* commits that are looked at (50)
  MaxLog      \* bound: commits since the manifest's

PatchSet == {Patches[i] : i \in 1..Len(Patches)}
ASSUME PatchesAssumption ==
  /\ Patches \in Seq(PatchSet) /\ Folded \subseteq PatchSet
  /\ \A i, j \in 1..Len(Patches) : Patches[i] = Patches[j] => i = j
  /\ "other" \notin PatchSet
  /\ Window \in Nat /\ MaxLog \in Nat

VARIABLES
  there,      \* the repository is checked out
  log,        \* subjects of the commits since the manifest's
  present,    \* patches whose change is in the tree
  entangled,  \* patches whose place upstream has changed: git am conflicts
  session,    \* rebase-apply, left by a killed git am: "none", "open", or "made"
              \* while HEAD is the commit that it made
  next,       \* the patch the script has come to; 0: it does not run
  report,     \* what this run has said of each patch
  (* History, which no guard reads. *)
  astray,     \* patches that another's commit took out, or whose subject it has
  rewound,    \* patches whose commit this run's git am --abort took back
  runs        \* runs begun since the repository was last disturbed, up to 2
repoVars == <<there, log, present, entangled, session, astray>>
patchVars == <<repoVars, next, report, rewound, runs>>

PatchTypeOK ==
  /\ there \in BOOLEAN
  /\ log \in Seq(PatchSet \cup {"other"}) /\ Len(log) <= MaxLog
  /\ present \subseteq PatchSet /\ entangled \subseteq PatchSet
  /\ session \in {"none", "open", "made"}
  /\ next \in 0..(Len(Patches) + 1)
  /\ report \in [PatchSet -> {"", "ok", "applied", "failed"}]
  /\ astray \subseteq PatchSet /\ rewound \subseteq PatchSet /\ runs \in 0..2

Silent == [p \in PatchSet |-> ""]

PatchInit ==
  /\ there \in BOOLEAN
  /\ log = <<>> /\ present = {} /\ session = "none"
  /\ entangled \in SUBSET PatchSet
  /\ next = 0 /\ report = Silent
  /\ astray = {} /\ rewound = {} /\ runs = 0

-----------------------------------------------------------------------------
(* The script.                                                             *)

\* A repository without .git is announced as not found, and that is all.
Begin ==
  /\ next \in {0, Len(Patches) + 1}
  /\ next' = IF there THEN 1 ELSE Len(Patches) + 1
  /\ report' = Silent
  /\ rewound' = {} /\ runs' = IF runs = 0 THEN 1 ELSE 2
  /\ UNCHANGED repoVars

Current == Patches[next]
AtPatch == next \in 1..Len(Patches)
Say(what) ==
  /\ report' = [report EXCEPT ![Current] = what]
  /\ next' = next + 1

\* Mutant: a subject that quotes the patch's will do.
InLogQuoted(p) ==
  /\ p \notin Folded
  /\ \E i \in 1..Len(log) : i > Len(log) - Window /\ log[i] \in {p, "other"}
\* The first line of the subject, compared with whole subjects.
InLog(p) ==
  /\ p \notin Folded
  /\ \E i \in 1..Len(log) : i > Len(log) - Window /\ log[i] = p

Skip ==
  /\ AtPatch /\ InLog(Current) /\ Say("ok")
  /\ UNCHANGED <<repoVars, rewound, runs>>

Merges == ~InLog(Current) /\ session = "none" /\ Current \notin entangled
Refuses == ~InLog(Current) /\ (session # "none" \/ Current \in entangled)

\* The commit of git am: of a change that is there it makes none.
Merge ==
  /\ IF Current \in present THEN UNCHANGED log
     ELSE Len(log) < MaxLog /\ log' = Append(log, Current)
  /\ present' = present \cup {Current}

Am ==
  /\ AtPatch /\ Merges /\ Merge /\ Say("applied")
  /\ rewound' = rewound \ {Current}
  /\ UNCHANGED <<there, entangled, session, astray, runs>>

\* git am --abort ends the session, and goes back to where that began, unless HEAD
\* has moved on since its last commit.
Abort ==
  IF session = "made"
  THEN /\ log' = SubSeq(log, 1, Len(log) - 1)
       /\ present' = present \ {log[Len(log)]}
  ELSE UNCHANGED <<log, present>>

\* Mutant: the session of the failed git am is left behind.
AmFailsOpen ==
  /\ AtPatch /\ Refuses /\ Say("failed")
  /\ session' = "open"
  /\ UNCHANGED <<there, log, present, entangled, astray, rewound, runs>>
\* It conflicts, or refuses because of an earlier session, which is aborted.
AmFails ==
  /\ AtPatch /\ Refuses /\ Abort /\ Say("failed")
  /\ session' = "none" /\ rewound' = rewound \cup (present \ present')
  /\ UNCHANGED <<there, entangled, astray, runs>>

Script == Begin \/ Skip \/ Am \/ AmFails

\* Killed: before or between two calls of git; in a git am, before its commit, after
\* it, or after it noted the new HEAD; in an abort.
KillScript ==
  /\ AtPatch /\ next' = 0 /\ report' = Silent /\ rewound' = {} /\ runs' = 0
  /\ \/ UNCHANGED <<log, present, session>>
     \/ /\ ~InLog(Current) /\ session = "none"
        /\ session' = "open" /\ UNCHANGED <<log, present>>
     \/ /\ Merges /\ Merge
        /\ session' \in {"none", "open"} \cup (IF log' = log THEN {} ELSE {"made"})
     \/ Refuses /\ Abort /\ session' \in {"none", "open"}
  /\ UNCHANGED <<there, entangled, astray>>

-----------------------------------------------------------------------------
(* Around it.  Nobody touches the repository while the script runs.        *)

Resting ==
  /\ next \in {0, Len(Patches) + 1} /\ next' = 0
  /\ report' = Silent /\ rewound' = {}
Disturbed == Resting /\ runs' = 0

\* A commit of somebody else, of whatever changes, under whatever subject.
OtherCommit ==
  /\ Disturbed /\ there /\ Len(log) < MaxLog
  /\ \E subject \in PatchSet \cup {"other"} :
       /\ log' = Append(log, subject)
       /\ present' \in SUBSET PatchSet
       /\ astray' = astray \cup ((present \cup ({subject} \cap PatchSet)) \ present')
  /\ session' = IF session = "made" THEN "open" ELSE session
  /\ UNCHANGED <<there, entangled>>

\* repo sync drops what is not in the manifest, which may have lost or gained the
\* repository; upstream may have changed.
Sync ==
  /\ Disturbed /\ there' \in BOOLEAN
  /\ log' = <<>> /\ present' = {} /\ astray' = {}
  /\ entangled' \in SUBSET PatchSet
  /\ session' = IF there' /\ session # "none" THEN "open" ELSE "none"

\* The script is not at work.
Rest == Resting /\ UNCHANGED <<repoVars, runs>>

PatchNext == Script \/ KillScript \/ OtherCommit \/ Sync \/ Rest
PatchSpec == PatchInit /\ [][PatchNext]_patchVars

-----------------------------------------------------------------------------
ScriptDone == next = Len(Patches) + 1

\* apply-patches.sh:2-5 "Re-apply": when the script is through with a repository that
\* is there, each patch is in the tree or was reported FAILED, whatever was synced or
\* committed before and wherever an earlier run was killed; except that line 20 trusts
\* the subjects of other people's commits, and that the abort of line 25 may take
\* back the last commit of a killed run, which line 21 has called applied.
PresentOrFailed ==
  ScriptDone /\ there =>
    \A p \in PatchSet :
      p \in present \/ report[p] = "failed" \/ p \in astray \/ p \in rewound

\* Line 5 "Idempotent", lines 22-27: whatever a killed run left, a session and a commit
\* half made, is mended by two runs that nobody disturbs: the second fails only on
\* patches that conflict, and leaves every other in the tree, but for those that
\* other people's commits have touched.
Healed ==
  ScriptDone /\ there /\ runs = 2 =>
    \A p \in PatchSet :
      /\ report[p] = "failed" => p \in entangled
      /\ p \in present \cup entangled \cup astray
=============================================================================
