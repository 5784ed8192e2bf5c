----------------------------- MODULE CiPipeline -----------------------------
(***************************************************************************)
(* One job of build.yml after the other on the one build tree: the patches *)
(* restored, repo sync, the build, signing, build_super_ci.sh, the package *)
(* and the release.  A step that fails, a timeout and a killed runner end  *)
(* the job; the tree and what was built in it stay for the next one.       *)
(***************************************************************************)
EXTENDS ApplyPatches

CONSTANTS
  MaxRev,   \* bound: revisions of the device tree
  MaxJobs   \* bound: jobs, each on what those before it left

Source == {"system", "product"}    \* the images that super takes from the build
Parts  == Source \cup {"boot"}

\* The override of m's target stands for one that makes the system image only.
Inputs == [sync : BOOLEAN, dist : BOOLEAN, keys : BOOLEAN, target : {"", "system"}]
Defaults == [sync |-> FALSE, dist |-> TRUE, keys |-> FALSE, target |-> ""]

None == [rev |-> 0, present |-> {}]

VARIABLES
  jobs,     \* that were dispatched
  rev,      \* of the device tree, which names the changelog's last commit
  inputs, pc,
  todo,     \* parts that m has still to make
  out,      \* of each part, the source that its image in out/ was made of
  zip,      \* the newest target-files in out/dist, its images
  super,    \* the source images in super.img
  calm,     \* nobody has committed since the job built its first part
  done,     \* the last run of apply-patches.sh that was due has come to its "done."
  release   \* what the last job has published
treeVars == <<jobs, rev, out, zip, release>>
jobVars == <<inputs, pc, todo, super, calm, done>>
ciVars == <<patchVars, treeVars, jobVars>>

NoImages == [p \in Parts |-> None]
NoRelease == [image |-> NoImages, changelog |-> 0, inputs |-> Defaults, calm |-> FALSE,
              excused |-> PatchSet]

CiInit ==
  /\ PatchInit
  /\ jobs = 0 /\ rev = 1 /\ out = NoImages /\ zip = NoImages /\ release = NoRelease
  /\ inputs = Defaults /\ pc = "idle" /\ todo = {} /\ super = NoImages /\ calm = TRUE
  /\ done = FALSE

Goto(here, to) == pc = here /\ pc' = to

-----------------------------------------------------------------------------
(* The job.                                                                *)

\* One job at a time (concurrency).
Dispatch ==
  /\ jobs < MaxJobs /\ jobs' = jobs + 1
  /\ Goto("idle", "patch") /\ Rest
  /\ inputs' \in Inputs /\ release' = NoRelease
  /\ UNCHANGED <<rev, out, zip, todo, super, calm, done>>

\* apply-patches.sh before the sync and after it.
Step == Goto("patch", "sync") \/ Goto("repatch", "repatched")
PatchStep ==
  /\ \/ Begin /\ Step
     \/ pc # "idle" /\ (Skip \/ Am \/ AmFails) /\ UNCHANGED pc
  /\ done' = ScriptDone'
  /\ UNCHANGED <<treeVars, inputs, todo, super, calm>>

\* "|| true": the job goes on if the script cannot be run, or dies.
ScriptLost ==
  /\ \/ Rest /\ Step
     \/ pc # "idle" /\ KillScript /\ UNCHANGED pc
  /\ done' = FALSE
  /\ UNCHANGED <<treeVars, inputs, todo, super, calm>>

\* Mutant: nothing is applied again.
RepoSyncOnly ==
  /\ ~AtPatch /\ inputs.sync /\ Goto("sync", "build") /\ todo' = Parts
  /\ Sync /\ rev' \in rev..MaxRev
  /\ UNCHANGED <<jobs, out, zip, release, inputs, super, calm, done>>
\* The device tree is among what is synced.
RepoSync ==
  /\ ~AtPatch /\ inputs.sync /\ Goto("sync", "repatch")
  /\ Sync /\ rev' \in rev..MaxRev
  /\ UNCHANGED <<jobs, out, zip, release, inputs, todo, super, calm, done>>

\* MT: the override, else the whole; dist adds the target-files.
StartBuild ==
  /\ ~AtPatch
  /\ \/ ~inputs.sync /\ Goto("sync", "build")
     \/ Goto("repatched", "build")
  /\ todo' = IF inputs.target = "" THEN Parts ELSE {"system"}
  /\ UNCHANGED <<patchVars, treeVars, inputs, super, calm, done>>

Make(p) ==
  /\ pc = "build" /\ p \in todo /\ todo' = todo \ {p}
  /\ out' = [out EXCEPT ![p] = [rev |-> rev, present |-> present]]
  /\ UNCHANGED <<patchVars, jobs, rev, zip, release, inputs, pc, super, calm, done>>

WithDist == inputs.dist /\ inputs.target = ""

EndBuild ==
  /\ todo = {} /\ Goto("build", "sign")
  /\ zip' = IF WithDist THEN out ELSE zip
  /\ UNCHANGED <<patchVars, jobs, rev, out, release, inputs, todo, super, calm, done>>

\* The newest target-files, of whichever job.
Sign ==
  /\ inputs.keys /\ zip # NoImages /\ Goto("sign", "super")
  /\ super' = [p \in Source |-> zip[p]]
  /\ UNCHANGED <<patchVars, treeVars, inputs, todo, calm, done>>

\* build_super_ci.sh takes the signed images, or those in out; each must be there.
Assemble ==
  /\ \/ inputs.keys /\ Goto("super", "collect") /\ UNCHANGED super
     \/ /\ ~inputs.keys /\ Goto("sign", "collect")
        /\ \A p \in Source : out[p] # None
        /\ super' = [p \in Source |-> out[p]]
  /\ UNCHANGED <<patchVars, treeVars, inputs, todo, calm, done>>

\* The runner's temporary directory is emptied.
NoJob ==
  /\ inputs' = Defaults /\ pc' = "idle" /\ todo' = {} /\ super' = NoImages
  /\ calm' = TRUE /\ done' = FALSE
EndJob == NoJob /\ Rest

\* Patches the release may lack: all, if the repository was announced as not found or
\* the script did not come to its "done."
Excused ==
  IF ~there \/ ~done THEN PatchSet
  ELSE {p \in PatchSet : report[p] = "failed"} \cup astray \cup rewound

\* The boot chain comes from out, the changelog from the tree as it is now.
Publish ==
  /\ pc = "collect" /\ EndJob
  /\ release' = [image |-> [p \in Parts |-> IF p \in Source THEN super[p] ELSE out[p]],
                 changelog |-> rev, inputs |-> inputs, calm |-> calm,
                 excused |-> Excused]
  /\ UNCHANGED <<jobs, rev, out, zip>>

\* Mutant: without pipefail the status is that of tail, and the job goes on.
StepFailsPiped ==
  /\ pc = "build" /\ pc' = "sign" /\ todo' = {}
  /\ UNCHANGED <<patchVars, treeVars, inputs, super, calm, done>>
\* Any other step can fail, or be cut short, which ends the job.
StepFails ==
  /\ pc \in {"sync", "build", "sign", "super", "collect"} /\ EndJob
  /\ UNCHANGED treeVars

\* So does a sync that got as far as this repository and the device tree.
SyncFails ==
  /\ ~AtPatch /\ pc = "sync" /\ inputs.sync /\ NoJob
  /\ Sync /\ rev' \in rev..MaxRev
  /\ UNCHANGED <<jobs, out, zip, release>>

\* timeout-minutes, a cancelled job or a lost runner while the script runs.
Cancel ==
  /\ pc # "idle" /\ KillScript /\ NoJob
  /\ UNCHANGED treeVars

Job ==
  \/ Dispatch \/ PatchStep \/ ScriptLost \/ RepoSync \/ StartBuild \/ EndBuild \/ Sign
  \/ Assemble \/ Publish \/ StepFails \/ SyncFails \/ Cancel \/ \E p \in Parts : Make(p)

-----------------------------------------------------------------------------
(* The developer works in the same tree.                                   *)

\* In the device tree, at any time.
Commit ==
  /\ rev < MaxRev /\ rev' = rev + 1
  /\ calm' = (calm /\ pc \notin {"build", "sign", "super", "collect"})
  /\ UNCHANGED <<patchVars, jobs, out, zip, release, inputs, pc, todo, super, done>>

\* In the patched repository, or with apply-patches.sh, between the jobs.
ByHand ==
  /\ pc = "idle" /\ (OtherCommit \/ Script \/ KillScript)
  /\ UNCHANGED <<treeVars, jobVars>>

CiNext == Job \/ Commit \/ ByHand
CiSpec == CiInit /\ [][CiNext]_ciVars

-----------------------------------------------------------------------------
\* A release of which the workflow promises anything: a full build, target-files if
\* they are to be signed, and nobody at work in the device tree meanwhile.
Regular(r) ==
  /\ r.calm
  /\ r.inputs.target = "" /\ (r.inputs.keys => r.inputs.dist)

\* README-CI.md:8 "reproducible": whatever earlier jobs left in out/ and out/dist,
\* interrupted at whatever step, the images of a regular release are of one source,
\* and its changelog ends with that revision.
OneRevision ==
  Regular(release) =>
    \A p, q \in Parts :
      /\ release.image[p] = release.image[q]
      /\ release.image[p].rev = release.changelog

\* README-CI.md:5 "so the out-of-tree fixes are always present", which the "|| true"
\* of build.yml:61 and 69 and the script make: present in every image, unless the
\* job's log says FAILED, or not found, or lacks the script's "done.", or one of the
\* exceptions of PresentOrFailed applies.
PatchedOrReported ==
  Regular(release) =>
    \A x \in PatchSet, p \in Parts :
      x \in release.image[p].present \/ x \in release.excused
=============================================================================
