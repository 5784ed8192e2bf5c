# Verification of the NX809J device tree

This directory holds TLA+ models of the programs in the device tree of the
Nubia Red Magic 11 Pro (LineageOS 23.2), the TLC configurations that check
them, and TLAPS proofs of their main properties. Most of the tree is static
data for Android's build; what is modelled is the code that *behaves*: a native
daemon with its init rules, boot-time scripts, the generator of the blob lists
and the checks around it, and the build, release and flashing scripts.

`PROJECT.json` indexes it all: components, runs, mutants, the source lines of
each definition, findings, hazards and theorems.

## 1. Inventory

| part | state it keeps | operations | what is hard | modules |
|---|---|---|---|---|
| **Double-tap bridge** `dt2w/` | the setting, init's event queue, the service, the daemon's socket, the driver's arm | rules of two .rc files, `main()` of the daemon, resume of the driver | four parties that talk through queues; the driver forgets the arm on every resume; toggles race the reaping of a killed service | `Dt2w`, `WakeBridge` |
| **Blob list generator** `closure.py` | the dump, its tables, `proprietary-files.txt`, `firmware_pcf.mk`, the report of unresolved names | a run of several minutes, edits, kills | two walks of a changing dump; the output is also an input (markers); tables that must agree with another program's | `Closure`, `Needed`, `ModuleNames` |
| **Checks** `verify_aidl_versions.py`, `verify_cc_libs.py` | none but a run's own | search a source tree with grep, read a block, decide | time limits that fall silent; a text search that stands for a parser | `VerifyAidl`, `VerifyCc`, `Soong` |
| **Blob fixups** `extract-files.py` | none | rename what blobs need | three tables in two files | `Needed` |
| **Fingerprint calibration** `restore-fp-cal.rc`, `tools/goodix_calib/` | files on /data | copies at each boot, a calibration through the daemon | power loss between copies; copies and calibrations that fail; a boot overwrites a new calibration; late callback | `FpCal`, `Boot` |
| **Crash-loop HAL disabler** `disable-*.rc` | init's services | stop on running / restarting | the stop races the crash | `CrashLoop`, `Boot` |
| **Deferred enforcing** `nx809j-enforce.rc` | SELinux mode | one write at boot_completed | it waits behind the events of crashing services | `CrashLoop`, `Boot` |
| **EDL flasher** `release-docs/flash_lineage.sh` | partitions, the decompressed image | decompress, seven writes, two erases | interruption, stale partial image | `FlashEdl` |
| **CI pipeline** `build.yml`, `build_super_ci.sh` | build outputs, signed outputs, release | steps with optional inputs | stale outputs, missing images, failures made silent | `CiPipeline` |
| **Patch application** `apply-patches.sh` | patched repositories | apply or skip each patch | idempotence decided by subject; kills inside git am; failures and a missing repository do not fail it | `ApplyPatches`, `CiPipeline` |
| charging control, recovery init, display formats, build configuration, policy, mount table | - | - | see section 11 | none |

How they interact: the setting `persist.sys.dt2w.enabled` reaches the daemon
and the driver only through init; the lists of closure.py are read by
extract-utils and `device.mk`, and its renames are completed by
`extract-files.py`; init copies the calibration in post-fs-data, before it
starts the HALs whose crashes the rules stop, and enforcing begins behind their
events in the same queue (`Boot` composes the three); `build.yml` runs
`apply-patches.sh` twice, the build and `build_super_ci.sh` in one tree that
outlives the job (`CiPipeline` extends `ApplyPatches`); its release is what
`flash_lineage.sh` writes.

What makes each correct: the bridge follows the setting, never loses a tap or a
re-arm, and is disarmed when off; each blob is shipped once and markers survive
a regeneration; what the report is silent of loads; what a check drops is built
from source; a HAL owns the calibration it finds, and what could be copied of it
is whole; a looping HAL ends up stopped and the device enforcing; a flash that
says DONE left a bootable device; a release is of one source; a patch is in the
tree, or the log accounts for it.

## 2. How the project grew

First the bridge and the generator with their proofs, then, in the order of the
plan, the calibration, the boot that composes it with the loop and the enforcing,
the flasher, the pipeline with the patches, and the checks; last the proofs about
those, which ended with the proofs about searches and names (`DataLemmas`,
`BlobProofs`, `VerifyProofs`). Every component with a state of its own is
modelled; what is left is in section 11.

## 3. The double-tap bridge

| module | content |
|---|---|
| `Dt2w` | the component: one action per handler, command or step |
| `WakeBridge` | the abstract specification: what a user is promised |
| `Dt2wProps` | invariants, temporal properties and the refinement mapping |
| `MCDt2w` | the instance TLC checks |
| `Dt2wProofs` | theorems, the refinement among them |

**Correspondence.** `pc` is the daemon's place in `main()`: `uinput` and
`netlink` are the two set-up calls, `low` and `high` the two property sets of
`arm_gesture`, `poll` the loop. `RecvUevent`, `RecvError` and `PollTimeout` are
the outcomes of one turn of the loop. `EINTR`, a failing `poll` and a wake-up
without `POLLIN` change nothing and are stuttering steps. A uevent is one of
three classes, `tap` (`has_token(..., "double_tap=true")`), `on`
(`is_screen_on_uevent`) and `other`; the scan of its bytes is abstracted.

The `Rule...` operators are the five `on property:` blocks. The rest of init is
external and modelled from how these files use it: a FIFO of property events,
commands of one event one at a time (so that the daemon moves between two of
them), the flags of a service. `start` on a process that is killed but not yet
reaped only clears the `disabled` flag; the reaper then restarts it. The event
carries no value: `boot1` reads the properties when it is handled, and the model
tests the current setting again for `persist1` too, where init goes by the value
of the event. Injecting the key is taken to succeed: the daemon does not look at
what becomes of its writes to uinput (`dt2w_uewake.c:94`).

The driver is external too. Lines 22-24 and 142 of `dt2w_uewake.c` say what it
does: it clears the arm on every resume, refuses the write while suspended, and
announces the screen before or after clearing. `ClearFirst` chooses.

**Faults** (bounded by `MaxFaults`): the daemon is killed, a set-up call or a
property set fails, a uevent is dropped because the socket is full (the next
`recv` then fails once, and the socket drops everything until it is drained).

| run | question | bounds |
|---|---|---|
| `dt2w_safety` | does the service follow the setting; is a re-arm ever lost | queue 4, socket 2, one fault; the driver clears first |
| `dt2w_live` | does the daemon come up and go down for good; is `WakeBridge` implemented; does the timeout repair what was lost, if foreign uevents stop | queue 3, socket 2, one fault, any driver |
| `dt2w_starved` | ... also if they go on? (no) | no fault |
| `dt2w_disarm` | is a bridge that is off disarmed? (no) | no fault |

A queue of four holds two toggles and a request of the daemon, or a toggle, the
boot event and a request, which is every pair of decisions with a request before
or behind it; three is enough where only the daemon's request meets one toggle. A
socket of two holds a tap behind a screen-on, and overflows on the third. One
fault is enough to need each repair; the invariants are proved for any number.

**Fairness.** Weak fairness of init's steps, the daemon's steps, the driver's
resume and the framework's key handler: none of them waits for anything but its
own input. Nothing is assumed of the user, of foreign uevents or of faults.
`PollTimeout` is only weakly fair, since any uevent restarts the eight seconds.

**What is shown.** `SettingFollows` is the heart: the last decision still under
way (in the queue, or in the commands of the event being handled) agrees with
the setting. `NoLostArm` says that without faults, and with a driver that clears
before it announces, the panel is never left on and unarmed without an arm under
way, so that the timeout is needed only for faults and for a late clear. For
those, `ReArmedInQuiet` says that the panel is armed again if the uevents of
other devices stop; without that condition (`ReArmed`) it is refuted.

## 4. The blob list generator

| module | content |
|---|---|
| `Closure` | a run of `main()`, step by step, and the developer around it |
| `ClosureProps` | invariants |
| `MCClosure` | the instance TLC checks |
| `ClosureProofs` | theorems |

**Correspondence.** `EmitPcf` and `Enumerate` are the two walks of the dump,
`LoadPrefixes` reads the old listing, `Report` writes the baseline diff, `Emit`
rewrites the listing. Between any two of them the developer may change the dump
(`ChangeDump`), the tables inside closure.py (`EditTables`; the run keeps those
it imported, `loaded`) or a marker in the listing (`SetMark`), and the run may
be killed (`Kill`), which leaves a list that was being written with any part of
its lines, of whole lines: a last line that the buffer cut in the middle is not
represented. `Report` takes the baseline file to exist; without it the report
has no such section. A blob is a number in the order of paths; `Base` and `Flat`
carry what `compute_module_renames` looks at. A table is a set of blobs:
`exclude` stands for the two EXCLUDE tables and the runtime partitions, `bypass`
for PCF_BYPASS_PATHS, `rename`, `deps` and `soname` for the tables that add
arguments to a line (OVERRIDES_PATHS goes the way of `deps`). A run that finds
no dump exits at once and changes nothing. The DT_NEEDED report and the module
names have models of their own (section 5); sections and wording are left out.

`before`, `calm`, `clean` and `finished` are history variables: the listing the
run began with, the completed runs since anything was touched, whether anything
was touched since the run began, and whether both lists come from one completed
run. No action of the code reads them.

| run | question | bounds |
|---|---|---|
| `closure_lists` | are the lists disjoint and complete, are plain markers kept, does the output settle | 5 blobs, 3 tables, 3 edits or kills, any number of runs |
| `closure_rerun` | is the second run idempotent? (no) | the same |
| `closure_baseline` | are only absent files reported missing? (no) | the same |

The five blobs are two canonical copies of a library, a deeper one, an overlay
that is never listed and a file that may be bypassed; the tables differ in what
they bypass, drop and give arguments, so one edit moves a blob from any class to
any other. Three edits are enough to disturb a run, give a marker and kill the
run after it.

There is no liveness: the program is a script that a developer starts.

## 5. The developer's tools

| module | content |
|---|---|
| `Soong` | Android.bp as the two checks read it: a search for a quoted name, the brace before it and the one that closes that |
| `VerifyAidl`, `VerifyAidlProps` | `verify_aidl_versions.py` and its verdicts against what Soong builds |
| `VerifyCc`, `VerifyCcProps` | `verify_cc_libs.py`, likewise |
| `Needed`, `NeededProps` | the DT_NEEDED walk of closure.py and the fixups of `extract-files.py` |
| `ModuleNames` | `compute_module_renames` |
| `BlobTools` | one of the four is run; `MCBlobTools` collects their instances |
| `DataLemmas` | what minima, maxima and flattened sequences are, for both proof modules |
| `BlobProofs`, `VerifyProofs` | theorems: the report and the names; the search of `Soong` and both checks |

**Correspondence.** A file is a sequence of tokens: `open`, a brace with what
precedes it on its line, `close`, the `name`, lists of quoted names, and
properties. `BlockAt` does what the programs
do with text: `rfind('{')`, a test of what stands before it, and a count of
braces. `Modules`, `Builds`, `Direct` and the like in the Props modules are the
*meaning* of the same files, found without any search. `TryPaths`, `Grep` and
`GrepTimeout` are the steps of `find_interface_bp`, root by root; `GrepRoot`,
`GrepTimeout` and `Judge` those of `verify_cc_libs.py`, whose index is built
once. In `Needed` a turn of the walk reads a blob, fails to, or skips it; the
fixups are a function of the blob (`NeedsOf`), as are its module and its file
(`ModuleOf`, `InstalledAs`). In `ModuleNames` the dump changes blob by blob and
the renames are computed anew.

Run `blob_tools` asks, of each: is what it drops built, is what it keeps not, is
its silence true, are its names distinct. The trees of `MCVerifyAidl` and
`MCVerifyCc` put a declaration at an obvious path, elsewhere, in another root,
in an unreadable file, before and after its defaults, with a property of its own
against the one of its defaults, behind an import, and next to modules of the
same name, and a module or its defaults with a nested block before the name; for
`MCVerifyAidl` also defaults in another file, an interface declared in two roots
and one without frozen versions; every grep may time out. The universe of
`MCNeeded` has one blob for each entry of the tables that matter and each reason
to excuse an edge; every subset of it is a dump. The eight blobs of
`MCModuleNames` are copies that share a basename in four kinds of place,
numbered and manual names; every subset is reached. The tools share no state, so
one at a time loses nothing.

The exceptions that the properties name are limits of the programs, listed in
section 9. `DropIsBuilt` and `KeepIsOrphan` leave out a name that is `Hidden` (in
a file that is searched, another module than the interface is the first to
mention it) and an interface whose defaults are `Loose` (they are not in its file
only, or another module of the file mentions them first). `KeepIsOrphan` leaves
out also interfaces with a nested block before the name (`early`), without a
frozen version, and names that several interfaces have. On the trees of the
instance, dropping any one of these makes the property false. `DropIsVendor`
leaves out two readings of the text that Soong does not share (`Misread`);
`KeepIsCanonical` leaves out a name that several modules of the kinds of
cc_library have (`Alike`), modules and defaults with a nested block before the
name (`early`), and defaults of another file.

## 6. The boot

| module | content |
|---|---|
| `FpCal` | the commands of `restore-fp-cal.rc`, one action each; the HAL's daemon, `goodix_calib_cb`, power loss and wipes |
| `CrashLoop` | a HAL that crashes whenever it runs, init, the rules of either file, the event of `nx809j-enforce.rc` |
| `Boot` | both on one device: the services run when post-fs-data is done, and power is lost for both at once |
| `MCBoot`, `BootProofs` | the instance and the theorems |

**Correspondence.** `step` counts the commands of post-fs-data that were
executed: making the directory, the copies, chowns and chmods in the order of
the file, and one `restorecon`. A file is `none`, `shipped`, `new` or `torn`,
the last being what a loss of power may leave of anything written since power
came on or a copy that failed halfway; `attrs` are the attributes that are as
the HAL needs them, and nothing is set of a file that is not there. A copy fails
before it has touched the file or after that, and init goes on; `failed` is a
history of the files for which it did so in this boot. `SetNotify`,
`SendCommand` and `Exit` are `main()` of the tool, which prints what it is
answered and waits its fixed time whether or not the request reached the daemon,
or gives up. The daemon is external: it writes the calibration files in any
order, each whole unless power is lost, and may stop before the last
(`CalibrationFails`); the result goes to a listener that only prints it. In
`CrashLoop` the queue holds the events that have a rule; `Emit` is the property
set, `TakeEvent` and `ExecStop` the two halves of handling it, between which the
process may crash, be reaped or be restarted. `rules` is chosen once: both
states (`disable-crashloop-hals.rc`) or `running` only (`disable-ssdaemon.rc`).

**Bounds** of run `boot`. Three files: seeded and calibrated, seeded only, and
calibrated only, the last of which the HAL writes for itself too. Two are copied,
so that power can be lost between two copies; boots, wipes, failures and
calibrations are unlimited. A queue of three holds the event of a start, of the
crash that follows and of `boot_completed`; two starts besides the restarts let a
start meet a process that is killed and not yet reaped.

Run `boot_permissive` refutes what the release's documents say of the same
device, see section 9.

**Fairness.** Weak fairness of init's four steps (`Reap`, `Restart`,
`TakeEvent`, the command). init is a loop that waits for nothing else. Nothing
is assumed of the HAL (it need not crash), the tool, the user or power, and
`LoopEnds` is about devices that stay up, `Enforced` about those that reach
boot_completed.

## 7. The flasher

`FlashEdl` has one action for each command of the script: `Start` tests for
super.img, `Decompress` and `DecompressFails` are zstd (its status is not looked
at), `CheckEdl` the lsusb test, `QdlStep` one partition of the qdl command,
`QdlRefuses` an image that is not there, `QdlFails` a cable or a transfer.
`Kill` may come anywhere. A partition holds the stock system, LineageOS, a mix
of two contents, or nothing. `unpacks` is a history variable: a decompression
was cut short, after which the script takes the part for the whole.
`DoneIsFlashed` then excepts the super partition, and nothing else.

Run `flash_edl` uses the seven images and two erased partitions of the script, a
package that is complete and one without dtbo, and three faults, enough to lose
the decompression, an image and an erase in turn; `FlashProofs` has any number.
**Fairness:** the script runs on, and the user keeps trying with the device in
EDL mode, as `release-docs` tells them to; `RetryEndsDone` says nothing of a user
who gives up.

## 8. The pipeline

| module | content |
|---|---|
| `ApplyPatches` | `apply-patches.sh` on one repository; kills, commits and syncs around it |
| `CiPipeline` | the job of `build.yml` step by step, one job after the other on one tree |
| `MCCiPipeline`, `CiProofs` | the instance and the theorems |

**Correspondence.** `next` is the patch of the loop, `log` the subjects of the
commits since the manifest's, `present` the changes in the tree; `InLog` is the
`git log | grep -qxF`, `Am` and `AmFails` are `git am` with its `--abort`. A
patch is `entangled` when upstream changed its place. A repository that is not
`there` is announced and left. `session` is the rebase-apply directory that a
killed git am leaves: `open`, or `made` if HEAD is the commit it had just made,
which is the case in which `git am --abort` takes a commit back. `KillScript`
ends the script between two calls of git or inside one.

Others may commit whatever they like under whatever subject (`OtherCommit`), and
`Sync` drops what is not in the manifest and may find another upstream, with or
without the repository. `astray`, `rewound` and `runs` are history variables, on
which no guard depends: patches that another's commit took out, or whose subject
it has; patches whose commit the abort of this run took back; and runs begun
since the repository was last disturbed.

The two runs of the script in a job (`patch`, `repatch`) compose its actions with
the job's place; since the workflow ignores what becomes of it (`|| true`),
`ScriptLost` goes on with a script that could not be run or died. `out`, `zip`
and `super` are images, each known by what it was made of: the revision of the
device tree and the patches present. Any step may fail, which ends the job and
leaves the tree (`StepFails`, `SyncFails`); `Cancel` is a timeout or a lost
runner inside the script. A developer may commit at any time (`Commit`) and, in a
patched repository, between jobs (`ByHand`).

**Abstractions.** One patched repository for four, which share nothing; the
override of m's target stands for one that makes the system image only;
`BOOTCHAIN_DIR` is not set, as in the workflow. `Regular` says of which releases
anything is promised: a full build, with target-files if they are to be signed,
and nobody committing meanwhile. `Excused` says what a release may lack: what its
log calls FAILED, everything if the log calls the repository not found or lacks
the script's `done.`, and the two exceptions of `PresentOrFailed` (section 9).

**Bounds** of run `ci_pipeline`. A behaviour either runs jobs or runs the script
by hand (`focus`), so that each gets what its questions need. By hand
(`HandPresentOrFailed`, `HandHealed`): three patches of which one has a folded
subject, a window of two commits in a log of at most three, so that a subject
falls out of the window, and any number of runs, kills, commits and syncs. Jobs
(`OneRevision`, `PatchedOrReported`): two of them, so that one meets what a kill
or a failure in the other left, two revisions, one patch, a window of one and a
log of two. Deadlock is not checked: the bounds end the model. `CiProofs` has no
bounds.

## 9. Findings and limits

Where code and documentation disagree, each shown by a run that TLC refutes:

1. *A disabled bridge may stay armed* (`dt2w_disarm`). A request set just before
   the daemon is stopped is handled after the disarming write.
2. *The safety net may never run* (`dt2w_starved`). Any uevent restarts the
   timeout.
3. *closure.py is not idempotent* (`closure_rerun`). Markers are keyed by the
   whole line, so a line with arguments loses its marker on the next run.
4. *The baseline diff reports files the dump has* (`closure_baseline`).
5. *The image enforces without the module* (`boot_permissive`). `INSTALL.md:8` and
   `:77` of release-docs say that it stays permissive without an optional KernelSU
   module, `ROADMAP.md:38-39` that enforcing is not planned,
   `SOAK_CHECKLIST.md:77` likewise; `device.mk:457-460` ships
   `nx809j-enforce.rc`, which enforces at boot_completed. `Enforced` follows the
   code.

What the models had to leave out of a property, or show as a legal behaviour,
because the code does it:

* `verify_aidl_versions.py:133`: a quoted name need not be a name field. Where an
  earlier block of a searched file imports the name, lists it as defaults or is a
  defaults block of that name, that block is judged in place of the interface.
  `:178`: defaults are looked for in the interface's own file, in the same way, so
  those of another file, or behind a block that mentions them, are not seen. `:138`:
  a nested block before the name hides an interface; `:121`: of several interfaces
  of one name the first decides. `:259`: `current` is only taken for built when
  there is a frozen version.
* `verify_cc_libs.py:150`: the block begins at the last brace before the name, so
  a nested block before the name hides a module; it looks for defaults in the file
  of the module only, and the first file that has a module of the name decides,
  even if that is a static or header library. `:196`: a module's own
  `vendor_available: false` is overruled by its defaults, and static and header
  libraries count for DROP; UNKNOWN (17-19) is never the verdict, defaults of
  defaults are KEEP.
* `closure.py:111`: an executable with a dot in its name is not walked; `:1966`:
  every excluded basename is excused, built or not. `:1787`, `:1802`: directories
  that differ in `-` and `_` only give one suffix, as do lib/x/ and lib64/x/
  (`CopiesDiffer` says when names are distinct), and of two flat copies the 32-bit
  one is renamed.
* `restore-fp-cal.rc`: the boot after a calibration puts the shipped file over
  those it copies and leaves the others, so that the set is mixed. A copy that
  fails leaves an old, missing or damaged file, and the HAL is started all the same.
* `goodix_calib_cb.cpp:123`: a notification after the fixed sleep is lost, and the
  tool exits 0 whatever became of the calibration.
* `flash_lineage.sh:18`: a super.img that an interrupted zstd left is flashed, and
  called DONE.
* `apply-patches.sh:5`: "already-applied patches are skipped" fails for a folded
  subject, of which `:19` takes the first line: it is never found and the patch is
  given to git am again in every run. Three of the five patches have one.
* `apply-patches.sh:20`: a commit with a patch's very subject makes it skipped,
  whatever it changed, and so does the patch's own commit after another took the
  change out (`astray`). `:25`: after a kill between git am's commit and its
  cleaning up, the abort takes that commit back in a run that may have called the
  patch ok already (`rewound`); the next run mends it (`Healed`).
* `apply-patches.sh:16`: a missing repository is announced ("not found"), and none
  of its patches is called FAILED. `build.yml:61`, `:69`: `|| true` also hides a
  script that cannot run or dies. In either case the out-of-tree fixes are not
  "always present", as `README-CI.md:5` says; only the log tells.
* `build.yml`: with a target override, or with signing and no dist, images of an
  earlier job are released; a commit during a job makes its images and changelog
  disagree.

## 10. Proofs

`tlapm` checks all theorems from nothing; they hold for every value of the
constants that satisfies the assumptions of their modules (`BoundsAssumption`,
`BlobAssumption`, `SeedsAssumption`, `PatchesAssumption`,
`PartitionsAssumption`, and, for the developer's tools, `NamesAssumption`: blobs
are finitely many and names are made of parts; `DumpsAssumption`: what a check
takes from the dump is a list; `AidlTreesAssumption` and
`CcTreesAssumption`: a tree is a sequence of roots and these of files, and no
property of a module holds a brace, which is an abstraction: nested blocks are
looked at before the name only; the second also says that no two modules of a
file have one name, as Soong demands, which the first does not need). TLC
evaluates those on the instances.

### The bridge and the generator

* `TypeCorrect`, `FlagGoverned`: inductive as they stand, given the types.
  `FlagGoverns` is about init's bookkeeping of the service and serves the others.
* `SettingFollowed`: `TypeOK /\ SettingFollows` is inductive. The argument is
  about the *last* decision of a sequence: `AppendDecision` and `TailDecision`
  say how it moves, `MatchingCases` what the five rules make of an event.
* `NoArmLost`: needs two more facts, `TodoShape` (after a `start` or `stop` only
  the commands of the same event follow) and `ResumeShape` (the driver has
  cleared whenever it has announced); `ArmInv` is their conjunction.
* `RefinesWakeBridge`: the safety part of the refinement. Its invariant
  `SockShape` says that a daemon that does not listen has nothing to read.
* `ClosureTypeCorrect`, `OneHomeAlways`: a run's `files` avoid the bypass table
  it *loaded* and its first output stays inside it, whatever the dump does.
* `ShippedAlways`: while nothing has disturbed a run, what it has read still is
  what is there (`CleanRun`).
* `SettlesAlways`: after one undisturbed run each line has the arguments of the
  current tables (`Shaped`), after two no line with arguments has a marker
  (`Faded`), so the third finds every marker it writes. `FoundMark` says which
  marker a run finds for a path with one line.
* `PlainMarksKeptAlways` adds that each path has one line, even in a listing that
  a kill cut short (`OneLine`); `AbsentIsMissingAlways` that the report of an
  undisturbed run is about the current dump (`Reported`).

### The boot (`BootProofs`)

* `BootImplementsFpCal`: each step of the composition is a step of `FpCal` or
  leaves its variables alone, so what holds of `FpCal` (`CalSpec`) holds in the
  boot.
* `CalInv` is the invariant: `HalFindsSeeds` with `Progress` (what a boot has
  executed has its effect, file by file: `Passed`) and `Alone` (before the HALs
  start only the boot is at work, so a loss of power can tear only what it copies).
  `HalFindsSeeds` alone is not inductive, since it says nothing of a boot under
  way. `HalFindsSeedsHolds` is a part of it; `RuntimeFilesSurviveHolds` needs
  `Alone` for the step of power loss.
* `StopOnTheWayHolds`: `StopOnTheWay` is inductive with its types; `EmitFacts`
  says that what waits in the queue keeps waiting.
* `BootTypeCorrect`: the types of both parts; `EmitTypes` keeps the queue's bound.
* `SeededPermissiveHolds`: enforcing implies that the device is up.

### The flasher (`FlashProofs`)

`FlashInv`: `Archived` (only a decompression that was cut short leaves a part)
and `Passed` (what the running command has passed is written as it should be,
but for super after a decompression that was cut short). `Command` and
`Disjoint` are about the order of the partitions. `WriteKeepsOrder` is the step
that matters for `EraseComesLast`: a partition is erased only after every image
was passed in *this* attempt, and no attempt puts the stock system back.

### The pipeline (`CiProofs`)

* `PatchInv` of the script: `Handled` (each patch passed is present, was reported,
  or is one of the two exceptions), `LogKept` (a commit's change is in the tree,
  unless others' commits touched it: what a subject in the log is worth),
  `MadeLast` (the commit that an abort may take back is the last, and no other
  vouches for its change), `Untouched` (a session survives a run only if that run
  skips every patch), `SecondRun` and `AtWork`. `PresentOrFailedHolds` and
  `HealedHolds` are theorems of `PatchSpec`, in which anyone commits, syncs, runs
  and kills. `StepOfPatches`: every step of the pipeline is one that `PatchNext`
  allows.
* `CiInv` of the job: from the build on, the images of an undisturbed full build
  are of the tree *as it is* (`JobInv`), which neither a step of the job nor an
  image left by an earlier one changes. `OneRevision` and `PatchedOrReported`
  follow at `Publish`.

### Data (`DataLemmas`)

The models are full of folds over sequences and searches for the least or the
last of a set. The library's induction theorems cannot be used, but a *least
counterexample* can: `LeastNat` gives a least element of a set of numbers from
the well-foundedness of `<`, and every induction here is a contradiction at the
least number where the claim fails. From it follow that `Min` and `Max` are what
they should be, that the recursive function inside `FlattenSeq` exists and is
unique (`FlattenSteps`), and where in a flattened sequence the elements of each
piece are (`FlattenPieces`, `PieceAt`, `FlattenElements`).

### The report (`BlobProofs`)

`SilenceLoadsHolds` is proved for every dump and all tables that *agree*:
`TablesAgree` says what agreement is (a name that is excluded, or whose blob is
installed under another name, is built from source unless the fixups take the
dependency away; and they redirect it only to the blob's new name). The
invariant is `NeededInv`, of which `Walked` is the heart: a name that a blob
needs, and whose blob the walk has passed, is excused or reported.

TLC checks that the instance satisfies `TablesAgree` (`MCTablesAgree`).

### The module names (`BlobProofs`)

`NamingInv`: the names are those of *some* listing, not of the current one, which
may have changed since. `OneCanonical`: if a basename has a flat copy, one blob
keeps the plain name and all others get a computed one. `ComputedIsNotPlain`: a
computed name is never a plain name of the same basename, because what the root
drops is a number, and the suffix begins with an underscore, which is none.
`OneDefaultHolds` follows without any hypothesis; `DistinctNamesHold` needs
`CopiesDiffer` (the words kept of the directories differ, and the manual table
gives no name twice), which the code does not ensure and the instance satisfies
(`MCCopiesDiffer`).

### The search of Android.bp and the two checks (`VerifyProofs`)

* `BlockFound`: in the text of any file of well-formed modules, `rfind('{')` and a
  count of braces from there cut out exactly the text of *one* module: the first
  that is of the kind searched for, holds one of the places searched for and has
  no nested block before its name; they find nothing only if there is none. The
  argument is `BraceBefore` (the last brace before a place is that of its module,
  or of the nested block), `ClosesModule` (inside a module the braces are never
  balanced before its end), `InOrder` (the modules stand one behind the other) and
  `FieldOfText` (the fields of that text are those of the module).
* `FieldOfJoin`, `FieldOfFlat`: a field of joined texts is that of the first that
  has it, and texts joined of pieces that agree on a field agree on it. That is
  how a block that `extract_block` joins comes to say what Soong inherits.

For `verify_cc_libs.py`:

* `Extracted`, `FilesRead`: what the search of one file and the index of all of
  them return, in terms of modules.
* `YesIsVendor` and `CanonicalIsYes` are the two directions: a `yes` comes from a
  module that is vendor_available, or from one of the readings of `Misread`; and
  a library with the property, found under no other module of its name, is a
  `yes`. `CcInv` carries them along the run, in which greps may time out:
  `DropIsVendorHolds` needs nothing of the greps, `KeepIsCanonicalHolds` that
  every root was indexed when the verdict was given.

For `verify_aidl_versions.py`:

* `NamedFound`: the module that a search of a file finds is the first to *mention*
  the name, which `QuotedInText` reads off its text.
* `AidlExtracted`: `extract_block` returns nothing only if every module of the file
  that mentions the name is of another kind or has a nested block before it; else
  its block belongs to the first such module and, where the file tells the
  defaults apart (`Clear`), has every field as Soong makes it of that module
  (`Speaks`).
* `PathFound`, `GrepFound`: a block comes from a file that is searched for the
  name; a grep that yields none has seen every file of its root that declares it.
* `FoundRight` and `NothingRight`: the verdict is right when a block was found
  (`VerdictRight` goes from the fields to the versions), and when none was.
* `AidlInv` is the invariant. The two properties are not inductive: an UNKNOWN
  is given after the last root only, and it must be known that no root before
  that had the interface. `Passed` says it: without a timeout, the search has gone
  past a root only if the root yields no block. `DropIsBuiltHolds` needs nothing
  of the greps, `KeepIsOrphanHolds` that none of the search timed out.

For the tools together, `ToolsTypeCorrect` joins the invariants of the walk and
the checks with `Counted`: a check gives no more verdicts than its dump has
candidates, and indexes only roots it has scanned.

### Only model-checked

* Liveness (`EnabledRuns`, `DisabledStops`, `ReArmedInQuiet`, the fairness part of
  `ImplementsWakeBridge`, `LoopEnds`, `Enforced`, `RetryEndsDone`): fairness
  needs `ENABLED`, which is out of the prover's reach.
* `VendorCopyLoads` and `VendorCopyLinks`: that the tables of the two files agree
  about each renamed library is a fact about the tables, which the instance holds.

Every other invariant and action property of the passing runs is proved.

## 11. Not modelled

* `ParseHex` (`goodix_calib.cpp:59-88`) and the scans `has_token`, `has_substr` of
  the daemon: loops over characters that nothing else depends on; a unit test
  reaches them.
* `init.NX809J.rc`, charging control: unconditional chown, chmod and write
  commands; what they prepare is used by a HAL that is not in the repository.
* Recovery init: fixed reactions without state.
* `enforcing/build_native_enforcing_vendor.sh`: an image edited by hand, once.
* Display formats (`formats.cpp/.h`): third-party tables.
* Build configuration, SELinux policy, mount table, overlays, manifests: data.
* Of `closure.py`, the sections and comments of the listing; of
  `extract-files.py`, the fixed edits of configuration files; of `build.yml`, the
  OTA package, whose failure is ignored, checksums and wording.
