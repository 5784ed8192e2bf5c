----------------------------- MODULE BootProofs -----------------------------
(***************************************************************************)
(* Theorems about the boot of the device, for any files, any list of       *)
(* copied ones, any calibrated ones, and any length of init's queue.       *)
(***************************************************************************)
EXTENDS Boot, TLAPS

\* A boot that has executed a command has its effect; nothing is set of a file that is
\* not there.
Passed(i) ==
  /\ step > i => content[Seeds[i]] = "shipped" \/ Seeds[i] \in failed
  /\ content[Seeds[i]] # "none" =>
       /\ step > N + i     => "owner" \in attrs[Seeds[i]]
       /\ step > 2 * N + i => "mode" \in attrs[Seeds[i]]
       /\ step > 3 * N + 1 => "label" \in attrs[Seeds[i]]
Progress == phase = "boot" => \A i \in 1..N : Passed(i)

\* Nobody but the boot is at work before the HALs are started.
Alone ==
  /\ phase = "boot" => dirty \subseteq Seeded
  /\ phase # "up" => writing = {} /\ client = "none"

CalInv == TypeOK /\ Progress /\ HalFindsSeeds /\ Alone

-----------------------------------------------------------------------------
\* The seeds are files of the calibration.
LEMMA SeedFacts ==
  /\ N \in Nat
  /\ \A i \in 1..N : Seeds[i] \in File
  /\ Seeded \subseteq File /\ CalFiles \subseteq File
BY SeedsAssumption DEF N, Seeded

\* Owner, mode and label are all the attributes.
LEMMA AllAttrs ==
  ASSUME NEW s \in SUBSET Attrs, "owner" \in s, "mode" \in s, "label" \in s
  PROVE  s = Attrs
BY DEF Attrs

\* The invariant holds when power comes on for the first time.
LEMMA CalInitInv == Init => CalInv
<1> SUFFICES ASSUME Init PROVE CalInv
  OBVIOUS
<1>1. /\ phase = "off" /\ step = 0
      /\ content = [f \in File |-> "none"] /\ attrs = [f \in File |-> {}]
      /\ dirty = {} /\ failed = {} /\ writing = {} /\ client = "none"
  BY DEF Init
<1>2. 0 \in 0..(3 * N + 2)
  BY SeedFacts
<1>3. TypeOK
  BY <1>1, <1>2 DEF TypeOK
<1>4. Progress /\ HalFindsSeeds /\ Alone
  BY <1>1 DEF Progress, HalFindsSeeds, Alone
<1> QED BY <1>3, <1>4 DEF CalInv

\* What a command sets of a file that is there, it has; other files keep what they have.
LEMMA AttrsSet ==
  ASSUME TypeOK, NEW files \in SUBSET File, NEW a \in Attrs, SetAttr(files, a)
  PROVE  /\ attrs' \in [File -> SUBSET Attrs]
         /\ \A f \in File : attrs[f] \subseteq attrs'[f]
         /\ \A f \in files : content[f] # "none" => a \in attrs'[f]
<1>1. attrs \in [File -> SUBSET Attrs]
  BY DEF TypeOK
<1>2. attrs' = [f \in File |-> IF f \in files /\ content[f] # "none"
                               THEN attrs[f] \cup {a} ELSE attrs[f]]
  BY DEF SetAttr
<1> QED BY <1>1, <1>2

\* One command of post-fs-data.
LEMMA BootStepInv ==
  ASSUME CalInv, PostFsData
  PROVE  CalInv'
<1>t. TypeOK /\ Progress /\ HalFindsSeeds /\ Alone
  BY DEF CalInv
<1>n. N \in Nat /\ step \in Nat
  BY <1>t, SeedFacts DEF TypeOK
<1>b. phase = "boot" /\ writing = {} /\ client = "none"
  BY <1>t DEF PostFsData, MakeDir, Restorecon, HalStarts, Copy, Chown, Chmod, Command, Alone
<1>c. /\ content \in [File -> {"none", "shipped", "new", "torn"}]
      /\ attrs \in [File -> SUBSET Attrs]
      /\ dirty \subseteq Seeded /\ failed \subseteq Seeded
  BY <1>t, <1>b DEF TypeOK, Alone
<1>p. \A i \in 1..N : Passed(i)
  BY <1>t, <1>b DEF Progress
<1>1. CASE MakeDir
  <2>1. /\ step = 0 /\ step' = 1
        /\ UNCHANGED <<phase, content, attrs, dirty, failed, writing, client>>
    BY <1>1 DEF MakeDir, Command, fileVars, toolVars
  <2>2. TypeOK'
    BY <2>1, <1>t, <1>n DEF TypeOK
  <2>3. Progress'
    BY <2>1, <1>n, <1>b DEF Progress, Passed
  <2>4. HalFindsSeeds' /\ Alone'
    BY <2>1, <1>t, <1>b DEF HalFindsSeeds, Alone
  <2> QED BY <2>2, <2>3, <2>4 DEF CalInv
<1>2. ASSUME NEW i \in 1..N, Copy(i) PROVE CalInv'
  <2>1. /\ step = i /\ step' = i + 1 /\ UNCHANGED <<phase, attrs, writing, client>>
    BY <1>2 DEF Copy, Command, toolVars
  <2>2. Seeds[i] \in File /\ Seeds[i] \in Seeded
    BY SeedFacts DEF Seeded
  <2>3. /\ content' \in [File -> {"none", "shipped", "new", "torn"}]
        /\ \A f \in File \ {Seeds[i]} : content'[f] = content[f]
        /\ failed \subseteq failed' /\ failed' \subseteq Seeded /\ dirty' \subseteq Seeded
        /\ content'[Seeds[i]] = "shipped" \/ Seeds[i] \in failed'
    BY <1>2, <2>2, <1>c DEF Copy
  <2>4. TypeOK'
    <3>1. step' \in 0..(3 * N + 2)
      BY <2>1, <1>n
    <3>2. dirty' \subseteq File
      BY <2>3, SeedFacts
    <3> QED BY <3>1, <3>2, <2>1, <2>3, <1>t DEF TypeOK
  <2>5. Progress'
    <3> SUFFICES ASSUME NEW j \in 1..N
                 PROVE  /\ step' > j => content'[Seeds[j]] = "shipped" \/ Seeds[j] \in failed'
                        /\ ~(step' > N + j) /\ ~(step' > 2 * N + j) /\ ~(step' > 3 * N + 1)
      BY DEF Progress, Passed
    <3>1. ~(step' > N + j) /\ ~(step' > 2 * N + j) /\ ~(step' > 3 * N + 1)
      BY <2>1, <1>n
    <3>2. CASE Seeds[j] = Seeds[i]
      BY <3>1, <3>2, <2>3
    <3>3. CASE Seeds[j] # Seeds[i]
      <4>1. content'[Seeds[j]] = content[Seeds[j]]
        BY <3>3, <2>3, SeedFacts
      <4>2. step' > j => step > j
        BY <3>3, <2>1, <1>n
      <4> QED BY <4>1, <4>2, <3>1, <2>3, <1>p DEF Passed
    <3> QED BY <3>2, <3>3
  <2>6. HalFindsSeeds' /\ Alone'
    BY <2>1, <2>3, <1>b DEF HalFindsSeeds, Alone
  <2> QED BY <2>4, <2>5, <2>6 DEF CalInv
<1>3. ASSUME NEW i \in 1..N, Chown(i) \/ Chmod(i) PROVE CalInv'
  <2>1. PICK a \in {"owner", "mode"} :
          /\ SetAttr({Seeds[i]}, a)
          /\ step = (IF a = "owner" THEN N ELSE 2 * N) + i /\ step' = step + 1
          /\ UNCHANGED <<phase, content, dirty, failed, writing, client>>
    BY <1>3 DEF Chown, Chmod, Command, toolVars
  <2>2. Seeds[i] \in File /\ a \in Attrs
    BY SeedFacts DEF Attrs
  <2>3. /\ attrs' \in [File -> SUBSET Attrs]
        /\ \A f \in File : attrs[f] \subseteq attrs'[f]
        /\ content[Seeds[i]] # "none" => a \in attrs'[Seeds[i]]
    BY <2>1, <2>2, <1>t, AttrsSet
  <2>4. step' \in 0..(3 * N + 2)
    BY <2>1, <1>n
  <2>5. TypeOK'
    BY <2>1, <2>3, <2>4, <1>t DEF TypeOK
  <2>6. Progress'
    <3> SUFFICES ASSUME NEW j \in 1..N PROVE Passed(j)'
      BY DEF Progress
    <3>1. Passed(j) /\ step > j /\ ~(step' > 3 * N + 1)
      BY <1>p, <2>1, <1>n
    <3>2. attrs[Seeds[j]] \subseteq attrs'[Seeds[j]] /\ content'[Seeds[j]] = content[Seeds[j]]
      BY <2>1, <2>3, SeedFacts
    <3>3. ASSUME content[Seeds[j]] # "none", step' > N + j PROVE "owner" \in attrs'[Seeds[j]]
      <4>1. CASE a = "owner" /\ j = i
        BY <4>1, <2>3, <3>3
      <4>2. CASE ~(a = "owner" /\ j = i)
        <5>1. step > N + j
          BY <4>2, <2>1, <1>n, <3>3
        <5> QED BY <5>1, <3>1, <3>2, <3>3 DEF Passed
      <4> QED BY <4>1, <4>2
    <3>4. ASSUME content[Seeds[j]] # "none", step' > 2 * N + j
          PROVE  "mode" \in attrs'[Seeds[j]]
      <4>1. CASE a = "mode" /\ j = i
        BY <4>1, <2>3, <3>4
      <4>2. CASE ~(a = "mode" /\ j = i)
        <5>1. step > 2 * N + j
          BY <4>2, <2>1, <1>n, <3>4
        <5> QED BY <5>1, <3>1, <3>2, <3>4 DEF Passed
      <4> QED BY <4>1, <4>2
    <3> QED BY <3>1, <3>2, <3>3, <3>4, <2>1 DEF Passed
  <2>7. HalFindsSeeds' /\ Alone'
    BY <2>1, <1>t, <1>b DEF HalFindsSeeds, Alone
  <2> QED BY <2>5, <2>6, <2>7 DEF CalInv
<1>4. CASE Restorecon
  <2>1. /\ step = 3 * N + 1 /\ step' = 3 * N + 2 /\ SetAttr(File, "label")
        /\ UNCHANGED <<phase, content, dirty, failed, writing, client>>
    BY <1>4, <1>n DEF Restorecon, Command, toolVars
  <2>2. /\ attrs' \in [File -> SUBSET Attrs]
        /\ \A f \in File : attrs[f] \subseteq attrs'[f]
        /\ \A f \in File : content[f] # "none" => "label" \in attrs'[f]
    <3>1. "label" \in Attrs /\ File \in SUBSET File
      BY DEF Attrs
    <3> QED BY <3>1, <2>1, <1>t, AttrsSet
  <2>3. TypeOK'
    <3>1. step' \in 0..(3 * N + 2)
      BY <2>1, <1>n
    <3> QED BY <3>1, <2>1, <2>2, <1>t DEF TypeOK
  <2>4. Progress'
    <3> SUFFICES ASSUME NEW j \in 1..N PROVE Passed(j)'
      BY DEF Progress
    <3>1. Passed(j) /\ step > j /\ step > N + j /\ step > 2 * N + j
      BY <2>1, <1>n, <1>p
    <3>2. Seeds[j] \in File
      BY SeedFacts
    <3> QED BY <3>1, <3>2, <2>1, <2>2 DEF Passed
  <2>5. HalFindsSeeds' /\ Alone'
    BY <2>1, <1>t, <1>b DEF HalFindsSeeds, Alone
  <2> QED BY <2>3, <2>4, <2>5 DEF CalInv
<1>5. CASE HalStarts
  <2>1. /\ step = 3 * N + 2 /\ phase' = "up"
        /\ UNCHANGED <<step, content, attrs, dirty, failed, writing, client>>
    BY <1>5 DEF HalStarts, fileVars, toolVars
  <2>2. TypeOK'
    BY <2>1, <1>t DEF TypeOK
  <2>3. HalFindsSeeds'
    <3> SUFFICES ASSUME NEW f \in Seeded
                 PROVE  /\ content[f] = "none" \/ attrs[f] = Attrs
                        /\ f \in failed \/ content[f] = "shipped"
      BY <2>1 DEF HalFindsSeeds
    <3>1. PICK j \in 1..N : f = Seeds[j]
      BY DEF Seeded
    <3>2. step > j /\ step > N + j /\ step > 2 * N + j /\ step > 3 * N + 1
      BY <2>1, <1>n
    <3>3. attrs[f] \in SUBSET Attrs
      BY <1>c, SeedFacts
    <3> QED BY <3>1, <3>2, <3>3, <1>p, AllAttrs DEF Passed
  <2>4. Progress' /\ Alone'
    BY <2>1, <1>b DEF Progress, Alone
  <2> QED BY <2>2, <2>3, <2>4 DEF CalInv
<1> QED BY <1>1, <1>2, <1>3, <1>4, <1>5 DEF PostFsData

\* A file is written whole, on a device that is up.
LEMMA WriteInv ==
  ASSUME CalInv, NEW f \in File, Write(f), writing' \in {writing, writing \ {f}},
         f \notin Seeded \/ f \in CalFiles
  PROVE  CalInv'
<1>t. TypeOK /\ HalFindsSeeds
  BY DEF CalInv
<1>1. /\ phase = "up" /\ content' = [content EXCEPT ![f] = "new"]
      /\ attrs' = [attrs EXCEPT ![f] = Attrs] /\ dirty' = dirty \cup {f}
      /\ UNCHANGED <<phase, step, failed, client>>
  BY DEF Write
<1>2. /\ content \in [File -> {"none", "shipped", "new", "torn"}]
      /\ attrs \in [File -> SUBSET Attrs] /\ dirty \subseteq File /\ writing \subseteq CalFiles
  BY <1>t DEF TypeOK
<1>3. /\ content' \in [File -> {"none", "shipped", "new", "torn"}]
      /\ content'[f] = "new" /\ \A g \in File \ {f} : content'[g] = content[g]
  BY <1>1, <1>2
<1>4. /\ attrs' \in [File -> SUBSET Attrs]
      /\ attrs'[f] = Attrs /\ \A g \in File \ {f} : attrs'[g] = attrs[g]
  BY <1>1, <1>2
<1>5. dirty' \subseteq File /\ writing' \subseteq CalFiles
  BY <1>1, <1>2
<1>6. TypeOK'
  BY <1>1, <1>3, <1>4, <1>5, <1>t DEF TypeOK
<1>7. HalFindsSeeds'
  <2> SUFFICES ASSUME NEW g \in Seeded
               PROVE  /\ content'[g] = "none" \/ attrs'[g] = Attrs
                      /\ \/ g \in failed'
                         \/ content'[g] \in (IF g \in CalFiles THEN {"shipped", "new"}
                                             ELSE {"shipped"})
    BY DEF HalFindsSeeds
  <2>1. g \in File
    BY SeedFacts
  <2>2. CASE g = f
    BY <2>2, <1>3, <1>4
  <2>3. CASE g # f
    BY <2>1, <2>3, <1>1, <1>3, <1>4, <1>t DEF HalFindsSeeds
  <2> QED BY <2>2, <2>3
<1>8. Progress' /\ Alone'
  BY <1>1 DEF Progress, Alone
<1> QED BY <1>6, <1>7, <1>8 DEF CalInv

\* Every step of a boot, of a calibration and of the HAL keeps the invariant.
LEMMA CalStepInv == CalInv /\ [Next]_vars => CalInv'
<1> SUFFICES ASSUME CalInv, [Next]_vars PROVE CalInv'
  OBVIOUS
<1>t. TypeOK /\ Progress /\ HalFindsSeeds /\ Alone
  BY DEF CalInv
<1>n. N \in Nat
  BY SeedFacts
<1>1. CASE PowerOn
  <2>1. /\ phase = "off" /\ phase' = "boot" /\ step' = 0 /\ dirty' = {}
        /\ UNCHANGED <<content, attrs, failed, writing, client>>
    BY <1>1 DEF PowerOn, toolVars
  <2>2. step' \in 0..(3 * N + 2)
    BY <2>1, <1>n
  <2>3. TypeOK'
    BY <2>1, <2>2, <1>t DEF TypeOK
  <2>4. Progress'
    BY <2>1, <1>n DEF Progress, Passed
  <2>5. HalFindsSeeds' /\ Alone'
    BY <2>1, <1>t DEF HalFindsSeeds, Alone
  <2> QED BY <2>3, <2>4, <2>5 DEF CalInv
<1>2. CASE PostFsData
  BY <1>2, BootStepInv
<1>3. CASE Wipe
  <2>1. /\ phase = "off"
        /\ content' = [f \in File |-> "none"] /\ attrs' = [f \in File |-> {}]
        /\ UNCHANGED <<phase, step, dirty, failed, writing, client>>
    BY <1>3 DEF Wipe, toolVars
  <2>2. TypeOK'
    BY <2>1, <1>t DEF TypeOK
  <2>3. Progress' /\ HalFindsSeeds' /\ Alone'
    BY <2>1, <1>t DEF Progress, HalFindsSeeds, Alone
  <2> QED BY <2>2, <2>3 DEF CalInv
<1>4. CASE CalibrationFails \/ Client
  <2>1. /\ phase = "up" /\ UNCHANGED <<phase, step, content, attrs, dirty, failed>>
        /\ client' \in {"none", "ready", "waiting"} /\ writing' \in {{}, writing, CalFiles}
    BY <1>4, <1>t DEF CalibrationFails, Client, SendCommand, Exit, SetNotify, fileVars,
                      Alone, TypeOK
  <2>2. TypeOK'
    BY <2>1, <1>t DEF TypeOK
  <2>3. Progress' /\ HalFindsSeeds' /\ Alone'
    BY <2>1, <1>t DEF Progress, HalFindsSeeds, Alone
  <2> QED BY <2>2, <2>3 DEF CalInv
<1>5. ASSUME NEW f \in File, Enroll(f) \/ Calibrate(f) PROVE CalInv'
  <2>1. Write(f) /\ writing' \in {writing, writing \ {f}}
    BY <1>5 DEF Enroll, Calibrate
  <2>2. f \notin Seeded \/ f \in CalFiles
    BY <1>5, <1>t DEF Enroll, Calibrate, TypeOK
  <2> QED BY <2>1, <2>2, WriteInv
<1>6. CASE PowerLoss
  <2>1. /\ phase' = "off" /\ dirty' = {} /\ failed' = {} /\ writing' = {} /\ step' = step
        /\ client' = "none"
    BY <1>6 DEF PowerLoss
  <2>2. PICK lost \in SUBSET dirty :
          /\ content' = [f \in File |-> IF f \in lost THEN "torn" ELSE content[f]]
          /\ attrs' = [f \in File |-> IF f \in lost THEN {} ELSE attrs[f]]
    BY <1>6 DEF PowerLoss
  <2>3. /\ content' \in [File -> {"none", "shipped", "new", "torn"}]
        /\ attrs' \in [File -> SUBSET Attrs]
    BY <2>2, <1>t DEF TypeOK
  <2>4. TypeOK'
    BY <2>1, <2>3, <1>t DEF TypeOK
  <2>5. Progress' /\ HalFindsSeeds' /\ Alone'
    BY <2>1 DEF Progress, HalFindsSeeds, Alone
  <2> QED BY <2>4, <2>5 DEF CalInv
<1>7. CASE UNCHANGED vars
  <2>1. UNCHANGED <<phase, step, content, attrs, dirty, failed, writing, client>>
    BY <1>7 DEF vars, fileVars, toolVars
  <2>2. TypeOK'
    BY <2>1, <1>t DEF TypeOK
  <2>3. Progress' /\ HalFindsSeeds' /\ Alone'
    BY <2>1, <1>t DEF Progress, Passed, HalFindsSeeds, Alone
  <2> QED BY <2>2, <2>3 DEF CalInv
<1> QED BY <1>1, <1>2, <1>3, <1>4, <1>5, <1>6, <1>7 DEF Next, Running

-----------------------------------------------------------------------------
(* The composition: every step of Boot is one of FpCal, or leaves it alone. *)

\* A step of the boot is one of the calibration's, or leaves its variables alone.
LEMMA BootImplements == [BootNext]_bootVars => [Next]_vars
<1> SUFFICES ASSUME [BootNext]_bootVars PROVE [Next]_vars
  OBVIOUS
<1>1. CASE Services
  BY <1>1 DEF Services
<1>2. CASE Calibration
  BY <1>2 DEF Calibration, Next
<1>3. CASE BootPowerLoss
  BY <1>3 DEF BootPowerLoss, Next
<1>4. CASE UNCHANGED bootVars
  BY <1>4 DEF bootVars
<1> QED BY <1>1, <1>2, <1>3, <1>4 DEF BootNext

\* The boot implements FpCal, whose steps are all it does to the calibration.
THEOREM BootImplementsFpCal == BootSpec => Spec
<1>1. BootInit => Init
  BY DEF BootInit
<1> QED BY <1>1, BootImplements, PTL DEF BootSpec, Spec

\* The calibration's invariant holds of FpCal by itself: a boot has seeded the files it
\* has passed, and the HAL starts only after the last.
THEOREM CalSpec == Spec => []CalInv
BY CalInitInv, CalStepInv, PTL DEF Spec

\* ... and so it holds in the whole boot.
THEOREM BootCal == BootSpec => []CalInv
BY CalSpec, BootImplementsFpCal, PTL

\* A HAL that runs owns every seeded file that is there and finds whole each one that
\* this boot could copy, after any power losses, wipes, failed copies and calibrations.
THEOREM HalFindsSeedsHolds == BootSpec => []HalFindsSeeds
<1>1. CalInv => HalFindsSeeds
  BY DEF CalInv
<1> QED BY <1>1, BootCal, PTL

\* The HAL's own files survive every boot, also one that is cut short.
THEOREM RuntimeFilesSurviveHolds == BootSpec => RuntimeFilesSurvive
<1>1. ASSUME CalInv, [Next]_vars
      PROVE  [phase = "boot" => \A f \in File \ Seeded : content'[f] = content[f]]_vars
  <2> SUFFICES ASSUME Next, phase = "boot", NEW f \in File \ Seeded
               PROVE  content'[f] = content[f]
    BY <1>1
  <2>t. TypeOK /\ Alone
    BY <1>1 DEF CalInv
  <2>c. content \in [File -> {"none", "shipped", "new", "torn"}]
    BY <2>t DEF TypeOK
  <2>1. CASE PowerOn \/ Wipe \/ CalibrationFails \/ Client
    BY <2>1, <2>t DEF PowerOn, Wipe, CalibrationFails, Client, SendCommand, Exit,
                      SetNotify, fileVars, Alone
  <2>2. CASE PostFsData
    <3>1. CASE MakeDir \/ Restorecon \/ HalStarts
      BY <3>1 DEF MakeDir, Restorecon, HalStarts, fileVars
    <3>2. ASSUME NEW i \in 1..N, Copy(i) PROVE content'[f] = content[f]
      <4>1. Seeds[i] # f
        BY DEF Seeded
      <4> QED BY <4>1, <3>2, <2>c DEF Copy
    <3>3. ASSUME NEW i \in 1..N, Chown(i) \/ Chmod(i) PROVE content'[f] = content[f]
      BY <3>3 DEF Chown, Chmod
    <3> QED BY <2>2, <3>1, <3>2, <3>3 DEF PostFsData
  <2>3. ASSUME NEW g \in File, Enroll(g) \/ Calibrate(g) PROVE content'[f] = content[f]
    BY <2>3 DEF Enroll, Calibrate, Write
  <2>4. CASE PowerLoss
    <3>1. PICK lost \in SUBSET dirty :
            content' = [g \in File |-> IF g \in lost THEN "torn" ELSE content[g]]
      BY <2>4 DEF PowerLoss
    <3>2. f \notin lost
      BY <2>t DEF Alone
    <3> QED BY <3>1, <3>2
  <2> QED BY <2>1, <2>2, <2>3, <2>4 DEF Next, Running
<1> QED BY <1>1, BootCal, BootImplementsFpCal, PTL DEF Spec, RuntimeFilesSurvive

-----------------------------------------------------------------------------
(* The crashing HAL and init's queue.                                      *)

LoopTypes ==
  /\ rules \in Loop!RuleSets
  /\ queue \in Seq({"running", "restarting", "boot_completed"})
  /\ phase # "up" => enforcing = FALSE

LoopInv == LoopTypes /\ StopOnTheWay

LoopStep == (phase = "up" /\ phase' = "up" /\ Loop!Next) \/ (phase' = "off" /\ Loop!PowerOff)

\* Both files stop the service when it runs.
LEMMA RunningHasRule == rules \in Loop!RuleSets => "running" \in rules
BY DEF Loop!RuleSets

\* Before the services start, nothing is in init's queue.
LEMMA LoopInitInv == BootInit => LoopInv
<1> SUFFICES ASSUME BootInit PROVE LoopInv
  OBVIOUS
<1>1. /\ rules \in Loop!RuleSets /\ queue = <<>> /\ enforcing = FALSE /\ proc = "none"
  BY DEF BootInit, Loop!Init
<1> QED BY <1>1 DEF LoopInv, LoopTypes, StopOnTheWay, Loop!StopOnTheWay

\* Whatever is emitted, what waits in the queue waits on.
LEMMA EmitFacts ==
  ASSUME LoopTypes, NEW e \in {"running", "restarting", "boot_completed"}, Loop!Emit(e)
  PROVE  /\ queue' \in Seq({"running", "restarting", "boot_completed"})
         /\ Len(queue) <= Len(queue')
         /\ \A i \in 1..Len(queue) : queue'[i] = queue[i]
         /\ e = "running" => \E i \in 1..Len(queue') : queue'[i] = "running"
<1>1. queue \in Seq({"running", "restarting", "boot_completed"})
  BY DEF LoopTypes
<1>2. CASE queue' = queue /\ e # "running"
  BY <1>1, <1>2
<1>3. CASE queue' = Append(queue, e)
  <2>1. /\ queue' \in Seq({"running", "restarting", "boot_completed"})
        /\ Len(queue') = Len(queue) + 1 /\ Len(queue) \in Nat
        /\ \A i \in 1..Len(queue) : queue'[i] = queue[i]
        /\ queue'[Len(queue) + 1] = e
    BY <1>1, <1>3
  <2>2. Len(queue) + 1 \in 1..Len(queue')
    BY <2>1
  <2>3. Len(queue) <= Len(queue')
    BY <2>1
  <2> QED BY <2>1, <2>2, <2>3
<1> QED BY <1>2, <1>3, RunningHasRule DEF Loop!Emit, LoopTypes

\* A stop that is on the way stays so while the queue only grows.
LEMMA StillOnTheWay ==
  ASSUME LoopInv, proc = "live", todo' = todo,
         Len(queue) \in Nat, Len(queue') \in Nat, Len(queue) <= Len(queue'),
         \A i \in 1..Len(queue) : queue'[i] = queue[i]
  PROVE  StopOnTheWay'
BY DEF LoopInv, StopOnTheWay, Loop!StopOnTheWay

\* Every step of init, and the crash itself, keeps the invariant.
LEMMA LoopStepInv == LoopInv /\ (LoopStep \/ UNCHANGED <<phase, loopVars>>) => LoopInv'
<1> SUFFICES ASSUME LoopInv, LoopStep \/ UNCHANGED <<phase, loopVars>> PROVE LoopInv'
  OBVIOUS
<1>t. LoopTypes /\ StopOnTheWay
  BY DEF LoopInv
<1>q. queue \in Seq({"running", "restarting", "boot_completed"}) /\ Len(queue) \in Nat
  BY <1>t DEF LoopTypes
<1>1. CASE phase' = "off" /\ Loop!PowerOff
  <2>1. proc' = "none" /\ queue' = <<>> /\ enforcing' = FALSE /\ rules' = rules
    BY <1>1 DEF Loop!PowerOff
  <2> QED BY <2>1, <1>t DEF LoopInv, LoopTypes, StopOnTheWay, Loop!StopOnTheWay
<1>2. ASSUME phase = "up", phase' = "up", Loop!Spawn, rules' = rules PROVE LoopInv'
  <2>1. Loop!Emit("running")
    BY <1>2 DEF Loop!Spawn
  <2>2. /\ queue' \in Seq({"running", "restarting", "boot_completed"})
        /\ \E i \in 1..Len(queue') : queue'[i] = "running"
    BY <2>1, <1>t, EmitFacts
  <2> QED BY <2>2, <1>2, <1>t DEF LoopInv, LoopTypes, StopOnTheWay, Loop!StopOnTheWay
<1>3. CASE phase = "up" /\ phase' = "up" /\ Loop!Start
  <2>1. CASE Loop!Spawn
    BY <2>1, <1>3, <1>2 DEF Loop!Start
  <2>2. CASE ~Loop!Spawn
    <3>1. UNCHANGED <<rules, proc, queue, todo>>
      BY <2>2, <1>3 DEF Loop!Start
    <3> QED BY <3>1, <1>3, <1>t DEF LoopInv, LoopTypes, StopOnTheWay, Loop!StopOnTheWay
  <2> QED BY <2>1, <2>2
<1>4. CASE phase = "up" /\ phase' = "up" /\ Loop!Crash
  <2>1. proc' = "dead" /\ UNCHANGED <<rules, queue>>
    BY <1>4 DEF Loop!Crash
  <2> QED BY <2>1, <1>4, <1>t DEF LoopInv, LoopTypes, StopOnTheWay, Loop!StopOnTheWay
<1>5. CASE phase = "up" /\ phase' = "up" /\ Loop!Reap
  <2>1. proc' = "none" /\ rules' = rules
        /\ (queue' = queue \/ Loop!Emit("restarting"))
    BY <1>5 DEF Loop!Reap
  <2>2. queue' \in Seq({"running", "restarting", "boot_completed"})
    BY <2>1, <1>t, <1>q, EmitFacts
  <2> QED BY <2>1, <2>2, <1>5, <1>t DEF LoopInv, LoopTypes, StopOnTheWay, Loop!StopOnTheWay
<1>6. CASE phase = "up" /\ phase' = "up" /\ Loop!Restart
  <2>1. Loop!Spawn /\ rules' = rules
    BY <1>6 DEF Loop!Restart
  <2> QED BY <2>1, <1>6, <1>2
<1>7. CASE phase = "up" /\ phase' = "up" /\ Loop!TakeEvent
  <2>1. /\ queue # <<>> /\ queue' = Tail(queue) /\ todo = "none"
        /\ todo' = Loop!Matching(Head(queue)) /\ UNCHANGED <<rules, proc>>
    BY <1>7 DEF Loop!TakeEvent, Loop!svcVars
  <2>2. /\ queue' \in Seq({"running", "restarting", "boot_completed"})
        /\ Len(queue') = Len(queue) - 1
        /\ \A i \in 1..Len(queue') : queue'[i] = queue[i + 1]
        /\ Head(queue) = queue[1]
    BY <2>1, <1>q
  <2>3. StopOnTheWay'
    <3> SUFFICES ASSUME proc' = "live"
                 PROVE  todo' = "stop" \/ \E i \in 1..Len(queue') : queue'[i] = "running"
      BY DEF StopOnTheWay, Loop!StopOnTheWay
    <3>1. PICK i \in 1..Len(queue) : queue[i] = "running"
      BY <2>1, <1>t DEF StopOnTheWay, Loop!StopOnTheWay
    <3>2. CASE i = 1
      BY <3>1, <3>2, <2>1, <2>2 DEF Loop!Matching
    <3>3. CASE i # 1
      <4>1. i - 1 \in 1..Len(queue') /\ queue'[i - 1] = queue[(i - 1) + 1] /\ (i - 1) + 1 = i
        BY <3>3, <2>2, <1>q
      <4> QED BY <4>1, <3>1
    <3> QED BY <3>2, <3>3
  <2> QED BY <2>1, <2>2, <2>3, <1>7, <1>t DEF LoopInv, LoopTypes
<1>8. CASE phase = "up" /\ phase' = "up" /\ Loop!ExecStop
  <2>1. proc' # "live" /\ UNCHANGED <<rules, queue>>
    BY <1>8 DEF Loop!ExecStop
  <2> QED BY <2>1, <1>8, <1>t DEF LoopInv, LoopTypes, StopOnTheWay, Loop!StopOnTheWay
<1>9. CASE phase = "up" /\ phase' = "up" /\ Loop!ExecEnforce
  <2>1. todo = "enforce" /\ UNCHANGED <<rules, proc, queue>>
    BY <1>9 DEF Loop!ExecEnforce, Loop!svcVars
  <2> QED BY <2>1, <1>9, <1>t DEF LoopInv, LoopTypes, StopOnTheWay, Loop!StopOnTheWay
<1>10. CASE phase = "up" /\ phase' = "up" /\ Loop!BootCompleted
  <2>1. Loop!Emit("boot_completed") /\ UNCHANGED <<rules, proc, todo>>
    BY <1>10 DEF Loop!BootCompleted, Loop!svcVars
  <2>2. /\ queue' \in Seq({"running", "restarting", "boot_completed"})
        /\ Len(queue) <= Len(queue')
        /\ \A i \in 1..Len(queue) : queue'[i] = queue[i]
    BY <2>1, <1>t, EmitFacts
  <2>3. Len(queue') \in Nat
    BY <2>2
  <2>4. StopOnTheWay'
    <3>1. CASE proc = "live"
      BY <3>1, <2>1, <2>2, <2>3, <1>q, StillOnTheWay
    <3>2. CASE proc # "live"
      BY <3>2, <2>1 DEF StopOnTheWay, Loop!StopOnTheWay
    <3> QED BY <3>1, <3>2
  <2> QED BY <2>1, <2>2, <2>4, <1>10, <1>t DEF LoopInv, LoopTypes
<1>11. CASE UNCHANGED <<phase, loopVars>>
  <2>1. UNCHANGED <<phase, rules, proc, queue, todo, enforcing>>
    BY <1>11 DEF loopVars
  <2> QED BY <2>1, <1>t DEF LoopInv, LoopTypes, StopOnTheWay, Loop!StopOnTheWay
<1> QED BY <1>1, <1>3, <1>4, <1>5, <1>6, <1>7, <1>8, <1>9, <1>10, <1>11
        DEF LoopStep, Loop!Next, Loop!InitStep

\* The calibration's steps do not touch the loop, and leave phase "up" only with power.
LEMMA CalibrationKeeps ==
  ASSUME LoopInv, Calibration
  PROVE  LoopInv'
<1>1. UNCHANGED <<rules, proc, queue, todo, enforcing>>
  BY DEF Calibration, loopVars
<1>2. phase' # "up" => phase # "up"
  BY DEF Calibration, Running, PowerOn, PostFsData, MakeDir, Restorecon, HalStarts, Copy,
         Chown, Chmod, Wipe, CalibrationFails, Client, SendCommand, Exit, SetNotify,
         Enroll, Calibrate, Write, Command
<1> QED BY <1>1, <1>2 DEF LoopInv, LoopTypes, StopOnTheWay, Loop!StopOnTheWay

\* The loop's invariant holds of the whole boot: a live process has its stop on the way.
THEOREM BootLoop == BootSpec => []LoopInv
<1>1. ASSUME LoopInv, [BootNext]_bootVars PROVE LoopInv'
  <2>1. CASE Services
    <3>1. phase = "up" /\ phase' = "up" /\ Loop!Next
      BY <2>1 DEF Services, vars
    <3> QED BY <3>1, <1>1, LoopStepInv DEF LoopStep
  <2>2. CASE Calibration
    BY <2>2, <1>1, CalibrationKeeps
  <2>3. CASE BootPowerLoss
    <3>1. phase' = "off" /\ Loop!PowerOff
      BY <2>3 DEF BootPowerLoss, PowerLoss
    <3> QED BY <3>1, <1>1, LoopStepInv DEF LoopStep
  <2>4. CASE UNCHANGED bootVars
    <3>1. UNCHANGED <<phase, loopVars>>
      BY <2>4 DEF bootVars, vars
    <3> QED BY <3>1, <1>1, LoopStepInv
  <2> QED BY <1>1, <2>1, <2>2, <2>3, <2>4 DEF BootNext
<1> QED BY LoopInitInv, <1>1, PTL DEF BootSpec

\* A live process of the crashing service has its stop on the way, with either file's
\* rules and any length of init's queue.
THEOREM StopOnTheWayHolds == BootSpec => []StopOnTheWay
<1>1. LoopInv => StopOnTheWay
  BY DEF LoopInv
<1> QED BY <1>1, BootLoop, PTL

\* No boot copies the calibration, or sets an attribute, while SELinux enforces.
THEOREM SeededPermissiveHolds == BootSpec => SeededPermissive
<1>1. LoopInv =>
        [phase = "boot" /\ <<content, attrs>>' # <<content, attrs>> /\ phase' = "boot"
           => ~enforcing]_bootVars
  BY DEF LoopInv, LoopTypes
<1> QED BY <1>1, BootLoop, PTL DEF SeededPermissive

\* The event that is emitted has room in the queue.
LEMMA EmitTypes ==
  ASSUME Loop!TypeOK, NEW e \in {"running", "restarting", "boot_completed"}, Loop!Emit(e)
  PROVE  queue' \in Seq({"running", "restarting", "boot_completed"}) /\ Len(queue') <= MaxQueue
<1>1. /\ queue \in Seq({"running", "restarting", "boot_completed"}) /\ Len(queue) <= MaxQueue
      /\ Len(queue) < MaxQueue /\ MaxQueue \in Nat
  BY BoundsAssumption DEF Loop!TypeOK, Loop!Emit
<1>2. CASE queue' = queue
  BY <1>1, <1>2
<1>3. CASE queue' = Append(queue, e)
  BY <1>1, <1>3
<1> QED BY <1>2, <1>3 DEF Loop!Emit

\* Every step of init, and the loss of power, keeps the types of the loop.
LEMMA LoopTypesKept ==
  ASSUME Loop!TypeOK, Loop!Next \/ Loop!PowerOff \/ UNCHANGED loopVars
  PROVE  Loop!TypeOK'
<1>b. MaxQueue \in Nat /\ MaxStarts \in Nat
  BY BoundsAssumption
<1>1. CASE Loop!Start
  <2>1. starts' \in 0..MaxStarts /\ UNCHANGED <<rules, todo, booted, enforcing>>
    BY <1>1, <1>b DEF Loop!Start, Loop!TypeOK
  <2>2. CASE Loop!Spawn
    <3>1. Loop!Emit("running")
      BY <2>2 DEF Loop!Spawn
    <3> QED BY <2>1, <2>2, <3>1, EmitTypes DEF Loop!TypeOK, Loop!Spawn
  <2>3. CASE disabled' = FALSE /\ UNCHANGED <<proc, restarting, queue>>
    BY <2>1, <2>3 DEF Loop!TypeOK
  <2> QED BY <1>1, <2>2, <2>3 DEF Loop!Start
<1>2. CASE Loop!Crash
  BY <1>2 DEF Loop!Crash, Loop!TypeOK
<1>3. CASE Loop!Reap
  <2>1. proc' = "none" /\ UNCHANGED <<rules, disabled, todo, starts, booted, enforcing>>
    BY <1>3 DEF Loop!Reap
  <2>2. CASE UNCHANGED <<restarting, queue>>
    BY <2>1, <2>2 DEF Loop!TypeOK
  <2>3. CASE restarting' = TRUE /\ Loop!Emit("restarting")
    BY <2>1, <2>3, EmitTypes DEF Loop!TypeOK
  <2> QED BY <1>3, <2>2, <2>3 DEF Loop!Reap
<1>4. CASE Loop!Restart
  <2>1. /\ proc' = "live" /\ disabled' = FALSE /\ restarting' = FALSE /\ Loop!Emit("running")
        /\ UNCHANGED <<rules, todo, starts, booted, enforcing>>
    BY <1>4 DEF Loop!Restart, Loop!Spawn
  <2> QED BY <2>1, EmitTypes DEF Loop!TypeOK
<1>5. CASE Loop!TakeEvent
  <2>1. queue' \in Seq({"running", "restarting", "boot_completed"}) /\ Len(queue') <= MaxQueue
    BY <1>5, <1>b DEF Loop!TakeEvent, Loop!TypeOK
  <2>2. todo' \in {"none", "stop", "enforce"}
    BY <1>5 DEF Loop!TakeEvent, Loop!Matching
  <2> QED BY <1>5, <2>1, <2>2 DEF Loop!TakeEvent, Loop!TypeOK, Loop!svcVars
<1>6. CASE Loop!ExecStop
  BY <1>6 DEF Loop!ExecStop, Loop!TypeOK
<1>7. CASE Loop!ExecEnforce
  BY <1>7 DEF Loop!ExecEnforce, Loop!TypeOK, Loop!svcVars
<1>8. CASE Loop!BootCompleted
  <2>1. booted' = TRUE /\ Loop!Emit("boot_completed")
        /\ UNCHANGED <<rules, proc, disabled, restarting, todo, starts, enforcing>>
    BY <1>8 DEF Loop!BootCompleted, Loop!svcVars
  <2> QED BY <2>1, EmitTypes DEF Loop!TypeOK
<1>9. CASE Loop!PowerOff
  <2>1. /\ queue' \in Seq({"running", "restarting", "boot_completed"}) /\ Len(queue') <= MaxQueue
        /\ starts' \in 0..MaxStarts
    BY <1>9, <1>b DEF Loop!PowerOff
  <2>2. /\ rules' = rules /\ proc' = "none" /\ disabled' = FALSE /\ restarting' = FALSE
        /\ todo' = "none" /\ booted' = FALSE /\ enforcing' = FALSE
    BY <1>9 DEF Loop!PowerOff
  <2> QED BY <2>1, <2>2 DEF Loop!TypeOK
<1>10. CASE UNCHANGED loopVars
  BY <1>10 DEF loopVars, Loop!TypeOK
<1> QED BY <1>1, <1>2, <1>3, <1>4, <1>5, <1>6, <1>7, <1>8, <1>9, <1>10
        DEF Loop!Next, Loop!InitStep

\* The composed boot keeps the types of both its parts; init's queue stays within its
\* bound.
THEOREM BootTypeCorrect == BootSpec => []BootTypeOK
<1>1. BootInit => Loop!TypeOK
  <2>1. MaxQueue \in Nat /\ MaxStarts \in Nat
    BY BoundsAssumption
  <2>2. SUFFICES ASSUME BootInit PROVE Loop!TypeOK
    OBVIOUS
  <2>3. /\ queue \in Seq({"running", "restarting", "boot_completed"}) /\ Len(queue) <= MaxQueue
        /\ starts \in 0..MaxStarts
    BY <2>1, <2>2 DEF BootInit, Loop!Init
  <2>4. /\ rules \in Loop!RuleSets /\ proc = "none" /\ disabled = FALSE
        /\ restarting = FALSE /\ todo = "none" /\ booted = FALSE /\ enforcing = FALSE
    BY <2>2 DEF BootInit, Loop!Init
  <2> QED BY <2>3, <2>4 DEF Loop!TypeOK
<1>2. Loop!TypeOK /\ [BootNext]_bootVars => Loop!TypeOK'
  BY LoopTypesKept DEF BootNext, Services, Calibration, BootPowerLoss, bootVars
<1>3. CalInv /\ Loop!TypeOK => BootTypeOK
  BY DEF CalInv, BootTypeOK
<1> QED BY <1>1, <1>2, <1>3, BootCal, PTL DEF BootSpec
=============================================================================
