------------------------------ MODULE CiProofs ------------------------------
(***************************************************************************)
(* Theorems about apply-patches.sh and the jobs of build.yml, for every    *)
(* sequence of patches, window, and number of commits, revisions and jobs. *)
(***************************************************************************)
EXTENDS CiPipeline, SequenceTheorems, TLAPS

\* What the run has passed is in the tree or was reported, or was lost by others'
\* commits or by the abort.
Settled(p) == p \in present \/ report[p] = "failed" \/ p \in astray \/ p \in rewound
Handled == there => \A i \in 1..(next - 1) : Settled(Patches[i])

\* The change of a commit is in the tree, unless others' commits have touched it.
Kept(p) == p \in present \/ p \in astray
LogKept == \A i \in 1..Len(log) : log[i] = "other" \/ Kept(log[i])

\* The commit that an abort may take back is the last, and the only one of its patch
\* that its change rests on.
MadeLast ==
  session = "made" =>
    /\ Len(log) > 0 /\ log[Len(log)] \in PatchSet
    /\ \A i \in 1..(Len(log) - 1) : log[i] = log[Len(log)] => log[i] \in astray

\* A session that an undisturbed run has left alone: it has skipped every patch so far.
StillToCome(i) == runs = 1 /\ AtPatch /\ i >= next
Untouched ==
  there /\ runs > 0 /\ session # "none" =>
    \A i \in 1..Len(Patches) : StillToCome(i) \/ InLog(Patches[i])

\* The second such run finds no session in its way.
SecondRun ==
  runs = 2 => rewound = {} /\ \A p \in PatchSet : report[p] = "failed" => p \in entangled

AtWork == AtPatch => there /\ runs > 0

PatchInv ==
  PatchTypeOK /\ Handled /\ LogKept /\ MadeLast /\ Untouched /\ SecondRun /\ AtWork

-----------------------------------------------------------------------------
\* The assumption on the patches, in the provers' terms.
LEMMA PatchesFacts ==
  /\ Len(Patches) \in Nat
  /\ \A i \in 1..Len(Patches) : Patches[i] \in PatchSet
  /\ \A i, j \in 1..Len(Patches) : Patches[i] = Patches[j] => i = j
  /\ "other" \notin PatchSet
  /\ MaxLog \in Nat
<1>1. Patches \in Seq(PatchSet)
  BY PatchesAssumption
<1> QED BY <1>1, PatchesAssumption DEF PatchSet

\* The script has not begun, or has just done so.
LEMMA PositionFacts ==
  /\ 0 \in 0..(Len(Patches) + 1) /\ 1 \in 0..(Len(Patches) + 1)
  /\ 1..(0 - 1) = {} /\ 1..(1 - 1) = {}
<1>1. Len(Patches) \in Nat
  BY PatchesFacts
<1> QED BY <1>1

\* A script that has said nothing has reported nothing FAILED.
LEMMA SilentFacts ==
  /\ Silent \in [PatchSet -> {"", "ok", "applied", "failed"}]
  /\ \A p \in PatchSet : Silent[p] # "failed"
BY DEF Silent

\* The log of a tree just synced.
LEMMA EmptyLog == <<>> \in Seq(PatchSet \cup {"other"}) /\ Len(<<>>) = 0 /\ 1..0 = {} /\ 0 <= MaxLog
<1>1. MaxLog \in Nat
  BY PatchesFacts
<1> QED BY <1>1

\* The script's invariant holds before anything was synced.
LEMMA PatchInitInv == PatchInit => PatchInv
<1> SUFFICES ASSUME PatchInit PROVE PatchInv
  OBVIOUS
<1>1. /\ there \in BOOLEAN
      /\ log = <<>> /\ present = {} /\ session = "none" /\ entangled \in SUBSET PatchSet
      /\ next = 0 /\ report = Silent
      /\ astray = {} /\ rewound = {} /\ runs = 0
  BY DEF PatchInit
<1>2. PatchTypeOK
  <2>1. next \in 0..(Len(Patches) + 1) /\ runs \in 0..2
    BY <1>1, PositionFacts
  <2>2. report \in [PatchSet -> {"", "ok", "applied", "failed"}]
    BY <1>1, SilentFacts
  <2>3. log \in Seq(PatchSet \cup {"other"}) /\ Len(log) <= MaxLog
    BY <1>1, EmptyLog
  <2> QED BY <1>1, <2>1, <2>2, <2>3 DEF PatchTypeOK
<1>3. Handled
  BY <1>1, PositionFacts DEF Handled
<1>4. LogKept
  <2>1. 1..Len(log) = {}
    BY <1>1, EmptyLog
  <2> QED BY <2>1 DEF LogKept
<1>5. MadeLast /\ Untouched /\ SecondRun
  BY <1>1 DEF MadeLast, Untouched, SecondRun
<1>6. AtWork
  BY <1>1, PatchesFacts DEF AtWork, AtPatch
<1> QED BY <1>2, <1>3, <1>4, <1>5, <1>6 DEF PatchInv

\* A subject that is found stands for a change that is there, unless others have
\* touched it.
LEMMA InLogKept ==
  ASSUME LogKept, NEW p \in PatchSet, InLog(p)
  PROVE  Kept(p)
<1>1. PICK i \in 1..Len(log) : log[i] = p
  BY DEF InLog
<1>2. log[i] # "other"
  BY <1>1, PatchesFacts
<1> QED BY <1>1, <1>2 DEF LogKept

\* What a patch's report changes of the invariant, whatever it says.
LEMMA SayHandled ==
  ASSUME PatchInv, AtPatch, NEW what \in {"ok", "applied", "failed"}, Say(what),
         UNCHANGED <<there, astray>>,
         \A p \in PatchSet : p \in present \/ p \in rewound => p \in present' \/ p \in rewound',
         what = "failed" \/ Current \in present' \/ Current \in astray
  PROVE  /\ Handled'
         /\ next' = next + 1 /\ next' \in 0..(Len(Patches) + 1)
         /\ report' \in [PatchSet -> {"", "ok", "applied", "failed"}]
<1>1. next \in 1..Len(Patches) /\ next' = next + 1 /\ Current \in PatchSet
  BY PatchesFacts DEF AtPatch, Say, Current
<1>2. report \in [PatchSet -> {"", "ok", "applied", "failed"}]
  BY DEF PatchInv, PatchTypeOK
<1>3. report' = [report EXCEPT ![Current] = what]
  BY DEF Say
<1>4. Handled'
  <2> SUFFICES ASSUME there', NEW i \in 1..(next' - 1)
               PROVE  Settled(Patches[i])'
    BY DEF Handled
  <2>1. CASE i = next
    BY <2>1, <1>1, <1>2, <1>3 DEF Current, Settled
  <2>2. CASE i # next
    <3>1. i \in 1..(next - 1) /\ i \in 1..Len(Patches)
      BY <2>2, <1>1, PatchesFacts
    <3>2. Patches[i] # Current /\ Patches[i] \in PatchSet
      BY <2>2, <3>1, <1>1, PatchesFacts DEF Current
    <3>3. report'[Patches[i]] = report[Patches[i]]
      BY <3>2, <1>2, <1>3
    <3>4. Settled(Patches[i])
      BY <3>1 DEF PatchInv, Handled
    <3> QED BY <3>2, <3>3, <3>4 DEF Settled
  <2> QED BY <2>1, <2>2
<1>5. next' \in 0..(Len(Patches) + 1)
  BY <1>1, PatchesFacts
<1>6. report' \in [PatchSet -> {"", "ok", "applied", "failed"}]
  BY <1>2, <1>3
<1> QED BY <1>1, <1>4, <1>5, <1>6

\* One more commit at the end of the log.
LEMMA Appended ==
  ASSUME PatchTypeOK, NEW c \in PatchSet \cup {"other"},
         Len(log) < MaxLog, log' = Append(log, c)
  PROVE  /\ log' \in Seq(PatchSet \cup {"other"}) /\ Len(log') <= MaxLog
         /\ Len(log') = Len(log) + 1 /\ Len(log) \in Nat
         /\ \A i \in 1..Len(log) : log'[i] = log[i]
         /\ log'[Len(log')] = c
<1>1. log \in Seq(PatchSet \cup {"other"})
  BY DEF PatchTypeOK
<1> QED BY <1>1, PatchesFacts

\* After git am has made its commit, or none, the log stands for what is there; a
\* commit that it made can be taken back.
LEMMA MergeLog ==
  ASSUME PatchInv, AtPatch, Merge, UNCHANGED astray
  PROVE  /\ log' \in Seq(PatchSet \cup {"other"}) /\ Len(log') <= MaxLog
         /\ present' = present \cup {Current} /\ Current \in PatchSet
         /\ LogKept'
         /\ log' # log =>
              /\ Len(log') > 0 /\ log'[Len(log')] \in PatchSet
              /\ \A i \in 1..(Len(log') - 1) : log'[i] = log'[Len(log')] => log'[i] \in astray
<1>1. Current \in PatchSet /\ Current # "other"
  BY PatchesFacts DEF AtPatch, Current
<1>2. present' = present \cup {Current}
  BY DEF Merge
<1>3. PatchTypeOK /\ LogKept
  BY DEF PatchInv
<1>4. CASE Current \in present
  <2>1. log' = log
    BY <1>4 DEF Merge
  <2> QED BY <2>1, <1>1, <1>2, <1>3 DEF PatchTypeOK, LogKept, Kept
<1>5. CASE Current \notin present
  <2>1. Len(log) < MaxLog /\ log' = Append(log, Current)
    BY <1>5 DEF Merge
  <2>2. /\ log' \in Seq(PatchSet \cup {"other"}) /\ Len(log') <= MaxLog
        /\ Len(log') = Len(log) + 1 /\ Len(log) \in Nat
        /\ \A i \in 1..Len(log) : log'[i] = log[i]
        /\ log'[Len(log')] = Current
    BY <2>1, <1>1, <1>3, Appended
  <2>3. \A i \in 1..Len(log) : log[i] = "other" \/ Kept(log[i])
    BY <1>3 DEF LogKept
  <2>4. LogKept'
    <3> SUFFICES ASSUME NEW i \in 1..Len(log') PROVE log'[i] = "other" \/ Kept(log[i])'
      BY DEF LogKept
    <3>1. CASE i \in 1..Len(log)
      BY <3>1, <2>2, <2>3, <1>2 DEF Kept
    <3>2. CASE i = Len(log')
      BY <3>2, <2>2, <1>2 DEF Kept
    <3> QED BY <3>1, <3>2, <2>2
  <2>5. \A i \in 1..(Len(log') - 1) : log'[i] = Current => Current \in astray
    <3> SUFFICES ASSUME NEW i \in 1..(Len(log') - 1), log'[i] = Current
                 PROVE  Current \in astray
      OBVIOUS
    <3>1. i \in 1..Len(log) /\ log[i] = Current
      BY <2>2
    <3> QED BY <3>1, <2>3, <1>1, <1>5 DEF Kept
  <2> QED BY <2>2, <2>4, <2>5, <1>1, <1>2
<1> QED BY <1>4, <1>5

\* An abort that takes a commit back takes back its change, which no other commit that
\* nobody has touched stands for.
LEMMA AbortLog ==
  ASSUME PatchInv, Abort, UNCHANGED astray
  PROVE  /\ log' \in Seq(PatchSet \cup {"other"}) /\ Len(log') <= MaxLog
         /\ present' \subseteq present /\ LogKept'
         /\ session # "made" => UNCHANGED <<log, present>>
<1>1. PatchTypeOK /\ LogKept /\ MadeLast
  BY DEF PatchInv
<1>2. CASE session = "made"
  <2>1. /\ log \in Seq(PatchSet \cup {"other"}) /\ Len(log) \in Nat /\ Len(log) > 0
        /\ \A i \in 1..(Len(log) - 1) : log[i] = log[Len(log)] => log[i] \in astray
    <3>1. log \in Seq(PatchSet \cup {"other"})
      BY <1>1 DEF PatchTypeOK
    <3>2. Len(log) \in Nat
      BY <3>1
    <3> QED BY <3>1, <3>2, <1>2, <1>1 DEF MadeLast
  <2>2. log' = SubSeq(log, 1, Len(log) - 1) /\ present' = present \ {log[Len(log)]}
    BY <1>2 DEF Abort
  <2>3. /\ log' \in Seq(PatchSet \cup {"other"}) /\ Len(log') = Len(log) - 1
        /\ \A i \in 1..(Len(log) - 1) : log'[i] = log[i]
    <3> DEFINE n == Len(log) - 1
    <3>1. n \in 0..Len(log) /\ 1 \in 1..(Len(log) + 1) /\ n >= 0 /\ n - 1 + 1 = n
      BY <2>1
    <3> HIDE DEF n
    <3>2. /\ SubSeq(log, 1, n) \in Seq(PatchSet \cup {"other"})
          /\ Len(SubSeq(log, 1, n)) = n
          /\ \A i \in 1..n : SubSeq(log, 1, n)[i] = log[i]
      BY <3>1, <2>1, SubSeqProperties
    <3> QED BY <3>2, <2>2 DEF n
  <2>4. Len(log') <= MaxLog
    <3>1. Len(log) <= MaxLog
      BY <1>1 DEF PatchTypeOK
    <3> QED BY <3>1, <2>1, <2>3, PatchesFacts
  <2>5. LogKept'
    <3> SUFFICES ASSUME NEW i \in 1..Len(log') PROVE log'[i] = "other" \/ Kept(log[i])'
      BY DEF LogKept
    <3>1. i \in 1..(Len(log) - 1) /\ i \in 1..Len(log) /\ log'[i] = log[i]
      BY <2>1, <2>3
    <3>2. log[i] = "other" \/ log[i] \in present \/ log[i] \in astray
      BY <3>1, <1>1 DEF LogKept, Kept
    <3> QED BY <3>1, <3>2, <2>1, <2>2 DEF Kept
  <2> QED BY <2>2, <2>3, <2>4, <2>5, <1>2
<1>3. CASE session # "made"
  <2>1. UNCHANGED <<log, present>>
    BY <1>3 DEF Abort
  <2> QED BY <2>1, <1>3, <1>1 DEF PatchTypeOK, LogKept, Kept
<1> QED BY <1>2, <1>3

\* The script does not run after the step, and says nothing.
LEMMA RestInv ==
  ASSUME next' = 0, report' = Silent, rewound' = {}
  PROVE  /\ Handled' /\ SecondRun' /\ AtWork'
         /\ next' \in 0..(Len(Patches) + 1)
         /\ report' \in [PatchSet -> {"", "ok", "applied", "failed"}]
         /\ rewound' \subseteq PatchSet
<1>1. Handled'
  BY PositionFacts DEF Handled
<1>2. SecondRun'
  BY SilentFacts DEF SecondRun
<1>3. AtWork'
  BY PatchesFacts DEF AtWork, AtPatch
<1> QED BY <1>1, <1>2, <1>3, SilentFacts, PositionFacts

\* No session is left, or nobody counts on the runs before.
LEMMA NoSession == session' = "none" \/ runs' = 0 => Untouched'
BY DEF Untouched

\* A step that leaves the log, and what stands for it, as they were.
LEMMA SameLog ==
  ASSUME LogKept, UNCHANGED <<log, present, astray>>
  PROVE  LogKept'
BY DEF LogKept, Kept

\* The patch just passed is no longer to come.
LEMMA NextToCome ==
  ASSUME PatchTypeOK, AtPatch, next' = next + 1, runs' = runs,
         NEW i \in 1..Len(Patches), StillToCome(i), i # next
  PROVE  StillToCome(i)'
<1>1. Len(Patches) \in Nat /\ next \in 1..Len(Patches)
  BY PatchesFacts DEF AtPatch
<1>2. i >= next + 1 /\ next + 1 \in 1..Len(Patches)
  BY <1>1 DEF StillToCome
<1> QED BY <1>2 DEF StillToCome, AtPatch

\* The invariant of the script is inductive.
LEMMA PatchStepInv == PatchInv /\ [PatchNext]_patchVars => PatchInv'
<1> SUFFICES ASSUME PatchInv, [PatchNext]_patchVars PROVE PatchInv'
  OBVIOUS
<1>1. PatchTypeOK /\ Handled /\ LogKept /\ MadeLast /\ Untouched /\ SecondRun /\ AtWork
  BY DEF PatchInv
<1>2. AtPatch => Current \in PatchSet
  BY PatchesFacts DEF AtPatch, Current
<1>3. CASE Begin
  <2>1. /\ next \in {0, Len(Patches) + 1}
        /\ next' = (IF there THEN 1 ELSE Len(Patches) + 1) /\ report' = Silent
        /\ rewound' = {} /\ runs' = (IF runs = 0 THEN 1 ELSE 2)
        /\ UNCHANGED <<there, log, present, entangled, session, astray>>
    BY <1>3 DEF Begin, repoVars
  <2>2. Len(Patches) \in Nat
    BY PatchesFacts
  <2>3. PatchTypeOK'
    <3>1. next' \in 0..(Len(Patches) + 1) /\ runs' \in 0..2
      BY <2>1, <2>2
    <3>2. report' \in [PatchSet -> {"", "ok", "applied", "failed"}]
      BY <2>1, SilentFacts
    <3> QED BY <3>1, <3>2, <2>1, <1>1 DEF PatchTypeOK
  <2>4. Handled'
    <3>1. there' => next' = 1
      BY <2>1
    <3> QED BY <3>1, PositionFacts DEF Handled
  <2>5. LogKept' /\ MadeLast'
    BY <2>1, <1>1, SameLog DEF MadeLast
  <2>6. Untouched'
    <3> SUFFICES ASSUME there', session' # "none", NEW i \in 1..Len(Patches)
                 PROVE  StillToCome(i)' \/ InLog(Patches[i])'
      BY DEF Untouched
    <3>1. CASE runs = 0
      <4>1. runs' = 1 /\ next' = 1
        BY <3>1, <2>1
      <4> QED BY <4>1, <2>2 DEF StillToCome, AtPatch
    <3>2. CASE runs # 0
      <4>1. runs > 0 /\ ~AtPatch
        <5>1. runs \in 0..2
          BY <1>1 DEF PatchTypeOK
        <5>2. runs > 0
          BY <5>1, <3>2
        <5>3. ~AtPatch
          BY <2>1, <2>2 DEF AtPatch
        <5> QED BY <5>2, <5>3
      <4>2. InLog(Patches[i])
        BY <4>1, <2>1, <1>1 DEF Untouched, StillToCome
      <4> QED BY <4>2, <2>1 DEF InLog
    <3> QED BY <3>1, <3>2
  <2>7. SecondRun'
    BY <2>1, SilentFacts DEF SecondRun
  <2>8. AtWork'
    <3>1. there' \/ ~AtPatch'
      BY <2>1, <2>2 DEF AtPatch
    <3>2. runs' > 0
      BY <2>1
    <3> QED BY <3>1, <3>2 DEF AtWork
  <2> QED BY <2>3, <2>4, <2>5, <2>6, <2>7, <2>8 DEF PatchInv
<1>4. CASE Skip
  <2>1. /\ AtPatch /\ InLog(Current) /\ Say("ok")
        /\ UNCHANGED <<there, log, present, entangled, session, astray, rewound, runs>>
    BY <1>4 DEF Skip, repoVars
  <2>2. Current \in present \/ Current \in astray
    BY <2>1, <1>2, <1>1, InLogKept DEF Kept
  <2>3. /\ Handled' /\ next' = next + 1 /\ next' \in 0..(Len(Patches) + 1)
        /\ report' \in [PatchSet -> {"", "ok", "applied", "failed"}]
    BY <2>1, <2>2, SayHandled
  <2>4. PatchTypeOK'
    BY <2>1, <2>3, <1>1 DEF PatchTypeOK
  <2>5. LogKept' /\ MadeLast'
    BY <2>1, <1>1, SameLog DEF MadeLast
  <2>6. Untouched'
    <3> SUFFICES ASSUME there', runs' > 0, session' # "none", NEW i \in 1..Len(Patches)
                 PROVE  StillToCome(i)' \/ InLog(Patches[i])'
      BY DEF Untouched
    <3>1. StillToCome(i) \/ InLog(Patches[i])
      BY <2>1, <1>1 DEF Untouched
    <3>2. InLog(Patches[i]) => InLog(Patches[i])'
      BY <2>1 DEF InLog
    <3>3. i = next => InLog(Patches[i])
      BY <2>1 DEF Current
    <3>4. StillToCome(i) /\ i # next => StillToCome(i)'
      BY <2>1, <2>3, <1>1, NextToCome
    <3> QED BY <3>1, <3>2, <3>3, <3>4
  <2>7. SecondRun'
    BY <2>1, <1>1, <1>2 DEF SecondRun, Say, PatchTypeOK
  <2>8. AtWork'
    BY <2>1, <1>1 DEF AtWork
  <2> QED BY <2>3, <2>4, <2>5, <2>6, <2>7, <2>8 DEF PatchInv
<1>5. CASE Am
  <2>1. /\ AtPatch /\ Merges /\ Merge /\ Say("applied")
        /\ rewound' = rewound \ {Current}
        /\ UNCHANGED <<there, entangled, session, astray, runs>>
    BY <1>5 DEF Am
  <2>2. /\ log' \in Seq(PatchSet \cup {"other"}) /\ Len(log') <= MaxLog
        /\ present' = present \cup {Current} /\ LogKept'
    BY <2>1, MergeLog
  <2>3. /\ Handled' /\ next' = next + 1 /\ next' \in 0..(Len(Patches) + 1)
        /\ report' \in [PatchSet -> {"", "ok", "applied", "failed"}]
    BY <2>1, <2>2, SayHandled
  <2>4. PatchTypeOK'
    BY <2>1, <2>2, <2>3, <1>1, <1>2 DEF PatchTypeOK
  <2>5. session' = "none"
    BY <2>1 DEF Merges
  <2>6. MadeLast' /\ Untouched'
    BY <2>5, NoSession DEF MadeLast
  <2>7. SecondRun'
    BY <2>1, <1>1, <1>2 DEF SecondRun, Say, PatchTypeOK
  <2>8. AtWork'
    BY <2>1, <1>1 DEF AtWork
  <2> QED BY <2>2, <2>3, <2>4, <2>6, <2>7, <2>8 DEF PatchInv
<1>6. CASE AmFails
  <2>1. /\ AtPatch /\ Refuses /\ Abort /\ Say("failed")
        /\ session' = "none" /\ rewound' = rewound \cup (present \ present')
        /\ UNCHANGED <<there, entangled, astray, runs>>
    BY <1>6 DEF AmFails
  <2>2. /\ log' \in Seq(PatchSet \cup {"other"}) /\ Len(log') <= MaxLog
        /\ present' \subseteq present /\ LogKept'
        /\ session # "made" => UNCHANGED <<log, present>>
    BY <2>1, AbortLog
  <2>3. /\ Handled' /\ next' = next + 1 /\ next' \in 0..(Len(Patches) + 1)
        /\ report' \in [PatchSet -> {"", "ok", "applied", "failed"}]
    BY <2>1, <2>2, SayHandled
  <2>4. PatchTypeOK'
    BY <2>1, <2>2, <2>3, <1>1 DEF PatchTypeOK
  <2>5. MadeLast' /\ Untouched'
    BY <2>1, NoSession DEF MadeLast
  <2>6. SecondRun'
    <3> SUFFICES ASSUME runs = 2
                 PROVE  rewound' = {} /\ \A p \in PatchSet : report'[p] = "failed" => p \in entangled
      BY <2>1 DEF SecondRun
    <3>1. there /\ runs > 0 /\ next \in 1..Len(Patches)
      BY <2>1, <1>1 DEF AtWork, AtPatch
    <3>2. ~InLog(Patches[next]) /\ ~StillToCome(next)
      BY <2>1 DEF Refuses, Current, StillToCome
    <3>3. session = "none"
      BY <3>1, <3>2, <1>1 DEF Untouched
    <3>4. Current \in entangled /\ present' = present
      BY <3>3, <2>1, <2>2 DEF Refuses
    <3> QED BY <3>4, <2>1, <1>1, <1>2 DEF SecondRun, Say, PatchTypeOK
  <2>7. AtWork'
    BY <2>1, <1>1 DEF AtWork
  <2> QED BY <2>2, <2>3, <2>4, <2>5, <2>6, <2>7 DEF PatchInv
<1>7. CASE KillScript
  <2>1. /\ AtPatch /\ next' = 0 /\ report' = Silent /\ rewound' = {} /\ runs' = 0
        /\ UNCHANGED <<there, entangled, astray>>
    BY <1>7 DEF KillScript
  <2>2. /\ Handled' /\ SecondRun' /\ AtWork' /\ next' \in 0..(Len(Patches) + 1)
        /\ report' \in [PatchSet -> {"", "ok", "applied", "failed"}]
        /\ rewound' \subseteq PatchSet
    BY <2>1, RestInv
  <2>3. /\ log' \in Seq(PatchSet \cup {"other"}) /\ Len(log') <= MaxLog
        /\ present' \subseteq PatchSet /\ session' \in {"none", "open", "made"}
        /\ LogKept' /\ MadeLast'
    <3>1. CASE UNCHANGED <<log, present, session>>
      BY <3>1, <2>1, <1>1, SameLog DEF MadeLast, PatchTypeOK
    <3>2. CASE session' = "open" /\ UNCHANGED <<log, present>>
      BY <3>2, <2>1, <1>1, SameLog DEF MadeLast, PatchTypeOK
    <3>3. CASE Merge /\ session' \in {"none", "open"} \cup (IF log' = log THEN {} ELSE {"made"})
      <4>1. /\ log' \in Seq(PatchSet \cup {"other"}) /\ Len(log') <= MaxLog
            /\ present' = present \cup {Current} /\ Current \in PatchSet /\ LogKept'
            /\ log' # log =>
                 /\ Len(log') > 0 /\ log'[Len(log')] \in PatchSet
                 /\ \A i \in 1..(Len(log') - 1) : log'[i] = log'[Len(log')] => log'[i] \in astray
        BY <3>3, <2>1, MergeLog
      <4>2. session' \in {"none", "open", "made"} /\ (session' = "made" => log' # log)
        BY <3>3
      <4>3. MadeLast'
        BY <4>1, <4>2, <2>1 DEF MadeLast
      <4> QED BY <4>1, <4>2, <4>3, <1>1 DEF PatchTypeOK
    <3>4. CASE Abort /\ session' \in {"none", "open"}
      <4>1. /\ log' \in Seq(PatchSet \cup {"other"}) /\ Len(log') <= MaxLog
            /\ present' \subseteq present /\ LogKept'
        BY <3>4, <2>1, AbortLog
      <4> QED BY <4>1, <3>4, <1>1 DEF PatchTypeOK, MadeLast
    <3> QED BY <3>1, <3>2, <3>3, <3>4, <1>7 DEF KillScript
  <2>4. PatchTypeOK'
    <3>1. runs' \in 0..2
      BY <2>1
    <3> QED BY <3>1, <2>1, <2>2, <2>3, <1>1 DEF PatchTypeOK
  <2>5. Untouched'
    BY <2>1, NoSession
  <2> QED BY <2>2, <2>3, <2>4, <2>5 DEF PatchInv
<1>8. CASE OtherCommit
  <2>1. /\ next' = 0 /\ report' = Silent /\ rewound' = {} /\ runs' = 0
        /\ Len(log) < MaxLog /\ UNCHANGED <<there, entangled>>
        /\ session' = IF session = "made" THEN "open" ELSE session
    BY <1>8 DEF OtherCommit, Disturbed, Resting
  <2>2. PICK subject \in PatchSet \cup {"other"} :
          /\ log' = Append(log, subject) /\ present' \in SUBSET PatchSet
          /\ astray' = astray \cup ((present \cup ({subject} \cap PatchSet)) \ present')
    BY <1>8 DEF OtherCommit
  <2>3. /\ Handled' /\ SecondRun' /\ AtWork' /\ next' \in 0..(Len(Patches) + 1)
        /\ report' \in [PatchSet -> {"", "ok", "applied", "failed"}]
        /\ rewound' \subseteq PatchSet
    BY <2>1, RestInv
  <2>4. /\ log' \in Seq(PatchSet \cup {"other"}) /\ Len(log') <= MaxLog
        /\ Len(log') = Len(log) + 1 /\ Len(log) \in Nat
        /\ \A i \in 1..Len(log) : log'[i] = log[i]
        /\ log'[Len(log')] = subject
    BY <2>1, <2>2, <1>1, Appended
  <2>5. LogKept'
    <3> SUFFICES ASSUME NEW i \in 1..Len(log') PROVE log'[i] = "other" \/ Kept(log[i])'
      BY DEF LogKept
    <3>1. CASE i \in 1..Len(log)
      <4>1. log'[i] = log[i] /\ (log[i] = "other" \/ log[i] \in present \/ log[i] \in astray)
        BY <3>1, <2>4, <1>1 DEF LogKept, Kept
      <4> QED BY <4>1, <2>2 DEF Kept
    <3>2. CASE i = Len(log')
      <4>1. log'[i] = subject
        BY <3>2, <2>4
      <4> QED BY <4>1, <2>2 DEF Kept
    <3> QED BY <3>1, <3>2, <2>4
  <2>6. session' \in {"none", "open"}
    BY <2>1, <1>1 DEF PatchTypeOK
  <2>7. PatchTypeOK'
    <3>1. astray' \subseteq PatchSet /\ present' \subseteq PatchSet
      BY <2>2, <1>1 DEF PatchTypeOK
    <3>2. runs' \in 0..2
      BY <2>1
    <3> QED BY <3>1, <3>2, <2>1, <2>3, <2>4, <2>6, <1>1 DEF PatchTypeOK
  <2>8. MadeLast' /\ Untouched'
    BY <2>1, <2>6, NoSession DEF MadeLast
  <2> QED BY <2>3, <2>5, <2>7, <2>8 DEF PatchInv
<1>9. CASE Sync
  <2>1. /\ next' = 0 /\ report' = Silent /\ rewound' = {} /\ runs' = 0
        /\ there' \in BOOLEAN /\ log' = <<>> /\ present' = {} /\ astray' = {}
        /\ entangled' \in SUBSET PatchSet /\ session' \in {"none", "open"}
    BY <1>9 DEF Sync, Disturbed, Resting
  <2>2. /\ Handled' /\ SecondRun' /\ AtWork' /\ next' \in 0..(Len(Patches) + 1)
        /\ report' \in [PatchSet -> {"", "ok", "applied", "failed"}]
        /\ rewound' \subseteq PatchSet
    BY <2>1, RestInv
  <2>3. PatchTypeOK'
    <3>1. log' \in Seq(PatchSet \cup {"other"}) /\ Len(log') <= MaxLog
      BY <2>1, EmptyLog
    <3>2. runs' \in 0..2 /\ present' \subseteq PatchSet /\ astray' \subseteq PatchSet
      BY <2>1
    <3>3. session' \in {"none", "open", "made"}
      BY <2>1
    <3> QED BY <3>1, <3>2, <3>3, <2>1, <2>2 DEF PatchTypeOK
  <2>4. LogKept'
    <3>1. (1..Len(log))' = {}
      BY <2>1, EmptyLog
    <3> QED BY <3>1 DEF LogKept
  <2>5. MadeLast' /\ Untouched'
    BY <2>1, NoSession DEF MadeLast
  <2> QED BY <2>2, <2>3, <2>4, <2>5 DEF PatchInv
<1>10. CASE Rest
  <2>1. /\ next \in {0, Len(Patches) + 1} /\ next' = 0 /\ report' = Silent /\ rewound' = {}
        /\ UNCHANGED <<there, log, present, entangled, session, astray, runs>>
    BY <1>10 DEF Rest, Resting, repoVars
  <2>2. /\ Handled' /\ SecondRun' /\ AtWork' /\ next' \in 0..(Len(Patches) + 1)
        /\ report' \in [PatchSet -> {"", "ok", "applied", "failed"}]
        /\ rewound' \subseteq PatchSet
    BY <2>1, RestInv
  <2>3. PatchTypeOK'
    BY <2>1, <2>2, <1>1 DEF PatchTypeOK
  <2>4. LogKept' /\ MadeLast'
    BY <2>1, <1>1, SameLog DEF MadeLast
  <2>5. Untouched'
    <3> SUFFICES ASSUME there', runs' > 0, session' # "none", NEW i \in 1..Len(Patches)
                 PROVE  InLog(Patches[i])'
      BY DEF Untouched
    <3>1. ~AtPatch
      BY <2>1, PatchesFacts DEF AtPatch
    <3>2. InLog(Patches[i])
      BY <3>1, <2>1, <1>1 DEF Untouched, StillToCome
    <3> QED BY <3>2, <2>1 DEF InLog
  <2> QED BY <2>2, <2>3, <2>4, <2>5 DEF PatchInv
<1>11. CASE UNCHANGED patchVars
  <2>1. UNCHANGED <<there, log, present, entangled, session, next, report, astray, rewound, runs>>
    BY <1>11 DEF patchVars, repoVars
  <2>2. PatchTypeOK' /\ LogKept' /\ MadeLast' /\ SecondRun'
    BY <2>1, <1>1, SameLog DEF PatchTypeOK, MadeLast, SecondRun
  <2>3. Handled'
    BY <2>1, <1>1 DEF Handled, Settled
  <2>4. Untouched' /\ AtWork'
    BY <2>1, <1>1 DEF Untouched, StillToCome, InLog, AtPatch, AtWork
  <2> QED BY <2>2, <2>3, <2>4 DEF PatchInv
<1> QED BY <1>3, <1>4, <1>5, <1>6, <1>7, <1>8, <1>9, <1>10, <1>11 DEF PatchNext, Script

\* The script's invariant holds of a repository on which the script is run, killed and
\* run again, with commits and syncs between.
THEOREM ScriptSpec == PatchSpec => []PatchInv
BY PatchInitInv, PatchStepInv, PTL DEF PatchSpec

\* A script that is through has passed every patch.
LEMMA AllPassed ==
  ASSUME ScriptDone, NEW p \in PatchSet
  PROVE  \E i \in 1..(next - 1) : p = Patches[i]
<1>1. PICK i \in 1..Len(Patches) : p = Patches[i]
  BY DEF PatchSet
<1>2. i \in 1..(next - 1)
  BY PatchesFacts DEF ScriptDone
<1> QED BY <1>1, <1>2

\* What a script that is through says of every patch, from its invariant.
LEMMA InvPresentOrFailed == PatchInv => PresentOrFailed
<1> SUFFICES ASSUME PatchInv, ScriptDone, there, NEW p \in PatchSet
             PROVE  p \in present \/ report[p] = "failed" \/ p \in astray \/ p \in rewound
  BY DEF PresentOrFailed
<1>1. PICK i \in 1..(next - 1) : p = Patches[i]
  BY AllPassed
<1> QED BY <1>1 DEF PatchInv, Handled, Settled

\* When apply-patches.sh is through with a repository that is there, each patch is in
\* the tree or was reported FAILED, for any patches and any commits, syncs and kills
\* before, but for subjects of others' commits that line 20 trusts, and the commit
\* that the abort of line 25 takes back.
THEOREM PresentOrFailedHolds == PatchSpec => []PresentOrFailed
BY InvPresentOrFailed, ScriptSpec, PTL

\* Whatever a killed run left, two runs that nobody disturbs mend it: the second fails
\* on patches that conflict and on no other, and the rest is in the tree.
THEOREM HealedHolds == PatchSpec => []Healed
<1>1. PatchInv => Healed
  <2> SUFFICES ASSUME PatchInv, ScriptDone, there, runs = 2, NEW p \in PatchSet
               PROVE  /\ report[p] = "failed" => p \in entangled
                      /\ p \in present \cup entangled \cup astray
    BY DEF Healed
  <2>1. rewound = {} /\ (report[p] = "failed" => p \in entangled)
    BY DEF PatchInv, SecondRun
  <2>2. p \in present \/ report[p] = "failed" \/ p \in astray \/ p \in rewound
    BY InvPresentOrFailed DEF PresentOrFailed
  <2> QED BY <2>1, <2>2
<1> QED BY <1>1, ScriptSpec, PTL

\* Every step of the pipeline is one of apply-patches.sh and its surroundings.
LEMMA StepOfPatches == [CiNext]_ciVars => [PatchNext]_patchVars
<1> SUFFICES ASSUME [CiNext]_ciVars PROVE [PatchNext]_patchVars
  OBVIOUS
<1>1. CASE Dispatch
  BY <1>1 DEF Dispatch, PatchNext
<1>2. CASE PatchStep \/ ScriptLost
  BY <1>2 DEF PatchStep, ScriptLost, PatchNext, Script
<1>3. CASE RepoSync \/ SyncFails
  BY <1>3 DEF RepoSync, SyncFails, PatchNext
<1>4. CASE StartBuild \/ EndBuild \/ Sign \/ Assemble \/ Commit
  BY <1>4 DEF StartBuild, EndBuild, Sign, Assemble, Commit
<1>5. CASE Publish \/ StepFails
  BY <1>5 DEF Publish, StepFails, EndJob, PatchNext
<1>6. CASE Cancel
  BY <1>6 DEF Cancel, PatchNext
<1>7. CASE \E p \in Parts : Make(p)
  BY <1>7 DEF Make
<1>8. CASE ByHand
  BY <1>8 DEF ByHand, PatchNext
<1>9. CASE UNCHANGED ciVars
  BY <1>9 DEF ciVars
<1> QED BY <1>1, <1>2, <1>3, <1>4, <1>5, <1>6, <1>7, <1>8, <1>9 DEF CiNext, Job

\* The script's invariant holds throughout the pipeline.
LEMMA PatchesSpec == CiSpec => []PatchInv
<1>1. CiInit => PatchInv
  BY PatchInitInv DEF CiInit
<1>2. PatchInv /\ [CiNext]_ciVars => PatchInv'
  BY PatchStepInv, StepOfPatches
<1> QED BY <1>1, <1>2, PTL DEF CiSpec

-----------------------------------------------------------------------------
(* The releases.                                                           *)

Here      == [rev |-> rev, present |-> present]
Full      == inputs.target = ""
KeysDist  == inputs.keys => inputs.dist
Built     == pc \in {"sign", "super", "collect"}
Quiet     == calm /\ Full

JobTypes ==
  /\ inputs \in Inputs /\ calm \in BOOLEAN /\ todo \subseteq Parts
  /\ out = [p \in Parts |-> out[p]]

\* From the build on the script is not at work, and if it came to its end nothing has
\* touched the repository since; what an undisturbed full build has made is of the
\* tree as it is.
JobInv ==
  /\ pc = "build" \/ Built => ~AtPatch
  /\ done => pc # "idle" /\ (pc # "repatch" => ScriptDone)
  /\ pc = "build" /\ Quiet => \A p \in Parts \ todo : out[p] = Here
  /\ Built /\ Quiet => (\A p \in Parts : out[p] = Here) /\ (inputs.dist => zip = out)
  /\ pc \in {"super", "collect"} /\ Quiet /\ KeysDist => \A p \in Source : super[p] = Here
  /\ pc = "super" => inputs.keys

CiInv == PatchInv /\ JobTypes /\ JobInv /\ OneRevision /\ PatchedOrReported

\* The inputs and images a job starts from.
LEMMA DefaultsFacts == Defaults \in Inputs /\ NoImages = [p \in Parts |-> NoImages[p]]
BY DEF Defaults, Inputs, NoImages

\* The partitions built from source are among all partitions.
LEMMA SourceParts == Source \subseteq Parts
BY DEF Parts

\* The pipeline's invariant holds before the first job.
LEMMA CiInitInv == CiInit => CiInv
<1> SUFFICES ASSUME CiInit PROVE CiInv
  OBVIOUS
<1>1. /\ PatchInit /\ out = NoImages /\ release = NoRelease
      /\ inputs = Defaults /\ pc = "idle" /\ todo = {} /\ calm = TRUE /\ done = FALSE
  BY DEF CiInit
<1>2. JobTypes
  BY <1>1, DefaultsFacts DEF JobTypes
<1>3. JobInv
  BY <1>1 DEF JobInv, Built
<1>4. ~Regular(release)
  BY <1>1 DEF Regular, NoRelease
<1> QED BY <1>1, <1>2, <1>3, <1>4, PatchInitInv DEF CiInv, OneRevision, PatchedOrReported

\* A step after which nothing is being built or published, and the release is as it
\* was or has been taken back.
LEMMA Apart ==
  ASSUME OneRevision, PatchedOrReported,
         pc' \notin {"build", "sign", "super", "collect"},
         done' => pc' # "idle" /\ (pc' # "repatch" => ScriptDone'),
         release' = release \/ release' = NoRelease
  PROVE  JobInv' /\ OneRevision' /\ PatchedOrReported'
<1>1. JobInv'
  BY DEF JobInv, Built
<1>2. CASE release' = release
  BY <1>2, <1>1 DEF OneRevision, PatchedOrReported, Regular
<1>3. CASE release' = NoRelease
  <2>1. ~Regular(release')
    BY <1>3 DEF Regular, NoRelease
  <2> QED BY <2>1, <1>1 DEF OneRevision, PatchedOrReported
<1> QED BY <1>2, <1>3

\* A step that leaves the release alone leaves what is said of it.
LEMMA SameRelease ==
  ASSUME OneRevision, PatchedOrReported, release' = release
  PROVE  OneRevision' /\ PatchedOrReported'
BY DEF OneRevision, PatchedOrReported, Regular

\* Every step of a job, and all that may come between two, keeps the invariant.
LEMMA CiStepInv == CiInv /\ [CiNext]_ciVars => CiInv'
<1> SUFFICES ASSUME CiInv, [CiNext]_ciVars PROVE CiInv'
  OBVIOUS
<1>1. PatchInv /\ JobTypes /\ JobInv /\ OneRevision /\ PatchedOrReported
  BY DEF CiInv
<1>2. PatchInv'
  BY <1>1, PatchStepInv, StepOfPatches
<1>3. Len(Patches) \in Nat
  BY PatchesFacts
<1> SUFFICES JobTypes' /\ JobInv' /\ OneRevision' /\ PatchedOrReported'
  BY <1>2 DEF CiInv
<1>4. CASE Dispatch
  <2>1. /\ pc' = "patch" /\ inputs' \in Inputs /\ release' = NoRelease
        /\ ~done' /\ UNCHANGED <<out, todo, calm>>
    BY <1>4, <1>1 DEF Dispatch, Goto, JobInv
  <2>2. JobTypes'
    BY <2>1, <1>1 DEF JobTypes
  <2> QED BY <2>1, <2>2, <1>1, Apart
<1>5. CASE PatchStep \/ ScriptLost
  <2>1. /\ UNCHANGED <<out, release, inputs, todo, calm>>
        /\ done' => ScriptDone'
    BY <1>5 DEF PatchStep, ScriptLost, treeVars
  <2>2. pc' \notin {"build", "sign", "super", "collect"} /\ (done' => pc' # "idle")
    <3>1. CASE pc' = pc
      <4>1. AtPatch
        BY <3>1, <1>5 DEF PatchStep, ScriptLost, Step, Goto, Skip, Am, AmFails, KillScript
      <4>2. pc \notin {"build", "sign", "super", "collect"}
        BY <4>1, <1>1 DEF JobInv, Built
      <4>3. pc # "idle" \/ ~done'
        BY <3>1, <1>5 DEF PatchStep, ScriptLost, Step, Goto
      <4> QED BY <3>1, <4>2, <4>3
    <3>2. CASE pc' # pc
      <4>1. pc' \in {"sync", "repatched"}
        BY <3>2, <1>5 DEF PatchStep, ScriptLost, Step, Goto
      <4> QED BY <4>1
    <3> QED BY <3>1, <3>2
  <2>3. JobTypes'
    BY <2>1, <1>1 DEF JobTypes
  <2> QED BY <2>1, <2>2, <2>3, <1>1, Apart
<1>6. CASE RepoSync
  <2>1. pc' = "repatch" /\ UNCHANGED <<out, release, inputs, todo, calm>>
    BY <1>6 DEF RepoSync, Goto
  <2>2. JobTypes'
    BY <2>1, <1>1 DEF JobTypes
  <2> QED BY <2>1, <2>2, <1>1, Apart
<1>7. CASE StartBuild
  <2>1. /\ ~AtPatch /\ pc' = "build" /\ pc # "repatch"
        /\ todo' = IF inputs.target = "" THEN Parts ELSE {"system"}
        /\ UNCHANGED <<next, out, release, inputs, calm, done>>
    BY <1>7 DEF StartBuild, Goto, patchVars, treeVars
  <2>2. todo' \subseteq Parts
    BY <2>1 DEF Parts, Source
  <2>3. JobTypes'
    BY <2>1, <2>2, <1>1 DEF JobTypes
  <2>4. ~AtPatch' /\ (done' => ScriptDone')
    BY <2>1, <1>1 DEF ScriptDone, AtPatch, JobInv
  <2>5. Full' => todo' = Parts
    BY <2>1 DEF Full
  <2>6. JobInv'
    BY <2>1, <2>4, <2>5 DEF JobInv, Built, Quiet
  <2> QED BY <2>1, <2>3, <2>6, <1>1, SameRelease
<1>8. ASSUME NEW p \in Parts, Make(p)
      PROVE  JobTypes' /\ JobInv' /\ OneRevision' /\ PatchedOrReported'
  <2>1. /\ pc = "build" /\ todo' = todo \ {p} /\ p \in todo
        /\ out' = [out EXCEPT ![p] = Here]
        /\ UNCHANGED <<next, present, rev, release, inputs, pc, calm, done>>
    BY <1>8 DEF Make, patchVars, repoVars, Here
  <2>2. out = [q \in Parts |-> out[q]]
    BY <1>1 DEF JobTypes
  <2>3. out' = [q \in Parts |-> out'[q]] /\ out'[p] = Here
        /\ \A q \in Parts : q # p => out'[q] = out[q]
    BY <2>1, <2>2
  <2>4. Here' = Here
    BY <2>1 DEF Here
  <2>5. JobTypes'
    BY <2>1, <2>3, <1>1 DEF JobTypes
  <2>6. ~AtPatch' /\ (done' => ScriptDone')
    BY <2>1, <1>1 DEF ScriptDone, AtPatch, JobInv
  <2>7. Quiet' => \A q \in Parts \ todo' : out'[q] = Here'
    <3> SUFFICES ASSUME Quiet', NEW q \in Parts \ todo' PROVE out'[q] = Here'
      OBVIOUS
    <3>1. Quiet
      BY <2>1 DEF Quiet, Full
    <3> QED BY <3>1, <2>1, <2>3, <2>4, <1>1 DEF JobInv
  <2>8. JobInv'
    BY <2>1, <2>6, <2>7 DEF JobInv, Built
  <2> QED BY <2>1, <2>5, <2>8, <1>1, SameRelease
<1>9. CASE EndBuild
  <2>1. /\ pc = "build" /\ pc' = "sign" /\ todo = {}
        /\ zip' = IF WithDist THEN out ELSE zip
        /\ UNCHANGED <<next, present, rev, out, release, inputs, todo, calm, done>>
    BY <1>9 DEF EndBuild, Goto, patchVars, repoVars
  <2>2. JobTypes'
    BY <2>1, <1>1 DEF JobTypes
  <2>3. ~AtPatch' /\ (done' => ScriptDone')
    BY <2>1, <1>1 DEF ScriptDone, AtPatch, JobInv
  <2>4. ASSUME Quiet'
        PROVE  (\A q \in Parts : out'[q] = Here') /\ (inputs'.dist => zip' = out')
    <3>1. Quiet /\ Full /\ Here' = Here
      BY <2>1, <2>4 DEF Quiet, Full, Here
    <3>2. \A q \in Parts : out[q] = Here
      BY <3>1, <2>1, <1>1 DEF JobInv
    <3>3. inputs.dist => WithDist
      BY <3>1 DEF WithDist, Full
    <3> QED BY <3>1, <3>2, <3>3, <2>1
  <2>5. JobInv'
    BY <2>1, <2>3, <2>4 DEF JobInv, Built
  <2> QED BY <2>1, <2>2, <2>5, <1>1, SameRelease
<1>10. CASE Sign
  <2>1. /\ inputs.keys /\ pc = "sign" /\ pc' = "super"
        /\ super' = [p \in Source |-> zip[p]]
        /\ UNCHANGED <<next, present, rev, out, zip, release, inputs, todo, calm, done>>
    BY <1>10 DEF Sign, Goto, patchVars, repoVars, treeVars
  <2>2. JobTypes'
    BY <2>1, <1>1 DEF JobTypes
  <2>3. ~AtPatch' /\ (done' => ScriptDone')
    BY <2>1, <1>1 DEF ScriptDone, AtPatch, JobInv, Built
  <2>4. Here' = Here /\ Quiet' = Quiet /\ KeysDist' = KeysDist
    BY <2>1 DEF Here, Quiet, Full, KeysDist
  <2>5. Quiet => (\A q \in Parts : out[q] = Here) /\ (inputs.dist => zip = out)
    BY <2>1, <1>1 DEF JobInv, Built
  <2>6. Quiet /\ KeysDist => \A q \in Source : super'[q] = Here
    BY <2>1, <2>5, SourceParts DEF KeysDist
  <2>7. JobInv'
    BY <2>1, <2>3, <2>4, <2>5, <2>6 DEF JobInv, Built
  <2> QED BY <2>1, <2>2, <2>7, <1>1, SameRelease
<1>11. CASE Assemble
  <2>1. /\ pc \in {"sign", "super"} /\ pc' = "collect"
        /\ UNCHANGED <<next, present, rev, out, zip, release, inputs, todo, calm, done>>
        /\ \/ pc = "super" /\ super' = super
           \/ super' = [p \in Source |-> out[p]]
    BY <1>11 DEF Assemble, Goto, patchVars, repoVars, treeVars
  <2>2. JobTypes'
    BY <2>1, <1>1 DEF JobTypes
  <2>3. ~AtPatch' /\ (done' => ScriptDone')
    BY <2>1, <1>1 DEF ScriptDone, AtPatch, JobInv, Built
  <2>4. Here' = Here /\ Quiet' = Quiet /\ KeysDist' = KeysDist
    BY <2>1 DEF Here, Quiet, Full, KeysDist
  <2>5. Quiet => (\A q \in Parts : out[q] = Here) /\ (inputs.dist => zip = out)
    BY <2>1, <1>1 DEF JobInv, Built
  <2>6. Quiet /\ KeysDist => \A q \in Source : super'[q] = Here
    BY <2>1, <2>5, SourceParts, <1>1 DEF JobInv
  <2>7. JobInv'
    BY <2>1, <2>3, <2>4, <2>5, <2>6 DEF JobInv, Built
  <2> QED BY <2>1, <2>2, <2>7, <1>1, SameRelease
<1>12. CASE Publish
  <2>1. /\ pc = "collect" /\ pc' = "idle"
        /\ inputs' = Defaults /\ todo' = {} /\ calm' = TRUE /\ done' = FALSE /\ out' = out
        /\ release' = [image |-> [p \in Parts |-> IF p \in Source THEN super[p] ELSE out[p]],
                       changelog |-> rev, inputs |-> inputs, calm |-> calm,
                       excused |-> Excused]
    BY <1>12 DEF Publish, EndJob, NoJob
  <2>2. JobTypes'
    BY <2>1, <1>1, DefaultsFacts DEF JobTypes
  <2>3. JobInv'
    BY <2>1 DEF JobInv, Built
  <2>4. /\ release'.calm = calm /\ release'.inputs = inputs /\ release'.changelog = rev
        /\ release'.excused = Excused
        /\ \A p \in Parts : release'.image[p] = IF p \in Source THEN super[p] ELSE out[p]
    BY <2>1
  <2>5. ASSUME Regular(release')
        PROVE  \A p \in Parts : release'.image[p] = Here
    <3>1. Quiet /\ KeysDist
      BY <2>4, <2>5 DEF Regular, Quiet, Full, KeysDist
    <3>2. (\A q \in Parts : out[q] = Here) /\ (\A q \in Source : super[q] = Here)
      BY <3>1, <2>1, <1>1 DEF JobInv, Built
    <3> QED BY <3>2, <2>4
  <2>6. OneRevision'
    <3> SUFFICES ASSUME Regular(release'), NEW p \in Parts, NEW q \in Parts
                 PROVE  /\ release'.image[p] = release'.image[q]
                        /\ release'.image[p].rev = release'.changelog
      BY DEF OneRevision
    <3> QED BY <2>5, <2>4 DEF Here
  <2>7. PatchedOrReported'
    <3> SUFFICES ASSUME Regular(release'), NEW x \in PatchSet, NEW p \in Parts
                 PROVE  x \in release'.image[p].present \/ x \in release'.excused
      BY DEF PatchedOrReported
    <3>1. release'.image[p].present = present
      BY <2>5 DEF Here
    <3>2. CASE there /\ done
      <4>1. ScriptDone
        BY <3>2, <2>1, <1>1 DEF JobInv
      <4>2. x \in present \/ report[x] = "failed" \/ x \in astray \/ x \in rewound
        BY <3>2, <4>1, <1>1, InvPresentOrFailed DEF PresentOrFailed
      <4> QED BY <3>1, <3>2, <4>2, <2>4 DEF Excused
    <3>3. CASE ~there \/ ~done
      BY <3>3, <2>4 DEF Excused
    <3> QED BY <3>2, <3>3
  <2> QED BY <2>2, <2>3, <2>6, <2>7
<1>13. CASE StepFails \/ SyncFails \/ Cancel
  <2>1. /\ pc' = "idle" /\ inputs' = Defaults /\ todo' = {} /\ calm' = TRUE
        /\ done' = FALSE /\ UNCHANGED <<out, release>>
    BY <1>13 DEF StepFails, SyncFails, Cancel, EndJob, NoJob, treeVars
  <2>2. JobTypes'
    BY <2>1, <1>1, DefaultsFacts DEF JobTypes
  <2> QED BY <2>1, <2>2, <1>1, Apart
<1>14. CASE Commit
  <2>1. /\ calm' = (calm /\ pc \notin {"build", "sign", "super", "collect"})
        /\ UNCHANGED <<next, out, release, inputs, pc, todo, done>>
    BY <1>14 DEF Commit, patchVars
  <2>2. JobTypes'
    BY <2>1, <1>1 DEF JobTypes
  <2>3. CASE pc \in {"build", "sign", "super", "collect"}
    <3>1. ~calm'
      BY <2>1, <2>3
    <3>2. JobInv'
      BY <3>1, <2>1, <1>1 DEF JobInv, Quiet, Built, ScriptDone, AtPatch
    <3> QED BY <3>2, <2>1, <2>2, <1>1, SameRelease
  <2>4. CASE pc \notin {"build", "sign", "super", "collect"}
    <3>1. done' => pc' # "idle" /\ (pc' # "repatch" => ScriptDone')
      BY <2>1, <1>1 DEF JobInv, ScriptDone
    <3> QED BY <3>1, <2>4, <2>1, <2>2, <1>1, Apart
  <2> QED BY <2>3, <2>4
<1>15. CASE ByHand
  <2>1. pc = "idle" /\ ~done' /\ UNCHANGED <<out, release, inputs, pc, todo, calm>>
    BY <1>15, <1>1 DEF ByHand, treeVars, jobVars, JobInv
  <2>2. JobTypes'
    BY <2>1, <1>1 DEF JobTypes
  <2> QED BY <2>1, <2>2, <1>1, Apart
<1>16. CASE UNCHANGED ciVars
  <2>1. /\ UNCHANGED <<next, present, rev, out, zip, release>>
        /\ UNCHANGED <<inputs, pc, todo, super, calm, done>>
    BY <1>16 DEF ciVars, patchVars, repoVars, treeVars, jobVars
  <2>2. JobTypes'
    BY <2>1, <1>1 DEF JobTypes
  <2>3. /\ ScriptDone' = ScriptDone /\ AtPatch' = AtPatch /\ Here' = Here /\ Built' = Built
        /\ Quiet' = Quiet /\ KeysDist' = KeysDist
    BY <2>1 DEF ScriptDone, AtPatch, Here, Built, Quiet, Full, KeysDist
  <2>4. JobInv'
    BY <2>1, <2>3, <1>1 DEF JobInv
  <2> QED BY <2>1, <2>2, <2>4, <1>1, SameRelease
<1> QED BY <1>4, <1>5, <1>6, <1>7, <1>8, <1>9, <1>10, <1>11, <1>12, <1>13, <1>14,
           <1>15, <1>16 DEF CiNext, Job

\* The pipeline's invariant holds of any sequence of jobs: what a running job has of
\* the source it was synced to, and what its release will hold.
THEOREM ReleaseSpec == CiSpec => []CiInv
BY CiInitInv, CiStepInv, PTL DEF CiSpec

\* Of any number of jobs that fail or are cancelled at any step in the same tree, a
\* regular one publishes images of one source, which its changelog names.
THEOREM OneRevisionHolds == CiSpec => []OneRevision
<1>1. CiInv => OneRevision
  BY DEF CiInv
<1> QED BY <1>1, ReleaseSpec, PTL

\* A patch that a regular release lacks was reported FAILED by its job, unless the
\* job's log says that the repository was not found or lacks the script's "done.", or
\* the patch was lost by others' commits or by an abort.
THEOREM PatchedOrReportedHolds == CiSpec => []PatchedOrReported
<1>1. CiInv => PatchedOrReported
  BY DEF CiInv
<1> QED BY <1>1, ReleaseSpec, PTL
=============================================================================
