--------------------------- MODULE ClosureProofs ---------------------------
(***************************************************************************)
(* Theorems about the blob lists, for every dump, every set of tables and  *)
(* any number of edits and kills.                                          *)
(***************************************************************************)
EXTENDS ClosureProps, TLAPS

\* The lines a run writes are lines, one for each of its files.
LEMMA NewLines ==
  ASSUME TypeOK
  PROVE  /\ NewListing \subseteq Lines
         /\ {l.blob : l \in NewListing} = files
         /\ \A l \in NewListing : /\ l.mark = prefixes[l.blob]
                                  /\ l.args = ArgsOf(l.blob, files, loaded)
<1>1. \A b \in files : ArgsOf(b, files, loaded) \in SUBSET Args
  BY DEF ArgsOf, Args
<1>2. \A b \in files : b \in Blob /\ prefixes[b] \in Marks \cup {NoMark}
  BY DEF TypeOK
<1>3. NewListing \subseteq Lines
  BY <1>1, <1>2 DEF NewListing, Lines
<1>4. {l.blob : l \in NewListing} = files
  <2>1. ASSUME NEW l \in NewListing PROVE l.blob \in files
    BY DEF NewListing
  <2>2. ASSUME NEW b \in files PROVE \E l \in NewListing : l.blob = b
    <3>1. [blob |-> b, mark |-> prefixes[b], args |-> ArgsOf(b, files, loaded)]
            \in NewListing
      BY DEF NewListing
    <3> QED BY <3>1
  <2> QED BY <2>1, <2>2
<1>5. \A l \in NewListing : /\ l.mark = prefixes[l.blob]
                            /\ l.args = ArgsOf(l.blob, files, loaded)
  BY DEF NewListing
<1> QED
  BY <1>3, <1>4, <1>5

\* A marker that is put before a line changes nothing else of it.
LEMMA Remarked ==
  ASSUME NEW l \in Lines, NEW m \in Marks \cup {NoMark}
  PROVE  /\ [l EXCEPT !.mark = m] \in Lines
         /\ [l EXCEPT !.mark = m].blob = l.blob
  BY DEF Lines

\* A line is its blob, its marker and its arguments.
LEMMA LineEquality ==
  ASSUME NEW k \in Lines, NEW l \in Lines,
         k.blob = l.blob, k.mark = l.mark, k.args = l.args
  PROVE  k = l
  BY DEF Lines

-----------------------------------------------------------------------------
(* Types.                                                                  *)

\* The initial states have the types of TypeOK.
LEMMA InitType == Init => TypeOK
<1> SUFFICES ASSUME Init PROVE TypeOK
  OBVIOUS
<1>1. dump \in [Blob -> {"absent", "file", "link"}]
  BY DEF Init
<1>2. prefixes \in [Blob -> Marks \cup {NoMark}]
  BY DEF Init
<1>3. edits \in 0..MaxEdits
  BY BlobAssumption DEF Init
<1>4. clean \in BOOLEAN /\ finished \in BOOLEAN
  BY DEF Init
<1>5. /\ tables \in Tables /\ loaded \in Tables
      /\ listing = {} /\ before = {} /\ pcf = {} /\ files = {} /\ missing = {}
      /\ pc = "idle" /\ calm = 0
  BY DEF Init
<1> QED
  BY <1>1, <1>2, <1>3, <1>4, <1>5 DEF TypeOK

\* A disturbance is counted and resets the history of calm.
LEMMA DisturbType ==
  ASSUME TypeOK, Disturb
  PROVE  edits' \in 0..MaxEdits /\ calm' \in 0..3 /\ clean' \in BOOLEAN
<1>1. clean' \in BOOLEAN
  BY DEF Disturb
<1>2. calm' \in 0..3
  BY DEF Disturb
<1>3. edits' \in 0..MaxEdits
  <2>1. edits \in 0..MaxEdits /\ MaxEdits \in Nat
    BY BlobAssumption DEF TypeOK
  <2>2. edits < MaxEdits /\ edits' = edits + 1
    BY DEF Disturb
  <2> QED BY <2>1, <2>2
<1> QED
  BY <1>1, <1>2, <1>3

\* The marker a run finds for a path is a marker.
LEMMA PrefixType ==
  ASSUME TypeOK, LoadPrefixes
  PROVE  prefixes' \in [Blob -> Marks \cup {NoMark}]
<1>1. \A b \in Blob : MarkOf(b) \subseteq Marks \cup {NoMark}
  BY DEF MarkOf, TypeOK, Lines
<1>2. ASSUME NEW b \in Blob
      PROVE  (IF MarkOf(b) = {} THEN NoMark ELSE CHOOSE m \in MarkOf(b) : TRUE)
               \in Marks \cup {NoMark}
  <2>1. CASE MarkOf(b) = {}
    BY <2>1
  <2>2. CASE MarkOf(b) # {}
    <3>1. (CHOOSE m \in MarkOf(b) : TRUE) \in MarkOf(b)
      BY <2>2
    <3> QED BY <2>2, <3>1, <1>1
  <2> QED BY <2>1, <2>2
<1> QED
  BY <1>2 DEF LoadPrefixes

\* Every step keeps the types.
LEMMA NextType == TypeOK /\ [Next]_vars => TypeOK'
<1> SUFFICES ASSUME TypeOK, [Next]_vars PROVE TypeOK'
  OBVIOUS
<1> USE DEF runVars, outVars, historyVars
<1>a. Disturb => edits' \in 0..MaxEdits /\ calm' \in 0..3 /\ clean' \in BOOLEAN
  BY DisturbType
<1>1. CASE UNCHANGED vars
  BY <1>1 DEF TypeOK, vars
<1>2. ASSUME NEW b \in Blob, NEW k \in {"absent", "file", "link"}, ChangeDump(b, k)
      PROVE  TypeOK'
  <2>1. dump' \in [Blob -> {"absent", "file", "link"}]
    BY <1>2 DEF ChangeDump, TypeOK
  <2>2. Disturb
    BY <1>2 DEF ChangeDump
  <2> QED BY <2>1, <2>2, <1>2, <1>a DEF ChangeDump, TypeOK
<1>3. ASSUME NEW t \in Tables, EditTables(t)
      PROVE  TypeOK'
  <2>1. Disturb
    BY <1>3 DEF EditTables
  <2> QED BY <2>1, <1>3, <1>a DEF EditTables, TypeOK
<1>4. ASSUME NEW l \in listing, NEW m \in Marks \cup {NoMark}, SetMark(l, m)
      PROVE  TypeOK'
  <2>1. Disturb
    BY <1>4 DEF SetMark
  <2>2. l \in Lines
    BY DEF TypeOK
  <2>3. listing' \subseteq Lines
    BY <1>4, <2>2, Remarked DEF SetMark, TypeOK
  <2> QED BY <2>1, <2>3, <1>4, <1>a DEF SetMark, TypeOK
<1>5. CASE Start
  BY <1>5 DEF Start, Step, TypeOK
<1>6. CASE EmitPcf
  BY <1>6 DEF EmitPcf, Step, TypeOK, Bypassed, Regular
<1>7. CASE Enumerate
  BY <1>7 DEF Enumerate, Step, TypeOK, Listed, Regular
<1>8. CASE LoadPrefixes
  BY <1>8, PrefixType DEF LoadPrefixes, Step, TypeOK
<1>9. CASE Report
  BY <1>9 DEF Report, Step, TypeOK
<1>10. CASE Emit
  <2>1. calm' \in 0..3
    BY <1>10 DEF Emit, TypeOK
  <2>2. listing' \subseteq Lines
    BY <1>10, NewLines DEF Emit
  <2> QED BY <2>1, <2>2, <1>10 DEF Emit, Step, TypeOK
<1>11. CASE Kill
  <2>1. Disturb
    BY <1>11 DEF Kill
  <2>2. listing' \subseteq Lines
    BY <1>11, NewLines DEF Kill, TypeOK
  <2>3. pcf' \subseteq Blob
    BY <1>11 DEF Kill, TypeOK, Bypassed, Regular
  <2>4. missing' \subseteq Baseline /\ finished' \in BOOLEAN
    BY <1>11 DEF Kill, TypeOK
  <2>5. pc' = "idle" /\ UNCHANGED <<dump, tables, loaded, files, prefixes, before>>
    BY <1>11 DEF Kill
  <2> QED BY <2>1, <2>2, <2>3, <2>4, <2>5, <1>a DEF TypeOK
<1> QED
  BY <1>1, <1>2, <1>3, <1>4, <1>5, <1>6, <1>7, <1>8, <1>9, <1>10, <1>11
     DEF Next, Developer, Run

\* The generator never leaves its types: whatever a kill leaves of a list, the
\* next run reads lines and markers.
THEOREM ClosureTypeCorrect == Spec => []TypeOK
<1> QED
  BY InitType, NextType, PTL DEF Spec

-----------------------------------------------------------------------------
(* One home for each blob.  A run is past a step of main() when pc says so. *)

PastPcf  == pc \in {"walk", "load", "report", "emit"}
PastWalk == pc \in {"load", "report", "emit"}
PastLoad == pc \in {"report", "emit"}

\* The run's first list stays inside the bypass table it loaded, its second one
\* outside, whatever happens to the dump.
ByTables ==
  /\ PastPcf  => pcf \subseteq loaded.bypass
  /\ PastWalk => files \cap loaded.bypass = {}

HomeInv == ByTables /\ OneHome

\* Every step keeps the two lists of a run apart.
LEMMA NextHome == TypeOK /\ HomeInv /\ [Next]_vars => HomeInv'
<1> SUFFICES ASSUME TypeOK, HomeInv, [Next]_vars PROVE HomeInv'
  OBVIOUS
<1> USE DEF runVars, outVars, historyVars
<1>1. CASE UNCHANGED vars
  BY <1>1 DEF HomeInv, ByTables, OneHome, ListedBlobs, PastPcf, PastWalk, vars
<1>2. CASE \/ \E b \in Blob : \E k \in {"absent", "file", "link"} : ChangeDump(b, k)
           \/ \E t \in Tables : EditTables(t)
           \/ Start
  <2>1. UNCHANGED <<pcf, listing, files, finished>>
    BY <1>2 DEF ChangeDump, EditTables, Start
  <2>2. ByTables'
    BY <1>2 DEF HomeInv, ByTables, PastPcf, PastWalk, ChangeDump, EditTables,
                Start, Step
  <2>3. OneHome'
    BY <2>1 DEF HomeInv, OneHome, ListedBlobs
  <2> QED BY <2>2, <2>3 DEF HomeInv
<1>3. ASSUME NEW l \in listing, NEW m \in Marks \cup {NoMark}, SetMark(l, m)
      PROVE  HomeInv'
  <2>1. l \in Lines
    BY DEF TypeOK
  <2>2. [l EXCEPT !.mark = m].blob = l.blob
    BY <2>1, Remarked
  <2>3. listing' = (listing \ {l}) \cup {[l EXCEPT !.mark = m]}
    BY <1>3 DEF SetMark
  <2>4. ListedBlobs' \subseteq ListedBlobs
    BY <2>2, <2>3 DEF ListedBlobs
  <2>5. UNCHANGED <<pc, loaded, pcf, files, finished>>
    BY <1>3 DEF SetMark
  <2>6. ByTables'
    BY <2>5 DEF HomeInv, ByTables, PastPcf, PastWalk
  <2>7. OneHome'
    BY <2>4, <2>5 DEF HomeInv, OneHome
  <2> QED BY <2>6, <2>7 DEF HomeInv
<1>4. CASE EmitPcf
  <2>1. ~finished'
    BY <1>4 DEF EmitPcf
  <2>2. ByTables'
    BY <1>4 DEF EmitPcf, Step, ByTables, PastPcf, PastWalk, Bypassed
  <2> QED BY <2>1, <2>2 DEF HomeInv, OneHome
<1>5. CASE Enumerate
  <2>1. ByTables'
    BY <1>5 DEF Enumerate, Step, HomeInv, ByTables, PastPcf, PastWalk, Listed
  <2>2. OneHome'
    BY <1>5 DEF Enumerate, HomeInv, OneHome, ListedBlobs
  <2> QED BY <2>1, <2>2 DEF HomeInv
<1>6. CASE LoadPrefixes \/ Report
  <2>1. UNCHANGED <<loaded, pcf, listing, files, finished>>
    BY <1>6 DEF LoadPrefixes, Report
  <2>2. PastPcf /\ PastWalk
    BY <1>6 DEF LoadPrefixes, Report, Step, PastPcf, PastWalk
  <2>3. ByTables'
    BY <2>1, <2>2 DEF HomeInv, ByTables
  <2>4. OneHome'
    BY <2>1 DEF HomeInv, OneHome, ListedBlobs
  <2> QED BY <2>3, <2>4 DEF HomeInv
<1>7. CASE Emit
  <2>1. PastPcf /\ PastWalk
    BY <1>7 DEF Emit, Step, PastPcf, PastWalk
  <2>2. ListedBlobs' = files
    BY <1>7, NewLines DEF Emit, ListedBlobs
  <2>3. pcf' = pcf /\ pc' = "idle"
    BY <1>7 DEF Emit, Step
  <2>4. OneHome'
    BY <2>1, <2>2, <2>3 DEF HomeInv, ByTables, OneHome
  <2>5. ByTables'
    BY <2>3 DEF ByTables, PastPcf, PastWalk
  <2> QED BY <2>4, <2>5 DEF HomeInv
<1>8. CASE Kill
  <2>1. ByTables'
    BY <1>8 DEF Kill, ByTables, PastPcf, PastWalk
  <2>2. \/ ~finished'
        \/ UNCHANGED <<listing, pcf, finished>>
    BY <1>8 DEF Kill
  <2>3. OneHome'
    BY <2>2 DEF HomeInv, OneHome, ListedBlobs
  <2> QED BY <2>1, <2>3 DEF HomeInv
<1> QED
  BY <1>1, <1>2, <1>3, <1>4, <1>5, <1>6, <1>7, <1>8 DEF Next, Developer, Run

\* No blob is in both lists of a completed run, however the dump changed between
\* its two walks and the tables after it had loaded them.
THEOREM OneHomeAlways == Spec => []OneHome
<1>1. Init => HomeInv
  BY DEF Init, HomeInv, ByTables, OneHome, PastPcf, PastWalk
<1>2. HomeInv => OneHome
  BY DEF HomeInv
<1> QED
  BY <1>1, <1>2, NextHome, ClosureTypeCorrect, PTL DEF Spec

-----------------------------------------------------------------------------
(* Undisturbed runs.                                                       *)

\* What an undisturbed run has read still is what is there.
CleanRun ==
  /\ calm >= 1 => clean
  /\ clean =>
       /\ pc # "idle" => loaded = tables /\ before = listing
       /\ PastPcf  => pcf = Bypassed(tables)
       /\ PastWalk => files = Listed(tables)
       /\ PastLoad => \A b \in Blob :
            prefixes[b] = IF MarkOf(b) = {} THEN NoMark
                          ELSE CHOOSE m \in MarkOf(b) : TRUE

\* After one undisturbed run each listed blob has one line, with the arguments
\* of the current tables ...
Shaped ==
  calm >= 1 =>
    /\ \A l \in listing : l.args = ArgsOf(l.blob, Listed(tables), tables)
    /\ \A k, l \in listing : k.blob = l.blob => k = l

\* ... and after two no line with arguments has a marker.
Faded == calm >= 2 => \A l \in listing : l.args # {} => l.mark = NoMark

SettleInv == CleanRun /\ Shipped /\ Shaped /\ Faded /\ Settles

\* A disturbance voids the promise: there is nothing left to keep.
LEMMA Disturbed == Disturb => SettleInv'
<1> SUFFICES ASSUME Disturb PROVE SettleInv'
  OBVIOUS
<1>1. calm' = 0
  BY DEF Disturb
<1>2. ~clean'
  BY DEF Disturb
<1>3. ~(calm' >= 1) /\ ~(calm' >= 2) /\ ~(calm' >= 3)
  BY <1>1
<1> QED
  BY <1>2, <1>3 DEF SettleInv, CleanRun, Shipped, Shaped, Faded, Settles

\* The marker a run finds for a path with one line: that of the line if it has no
\* arguments, none otherwise.
LEMMA FoundMark ==
  ASSUME NEW l \in listing, \A k \in listing : k.blob = l.blob => k = l
  PROVE  /\ l.args = {} => MarkOf(l.blob) = {l.mark}
         /\ l.args # {} => MarkOf(l.blob) = {}
<1>1. CASE l.args = {}
  <2>1. {k \in listing : k.blob = l.blob /\ k.args = {}} = {l}
    BY <1>1
  <2> QED BY <1>1, <2>1 DEF MarkOf
<1>2. CASE l.args # {}
  <2>1. {k \in listing : k.blob = l.blob /\ k.args = {}} = {}
    BY <1>2
  <2> QED BY <1>2, <2>1 DEF MarkOf
<1> QED
  BY <1>1, <1>2

\* The steps before the listing is rewritten keep what is promised of the lists:
\* EmitPcf writes again what is there, the others write neither.
LEMMA ReadingSettle ==
  ASSUME TypeOK, SettleInv, EmitPcf \/ Enumerate \/ LoadPrefixes \/ Report
  PROVE  SettleInv'
<1> USE DEF runVars, outVars, historyVars
<1>1. UNCHANGED <<dump, tables, listing, loaded, before, calm, clean>> /\ pc # "idle"
  BY DEF EmitPcf, Enumerate, LoadPrefixes, Report, Step
<1>2. calm >= 1 => clean
  BY DEF SettleInv, CleanRun
<1>3. clean => loaded = tables /\ before = listing
  BY <1>1 DEF SettleInv, CleanRun
<1>4. clean /\ PastPcf' => pcf' = Bypassed(tables)
  <2>1. CASE EmitPcf
    BY <2>1, <1>3 DEF EmitPcf
  <2>2. CASE Enumerate \/ LoadPrefixes \/ Report
    <3>1. PastPcf /\ pcf' = pcf
      BY <2>2 DEF Enumerate, LoadPrefixes, Report, Step, PastPcf
    <3> QED BY <3>1 DEF SettleInv, CleanRun
  <2> QED BY <2>1, <2>2
<1>5. clean /\ PastWalk' => files' = Listed(tables)
  <2>1. CASE EmitPcf
    BY <2>1 DEF EmitPcf, Step, PastWalk
  <2>2. CASE Enumerate
    BY <2>2, <1>3 DEF Enumerate
  <2>3. CASE LoadPrefixes \/ Report
    <3>1. PastWalk /\ files' = files
      BY <2>3 DEF LoadPrefixes, Report, Step, PastWalk
    <3> QED BY <3>1 DEF SettleInv, CleanRun
  <2> QED BY <2>1, <2>2, <2>3
<1>6. clean /\ PastLoad' =>
        \A b \in Blob : prefixes'[b] = IF MarkOf(b) = {} THEN NoMark
                                       ELSE CHOOSE m \in MarkOf(b) : TRUE
  <2>1. CASE EmitPcf \/ Enumerate
    BY <2>1 DEF EmitPcf, Enumerate, Step, PastLoad
  <2>2. CASE LoadPrefixes
    BY <2>2 DEF LoadPrefixes
  <2>3. CASE Report
    <3>1. PastLoad /\ prefixes' = prefixes
      BY <2>3 DEF Report, Step, PastLoad
    <3> QED BY <3>1 DEF SettleInv, CleanRun
  <2> QED BY <2>1, <2>2, <2>3
<1>7. /\ Bypassed(tables)' = Bypassed(tables)
      /\ Listed(tables)' = Listed(tables)
      /\ \A b \in Blob : MarkOf(b)' = MarkOf(b)
  BY <1>1 DEF Bypassed, Listed, Regular, MarkOf
<1>8. CleanRun'
  BY <1>1, <1>2, <1>3, <1>4, <1>5, <1>6, <1>7 DEF CleanRun
<1>9. Shipped'
  <2>1. calm >= 1 => ListedBlobs = Listed(tables) /\ pcf = Bypassed(tables)
    BY DEF SettleInv, Shipped
  <2>2. calm >= 1 => pcf' = Bypassed(tables)
    <3>1. CASE EmitPcf
      BY <3>1, <1>2, <1>3 DEF EmitPcf
    <3>2. CASE Enumerate \/ LoadPrefixes \/ Report
      BY <3>2, <2>1 DEF Enumerate, LoadPrefixes, Report
    <3> QED BY <3>1, <3>2
  <2>3. ListedBlobs' = ListedBlobs
    BY <1>1 DEF ListedBlobs
  <2> QED BY <2>1, <2>2, <2>3, <1>1, <1>7 DEF Shipped
<1>10. Shaped' /\ Faded' /\ Settles'
  BY <1>1, <1>7 DEF SettleInv, Shaped, Faded, Settles
<1> QED
  BY <1>8, <1>9, <1>10 DEF SettleInv

\* A run that starts loads the tables that are there.
LEMMA StartSettle ==
  ASSUME TypeOK, SettleInv, Start
  PROVE  SettleInv'
<1> USE DEF runVars, outVars, historyVars
<1>1. /\ UNCHANGED <<dump, tables, listing, pcf, calm>>
      /\ pc' = "pcf" /\ loaded' = tables /\ before' = listing
  BY DEF Start, Step, runVars, outVars
<1>2. clean'
  BY DEF Start
<1>3. CleanRun'
  BY <1>1, <1>2 DEF CleanRun, PastPcf, PastWalk, PastLoad
<1>4. /\ Bypassed(tables)' = Bypassed(tables)
      /\ Listed(tables)' = Listed(tables)
      /\ ListedBlobs' = ListedBlobs
  BY <1>1 DEF Bypassed, Listed, Regular, ListedBlobs
<1>5. Shipped'
  BY <1>1, <1>4 DEF SettleInv, Shipped
<1>6. Shaped' /\ Faded' /\ Settles'
  BY <1>1, <1>4 DEF SettleInv, Shaped, Faded, Settles
<1> QED
  BY <1>3, <1>5, <1>6 DEF SettleInv

\* The end of an undisturbed run: the new listing has a line for each listed blob,
\* with the arguments of the tables and the marker that was found.
LEMMA EmitLines ==
  ASSUME TypeOK, SettleInv, Emit, clean
  PROVE  /\ UNCHANGED <<dump, tables, pcf, before>>
         /\ pcf = Bypassed(tables) /\ before = listing
         /\ ListedBlobs' = Listed(tables)
         /\ \A l \in listing' :
              /\ l \in Lines
              /\ l.args = ArgsOf(l.blob, Listed(tables), tables)
              /\ l.mark = IF MarkOf(l.blob) = {} THEN NoMark
                          ELSE CHOOSE m \in MarkOf(l.blob) : TRUE
<1>1. UNCHANGED <<dump, tables, pcf, before>> /\ pc = "emit" /\ listing' = NewListing
  BY DEF Emit, Step
<1>2. PastPcf /\ PastWalk /\ PastLoad /\ pc # "idle"
  BY <1>1 DEF PastPcf, PastWalk, PastLoad
<1>3. /\ loaded = tables /\ before = listing
      /\ pcf = Bypassed(tables) /\ files = Listed(tables)
  BY <1>2 DEF SettleInv, CleanRun
<1>4. \A b \in Blob : prefixes[b] = IF MarkOf(b) = {} THEN NoMark
                                    ELSE CHOOSE m \in MarkOf(b) : TRUE
  BY <1>2 DEF SettleInv, CleanRun
<1>5. /\ NewListing \subseteq Lines
      /\ {l.blob : l \in NewListing} = files
      /\ \A l \in NewListing : /\ l.mark = prefixes[l.blob]
                               /\ l.args = ArgsOf(l.blob, files, loaded)
  BY NewLines
<1>6. ListedBlobs' = Listed(tables)
  BY <1>1, <1>3, <1>5 DEF ListedBlobs
<1>7. ASSUME NEW l \in listing'
      PROVE  /\ l \in Lines
             /\ l.args = ArgsOf(l.blob, Listed(tables), tables)
             /\ l.mark = IF MarkOf(l.blob) = {} THEN NoMark
                         ELSE CHOOSE m \in MarkOf(l.blob) : TRUE
  <2>1. l \in NewListing /\ l \in Lines
    BY <1>1, <1>5
  <2>2. l.blob \in Blob
    BY <2>1 DEF Lines
  <2>3. l.mark = prefixes[l.blob]
    BY <2>1, <1>5
  <2>4. l.args = ArgsOf(l.blob, Listed(tables), tables)
    BY <2>1, <1>3, <1>5
  <2> QED BY <2>1, <2>2, <2>3, <2>4, <1>4
<1> QED
  BY <1>1, <1>3, <1>6, <1>7

\* Once a run was undisturbed, each new line has the blob and arguments of an old
\* one, and the marker of that one unless it has arguments.
LEMMA SameLines ==
  ASSUME TypeOK, SettleInv, Emit, clean, calm >= 1, NEW l \in listing',
         NEW o \in listing, o.blob = l.blob
  PROVE  /\ l.args = o.args
         /\ l.args # {} => l.mark = NoMark
         /\ l.args = {} => l = o
<1>1. /\ o.args = ArgsOf(o.blob, Listed(tables), tables)
      /\ \A k \in listing : k.blob = o.blob => k = o
  BY DEF SettleInv, Shaped
<1>2. /\ l \in Lines
      /\ l.args = ArgsOf(l.blob, Listed(tables), tables)
      /\ l.mark = IF MarkOf(l.blob) = {} THEN NoMark
                  ELSE CHOOSE m \in MarkOf(l.blob) : TRUE
  BY EmitLines
<1>3. /\ o.args = {} => MarkOf(o.blob) = {o.mark}
      /\ o.args # {} => MarkOf(o.blob) = {}
  BY <1>1, FoundMark
<1>4. l.args = o.args
  BY <1>1, <1>2
<1>5. l.args # {} => l.mark = NoMark
  BY <1>2, <1>3, <1>4
<1>6. ASSUME l.args = {} PROVE l = o
  <2>1. MarkOf(l.blob) = {o.mark}
    BY <1>3, <1>4, <1>6
  <2>2. l.mark = o.mark
    BY <2>1, <1>2
  <2>3. o \in Lines
    BY DEF TypeOK
  <2> QED BY <2>2, <2>3, <1>2, <1>4, LineEquality
<1> QED
  BY <1>4, <1>5, <1>6

\* The end of a run keeps what is promised of the lists.
LEMMA EmitSettle ==
  ASSUME TypeOK, SettleInv, Emit
  PROVE  SettleInv'
<1>1. calm \in 0..3 /\ pc' = "idle"
  BY DEF Emit, Step, TypeOK
<1>2. CASE ~clean
  <2>1. calm' = 0
    BY <1>2 DEF Emit
  <2>2. ~clean'
    BY <1>2 DEF Emit
  <2>3. ~(calm' >= 1) /\ ~(calm' >= 2) /\ ~(calm' >= 3)
    BY <2>1
  <2> QED BY <2>2, <2>3 DEF SettleInv, CleanRun, Shipped, Shaped, Faded, Settles
<1>3. CASE clean
  <2>1. /\ UNCHANGED <<dump, tables, pcf, before>>
        /\ pcf = Bypassed(tables) /\ before = listing
        /\ ListedBlobs' = Listed(tables)
    BY <1>3, EmitLines
  <2>2. \A l \in listing' :
          /\ l \in Lines
          /\ l.args = ArgsOf(l.blob, Listed(tables), tables)
          /\ l.mark = IF MarkOf(l.blob) = {} THEN NoMark
                      ELSE CHOOSE m \in MarkOf(l.blob) : TRUE
    BY <1>3, EmitLines
  <2>3. clean'
    BY <1>3 DEF Emit
  <2>4. calm' = IF calm < 3 THEN calm + 1 ELSE 3
    BY <1>3 DEF Emit
  <2>5. Bypassed(tables)' = Bypassed(tables) /\ Listed(tables)' = Listed(tables)
    BY <2>1 DEF Bypassed, Listed, Regular
  <2>6. CleanRun'
    BY <1>1, <2>3 DEF CleanRun, PastPcf, PastWalk, PastLoad
  <2>7. Shipped'
    BY <2>1, <2>5 DEF Shipped
  <2>8. Shaped'
    <3>1. \A l \in listing' : l.args = ArgsOf(l.blob, Listed(tables), tables)
      BY <2>2
    <3>2. ASSUME NEW k \in listing', NEW l \in listing', k.blob = l.blob
          PROVE  k = l
      <4>1. k \in Lines /\ l \in Lines /\ k.args = l.args /\ k.mark = l.mark
        BY <2>2, <3>2
      <4> QED BY <3>2, <4>1, LineEquality
    <3> QED BY <3>1, <3>2, <2>1, <2>5 DEF Shaped
  <2>9. ASSUME calm >= 1
        PROVE  \A l \in listing' : \E o \in listing : o.blob = l.blob
    BY <2>1, <2>9 DEF SettleInv, Shipped, ListedBlobs
  <2>10. Faded'
    <3>1. SUFFICES ASSUME calm >= 1, NEW l \in listing', l.args # {}
                   PROVE  l.mark = NoMark
      BY <1>1, <2>4 DEF Faded
    <3>2. PICK o \in listing : o.blob = l.blob
      BY <3>1, <2>9
    <3> QED BY <1>3, <3>1, <3>2, SameLines
  <2>11. Settles'
    <3>1. SUFFICES ASSUME calm >= 2 PROVE listing' = listing
      BY <1>1, <2>1, <2>4 DEF Settles
    <3>2. calm >= 1
      BY <1>1, <3>1
    <3>3. ASSUME NEW l \in listing', NEW o \in listing, o.blob = l.blob
          PROVE  l = o
      <4>1. /\ l.args = o.args
            /\ l.args # {} => l.mark = NoMark
            /\ l.args = {} => l = o
        BY <1>3, <3>2, <3>3, SameLines
      <4>2. o.args # {} => o.mark = NoMark
        BY <3>1 DEF SettleInv, Faded
      <4>3. l \in Lines /\ o \in Lines
        BY <2>2 DEF TypeOK
      <4> QED BY <3>3, <4>1, <4>2, <4>3, LineEquality
    <3>4. \A l \in listing' : l \in listing
      BY <3>2, <3>3, <2>9
    <3>5. ASSUME NEW o \in listing PROVE o \in listing'
      <4>1. o.blob \in ListedBlobs'
        BY <3>2, <2>1 DEF SettleInv, Shipped, ListedBlobs
      <4>2. PICK l \in listing' : l.blob = o.blob
        BY <4>1 DEF ListedBlobs
      <4> QED BY <4>2, <3>3
    <3> QED BY <3>4, <3>5
  <2> QED BY <2>6, <2>7, <2>8, <2>10, <2>11 DEF SettleInv
<1> QED
  BY <1>2, <1>3

\* Every step keeps what is promised of undisturbed runs.
LEMMA NextSettle == TypeOK /\ SettleInv /\ [Next]_vars => SettleInv'
<1> SUFFICES ASSUME TypeOK, SettleInv, [Next]_vars PROVE SettleInv'
  OBVIOUS
<1>1. CASE UNCHANGED vars
  <2>1. UNCHANGED <<dump, tables, listing, pcf, pc, loaded, files, prefixes,
                    before, calm, clean>>
    BY <1>1 DEF vars, outVars, runVars, historyVars
  <2>2. /\ Listed(tables)' = Listed(tables)
        /\ Bypassed(tables)' = Bypassed(tables)
        /\ ListedBlobs' = ListedBlobs
        /\ \A b \in Blob : MarkOf(b)' = MarkOf(b)
    BY <2>1 DEF Listed, Bypassed, Regular, ListedBlobs, MarkOf
  <2>3. (PastPcf' <=> PastPcf) /\ (PastWalk' <=> PastWalk) /\ (PastLoad' <=> PastLoad)
    BY <2>1 DEF PastPcf, PastWalk, PastLoad
  <2>4. CleanRun'
    BY <2>1, <2>2, <2>3 DEF SettleInv, CleanRun
  <2>5. Shipped' /\ Shaped' /\ Faded' /\ Settles'
    BY <2>1, <2>2 DEF SettleInv, Shipped, Shaped, Faded, Settles
  <2> QED BY <2>4, <2>5 DEF SettleInv
<1>2. Developer \/ Kill => Disturb
  BY DEF Developer, ChangeDump, EditTables, SetMark, Kill
<1>3. CASE Developer \/ Kill
  BY <1>2, <1>3, Disturbed
<1>4. CASE Start
  BY <1>4, StartSettle
<1>5. CASE EmitPcf \/ Enumerate \/ LoadPrefixes \/ Report
  BY <1>5, ReadingSettle
<1>6. CASE Emit
  BY <1>6, EmitSettle
<1> QED
  BY <1>1, <1>3, <1>4, <1>5, <1>6 DEF Next, Run

\* Nothing is promised before the first run.
LEMMA InitSettle == Init => SettleInv
<1> SUFFICES ASSUME Init PROVE SettleInv
  OBVIOUS
<1>1. calm = 0 /\ ~clean
  BY DEF Init
<1>2. ~(calm >= 1) /\ ~(calm >= 2) /\ ~(calm >= 3)
  BY <1>1
<1> QED
  BY <1>1, <1>2 DEF SettleInv, CleanRun, Shipped, Shaped, Faded, Settles

\* A run that nothing disturbed ships every regular file of the dump that no table
\* drops, in the list its path asks for, whatever was killed or edited before.
THEOREM ShippedAlways == Spec => []Shipped
<1>1. SettleInv => Shipped
  BY DEF SettleInv
<1> QED
  BY <1>1, InitSettle, NextSettle, ClosureTypeCorrect, PTL DEF Spec

\* The third undisturbed run finds every marker it writes: it changes nothing.
THEOREM SettlesAlways == Spec => []Settles
<1>1. SettleInv => Settles
  BY DEF SettleInv
<1> QED
  BY <1>1, InitSettle, NextSettle, ClosureTypeCorrect, PTL DEF Spec

-----------------------------------------------------------------------------
(* Markers of plain lines, and the baseline report.                        *)

\* Each path has one line, even in a listing that a kill cut short.
OneLine == \A k, l \in listing : k.blob = l.blob => k = l

\* A rewritten listing, and any part of it, has one line for each path.
LEMMA NewOneLine ==
  ASSUME TypeOK
  PROVE  \A k, l \in NewListing : k.blob = l.blob => k = l
<1> SUFFICES ASSUME NEW k \in NewListing, NEW l \in NewListing, k.blob = l.blob
             PROVE  k = l
  OBVIOUS
<1>1. k \in Lines /\ l \in Lines /\ k.mark = l.mark /\ k.args = l.args
  BY NewLines
<1> QED
  BY <1>1, LineEquality

\* Every step keeps one line for each path.
LEMMA NextOneLine == TypeOK /\ OneLine /\ [Next]_vars => OneLine'
<1> SUFFICES ASSUME TypeOK, OneLine, [Next]_vars PROVE OneLine'
  OBVIOUS
<1> USE DEF outVars
<1>1. CASE UNCHANGED listing
  BY <1>1 DEF OneLine
<1>2. CASE listing' \subseteq NewListing
  BY <1>2, NewOneLine DEF OneLine
<1>3. ASSUME NEW l \in listing, NEW m \in Marks \cup {NoMark}, SetMark(l, m)
      PROVE  OneLine'
  <2>1. l \in Lines
    BY DEF TypeOK
  <2>2. [l EXCEPT !.mark = m].blob = l.blob
    BY <2>1, Remarked
  <2>3. listing' = (listing \ {l}) \cup {[l EXCEPT !.mark = m]}
    BY <1>3 DEF SetMark
  <2> QED BY <2>2, <2>3 DEF OneLine
<1>4. \/ UNCHANGED listing
      \/ listing' \subseteq NewListing
      \/ \E l \in listing : \E m \in Marks \cup {NoMark} : SetMark(l, m)
  <2>1. CASE UNCHANGED vars
    BY <2>1 DEF vars
  <2>2. CASE Developer
    BY <2>2 DEF Developer, ChangeDump, EditTables
  <2>3. CASE Run
    BY <2>3 DEF Run, Start, EmitPcf, Enumerate, LoadPrefixes, Report, Emit
  <2>4. CASE Kill
    BY <2>4 DEF Kill
  <2> QED BY <2>1, <2>2, <2>3, <2>4 DEF Next
<1> QED
  BY <1>1, <1>2, <1>3, <1>4

\* Every step of a run, and every disturbance, keeps the markers of plain lines.
LEMMA NextPlain ==
  TypeOK /\ SettleInv /\ OneLine /\ PlainMarksKept /\ [Next]_vars => PlainMarksKept'
<1> SUFFICES ASSUME TypeOK, SettleInv, OneLine, PlainMarksKept, [Next]_vars
             PROVE  PlainMarksKept'
  OBVIOUS
<1>1. CASE UNCHANGED <<listing, before, calm>>
  BY <1>1 DEF PlainMarksKept, ListedBlobs
<1>2. CASE Disturb
  <2>1. ~(calm' >= 1)
    BY <1>2 DEF Disturb
  <2> QED BY <2>1 DEF PlainMarksKept
<1>3. CASE Start
  <2>1. before' = listing /\ listing' = listing
    BY <1>3 DEF Start, outVars
  <2> QED BY <2>1 DEF PlainMarksKept
<1>4. CASE Emit /\ ~clean
  <2>1. ~(calm' >= 1)
    BY <1>4 DEF Emit
  <2> QED BY <2>1 DEF PlainMarksKept
<1>5. CASE Emit /\ clean
  <2>1. before' = before /\ before = listing
    BY <1>5, EmitLines
  <2>2. SUFFICES ASSUME NEW l \in listing, l.args = {}, l.blob \in ListedBlobs'
                 PROVE  \E k \in listing' : k.blob = l.blob /\ k.mark = l.mark
    BY <2>1 DEF PlainMarksKept
  <2>3. PICK k \in listing' : k.blob = l.blob
    BY <2>2 DEF ListedBlobs
  <2>4. k.mark = IF MarkOf(k.blob) = {} THEN NoMark
                 ELSE CHOOSE m \in MarkOf(k.blob) : TRUE
    BY <1>5, EmitLines
  <2>5. \A j \in listing : j.blob = l.blob => j = l
    BY DEF OneLine
  <2>6. MarkOf(k.blob) = {l.mark}
    BY <2>2, <2>3, <2>5, FoundMark
  <2> QED BY <2>3, <2>4, <2>6
<1>6. \/ UNCHANGED <<listing, before, calm>>
      \/ Disturb \/ Start \/ Emit
  <2>1. CASE UNCHANGED vars
    BY <2>1 DEF vars, outVars, historyVars
  <2>2. CASE Developer \/ Kill
    BY <2>2 DEF Developer, ChangeDump, EditTables, SetMark, Kill
  <2>3. CASE Run
    BY <2>3 DEF Run, EmitPcf, Enumerate, LoadPrefixes, Report, outVars, historyVars
  <2> QED BY <2>1, <2>2, <2>3 DEF Next
<1> QED
  BY <1>1, <1>2, <1>3, <1>4, <1>5, <1>6

\* An undisturbed run keeps the marker of every path whose line had no arguments,
\* whatever arguments the tables give it now.
THEOREM PlainMarksKeptAlways == Spec => []PlainMarksKept
<1>1. Init => OneLine /\ PlainMarksKept
  BY DEF Init, OneLine, PlainMarksKept
<1>2. Spec => []OneLine
  BY <1>1, NextOneLine, ClosureTypeCorrect, PTL DEF Spec
<1>3. Spec => []SettleInv
  BY InitSettle, NextSettle, ClosureTypeCorrect, PTL DEF Spec
<1> QED
  BY <1>1, <1>2, <1>3, NextPlain, ClosureTypeCorrect, PTL DEF Spec

\* After an undisturbed run, and before the end of one, the report names the
\* baseline files that are not listed.
Reported ==
  calm >= 1 \/ (clean /\ pc = "emit") =>
    missing = {n \in Baseline : \A b \in Listed(tables) : Base[b] # n}

\* Every step keeps the report.
LEMMA NextReported == TypeOK /\ SettleInv /\ Reported /\ [Next]_vars => Reported'
<1> SUFFICES ASSUME TypeOK, SettleInv, Reported, [Next]_vars PROVE Reported'
  OBVIOUS
<1>1. CASE UNCHANGED <<dump, tables, missing, calm, clean, pc>>
  BY <1>1 DEF Reported, Listed, Regular
<1>2. CASE Disturb
  <2>1. ~(calm' >= 1) /\ ~clean'
    BY <1>2 DEF Disturb
  <2> QED BY <2>1 DEF Reported
<1>3. CASE Start \/ EmitPcf \/ Enumerate \/ LoadPrefixes
  <2>1. UNCHANGED <<dump, tables, missing, calm>> /\ pc' # "emit"
    BY <1>3 DEF Start, EmitPcf, Enumerate, LoadPrefixes, Step, outVars, historyVars
  <2> QED BY <2>1 DEF Reported, Listed, Regular
<1>4. CASE Report
  <2>1. /\ UNCHANGED <<dump, tables, calm, clean>> /\ PastWalk
        /\ missing' = {n \in Baseline : \A b \in files : Base[b] # n}
    BY <1>4 DEF Report, Step, PastWalk, historyVars
  <2>2. calm >= 1 \/ clean => files = Listed(tables)
    BY <2>1 DEF SettleInv, CleanRun
  <2>3. Listed(tables)' = Listed(tables)
    BY <2>1 DEF Listed, Regular
  <2> QED BY <2>1, <2>2, <2>3 DEF Reported
<1>5. CASE Emit /\ clean
  <2>1. UNCHANGED <<dump, tables, missing>> /\ pc = "emit"
    BY <1>5 DEF Emit, Step
  <2> QED BY <1>5, <2>1 DEF Reported, Listed, Regular
<1>6. CASE Emit /\ ~clean
  <2>1. ~(calm' >= 1) /\ pc' # "emit"
    BY <1>6 DEF Emit, Step
  <2> QED BY <2>1 DEF Reported
<1>7. CASE UNCHANGED vars
  BY <1>1, <1>7 DEF vars, outVars, runVars, historyVars
<1>8. Developer \/ Kill => Disturb
  BY DEF Developer, ChangeDump, EditTables, SetMark, Kill
<1> QED
  BY <1>2, <1>3, <1>4, <1>5, <1>6, <1>7, <1>8 DEF Next, Run

\* Every baseline basename that no file of the dump has is reported by an
\* undisturbed run.
THEOREM AbsentIsMissingAlways == Spec => []AbsentIsMissing
<1>1. Init => Reported
  BY DEF Init, Reported
<1>2. Reported => AbsentIsMissing
  BY DEF Reported, AbsentIsMissing, Listed
<1>3. Spec => []SettleInv
  BY InitSettle, NextSettle, ClosureTypeCorrect, PTL DEF Spec
<1> QED
  BY <1>1, <1>2, <1>3, NextReported, ClosureTypeCorrect, PTL DEF Spec
=============================================================================
