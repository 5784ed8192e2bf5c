----------------------------- MODULE BlobProofs -----------------------------
(***************************************************************************)
(* Of the tools around the blob lists, the walk of closure.py with the     *)
(* fixups of extract-files.py, and the module names: for every dump, all   *)
(* tables that agree, and whichever tool runs.                             *)
(***************************************************************************)
EXTENDS BlobTools, DataLemmas

\* Every edge of a blob the walk has passed is excused or reported.
Walked ==
  \A b \in listed : Walk!IsLikelyElf(b) /\ b \notin todo \cup mute =>
    \A n \in b.needs : Walk!Excused(b, n) \/ <<b, n>> \in unresolved

NeededInv == Walk!TypeOK /\ Walked

-----------------------------------------------------------------------------
\* Before the walk nothing has been passed.
LEMMA NeededInitInv == Init => NeededInv
<1>1. WalkIdle => NeededInv
  BY DEF WalkIdle, NeededInv, Walk!TypeOK, Walked
<1>2. Walk!Init => NeededInv
  BY DEF Walk!Init, NeededInv, Walk!TypeOK, Walked
<1> QED BY <1>1, <1>2 DEF Init

\* A turn of the walk reports or excuses every edge of its blob.
LEMMA NeededStepInv == NeededInv /\ [Next]_vars => NeededInv'
<1> SUFFICES ASSUME NeededInv, [Next]_vars PROVE NeededInv'
  OBVIOUS
<1>1. ASSUME NEW b \in todo, Walk!Read(b) PROVE NeededInv'
  <2>1. /\ todo' = todo \ {b} /\ UNCHANGED <<listed, mute>>
        /\ unresolved' = unresolved
             \cup {<<b, n>> : n \in {m \in b.needs : ~Walk!Excused(b, m)}}
    BY <1>1 DEF Walk!Read
  <2>2. b \in Universe
    BY DEF NeededInv, Walk!TypeOK
  <2>3. Walk!TypeOK'
    <3>1. {<<b, n>> : n \in {m \in b.needs : ~Walk!Excused(b, m)}}
            \subseteq {b} \X b.needs
      OBVIOUS
    <3>2. {b} \X b.needs \subseteq UNION {{c} \X c.needs : c \in Universe}
      BY <2>2
    <3> QED BY <3>1, <3>2, <2>1 DEF NeededInv, Walk!TypeOK
  <2>4. ASSUME NEW c \in listed, Walk!IsLikelyElf(c), c \notin todo' \cup mute',
               NEW n \in c.needs
        PROVE  Walk!Excused(c, n) \/ <<c, n>> \in unresolved'
    <3>1. CASE c = b
      BY <3>1, <2>1, <2>4
    <3>2. CASE c # b
      BY <3>2, <2>1, <2>4 DEF NeededInv, Walked
    <3> QED BY <3>1, <3>2
  <2>5. Walked'
    BY <2>1, <2>4 DEF Walked, Walk!Excused, Walk!InDump, Walk!IsLikelyElf
  <2> QED BY <2>3, <2>5 DEF NeededInv
<1>2. ASSUME NEW b \in todo, Walk!ReadFails(b) PROVE NeededInv'
  <2>1. /\ todo' = todo \ {b} /\ mute' = mute \cup {b} /\ UNCHANGED <<listed, unresolved>>
    BY <1>2 DEF Walk!ReadFails
  <2> QED BY <2>1 DEF NeededInv, Walk!TypeOK, Walked, Walk!Excused, Walk!InDump,
       Walk!IsLikelyElf
<1>3. ASSUME NEW b \in todo, Walk!Skip(b) PROVE NeededInv'
  <2>1. ~Walk!IsLikelyElf(b) /\ todo' = todo \ {b} /\ UNCHANGED <<listed, unresolved, mute>>
    BY <1>3 DEF Walk!Skip
  <2> QED BY <2>1 DEF NeededInv, Walk!TypeOK, Walked, Walk!Excused, Walk!InDump,
       Walk!IsLikelyElf
<1>4. CASE UNCHANGED nVars
  BY <1>4 DEF nVars, NeededInv, Walk!TypeOK, Walked, Walk!Excused, Walk!InDump,
       Walk!IsLikelyElf
<1>5. Walk!Next \/ UNCHANGED nVars
  BY DEF Next, vars
<1> QED BY <1>1, <1>2, <1>3, <1>4, <1>5 DEF Walk!Next

\* A name the dump has, and that no table renames, is installed; so is its new name if
\* one does.
LEMMA DumpInstalls ==
  ASSUME NEW n, Walk!InDump(n)
  PROVE  IF n \in DOMAIN FixSoname THEN FixSoname[n] \in Walk!Installed
         ELSE n \in Walk!Installed
<1>1. PICK b \in listed : b.base = n
  BY DEF Walk!InDump
<1> QED BY <1>1 DEF Walk!Installed, Walk!InstalledAs

\* The walk's invariant makes the report's silence a promise.
LEMMA WalkedIsSilent == ASSUME Walk!TablesAgree, NeededInv PROVE Walk!SilenceLoads
<1>1. SUFFICES ASSUME Walk!Done,
                      NEW b \in {c \in listed : Walk!IsLikelyElf(c)} \ mute,
                      NEW n \in Walk!NeedsOf(b)
               PROVE  \/ n \in Walk!Installed
                      \/ <<b, n>> \in unresolved
                      \/ \E r \in Replaced :
                           r[1] = b.base /\ r[3] = n /\ <<b, r[2]>> \in unresolved
                      \/ n = "libgcc.so" /\ b.dsp
  BY DEF Walk!SilenceLoads
<1>2. b \in Universe
  BY DEF NeededInv, Walk!TypeOK
<1>3. \A m \in b.needs : Walk!Excused(b, m) \/ <<b, m>> \in unresolved
  BY <1>1 DEF NeededInv, Walked, Walk!Done
<1>4. CASE /\ n \in b.needs /\ <<b.base, n>> \notin Removed
           /\ \A r \in Replaced : <<r[1], r[2]>> # <<b.base, n>>
  <2>1. CASE n \in Excluded \cup DOMAIN FixSoname
    <3>1. n \in SourceBuilt \cup SystemLibs
      BY <1>2, <1>4, <2>1 DEF Walk!TablesAgree
    <3> QED BY <3>1 DEF Walk!Installed
  <2>2. CASE n \notin Excluded \cup DOMAIN FixSoname
    <3>1. CASE n \in SystemLibs
      BY <3>1 DEF Walk!Installed
    <3>2. CASE Walk!InDump(n)
      BY <3>2, <2>2, DumpInstalls
    <3> QED BY <1>3, <1>4, <2>2, <3>1, <3>2 DEF Walk!Excused
  <2> QED BY <2>1, <2>2
<1>5. ASSUME NEW r \in Replaced, r[1] = b.base, r[2] \in b.needs, n = r[3]
      PROVE  n \in Walk!Installed \/ <<b, r[2]>> \in unresolved
  <2>1. /\ r[2] \in DOMAIN FixSoname /\ r[3] = FixSoname[r[2]]
        /\ r[2] \notin SystemLibs \cup Excluded \cup {"libgcc.so"}
    BY <1>5 DEF Walk!TablesAgree
  <2>2. CASE <<b, r[2]>> \in unresolved
    BY <2>2
  <2>3. CASE Walk!Excused(b, r[2])
    <3>1. Walk!InDump(r[2])
      BY <2>1, <2>3 DEF Walk!Excused
    <3> QED BY <3>1, <2>1, <1>5, DumpInstalls
  <2> QED BY <2>2, <2>3, <1>3, <1>5
<1> QED BY <1>4, <1>5 DEF Walk!NeedsOf

\* closure.py's report and the fixups, for every dump: when the walk is over, what a
\* blob needs once it is patched is installed, was reported, or is a DSP's libgcc.so,
\* if the tables of closure.py and extract-files.py agree.
THEOREM SilenceLoadsHolds == ASSUME Walk!TablesAgree PROVE Spec => []SilenceLoads
<1>1. Spec => []NeededInv
  BY NeededInitInv, NeededStepInv, PTL DEF Spec
<1>2. NeededInv => SilenceLoads
  BY WalkedIsSilent DEF SilenceLoads
<1> QED BY <1>1, <1>2, PTL

-----------------------------------------------------------------------------
\* compute_module_renames uses the operators of the community modules.
LEMMA NamingOperators ==
  /\ \A S : Naming!Max(S) = Max(S)
  /\ \A s : Naming!FlattenSeq(s) = FlattenSeq(s)
  /\ \A s : Naming!Front(s) = SubSeq(s, 1, Len(s) - 1)
  /\ \A S : Naming!IsFiniteSet(S) = IsFiniteSet(S)
BY DEF Naming!Max, Max, Naming!IsFiniteSet, IsFiniteSet, Naming!FlattenSeq, FlattenSeq,
       Naming!Front

\* What names are made of: the parts, and the underscore of the suffix.
Token == STRING \cup {"_"}

\* The suffix of a computed name begins with an underscore.
LEMMA SuffixShape ==
  ASSUME NEW b \in Blob
  PROVE  /\ Naming!Above(b) \in Seq(Token)
         /\ Naming!Suffix(b) \in Seq(Token) /\ Naming!Suffix(b) # <<>>
         /\ Naming!Suffix(b)[1] = "_"
<1> DEFINE subdirs == IF Len(Dirs[b]) >= 2 /\ Dirs[b][1] \in LibDirs
                      THEN Tail(Dirs[b]) ELSE Dirs[b]
           words == [i \in DOMAIN subdirs |-> Words[subdirs[i]]]
<1>1. Dirs[b] \in Seq(DOMAIN Words) /\ Dirs[b] # <<>>
  BY NamesAssumption DEF Naming!NamesAreParts
<1>2. subdirs \in Seq(DOMAIN Words) /\ subdirs # <<>>
  <2>1. CASE Len(Dirs[b]) >= 2 /\ Dirs[b][1] \in LibDirs
    BY <2>1, <1>1, TailShape
  <2>2. CASE ~(Len(Dirs[b]) >= 2 /\ Dirs[b][1] \in LibDirs)
    BY <2>2, <1>1
  <2> QED BY <2>1, <2>2
<1> HIDE DEF subdirs
<1>3. \A d \in DOMAIN Words : Words[d] \in Seq(Token)
  <2>1. \A s \in Seq(STRING) : s \in Seq(Token)
    BY SeqMonotonic DEF Token
  <2> QED BY <2>1, NamesAssumption DEF Naming!NamesAreParts, Naming!Parts
<1>4. Len(subdirs) \in Nat \ {0} /\ DOMAIN subdirs = 1..Len(subdirs)
  BY <1>2
<1>5. words \in [1..Len(subdirs) -> Seq(Token)]
  <2>1. \A i \in 1..Len(subdirs) : subdirs[i] \in DOMAIN Words
    BY <1>2
  <2> QED BY <2>1, <1>3, <1>4
<1>6. FlattenSeq(words) \in Seq(Token)
  <2> HIDE DEF words
  <2> QED BY <1>4, <1>5, FlattenPieces
<1>7. Naming!Above(b) = FlattenSeq(words)
  BY NamingOperators DEF Naming!Above, subdirs
<1> HIDE DEF words
<1>8. PICK u : u = <<"_">>
  OBVIOUS
<1>9. u \in Seq(Token) /\ u[1] = "_" /\ Len(u) = 1
  BY <1>8, Singleton DEF Token
<1>10. Naming!Suffix(b) = u \o FlattenSeq(words)
  BY <1>7, <1>8 DEF Naming!Suffix
<1>11. PICK f : f = FlattenSeq(words)
  OBVIOUS
<1>12. u \o f \in Seq(Token) /\ u \o f # <<>> /\ (u \o f)[1] = u[1]
  <2>1. f \in Seq(Token)
    BY <1>6, <1>11
  <2> QED BY ONLY <2>1, <1>9, MarkedPrefix
<1>13. Naming!Above(b) \in Seq(Token)
  BY <1>6, <1>7
<1> QED BY ONLY <1>9, <1>10, <1>11, <1>12, <1>13

\* The root of a basename is the basename, or a beginning of it before its extension that
\* only numbers separate from that.
LEMMA RootShape ==
  ASSUME NEW b \in Blob
  PROVE  \E k \in 1..Len(Base[b]) :
           /\ Naming!Root(b) = SubSeq(Base[b], 1, k)
           /\ k = 1 \/ k < Len(Base[b])
           /\ \A i \in (k + 1)..(Len(Base[b]) - 1) : Base[b][i] \in Numeric
<1> DEFINE T == {1} \cup {i \in 1..(Len(Base[b]) - 1) : Base[b][i] \notin Numeric}
<1>1. Base[b] \in Seq(STRING) /\ Base[b] # <<>>
  BY NamesAssumption DEF Naming!NamesAreParts, Naming!Parts
<1>2. Len(Base[b]) \in Nat /\ Len(Base[b]) >= 1
  BY <1>1
<1>3. T \subseteq Nat /\ T # {} /\ \A i \in T : i <= Len(Base[b])
  BY <1>2
<1>4. Max(T) \in T /\ \A i \in T : i <= Max(T)
  <2> HIDE DEF T
  <2> QED BY <1>2, <1>3, MaxIsGreatest
<1>5. Naming!Root(b) = SubSeq(Base[b], 1, Max(T))
  BY NamingOperators DEF Naming!Root
<1>6. Max(T) \in 1..Len(Base[b]) /\ (Max(T) = 1 \/ Max(T) < Len(Base[b]))
  <2>1. CASE Max(T) = 1
    BY <1>2, <2>1
  <2>2. CASE Max(T) # 1
    BY <1>2, <1>4, <2>2
  <2> QED BY <2>1, <2>2
<1>7. ASSUME NEW i \in (Max(T) + 1)..(Len(Base[b]) - 1) PROVE Base[b][i] \in Numeric
  <2>1. Max(T) \in Nat /\ i \in 1..(Len(Base[b]) - 1) /\ ~(i <= Max(T))
    BY <1>2, <1>6
  <2>2. i \notin T
    BY <1>4, <2>1
  <2> QED BY <2>1, <2>2
<1> HIDE DEF T
<1> QED BY <1>5, <1>6, <1>7

\* A computed name is never the basename less its extension: it is longer, or it has
\* the underscore where the basename has a number.
LEMMA ComputedIsNotPlain ==
  ASSUME NEW b \in Blob, NEW c \in Blob, Base[b] = Base[c]
  PROVE  Naming!Computed(b) # Naming!Plain(c)
<1>1. Base[b] \in Seq(Token) /\ Base[b] # <<>>
  <2>1. Base[b] \in Seq(STRING)
    BY NamesAssumption DEF Naming!NamesAreParts, Naming!Parts
  <2>2. Base[b] # <<>>
    BY NamesAssumption DEF Naming!NamesAreParts, Naming!Parts
  <2> QED BY <2>1, <2>2, SeqMonotonic DEF Token
<1>2. PICK k \in 1..Len(Base[b]) :
        /\ Naming!Root(b) = SubSeq(Base[b], 1, k)
        /\ k = 1 \/ k < Len(Base[b])
        /\ \A i \in (k + 1)..(Len(Base[b]) - 1) : Base[b][i] \in Numeric
  BY RootShape
<1>3. Naming!Suffix(b) \in Seq(Token) /\ Naming!Suffix(b) # <<>>
      /\ Naming!Suffix(b)[1] \notin Numeric
  BY SuffixShape, NamesAssumption DEF Naming!NamesAreParts
<1>4. Naming!Plain(c) = IF Len(Base[b]) = 1 THEN Base[b]
                        ELSE SubSeq(Base[b], 1, Len(Base[b]) - 1)
  BY NamingOperators DEF Naming!Plain
<1>5. SubSeq(Base[b], 1, k) \o Naming!Suffix(b)
        # IF Len(Base[b]) = 1 THEN Base[b] ELSE SubSeq(Base[b], 1, Len(Base[b]) - 1)
  BY <1>1, <1>2, <1>3, LongerOrMarked
<1> QED BY <1>2, <1>4, <1>5 DEF Naming!Computed

\* Two copies of whose directories different words are kept have different computed names.
LEMMA ComputedDiffer ==
  ASSUME NEW b \in Blob, NEW c \in Blob, Base[b] = Base[c],
         Naming!Above(b) # Naming!Above(c)
  PROVE  Naming!Computed(b) # Naming!Computed(c)
<1>1. Naming!Root(b) = Naming!Root(c)
  BY DEF Naming!Root
<1>2. Naming!Root(b) \in Seq(Token)
  <2>1. Base[b] \in Seq(STRING)
    BY NamesAssumption DEF Naming!NamesAreParts, Naming!Parts
  <2>2. PICK k \in 1..Len(Base[b]) : Naming!Root(b) = SubSeq(Base[b], 1, k)
    BY RootShape
  <2>3. SubSeq(Base[b], 1, k) \in Seq(STRING)
    BY <2>1
  <2> QED BY <2>2, <2>3, SeqMonotonic DEF Token
<1>3. /\ Naming!Above(b) \in Seq(Token) /\ Naming!Above(c) \in Seq(Token)
      /\ Naming!Suffix(b) \in Seq(Token) /\ Naming!Suffix(c) \in Seq(Token)
  BY SuffixShape
<1>4. Naming!Suffix(b) # Naming!Suffix(c)
  <2>1. PICK u : u = <<"_">>
    OBVIOUS
  <2>2. u \in Seq(Token)
    BY <2>1, Singleton DEF Token
  <2>3. u \o Naming!Above(b) # u \o Naming!Above(c)
    BY <2>2, <1>3, ConcatSimplifications
  <2> QED BY <2>1, <2>3 DEF Naming!Suffix
<1> QED BY <1>1, <1>2, <1>3, <1>4, ConcatSimplifications DEF Naming!Computed

-----------------------------------------------------------------------------
\* One copy of a basename with a flat copy is the canonical one of all.
LEMMA OneCanonical ==
  ASSUME NEW F \in SUBSET Blob, NEW b \in F,
         \E c \in F : Naming!IsFlat(c) /\ Base[c] = Base[b]
  PROVE  \E m \in F :
           /\ Naming!IsFlat(m) /\ Base[m] = Base[b]
           /\ \A d \in F : Base[d] = Base[b] /\ d \notin DOMAIN Manual =>
                Naming!NameOf(F, d) = IF d = m THEN Naming!Plain(d) ELSE Naming!Computed(d)
<1> DEFINE flat == {c \in F : Naming!IsFlat(c) /\ Base[c] = Base[b]}
<1>1. flat \subseteq Nat /\ IsFiniteSet(flat) /\ flat # {}
  <2>1. flat \subseteq Blob
    OBVIOUS
  <2>2. flat # {}
    OBVIOUS
  <2> HIDE DEF flat
  <2>3. Blob \subseteq Nat /\ IsFiniteSet(Blob)
    BY NamesAssumption, NamingOperators DEF Naming!NamesAreParts
  <2> QED BY <2>1, <2>2, <2>3, FS_Subset
<1>2. Max(flat) \in flat
  <2> HIDE DEF flat
  <2>1. PICK n \in Nat : \A x \in flat : x <= n
    BY <1>1, FiniteIsBounded
  <2> QED BY <1>1, <2>1, MaxIsGreatest
<1>3. ASSUME NEW d \in F, Base[d] = Base[b] PROVE Naming!Canonical(F, d) = {Max(flat)}
  <2>1. flat = {c \in F : Naming!IsFlat(c) /\ Base[c] = Base[d]}
    BY <1>3
  <2> HIDE DEF flat
  <2> QED BY <2>1, <1>1, NamingOperators DEF Naming!Canonical
<1>4. ASSUME NEW d \in F, Base[d] = Base[b], d \notin DOMAIN Manual
      PROVE  Naming!NameOf(F, d)
               = IF d = Max(flat) THEN Naming!Plain(d) ELSE Naming!Computed(d)
  <2>1. d \in Naming!Colliding(F) <=> d # Max(flat)
    <3>1. Naming!Canonical(F, d) = {Max(flat)}
      BY <1>3, <1>4
    <3> QED BY <3>1 DEF Naming!Colliding
  <2> QED BY <2>1, <1>4 DEF Naming!NameOf
<1>5. Max(flat) \in F /\ Naming!IsFlat(Max(flat)) /\ Base[Max(flat)] = Base[b]
  BY <1>2
<1> HIDE DEF flat
<1> QED BY <1>4, <1>5

\* The names were made of a listing the dump once gave.
NamesOf(F) == names = [b \in F |-> Naming!NameOf(F, b)]
NamingInv == files \subseteq Blob /\ \E F \in SUBSET Blob : NamesOf(F)

\* Nothing is named at first.
LEMMA NamingInitInv == Init => NamingInv
<1> SUFFICES ASSUME Init PROVE NamingInv
  OBVIOUS
<1>1. files = {} /\ names = <<>>
  BY DEF Init, NamingIdle, Naming!Init
<1>2. NamesOf({})
  BY <1>1 DEF NamesOf
<1> QED BY <1>1, <1>2 DEF NamingInv

\* A change of the dump leaves the names, a run replaces them all.
LEMMA NamingStepInv == NamingInv /\ [Next]_vars => NamingInv'
<1> SUFFICES ASSUME NamingInv, [Next]_vars PROVE NamingInv'
  OBVIOUS
<1>1. PICK F \in SUBSET Blob : NamesOf(F)
  BY DEF NamingInv
<1>2. CASE Naming!Emit
  <2>1. names' = [b \in files |-> Naming!NameOf(files, b)] /\ files' = files
    BY <1>2 DEF Naming!Emit
  <2>2. NamesOf(files)'
    BY <2>1 DEF NamesOf, Naming!NameOf, Naming!Colliding, Naming!Canonical
  <2> QED BY <2>1, <2>2 DEF NamingInv
<1>3. ASSUME NEW b \in Blob, Naming!ChangeDump(b) PROVE NamingInv'
  <2>1. /\ files' = IF b \in files THEN files \ {b} ELSE files \cup {b}
        /\ names' = names
    BY <1>3 DEF Naming!ChangeDump
  <2> QED BY <2>1, <1>1 DEF NamingInv, NamesOf
<1>4. CASE UNCHANGED mVars
  BY <1>4, <1>1 DEF mVars, NamingInv, NamesOf
<1>5. [Next]_vars => Naming!Next \/ UNCHANGED mVars
  BY DEF Next, vars
<1> QED BY <1>2, <1>3, <1>4, <1>5 DEF Naming!Next

\* In such names, the last flat copy alone keeps the basename.
LEMMA NamedOnce == ASSUME NamingInv PROVE OneDefault
<1>1. PICK F \in SUBSET Blob : NamesOf(F)
  BY DEF NamingInv
<1>2. DOMAIN names = F /\ \A b \in F : names[b] = Naming!NameOf(F, b)
  BY <1>1 DEF NamesOf
<1>3. SUFFICES ASSUME NEW b \in F, Naming!HasFlat(b),
                      Naming!Siblings(b) \cap DOMAIN Manual = {},
                      b \notin DOMAIN Manual
               PROVE  \E c \in Naming!Siblings(b) \cup {b} :
                        /\ Naming!IsFlat(c) /\ names[c] = Naming!Plain(c)
                        /\ \A d \in Naming!Siblings(c) : names[d] # Naming!Plain(c)
  BY <1>2 DEF OneDefault, Naming!OneDefault
<1>4. \E c \in F : Naming!IsFlat(c) /\ Base[c] = Base[b]
  BY <1>2, <1>3 DEF Naming!HasFlat
<1>5. PICK m \in F :
        /\ Naming!IsFlat(m) /\ Base[m] = Base[b]
        /\ \A d \in F : Base[d] = Base[b] /\ d \notin DOMAIN Manual =>
             Naming!NameOf(F, d) = IF d = m THEN Naming!Plain(d) ELSE Naming!Computed(d)
  BY <1>4, OneCanonical
<1>6. m \in Naming!Siblings(b) \cup {b}
  BY <1>2, <1>5 DEF Naming!Siblings
<1>7. \A d \in F : Base[d] = Base[b] => d \notin DOMAIN Manual
  BY <1>2, <1>3 DEF Naming!Siblings
<1>8. names[m] = Naming!Plain(m)
  BY <1>2, <1>5, <1>7
<1>9. ASSUME NEW d \in Naming!Siblings(m) PROVE names[d] # Naming!Plain(m)
  <2>1. d \in F /\ d # m /\ Base[d] = Base[m]
    BY <1>2 DEF Naming!Siblings
  <2>2. names[d] = Naming!Computed(d)
    BY <2>1, <1>2, <1>5, <1>7
  <2> QED BY <2>1, <2>2, ComputedIsNotPlain
<1> QED BY <1>5, <1>6, <1>8, <1>9

\* In such names, copies that the code can tell apart differ.
LEMMA NamedApart == ASSUME Naming!CopiesDiffer, NamingInv PROVE DistinctNames
<1>1. PICK F \in SUBSET Blob : NamesOf(F)
  BY DEF NamingInv
<1>2. DOMAIN names = F /\ \A b \in F : names[b] = Naming!NameOf(F, b)
  BY <1>1 DEF NamesOf
<1>3. SUFFICES ASSUME NEW b \in F, Naming!HasFlat(b), NEW c \in Naming!Siblings(b)
               PROVE  names[c] # names[b]
  BY <1>2 DEF DistinctNames, Naming!DistinctNames
<1>4. \E d \in F : Naming!IsFlat(d) /\ Base[d] = Base[b]
  BY <1>2, <1>3 DEF Naming!HasFlat
<1>5. PICK m \in F :
        \A d \in F : Base[d] = Base[b] /\ d \notin DOMAIN Manual =>
          Naming!NameOf(F, d) = IF d = m THEN Naming!Plain(d) ELSE Naming!Computed(d)
  BY <1>4, OneCanonical
<1>6. c \in F /\ c # b /\ Base[c] = Base[b] /\ b \in Blob /\ c \in Blob
  BY <1>2 DEF Naming!Siblings
<1>7. \A d \in {b, c} : IF d \in DOMAIN Manual THEN names[d] = Manual[d]
                        ELSE names[d] = IF d = m THEN Naming!Plain(d) ELSE Naming!Computed(d)
  BY <1>2, <1>5, <1>6 DEF Naming!NameOf
<1>8. CASE b \in DOMAIN Manual
  BY <1>6, <1>7, <1>8 DEF Naming!CopiesDiffer
<1>9. CASE b \notin DOMAIN Manual /\ c \in DOMAIN Manual
  BY <1>6, <1>7, <1>9 DEF Naming!CopiesDiffer
<1>10. CASE b \notin DOMAIN Manual /\ c \notin DOMAIN Manual
  <2>1. Naming!Above(b) # Naming!Above(c)
    BY <1>6, <1>10 DEF Naming!CopiesDiffer
  <2>2. Naming!Computed(b) # Naming!Computed(c)
    BY <2>1, <1>6, ComputedDiffer
  <2>3. Naming!Computed(b) # Naming!Plain(c) /\ Naming!Computed(c) # Naming!Plain(b)
    BY <1>6, ComputedIsNotPlain
  <2> QED BY <2>2, <2>3, <1>6, <1>7, <1>10
<1> QED BY <1>8, <1>9, <1>10

\* closure.py:1771-1815, for every listing of every dump: of the copies of a basename one
\* of which is flat, exactly one keeps the name that consumers' dependencies have.
THEOREM OneDefaultHolds == Spec => []OneDefault
<1>1. Spec => []NamingInv
  BY NamingInitInv, NamingStepInv, PTL DEF Spec
<1>2. NamingInv => OneDefault
  BY NamedOnce
<1> QED BY <1>1, <1>2, PTL

\* closure.py:1771-1815, for every listing of every dump: the copies of a basename one of
\* which is flat have different module names, if their directories differ in what the
\* code keeps of them and the manual table names no blob as another.
THEOREM DistinctNamesHold == ASSUME Naming!CopiesDiffer PROVE Spec => []DistinctNames
<1>1. Spec => []NamingInv
  BY NamingInitInv, NamingStepInv, PTL DEF Spec
<1>2. NamingInv => DistinctNames
  BY NamedApart
<1> QED BY <1>1, <1>2, PTL
=============================================================================
