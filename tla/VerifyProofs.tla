---------------------------- MODULE VerifyProofs ----------------------------
(***************************************************************************)
(* Proofs about the two checks of the blobs.  First, about the search of   *)
(* Android.bp that they share: the block a search cuts out of the text of  *)
(* a file is the text of the first of the file's modules that it may find. *)
(* Then, for verify_cc_libs.py and for verify_aidl_versions.py: what it    *)
(* drops the source builds for the vendor, what it keeps the source does   *)
(* not.  Last, with the walk of BlobProofs, the types of the tools.        *)
(***************************************************************************)
EXTENDS BlobProofs, Soong

\* What a module's text may hold, and the length of the block before its name.
Tokens(m) ==
  ToSet(m.props) \cup {Tok("open", m.decl), Tok("open", "nested"), Tok("close", "none"),
                       Tok("name", m.name)}
Before(m) == IF m.early THEN 2 ELSE 0

\* The places of a module's text.
Reads(tok, t, v) == tok.t = t /\ tok.v = v
TextPlaces(m) ==
  /\ Reads(Text(m)[1], "open", m.decl)
  /\ m.early => Reads(Text(m)[2], "open", "nested") /\ Text(m)[3].t = "close"
  /\ Reads(Text(m)[Before(m) + 2], "name", m.name)
  /\ \A i \in 1..Len(m.props) : Text(m)[Before(m) + 2 + i] = m.props[i]
  /\ Text(m)[Before(m) + 3 + Len(m.props)].t = "close"

\* That is where they are.
LEMMA TextShape ==
  ASSUME NEW m, WellFormed(m)
  PROVE  /\ Text(m) \in Seq(Tokens(m))
         /\ Len(Text(m)) = Before(m) + 3 + Len(m.props)
         /\ TextPlaces(m)
<1> DEFINE A == Tokens(m)
           l == Len(m.props)
           n == Before(m)
           open == Tok("open", m.decl)
           a == <<open>>
           b == IF m.early THEN <<Tok("open", "nested"), Tok("close", "none")>> ELSE <<>>
           c == <<Tok("name", m.name)>>
           d == m.props
           e == <<Tok("close", "none")>>
<1>1. a \in Seq(A) /\ Len(a) = 1 /\ a[1] = Tok("open", m.decl)
  <2>1. open \in A
    BY DEF Tokens
  <2> HIDE DEF open, A
  <2>2. a \in Seq(A) /\ Len(a) = 1 /\ a[1] = open
    BY <2>1, Singleton
  <2> QED BY <2>2 DEF open
<1>2. b \in Seq(A) /\ Len(b) = n
      /\ (m.early => b[1] = Tok("open", "nested") /\ b[2] = Tok("close", "none"))
  <2>1. CASE m.early
    <3>1. PICK x : x = Tok("open", "nested")
      OBVIOUS
    <3>2. PICK y : y = Tok("close", "none")
      OBVIOUS
    <3>3. x \in A /\ y \in A
      BY <3>1, <3>2 DEF Tokens
    <3>4. b = <<x, y>>
      BY <2>1, <3>1, <3>2
    <3>5. <<x, y>> \in Seq(A) /\ Len(<<x, y>>) = 2 /\ <<x, y>>[1] = x /\ <<x, y>>[2] = y
      <4> HIDE DEF A
      <4>1. <<x, y>> \in Seq(A)
        BY <3>3
      <4>2. Len(<<x, y>>) = 2
        OBVIOUS
      <4>3. <<x, y>>[1] = x /\ <<x, y>>[2] = y
        OBVIOUS
      <4> QED BY <4>1, <4>2, <4>3
    <3> HIDE DEF b, A
    <3> QED BY <2>1, <3>1, <3>2, <3>4, <3>5 DEF Before
  <2>2. CASE ~m.early
    <3>1. b = <<>> /\ n = 0
      BY <2>2 DEF Before
    <3>2. <<>> \in Seq(A) /\ Len(<<>>) = 0
      OBVIOUS
    <3> HIDE DEF b, A, n
    <3> QED BY <2>2, <3>1, <3>2
  <2> QED BY <2>1, <2>2
<1>3. c \in Seq(A) /\ Len(c) = 1 /\ c[1] = Tok("name", m.name)
  <2>1. PICK x : x = Tok("name", m.name)
    OBVIOUS
  <2>2. x \in A /\ c = <<x>>
    BY <2>1 DEF Tokens
  <2> HIDE DEF A, c
  <2>3. <<x>> \in Seq(A) /\ Len(<<x>>) = 1 /\ <<x>>[1] = x
    BY <2>2, Singleton
  <2> QED BY <2>1, <2>2, <2>3
<1>4. d \in Seq(A) /\ Len(d) = l /\ l \in Nat
  <2>1. d \in Seq(ToSet(d))
    BY DEF WellFormed
  <2>2. ToSet(d) \subseteq A
    BY DEF Tokens
  <2> HIDE DEF d, A
  <2>3. d \in Seq(A)
    BY <2>1, <2>2, SeqMonotonic
  <2>4. Len(d) \in Nat
    BY <2>3
  <2> QED BY <2>3, <2>4 DEF d
<1>5. e \in Seq(A) /\ Len(e) = 1 /\ e[1] = Tok("close", "none")
  <2>1. PICK x : x = Tok("close", "none")
    OBVIOUS
  <2>2. x \in A /\ e = <<x>>
    BY <2>1 DEF Tokens
  <2> HIDE DEF A, e
  <2>3. <<x>> \in Seq(A) /\ Len(<<x>>) = 1 /\ <<x>>[1] = x
    BY <2>2, Singleton
  <2> QED BY <2>1, <2>2, <2>3
<1>6. Text(m) = a \o b \o c \o d \o e
  BY DEF Text
<1>7. n \in {0, 2} /\ (m.early => n = 2)
  BY DEF Before
<1> HIDE DEF A, a, b, c, d, e, n, l
<1>8. PICK ab : ab = a \o b
  OBVIOUS
<1>9. ab \in Seq(A) /\ Joins(ab, a, b, 1, n)
  BY ONLY <1>1, <1>2, <1>8, ConcatAt
<1>10. PICK abc : abc = ab \o c
  OBVIOUS
<1>11. Len(ab) = 1 + n
  BY <1>9 DEF Joins
<1>12. abc \in Seq(A) /\ Joins(abc, ab, c, 1 + n, 1)
  BY ONLY <1>3, <1>9, <1>10, <1>11, ConcatAt
<1>13. PICK abcd : abcd = abc \o d
  OBVIOUS
<1>14. Len(abc) = 1 + n + 1
  BY <1>12 DEF Joins
<1>15. abcd \in Seq(A) /\ Joins(abcd, abc, d, 1 + n + 1, l)
  BY ONLY <1>4, <1>12, <1>13, <1>14, ConcatAt
<1>16. PICK t : t = abcd \o e
  OBVIOUS
<1>17. Len(abcd) = 1 + n + 1 + l
  BY <1>15 DEF Joins
<1>18. t \in Seq(A) /\ Joins(t, abcd, e, 1 + n + 1 + l, 1)
  BY ONLY <1>5, <1>15, <1>16, <1>17, ConcatAt
<1>19. Text(m) = t
  BY <1>6, <1>8, <1>10, <1>13, <1>16
<1>20. Len(t) = n + 3 + l
  BY <1>4, <1>7, <1>18 DEF Joins
<1>21. t[1] = Tok("open", m.decl)
  <2>1. ab[1] = a[1] /\ abc[1] = ab[1] /\ abcd[1] = abc[1] /\ t[1] = abcd[1]
    BY <1>4, <1>7, <1>9, <1>12, <1>15, <1>18 DEF Joins
  <2> QED BY <2>1, <1>1
<1>22. ASSUME m.early PROVE t[2] = Tok("open", "nested") /\ t[3] = Tok("close", "none")
  <2>1. n = 2
    BY <1>22, <1>7
  <2>2. abc[2] = ab[2] /\ abcd[2] = abc[2] /\ t[2] = abcd[2]
    BY <2>1, <1>4, <1>12, <1>15, <1>18 DEF Joins
  <2>3. abc[3] = ab[3] /\ abcd[3] = abc[3] /\ t[3] = abcd[3]
    BY <2>1, <1>4, <1>12, <1>15, <1>18 DEF Joins
  <2>4. ab[1 + 1] = b[1] /\ ab[1 + 2] = b[2]
    BY <2>1, <1>9 DEF Joins
  <2>5. ab[2] = b[1] /\ ab[3] = b[2]
    BY <2>4
  <2>6. b[1] = Tok("open", "nested") /\ b[2] = Tok("close", "none")
    BY <1>2, <1>22
  <2> QED BY ONLY <2>2, <2>3, <2>5, <2>6
<1>23. t[n + 2] = Tok("name", m.name)
  <2>1. abc[1 + n + 1] = c[1]
    BY <1>7, <1>12 DEF Joins
  <2>2. t[1 + n + 1] = abcd[1 + n + 1] /\ abcd[1 + n + 1] = abc[1 + n + 1]
    BY <1>4, <1>7, <1>15, <1>18 DEF Joins
  <2>3. 1 + n + 1 = n + 2
    BY <1>7
  <2> QED BY ONLY <2>1, <2>2, <2>3, <1>3
<1>24. ASSUME NEW i \in 1..l PROVE t[n + 2 + i] = m.props[i]
  <2>1. PICK j : j = n + 2 + i
    OBVIOUS
  <2>2. j = 1 + n + 1 + i /\ j \in 1..(1 + n + 1 + l)
    BY <1>4, <1>7, <2>1
  <2>3. abcd[1 + n + 1 + i] = d[i]
    BY <1>15 DEF Joins
  <2>4. t[j] = abcd[j]
    BY <2>2, <1>18 DEF Joins
  <2> QED BY <2>1, <2>2, <2>3, <2>4 DEF d
<1>25. t[n + 3 + l] = Tok("close", "none")
  <2>1. t[1 + n + 1 + l + 1] = e[1]
    BY <1>18 DEF Joins
  <2>2. 1 + n + 1 + l + 1 = n + 3 + l
    BY <1>4, <1>7
  <2> QED BY ONLY <2>1, <2>2, <1>5
<1>26. Reads(t[1], "open", m.decl)
  BY ONLY <1>21 DEF Tok, Reads
<1>27. Reads(t[n + 2], "name", m.name)
  BY <1>23 DEF Tok, Reads
<1>28. t[n + 3 + l].t = "close"
  BY ONLY <1>25 DEF Tok
<1>29. m.early => Reads(t[2], "open", "nested") /\ t[3].t = "close"
  BY ONLY <1>22 DEF Tok, Reads
<1> QED BY <1>18, <1>19, <1>20, <1>24, <1>26, <1>27, <1>28, <1>29 DEF TextPlaces, A, n, l

-----------------------------------------------------------------------------
(***************************************************************************)
(* The braces: where the last one before a place is, and its closing one.  *)
(***************************************************************************)
\* The last opening brace of a module's text is the module's own, or the early block's.
OpenAt(m) == IF m.early THEN 2 ELSE 1

\* What the searches of the scripts meet in the text of one module.
TextBraces(m) ==
  /\ Text(m)[OpenAt(m)].t = "open"
  /\ Text(m)[OpenAt(m)].v = IF m.early THEN "nested" ELSE m.decl
  /\ \A j \in 1..OpenAt(m) : Text(m)[j].t = "open"
  /\ \A j \in (OpenAt(m) + 1)..Len(Text(m)) : Text(m)[j].t # "open"
  /\ \A j \in 1..Len(Text(m)) : Text(m)[j].t = "name" => Text(m)[j].v = m.name
  /\ \E j \in 1..Len(Text(m)) : Text(m)[j].t = "name"
  /\ Text(m)[Len(Text(m))].t = "close"
  /\ ~m.early => \A j \in 1..(Len(Text(m)) - 1) : Text(m)[j].t # "close"

\* A module of Soong has such a text.
LEMMA BracesOfText == ASSUME NEW m, WellFormed(m) PROVE TextBraces(m)
<1> DEFINE l == Len(m.props)
           n == Before(m)
<1>1. Len(Text(m)) = n + 3 + l /\ TextPlaces(m)
  BY TextShape
<1>2. l \in Nat /\ n \in {0, 2} /\ (m.early <=> n = 2) /\ (n = 0 => OpenAt(m) = 1)
      /\ (n = 2 => OpenAt(m) = 2)
  <2>1. m.props \in Seq(ToSet(m.props))
    BY DEF WellFormed
  <2> HIDE DEF n
  <2>2. l \in Nat
    BY <2>1
  <2> QED BY <2>2 DEF n, Before, OpenAt
<1>3. DOMAIN m.props = 1..l
  <2>1. m.props \in Seq(ToSet(m.props))
    BY DEF WellFormed
  <2> QED BY ONLY <2>1 DEF l
<1> HIDE DEF l
<1>4. ASSUME NEW j \in 1..(n + 3 + l)
      PROVE  \/ j = 1 /\ Reads(Text(m)[j], "open", m.decl)
             \/ j = 2 /\ n = 2 /\ Reads(Text(m)[j], "open", "nested")
             \/ j = 3 /\ n = 2 /\ Text(m)[j].t = "close"
             \/ j = n + 2 /\ Reads(Text(m)[j], "name", m.name)
             \/ j \in (n + 3)..(n + 2 + l) /\ Text(m)[j].t \notin {"open", "close", "name"}
             \/ j = n + 3 + l /\ Text(m)[j].t = "close"
  <2>1. CASE j = 1
    BY <2>1, <1>1 DEF TextPlaces
  <2>2. CASE n = 2 /\ j \in {2, 3}
    BY <2>2, <1>1, <1>2 DEF TextPlaces
  <2>3. CASE j = n + 2
    BY <2>3, <1>1 DEF TextPlaces
  <2>4. CASE j \in (n + 3)..(n + 2 + l)
    <3>1. PICK i \in 1..l : j = n + 2 + i
      <4>1. j - (n + 2) \in 1..l /\ j = n + 2 + (j - (n + 2))
        BY <2>4, <1>2
      <4> QED BY <4>1
    <3>2. Text(m)[j] = m.props[i]
      BY <3>1, <1>1 DEF TextPlaces, l
    <3>3. m.props[i].t \notin {"open", "close", "name"}
      BY <1>3 DEF WellFormed
    <3> QED BY <2>4, <3>2, <3>3
  <2>5. CASE j = n + 3 + l
    BY <2>5, <1>1 DEF TextPlaces, l
  <2>6. \/ j = 1
        \/ n = 2 /\ j \in {2, 3}
        \/ j = n + 2
        \/ j \in (n + 3)..(n + 2 + l)
        \/ j = n + 3 + l
    <3> HIDE DEF n
    <3> QED BY <1>2
  <2> QED BY <2>1, <2>2, <2>3, <2>4, <2>5, <2>6
<1>5. Len(Text(m)) = n + 3 + l
  BY <1>1 DEF l
<1>6. Reads(Text(m)[1], "open", m.decl) /\ (n = 2 => Reads(Text(m)[2], "open", "nested"))
  BY <1>1, <1>2 DEF TextPlaces
<1>7. Text(m)[n + 2].t = "name" /\ n + 2 \in 1..(n + 3 + l)
  <2>1. Text(m)[n + 2].t = "name"
    BY <1>1 DEF TextPlaces, Reads
  <2> HIDE DEF n
  <2> QED BY <2>1, <1>2
<1>8. Text(m)[n + 3 + l].t = "close"
  BY <1>1 DEF TextPlaces, l
<1> HIDE DEF n
<1>9. /\ Text(m)[OpenAt(m)].t = "open"
      /\ Text(m)[OpenAt(m)].v = IF m.early THEN "nested" ELSE m.decl
  <2>1. CASE n = 0
    BY <2>1, <1>2, <1>6 DEF Reads
  <2>2. CASE n = 2
    BY <2>2, <1>2, <1>6 DEF Reads
  <2> QED BY <2>1, <2>2, <1>2
<1>10. ASSUME NEW j \in 1..OpenAt(m) PROVE Text(m)[j].t = "open"
  <2>1. j = 1 \/ (j = 2 /\ n = 2)
    BY <1>2
  <2> QED BY <2>1, <1>6 DEF Reads
<1>11. ASSUME NEW j \in (OpenAt(m) + 1)..(n + 3 + l) PROVE Text(m)[j].t # "open"
  <2>1. j \in 1..(n + 3 + l) /\ j # 1 /\ ~(j = 2 /\ n = 2)
    BY <1>2
  <2> QED BY <2>1, <1>4 DEF Reads
<1>12. ASSUME NEW j \in 1..(n + 3 + l), Text(m)[j].t = "name" PROVE Text(m)[j].v = m.name
  BY <1>4, <1>12 DEF Reads
<1>13. ASSUME ~m.early, NEW j \in 1..(Len(Text(m)) - 1) PROVE Text(m)[j].t # "close"
  <2>1. j \in 1..(n + 3 + l) /\ n = 0 /\ j # n + 3 + l
    BY <1>2, <1>5, <1>13
  <2>2. \/ Reads(Text(m)[j], "open", m.decl)
        \/ Reads(Text(m)[j], "name", m.name)
        \/ Text(m)[j].t \notin {"open", "close", "name"}
    BY <2>1, <1>4 DEF Reads
  <2> QED BY ONLY <2>2 DEF Reads
<1>14. \A j \in (OpenAt(m) + 1)..Len(Text(m)) : Text(m)[j].t # "open"
  BY <1>5, <1>11
<1>15. \A j \in 1..Len(Text(m)) : Text(m)[j].t = "name" => Text(m)[j].v = m.name
  BY <1>5, <1>12
<1>16. \E j \in 1..Len(Text(m)) : Text(m)[j].t = "name"
  BY <1>5, <1>7
<1>17. Text(m)[Len(Text(m))].t = "close"
  BY <1>5, <1>8
<1>18. ~m.early => \A j \in 1..(Len(Text(m)) - 1) : Text(m)[j].t # "close"
  BY <1>13
<1> QED BY ONLY <1>9, <1>10, <1>14, <1>15, <1>16, <1>17, <1>18 DEF TextBraces

\* How the texts of the modules lie in the text of their file.
IsFile(mods) ==
  /\ mods \in Seq(ToSet(mods))
  /\ \A i \in 1..Len(mods) : WellFormed(mods[i])
Texts(mods) == [i \in DOMAIN mods |-> Text(mods[i])]
Layout(text, mods, ends) ==
  /\ Ends(Texts(mods), Len(mods), ends) /\ Len(text) = ends[Len(mods)]
  /\ Pieces(Texts(mods), Len(mods), text, ends) /\ DOMAIN text = 1..Len(text)

\* FileText lays them out one after the other.
LEMMA FileLayout ==
  ASSUME NEW mods, IsFile(mods) PROVE \E ends : Layout(FileText(mods), mods, ends)
<1> DEFINE n == Len(mods)
           A == UNION {Tokens(mods[i]) : i \in 1..n}
<1>1. n \in Nat /\ DOMAIN mods = 1..n
  BY DEF IsFile
<1>2. ASSUME NEW i \in 1..n PROVE Text(mods[i]) \in Seq(A)
  <2>1. Text(mods[i]) \in Seq(Tokens(mods[i]))
    BY TextShape DEF IsFile
  <2>2. Tokens(mods[i]) \subseteq A
    OBVIOUS
  <2> HIDE DEF A
  <2> QED BY <2>1, <2>2, SeqMonotonic
<1>3. Texts(mods) \in [1..n -> Seq(A)]
  BY <1>1, <1>2 DEF Texts
<1>4. FileText(mods) = FlattenSeq(Texts(mods))
  BY DEF FileText, Texts
<1>5. PICK f : f = FlattenSeq(Texts(mods))
  OBVIOUS
<1> HIDE DEF A, n
<1>6. CASE n = 0
  <2>1. Len(Texts(mods)) = 0
    BY ONLY <1>3, <1>6
  <2>2. f = <<>>
    BY ONLY <2>1, <1>5 DEF FlattenSeq
  <2> DEFINE ends == [i \in 0..n |-> 0]
  <2>3. Ends(Texts(mods), n, ends)
    BY <1>6 DEF Ends
  <2>4. Len(f) = ends[n] /\ DOMAIN f = 1..Len(f)
    BY <2>2, <1>6
  <2>5. Pieces(Texts(mods), n, f, ends)
    BY <1>6 DEF Pieces
  <2> HIDE DEF ends
  <2> QED BY <2>3, <2>4, <2>5, <1>4, <1>5 DEF Layout, n
<1>7. CASE n # 0
  <2>1. f \in Seq(A) /\ \E ends : Ends(Texts(mods), n, ends) /\ Len(f) = ends[n]
                                  /\ Pieces(Texts(mods), n, f, ends)
    BY ONLY <1>1, <1>3, <1>5, <1>7, FlattenPieces
  <2>2. DOMAIN f = 1..Len(f)
    BY <2>1
  <2> QED BY <1>4, <1>5, <2>1, <2>2 DEF Layout, n
<1> QED BY <1>6, <1>7

\* Of the file's text, place p is in the module k.
In(p, mods, ends, k) == \E j \in 1..Len(Text(mods[k])) : p = ends[k - 1] + j
Piece(text, mods, ends, k) ==
  /\ ends[k - 1] \in Nat /\ Len(Text(mods[k])) \in Nat
  /\ ends[k] = ends[k - 1] + Len(Text(mods[k])) /\ ends[k] <= Len(text)
  /\ \A j \in 1..Len(Text(mods[k])) : text[ends[k - 1] + j] = Text(mods[k])[j]

\* Every module stands whole in the text, and every place is in a module.
LEMMA PieceOf ==
  ASSUME NEW mods, IsFile(mods), NEW text, NEW ends, Layout(text, mods, ends)
  PROVE  /\ \A k \in 1..Len(mods) : Piece(text, mods, ends, k)
         /\ \A p \in 1..Len(text) : \E k \in 1..Len(mods) : In(p, mods, ends, k)
         /\ Len(text) \in Nat /\ DOMAIN text = 1..Len(text)
<1> DEFINE n == Len(mods)
<1>1. n \in Nat /\ DOMAIN mods = 1..n
  BY DEF IsFile
<1>2. \A k \in 1..n : Texts(mods)[k] = Text(mods[k])
  BY <1>1 DEF Texts
<1>3. ASSUME NEW k \in 1..n PROVE Len(Text(mods[k])) \in Nat
  <2>1. Text(mods[k]) \in Seq(Tokens(mods[k]))
    BY TextShape DEF IsFile
  <2> QED BY <2>1
<1>4. Sized(Texts(mods), n)
  BY <1>2, <1>3 DEF Sized
<1>5. Ends(Texts(mods), n, ends) /\ Len(text) = ends[n] /\ Pieces(Texts(mods), n, text, ends)
  BY DEF Layout
<1> HIDE DEF n
<1>6. ASSUME NEW k \in 1..n
      PROVE  /\ ends[k - 1] \in Nat /\ ends[k] = ends[k - 1] + Len(Text(mods[k]))
             /\ ends[k] <= Len(text)
             /\ \A j \in 1..Len(Text(mods[k])) : text[ends[k - 1] + j] = Text(mods[k])[j]
  <2>1. ends[k - 1] \in Nat /\ ends[k] = ends[k - 1] + Len(Text(mods[k]))
    <3>1. k - 1 \in 0..n
      BY <1>1
    <3>2. ends[k - 1] \in Nat
      BY <3>1, <1>5 DEF Ends
    <3>3. ends[k] = ends[k - 1] + Len(Texts(mods)[k])
      BY <1>5 DEF Ends
    <3> QED BY <3>2, <3>3, <1>2
  <2>2. ends[k] <= ends[n]
    <3>1. k \in 0..n /\ n \in k..n /\ n \in Nat
      BY <1>1
    <3>2. \A i \in 1..n : Len(Texts(mods)[i]) \in Nat
      BY <1>4 DEF Sized
    <3> QED BY ONLY <3>1, <3>2, <1>5, EndsGrow
  <2>3. \A j \in 1..Len(Text(mods[k])) : text[ends[k - 1] + j] = Text(mods[k])[j]
    BY <1>2, <1>5 DEF Pieces
  <2> QED BY <2>1, <2>2, <2>3, <1>5
<1>7. ASSUME NEW p \in 1..Len(text)
      PROVE  \E k \in 1..n : \E j \in 1..Len(Text(mods[k])) : p = ends[k - 1] + j
  <2>1. p \in 1..ends[n]
    BY <1>5
  <2>2. n \in Nat
    BY <1>1
  <2>3. Within(Texts(mods), n, ends, p)
    BY ONLY <2>1, <2>2, <1>4, <1>5, PieceAt
  <2> QED BY <2>3, <1>2 DEF Within
<1>8. Len(text) \in Nat
  BY <1>1, <1>5 DEF Ends
<1> QED BY <1>3, <1>6, <1>7, <1>8 DEF n, Layout, Piece, In

\* What is in an earlier module is at an earlier place.
LEMMA InOrder ==
  ASSUME NEW mods, IsFile(mods), NEW text, NEW ends, Layout(text, mods, ends),
         NEW k \in 1..Len(mods), NEW j \in 1..(k - 1),
         NEW p, In(p, mods, ends, k), NEW q, In(q, mods, ends, j)
  PROVE  q < p
<1> DEFINE n == Len(mods)
<1>1. n \in Nat /\ DOMAIN mods = 1..n
  BY DEF IsFile
<1>2. /\ Piece(text, mods, ends, k) /\ Piece(text, mods, ends, j) /\ j \in 1..n
      /\ \A i \in 1..n : Len(Text(mods[i])) \in Nat
  <2>1. j \in 1..n
    BY <1>1
  <2>2. \A i \in 1..n : Piece(text, mods, ends, i)
    BY PieceOf
  <2> HIDE DEF n
  <2> QED BY <2>1, <2>2 DEF Piece, n
<1>3. ends[j] <= ends[k - 1]
  <2>1. \A i \in 1..n : Len(Texts(mods)[i]) \in Nat
    BY <1>1, <1>2 DEF Texts
  <2>2. Ends(Texts(mods), n, ends)
    BY DEF Layout
  <2> HIDE DEF n
  <2>3. j \in 0..n /\ k - 1 \in j..n
    BY <1>1 DEF n
  <2> QED BY ONLY <1>1, <2>1, <2>2, <2>3, EndsGrow
<1>4. PICK a \in 1..Len(Text(mods[k])) : p = ends[k - 1] + a
  BY DEF In
<1>5. PICK b \in 1..Len(Text(mods[j])) : q = ends[j - 1] + b
  BY DEF In
<1> HIDE DEF n
<1>6. /\ ends[k - 1] \in Nat /\ ends[j - 1] \in Nat /\ Len(Text(mods[j])) \in Nat
      /\ ends[j] = ends[j - 1] + Len(Text(mods[j])) /\ Len(Text(mods[k])) \in Nat
  BY <1>2 DEF Piece
<1>7. PICK l : l = Len(Text(mods[j]))
  OBVIOUS
<1>8. PICK c : c = ends[j - 1]
  OBVIOUS
<1>9. PICK d : d = ends[j]
  OBVIOUS
<1>10. PICK e : e = ends[k - 1]
  OBVIOUS
<1>11. c \in Nat /\ l \in Nat /\ b \in 1..l /\ q = c + b /\ d = c + l
  BY ONLY <1>5, <1>6, <1>7, <1>8, <1>9, b \in 1..Len(Text(mods[j]))
<1>12. q <= d /\ q \in Nat /\ d \in Nat
  BY ONLY <1>11
<1>13. a \in Nat /\ a >= 1
  BY <1>6
<1>14. p = e + a /\ e \in Nat /\ d <= e
  BY ONLY <1>3, <1>4, <1>6, <1>9, <1>10
<1> QED BY ONLY <1>12, <1>13, <1>14

\* The brace before a place in a module's text, unless that place is a brace itself.
LEMMA BraceBefore ==
  ASSUME NEW mods, IsFile(mods), NEW text, NEW ends, Layout(text, mods, ends),
         NEW k \in 1..Len(mods), NEW j \in 1..Len(Text(mods[k])),
         Text(mods[k])[j].t \notin {"open", "close"}, NEW p, p = ends[k - 1] + j
  PROVE  Brace(text, p) = ends[k - 1] + OpenAt(mods[k])
<1> DEFINE m == mods[k]
           s == ends[k - 1]
           o == OpenAt(m)
           T == {0} \cup {i \in 1..(p - 1) : text[i].t = "open"}
<1>1. /\ s \in Nat /\ Len(Text(m)) \in Nat
      /\ \A i \in 1..Len(Text(m)) : text[s + i] = Text(m)[i]
  <2>1. Piece(text, mods, ends, k)
    BY PieceOf
  <2> QED BY <2>1 DEF Piece
<1>2. TextBraces(m)
  BY BracesOfText DEF IsFile
<1>3. o \in {1, 2}
  BY DEF OpenAt
<1>4. j > o
  <2>1. j \notin 1..o
    BY <1>2 DEF TextBraces
  <2> QED BY <2>1, <1>3
<1>5. Text(m)[o].t = "open" /\ \A i \in (o + 1)..Len(Text(m)) : Text(m)[i].t # "open"
  BY <1>2 DEF TextBraces
<1>6. p = s + j
  OBVIOUS
<1> HIDE DEF m, s, o
<1>7. j \in Nat /\ j <= Len(Text(m)) /\ p = s + j
  BY <1>1, <1>6 DEF m
<1>8. s + o \in T
  <2>1. s + o \in 1..(p - 1) /\ o \in 1..Len(Text(m))
    BY <1>1, <1>3, <1>4, <1>7
  <2> QED BY <2>1, <1>1, <1>5
<1>9. ASSUME NEW i \in T PROVE i <= s + o
  <2>1. CASE i = 0
    BY <2>1, <1>1, <1>3
  <2>2. CASE i # 0
    <3>1. i \in 1..(p - 1) /\ text[i].t = "open"
      BY <2>2
    <3>2. SUFFICES ASSUME i > s + o PROVE FALSE
      BY <3>1, <1>1, <1>3, <1>7
    <3>3. PICK h : h = i - s
      OBVIOUS
    <3>4. h \in (o + 1)..Len(Text(m)) /\ h \in 1..Len(Text(m)) /\ i = s + h
      BY <3>1, <3>2, <3>3, <1>1, <1>3, <1>7
    <3>5. text[s + h] = Text(m)[h] /\ Text(m)[h].t # "open"
      BY <3>4, <1>1, <1>5
    <3> QED BY <3>1, <3>4, <3>5
  <2> QED BY <2>1, <2>2
<1>10. Max(T) = s + o
  <2>1. T \subseteq Nat /\ T # {} /\ s + o \in Nat
    BY <1>1, <1>3, <1>7, <1>8
  <2> HIDE DEF T
  <2>2. Max(T) \in T /\ \A i \in T : i <= Max(T)
    BY <2>1, <1>9, MaxIsGreatest
  <2>3. Max(T) <= s + o /\ s + o <= Max(T) /\ Max(T) \in Nat
    BY <2>1, <2>2, <1>8, <1>9
  <2> QED BY ONLY <2>1, <2>3
<1>11. Brace(text, p) = Max(T)
  BY DEF Brace
<1> QED BY <1>10, <1>11 DEF m, s, o

\* The brace that closes a module's text.
LEMMA ClosesModule ==
  ASSUME NEW mods, IsFile(mods), NEW text, NEW ends, Layout(text, mods, ends),
         NEW k \in 1..Len(mods), ~mods[k].early
  PROVE  Closing(text, ends[k - 1] + 1) = ends[k]
<1> DEFINE m == mods[k]
           s == ends[k - 1]
           e == ends[k]
           Count(t, j) == Cardinality({i \in (s + 1)..j : text[i].t = t})
           T == {j \in (s + 1)..Len(text) : Count("open", j) = Count("close", j)}
                \cup {Len(text)}
<1>1. /\ s \in Nat /\ Len(Text(m)) \in Nat /\ e = s + Len(Text(m)) /\ e <= Len(text)
      /\ \A i \in 1..Len(Text(m)) : text[s + i] = Text(m)[i]
      /\ Len(text) \in Nat
  <2>1. Piece(text, mods, ends, k) /\ Len(text) \in Nat
    BY PieceOf
  <2> QED BY <2>1 DEF Piece
<1>2. TextBraces(m)
  BY BracesOfText DEF IsFile
<1>3. /\ Text(m)[1].t = "open"
      /\ \A i \in 2..Len(Text(m)) : Text(m)[i].t # "open"
      /\ Text(m)[Len(Text(m))].t = "close"
      /\ \A i \in 1..(Len(Text(m)) - 1) : Text(m)[i].t # "close"
  BY <1>2 DEF TextBraces, OpenAt
<1>4. Len(Text(m)) >= 2
  <2>1. Text(m)[Len(Text(m))].t # "open"
    BY <1>3
  <2>2. Len(Text(m)) # 1
    BY <1>3, <2>1
  <2>3. \E j \in 1..Len(Text(m)) : Text(m)[j].t = "name"
    BY <1>2 DEF TextBraces
  <2>4. Len(Text(m)) \in Nat
    BY <1>1
  <2>5. PICK l : l = Len(Text(m))
    OBVIOUS
  <2>6. l \in Nat /\ l # 1 /\ \E j \in 1..l : TRUE
    BY <2>2, <2>3, <2>4, <2>5
  <2>7. l >= 2
    BY ONLY <2>6
  <2> QED BY <2>5, <2>7
<1> HIDE DEF m, s, e
<1>5. /\ text[s + 1].t = "open" /\ text[e].t = "close"
      /\ \A i \in (s + 2)..e : text[i].t # "open"
      /\ \A i \in (s + 1)..(e - 1) : text[i].t # "close"
  <2>1. text[s + 1] = Text(m)[1] /\ text[e] = Text(m)[Len(Text(m))]
    <3>1. 1 \in 1..Len(Text(m)) /\ Len(Text(m)) \in 1..Len(Text(m))
      BY <1>1, <1>4
    <3> QED BY <3>1, <1>1
  <2>2. ASSUME NEW i \in (s + 1)..e
        PROVE  \E h \in 1..Len(Text(m)) : h = i - s /\ text[i] = Text(m)[h]
    <3>1. i - s \in 1..Len(Text(m)) /\ i = s + (i - s)
      BY <1>1
    <3> QED BY <3>1, <1>1
  <2>3. ASSUME NEW i \in (s + 2)..e PROVE text[i].t # "open"
    <3>1. i \in (s + 1)..e
      BY <1>1
    <3>2. PICK h \in 1..Len(Text(m)) : h = i - s /\ text[i] = Text(m)[h]
      BY <3>1, <2>2
    <3>3. h \in 2..Len(Text(m))
      BY <3>2, <1>1
    <3> QED BY <3>2, <3>3, <1>3
  <2>4. ASSUME NEW i \in (s + 1)..(e - 1) PROVE text[i].t # "close"
    <3>1. i \in (s + 1)..e
      BY <1>1
    <3>2. PICK h \in 1..Len(Text(m)) : h = i - s /\ text[i] = Text(m)[h]
      BY <3>1, <2>2
    <3>3. h \in 1..(Len(Text(m)) - 1)
      BY <3>2, <1>1
    <3> QED BY <3>2, <3>3, <1>3
  <2> QED BY <2>1, <2>3, <2>4, <1>3
<1>6. s \in Nat /\ e \in Nat /\ e >= s + 2 /\ Len(text) >= e
  BY <1>1, <1>4
<1>7. ASSUME NEW j \in (s + 1)..e PROVE Count("open", j) = 1
  <2>1. {i \in (s + 1)..j : text[i].t = "open"} = {s + 1}
    <3>1. s + 1 \in (s + 1)..j
      BY <1>6
    <3>2. ASSUME NEW i \in (s + 1)..j, i # s + 1 PROVE text[i].t # "open"
      <4>1. i \in (s + 2)..e
        BY <3>2, <1>6
      <4> QED BY <4>1, <1>5
    <3> QED BY <3>1, <3>2, <1>5
  <2> QED BY <2>1, FS_Singleton
<1>8. ASSUME NEW j \in (s + 1)..(e - 1) PROVE Count("close", j) = 0
  <2>1. {i \in (s + 1)..j : text[i].t = "close"} = {}
    <3>1. ASSUME NEW i \in (s + 1)..j PROVE text[i].t # "close"
      <4>1. i \in (s + 1)..(e - 1)
        BY <1>6
      <4> QED BY <4>1, <1>5
    <3> QED BY <3>1
  <2> QED BY <2>1, FS_EmptySet
<1>9. Count("close", e) = 1
  <2>1. {i \in (s + 1)..e : text[i].t = "close"} = {e}
    <3>1. e \in (s + 1)..e
      BY <1>6
    <3>2. ASSUME NEW i \in (s + 1)..e, i # e PROVE text[i].t # "close"
      <4>1. i \in (s + 1)..(e - 1)
        BY <3>2, <1>6
      <4> QED BY <4>1, <1>5
    <3> QED BY <3>1, <3>2, <1>5
  <2> QED BY <2>1, FS_Singleton
<1>10. e \in T
  <2>1. e \in (s + 1)..e /\ e \in (s + 1)..Len(text)
    BY <1>1, <1>6
  <2> HIDE DEF Count
  <2> QED BY <2>1, <1>7, <1>9
<1>11. ASSUME NEW j \in T PROVE e <= j
  <2>1. CASE j = Len(text)
    BY <2>1, <1>6
  <2>2. CASE j # Len(text)
    <3>1. j \in (s + 1)..Len(text) /\ Count("open", j) = Count("close", j)
      BY <2>2
    <3> HIDE DEF Count, T
    <3>2. SUFFICES ASSUME ~(e <= j) PROVE FALSE
      OBVIOUS
    <3>3. j \in (s + 1)..e /\ j \in (s + 1)..(e - 1)
      BY <3>1, <3>2, <1>1, <1>6
    <3>4. Count("open", j) = 1 /\ Count("close", j) = 0
      BY <3>3, <1>7, <1>8
    <3> QED BY <3>1, <3>4
  <2> QED BY <2>1, <2>2
<1>12. Min(T) = e
  <2>1. T \subseteq Nat /\ T # {}
    <3> HIDE DEF Count
    <3> QED BY <1>1, <1>6
  <2> HIDE DEF T
  <2>2. Min(T) \in T /\ Min(T) <= e
    BY <2>1, <1>10, MinIsLeast
  <2>3. e <= Min(T) /\ Min(T) \in Nat
    BY <2>1, <2>2, <1>11
  <2> QED BY ONLY <2>2, <2>3, <1>6
<1> QED BY <1>12 DEF Closing, s, e

-----------------------------------------------------------------------------
(***************************************************************************)
(* The search of a file.                                                   *)
(***************************************************************************)
\* Where the module of kind decls at place k of the file is searched for.
Offers(m, decls) == ~m.early /\ m.decl \in decls

\* The places of a search are no braces.
Searchable(text, places) ==
  \A p \in places : p \in 1..Len(text) /\ text[p].t \notin {"open", "close"}

\* The block found is the text of the first module that has one of the places and offers
\* the declaration; none is found only where there is none.
Hit(mods, ends, places, decls, k) ==
  Offers(mods[k], decls) /\ \E p \in places : In(p, mods, ends, k)
Finds(block, mods, ends, places, decls) ==
  \/ /\ block = <<>>
     /\ \A k \in 1..Len(mods) : ~Hit(mods, ends, places, decls, k)
  \/ \E k \in 1..Len(mods) :
       /\ Hit(mods, ends, places, decls, k) /\ block = Text(mods[k])
       /\ \A j \in 1..(k - 1) : ~Hit(mods, ends, places, decls, j)

\* So does BlockAt: the scripts' rfind of a brace and their count of braces cut out the
\* text of one whole module, whatever stands around it in the file.
LEMMA BlockFound ==
  ASSUME NEW mods, IsFile(mods), NEW text, NEW ends, Layout(text, mods, ends),
         NEW places, Searchable(text, places), NEW decls, "nested" \notin decls
  PROVE  Finds(BlockAt(text, places, decls), mods, ends, places, decls)
<1> DEFINE hits == {i \in places : /\ Brace(text, i) > 0
                                   /\ text[Brace(text, i)].v \in decls}
           ob == Brace(text, Min(hits))
<1>1. ASSUME NEW k \in 1..Len(mods), NEW p \in places, In(p, mods, ends, k)
      PROVE  /\ Brace(text, p) = ends[k - 1] + OpenAt(mods[k])
             /\ p \in hits <=> Offers(mods[k], decls)
  <2> DEFINE m == mods[k]
  <2>1. PICK j \in 1..Len(Text(m)) : p = ends[k - 1] + j
    BY <1>1 DEF In
  <2>2. /\ ends[k - 1] \in Nat /\ Len(Text(m)) \in Nat
        /\ \A i \in 1..Len(Text(m)) : text[ends[k - 1] + i] = Text(m)[i]
    <3>1. Piece(text, mods, ends, k)
      BY PieceOf
    <3> QED BY <3>1 DEF Piece
  <2>3. text[p] = Text(m)[j]
    BY <2>1, <2>2
  <2>4. Brace(text, p) = ends[k - 1] + OpenAt(m)
    <3>1. Text(m)[j].t \notin {"open", "close"}
      BY <2>3 DEF Searchable
    <3> QED BY <2>1, <3>1, BraceBefore
  <2>5. /\ Text(m)[OpenAt(m)].v = IF m.early THEN "nested" ELSE m.decl
        /\ Text(m)[j].t \notin {"open", "close"}
        /\ \A i \in 1..OpenAt(m) : Text(m)[i].t = "open"
    <3>1. TextBraces(m)
      BY BracesOfText DEF IsFile
    <3>2. Text(m)[j].t \notin {"open", "close"}
      BY <2>3 DEF Searchable
    <3> HIDE DEF m
    <3> QED BY <3>1, <3>2 DEF TextBraces
  <2>6. OpenAt(m) \in {1, 2}
    BY DEF OpenAt
  <2> HIDE DEF m
  <2>7. OpenAt(m) \in 1..Len(Text(m))
    <3>1. j \notin 1..OpenAt(m)
      BY <2>5
    <3> QED BY <3>1, <2>2, <2>6
  <2>8. text[Brace(text, p)].v = IF m.early THEN "nested" ELSE m.decl
    BY <2>2, <2>4, <2>5, <2>7
  <2>9. Brace(text, p) > 0
    BY <2>2, <2>4, <2>6
  <2> QED BY <2>4, <2>8, <2>9 DEF Offers, m
<1>2. ASSUME NEW p \in places PROVE \E k \in 1..Len(mods) : In(p, mods, ends, k)
  BY PieceOf DEF Searchable
<1>3. CASE hits = {}
  <2>1. BlockAt(text, places, decls) = <<>>
    BY <1>3 DEF BlockAt
  <2> QED BY <2>1, <1>1, <1>3 DEF Finds, Hit
<1>4. CASE hits # {}
  <2> DEFINE p == Min(hits)
  <2>1. p \in hits /\ \A q \in hits : p <= q
    <3>1. hits \subseteq Nat
      BY DEF Searchable
    <3> HIDE DEF hits
    <3> QED BY <3>1, <1>4, MinIsLeast
  <2>2. BlockAt(text, places, decls) = SubSeq(text, ob, Closing(text, ob))
    BY <1>4 DEF BlockAt
  <2> HIDE DEF p
  <2>3. p \in places
    BY <2>1
  <2>4. PICK k \in 1..Len(mods) : In(p, mods, ends, k)
    BY <2>3, <1>2
  <2>5. Offers(mods[k], decls) /\ Brace(text, p) = ends[k - 1] + OpenAt(mods[k])
    BY <2>1, <2>3, <2>4, <1>1
  <2>6. ob = ends[k - 1] + 1 /\ ~mods[k].early
    BY <2>5 DEF Offers, OpenAt, p
  <2>7. Closing(text, ob) = ends[k]
    BY <2>6, ClosesModule
  <2>8. ASSUME NEW j \in 1..(k - 1) PROVE ~Hit(mods, ends, places, decls, j)
    <3>1. SUFFICES ASSUME NEW q \in places, Offers(mods[j], decls), In(q, mods, ends, j)
                   PROVE  FALSE
      BY DEF Hit
    <3>2. j \in 1..Len(mods)
      <4>1. Len(mods) \in Nat
        BY DEF IsFile
      <4> QED BY <4>1
    <3>3. q \in hits
      BY <3>1, <3>2, <1>1
    <3>4. p <= q
      BY <3>3, <2>1
    <3>5. q < p
      BY <3>1, <3>2, <2>4, InOrder
    <3>6. p \in Nat /\ q \in Nat
      BY <2>3 DEF Searchable
    <3> HIDE DEF hits
    <3> QED BY ONLY <3>4, <3>5, <3>6
  <2> HIDE DEF ob, hits
  <2>9. SubSeq(text, ob, Closing(text, ob)) = Text(mods[k])
    <3>1. /\ ends[k - 1] \in Nat /\ ends[k] = ends[k - 1] + Len(Text(mods[k]))
          /\ \A j \in 1..Len(Text(mods[k])) : text[ends[k - 1] + j] = Text(mods[k])[j]
      <4>1. Piece(text, mods, ends, k)
        BY PieceOf
      <4> QED BY <4>1 DEF Piece
    <3>2. Text(mods[k]) \in Seq(Tokens(mods[k]))
      BY TextShape DEF IsFile
    <3>3. SubSeq(text, ends[k - 1] + 1, ends[k]) = Text(mods[k])
      <4>1. PICK t : t = Text(mods[k])
        OBVIOUS
      <4>2. PICK a : a = ends[k - 1]
        OBVIOUS
      <4>3. PICK b : b = ends[k]
        OBVIOUS
      <4>4. /\ t \in Seq(Tokens(mods[k])) /\ a \in Nat /\ b = a + Len(t)
            /\ Stands(text, t, a)
        BY <3>1, <3>2, <4>1, <4>2, <4>3 DEF Stands
      <4>5. SubSeq(text, a + 1, b) = t
        BY ONLY <4>4, SubSeqIs
      <4> QED BY <4>1, <4>2, <4>3, <4>5
    <3> QED BY <3>3, <2>6, <2>7
  <2> QED BY <2>2, <2>3, <2>4, <2>5, <2>9, <2>8 DEF Finds, Hit
<1> QED BY <1>3, <1>4

\* A field is read from the whole text of a module as from its properties.
LEMMA FieldOfText ==
  ASSUME NEW m, WellFormed(m), ~m.early,
         NEW f, f \notin {"open", "close", "name"}, NEW default
  PROVE  Field(Text(m), f, default) = Field(m.props, f, default)
<1> DEFINE t == Text(m)
           l == Len(m.props)
           T == {i \in DOMAIN m.props : m.props[i].t = f}
           U == {i \in DOMAIN t : t[i].t = f}
<1>1. l \in Nat /\ DOMAIN m.props = 1..l
  <2>1. m.props \in Seq(ToSet(m.props))
    BY DEF WellFormed
  <2>2. l \in Nat
    BY ONLY <2>1
  <2>3. DOMAIN m.props = 1..l
    BY ONLY <2>1
  <2> QED BY <2>2, <2>3
<1>2. /\ t \in Seq(Tokens(m)) /\ Len(t) = 3 + l
      /\ Reads(t[1], "open", m.decl) /\ Reads(t[2], "name", m.name)
      /\ \A i \in 1..l : t[2 + i] = m.props[i]
      /\ t[3 + l].t = "close"
  <2>1. t \in Seq(Tokens(m)) /\ Len(t) = Before(m) + 3 + l /\ TextPlaces(m)
    BY TextShape
  <2>2. Before(m) = 0
    BY DEF Before
  <2> HIDE DEF t, l
  <2>3. 0 + 3 + l = 3 + l
    BY <1>1
  <2>4. t \in Seq(Tokens(m)) /\ Len(t) = 3 + l
    BY ONLY <2>1, <2>2, <2>3
  <2>5. Reads(t[1], "open", m.decl) /\ Reads(t[2], "name", m.name)
    BY <2>1, <2>2 DEF TextPlaces, t
  <2>6. \A i \in 1..l : t[2 + i] = m.props[i]
    BY <2>1, <2>2 DEF TextPlaces, t, l
  <2>7. t[3 + l].t = "close"
    BY <2>1, <2>2 DEF TextPlaces, t, l
  <2> QED BY <2>4, <2>5, <2>6, <2>7
<1> HIDE DEF l, t
<1>3. DOMAIN t = 1..(3 + l)
  BY <1>2
<1>4. ASSUME NEW i \in T PROVE i + 2 \in U /\ t[i + 2] = m.props[i]
  <2>1. i \in 1..l /\ i + 2 \in 1..(3 + l) /\ 2 + i = i + 2
    BY <1>1
  <2> QED BY <2>1, <1>2, <1>3
<1>5. ASSUME NEW u \in U PROVE u - 2 \in T
  <2>1. u \in 1..(3 + l) /\ t[u].t = f
    BY <1>3
  <2>2. u # 1 /\ u # 2 /\ u # 3 + l
    BY <2>1, <1>2 DEF Reads
  <2>3. u - 2 \in 1..l /\ 2 + (u - 2) = u
    BY <2>1, <2>2, <1>1
  <2>4. t[u] = m.props[u - 2]
    BY <2>3, <1>2
  <2> QED BY <2>1, <2>3, <2>4, <1>1
<1>6. CASE T = {}
  <2>1. U = {}
    BY <1>5, <1>6
  <2> QED BY <2>1, <1>6 DEF Field, t
<1>7. CASE T # {}
  <2>1. T \subseteq Nat /\ U \subseteq Nat /\ U # {}
    BY <1>1, <1>3, <1>4, <1>7
  <2>2. Field(t, f, default) = t[Min(U)].v /\ Field(m.props, f, default) = m.props[Min(T)].v
    BY <2>1, <1>7 DEF Field
  <2>3. \A u \in U : u - 2 \in T
    BY <1>5
  <2>4. \A i \in T : i + 2 \in U
    BY <1>4
  <2>5. Min(T) \in T
    <3> HIDE DEF T
    <3> QED BY <2>1, <1>7, MinIsLeast
  <2>6. t[Min(T) + 2] = m.props[Min(T)]
    BY <2>5, <1>4
  <2> HIDE DEF T, U
  <2>7. Min(U) = Min(T) + 2
    BY ONLY <2>1, <2>3, <2>4, <1>7, MinShifts, 2 \in Nat
  <2> QED BY <2>2, <2>6, <2>7 DEF t
<1> QED BY <1>6, <1>7

\* A field of two texts in a row is read from the first, and from the second where the
\* first has none.
LEMMA FieldOfJoin ==
  ASSUME NEW S, NEW s, NEW t, s \in Seq(S), t \in Seq(S), NEW f, NEW default
  PROVE  Field(s \o t, f, default) = Field(s, f, Field(t, f, default))
<1> DEFINE u == s \o t
           p == Len(s)
           q == Len(t)
           T == {i \in DOMAIN s : s[i].t = f}
           V == {i \in DOMAIN t : t[i].t = f}
           U == {i \in DOMAIN u : u[i].t = f}
<1>1. p \in Nat /\ q \in Nat /\ DOMAIN s = 1..p /\ DOMAIN t = 1..q
  OBVIOUS
<1>2. u \in Seq(S) /\ Joins(u, s, t, p, q)
  BY ConcatAt
<1> HIDE DEF u, p, q
<1>3. /\ DOMAIN u = 1..(p + q)
      /\ \A i \in 1..p : u[i] = s[i]
      /\ \A j \in 1..q : u[p + j] = t[j]
  BY <1>2 DEF Joins
<1>4. T \subseteq Nat /\ V \subseteq Nat /\ U \subseteq Nat
  BY <1>1, <1>3
<1>5. \A i \in T : i \in U /\ i \in 1..p
  BY <1>1, <1>3
<1>6. ASSUME NEW i \in U PROVE i \in T \/ (i > p /\ i - p \in V)
  <2>1. CASE i <= p
    BY <1>1, <1>3, <2>1
  <2>2. CASE ~(i <= p)
    <3>1. i - p \in 1..q /\ p + (i - p) = i /\ i > p
      BY <1>1, <1>3, <2>2
    <3> QED BY <3>1, <1>1, <1>3
  <2> QED BY <2>1, <2>2
<1>7. ASSUME NEW j \in V PROVE j + p \in U /\ u[j + p] = t[j]
  <2>1. j + p \in 1..(p + q) /\ p + j = j + p
    BY <1>1
  <2> QED BY <2>1, <1>1, <1>3
<1>8. /\ Field(s \o t, f, default) = IF U = {} THEN default ELSE u[Min(U)].v
      /\ Field(t, f, default) = IF V = {} THEN default ELSE t[Min(V)].v
      /\ Field(s, f, Field(t, f, default)) = IF T = {} THEN Field(t, f, default) ELSE s[Min(T)].v
  BY DEF Field, u
<1> HIDE DEF T, U, V
<1>9. CASE T # {}
  <2>1. Min(T) \in T /\ \A y \in T : Min(T) <= y
    BY <1>4, <1>9, MinIsLeast
  <2>2. Min(T) \in U /\ Min(T) \in 1..p
    BY <2>1, <1>5
  <2>3. \A i \in U : Min(T) <= i
    BY <2>1, <2>2, <1>1, <1>4, <1>6
  <2>4. Min(U) = Min(T)
    BY <2>2, <2>3, <1>4, MinIs
  <2>5. u[Min(T)] = s[Min(T)]
    BY <2>2, <1>3
  <2> QED BY <2>2, <2>4, <2>5, <1>8, <1>9
<1>10. CASE T = {} /\ V = {}
  <2>1. U = {}
    BY <1>6, <1>10
  <2> QED BY <2>1, <1>8, <1>10
<1>11. CASE T = {} /\ V # {}
  <2>1. \A i \in U : i - p \in V
    BY <1>6, <1>11
  <2>2. \A j \in V : j + p \in U
    BY <1>7
  <2>3. Min(U) = Min(V) + p
    BY ONLY <2>1, <2>2, <1>1, <1>4, <1>11, MinShifts
  <2>4. Min(V) \in V
    BY <1>4, <1>11, MinIsLeast
  <2>5. U # {} /\ u[Min(V) + p] = t[Min(V)]
    BY <2>4, <1>7
  <2> QED BY <2>3, <2>5, <1>8, <1>11
<1> QED BY <1>9, <1>10, <1>11

\* Two texts say the same of a field.
Same(s, t, f) == \A default : Field(s, f, default) = Field(t, f, default)

\* Texts made of pieces that say the same, say the same.
LEMMA FieldOfFlat ==
  ASSUME NEW S, NEW R, NEW n \in Nat, NEW a, NEW b,
         a \in [1..n -> Seq(S)], b \in [1..n -> Seq(R)],
         NEW f, \A i \in 1..n : Same(a[i], b[i], f)
  PROVE  Same(FlattenSeq(a), FlattenSeq(b), f)
<1>1. CASE n = 0
  <2>1. Len(a) = 0 /\ Len(b) = 0
    BY <1>1
  <2>2. FlattenSeq(a) = <<>> /\ FlattenSeq(b) = <<>>
    BY <2>1 DEF FlattenSeq
  <2> QED BY <2>2 DEF Same
<1>2. CASE n # 0
  <2>1. n \in Nat \ {0} /\ a \in [1..n -> Seq(S)] /\ b \in [1..n -> Seq(R)]
    BY <1>2
  <2>2. PICK g \in [1..n -> Seq(S)] : FlattenSeq(a) = g[n] /\ Concatenates(g, a, n)
    BY ONLY <2>1, FlattenSteps
  <2>3. PICK h \in [1..n -> Seq(R)] : FlattenSeq(b) = h[n] /\ Concatenates(h, b, n)
    BY ONLY <2>1, FlattenSteps
  <2> DEFINE T == {i \in 1..n : ~Same(g[i], h[i], f)}
  <2>4. SUFFICES ASSUME T # {} PROVE FALSE
    <3>1. n \in 1..n
      BY <2>1
    <3> QED BY <3>1, <2>2, <2>3
  <2>5. PICK k \in T : \A j \in T : k <= j
    <3>1. T \subseteq Nat
      OBVIOUS
    <3> HIDE DEF T
    <3> QED BY <2>4, <3>1, LeastNat
  <2>6. k \in 1..n /\ ~Same(g[k], h[k], f)
    BY <2>5
  <2>7. k # 1
    BY <2>1, <2>2, <2>3, <2>6 DEF Concatenates
  <2>8. k \in 2..n /\ k - 1 \in 1..n /\ ~(k <= k - 1)
    BY <2>6, <2>7
  <2>9. Same(g[k - 1], h[k - 1], f)
    BY <2>5, <2>8
  <2>10. g[k] = g[k - 1] \o a[k] /\ h[k] = h[k - 1] \o b[k]
    BY <2>2, <2>3, <2>8 DEF Concatenates
  <2>11. /\ g[k - 1] \in Seq(S) /\ h[k - 1] \in Seq(R)
         /\ a[k] \in Seq(S) /\ b[k] \in Seq(R)
    BY <2>6, <2>8
  <2> HIDE DEF T
  <2>12. ASSUME NEW d PROVE Field(g[k], f, d) = Field(h[k], f, d)
    <3>1. Field(g[k], f, d) = Field(g[k - 1], f, Field(a[k], f, d))
      BY ONLY <2>10, <2>11, FieldOfJoin
    <3>2. Field(h[k], f, d) = Field(h[k - 1], f, Field(b[k], f, d))
      BY ONLY <2>10, <2>11, FieldOfJoin
    <3>3. Field(a[k], f, d) = Field(b[k], f, d)
      BY <2>6 DEF Same
    <3> QED BY <3>1, <3>2, <3>3, <2>9 DEF Same
  <2> QED BY <2>6, <2>12 DEF Same
<1> QED BY <1>1, <1>2

-----------------------------------------------------------------------------
(***************************************************************************)
(* verify_cc_libs.py in one file.                                          *)
(***************************************************************************)
\* The operators of verify_cc_libs.py are those of Soong.
LEMMA CcOperators ==
  /\ \A s : Cc!FlattenSeq(s) = FlattenSeq(s)
  /\ \A s : Cc!ToSet(s) = ToSet(s)
  /\ \A S : Cc!Min(S) = Min(S)
  /\ \A m : Cc!WellFormed(m) = WellFormed(m)
  /\ \A f : Cc!FileText(f) = FileText(f)
  /\ \A t, p, d : Cc!BlockAt(t, p, d) = BlockAt(t, p, d)
  /\ \A t, f, d : Cc!Field(t, f, d) = Field(t, f, d)
<1>1. \A s : Cc!FlattenSeq(s) = FlattenSeq(s)
  BY DEF Cc!FlattenSeq, FlattenSeq
<1>2. \A s : Cc!ToSet(s) = ToSet(s)
  BY DEF Cc!ToSet, ToSet
<1>3. \A S : Cc!Min(S) = Min(S) /\ Cc!Max(S) = Max(S)
  BY DEF Cc!Min, Min, Cc!Max, Max
<1>4. \A S : Cc!Cardinality(S) = Cardinality(S)
  BY DEF Cc!Cardinality, Cardinality
<1>5. \A m : Cc!WellFormed(m) = WellFormed(m)
  BY <1>2 DEF Cc!WellFormed, WellFormed
<1>6. \A m : Cc!Text(m) = Text(m)
  BY DEF Cc!Text, Text, Cc!Tok, Tok
<1>7. ASSUME NEW f PROVE Cc!FileText(f) = FileText(f)
  BY <1>1, <1>6 DEF Cc!FileText, FileText
<1>8. \A t, i : Cc!Brace(t, i) = Brace(t, i)
  BY <1>3 DEF Cc!Brace, Brace
<1>9. ASSUME NEW t, NEW i PROVE Cc!Closing(t, i) = Closing(t, i)
  BY <1>3, <1>4 DEF Cc!Closing, Closing
<1>10. ASSUME NEW t, NEW p, NEW d PROVE Cc!BlockAt(t, p, d) = BlockAt(t, p, d)
  BY <1>3, <1>8, <1>9 DEF Cc!BlockAt, BlockAt
<1>11. ASSUME NEW t, NEW f, NEW d PROVE Cc!Field(t, f, d) = Field(t, f, d)
  BY <1>3 DEF Cc!Field, Field
<1> QED BY <1>1, <1>2, <1>3, <1>5, <1>7, <1>10, <1>11

\* A search for a name finds the module of that name, if the file offers one.
LEMMA MatchFound ==
  ASSUME NEW f, Cc!IsFile(f), NEW n, NEW decls, "nested" \notin decls
  PROVE  \/ /\ Cc!MatchBlock(Cc!FileText(f), n, decls) = <<>>
            /\ \A k \in 1..Len(f) : ~(Offers(f[k], decls) /\ f[k].name = n)
         \/ \E k \in 1..Len(f) :
              /\ Offers(f[k], decls) /\ f[k].name = n
              /\ Cc!MatchBlock(Cc!FileText(f), n, decls) = Text(f[k])
<1> DEFINE text == FileText(f)
           places == {i \in DOMAIN text : text[i].t = "name" /\ text[i].v = n}
<1>1. IsFile(f)
  BY CcOperators DEF Cc!IsFile, IsFile
<1>2. Cc!MatchBlock(Cc!FileText(f), n, decls) = BlockAt(text, places, decls)
  BY CcOperators DEF Cc!MatchBlock
<1>3. PICK ends : Layout(text, f, ends)
  BY <1>1, FileLayout
<1> HIDE DEF text
<1>4. \A k \in 1..Len(f) : Piece(text, f, ends, k)
  BY <1>1, <1>3, PieceOf
<1>5. Len(text) \in Nat /\ DOMAIN text = 1..Len(text)
  BY <1>1, <1>3, PieceOf
<1>6. Searchable(text, places)
  BY <1>5 DEF Searchable
<1>7. ASSUME NEW k \in 1..Len(f), NEW p \in places, In(p, f, ends, k) PROVE f[k].name = n
  <2>1. PICK j \in 1..Len(Text(f[k])) : p = ends[k - 1] + j
    BY <1>7 DEF In
  <2>2. text[p] = Text(f[k])[j]
    BY <2>1, <1>4 DEF Piece
  <2>3. TextBraces(f[k])
    BY <1>1, BracesOfText DEF IsFile
  <2> QED BY <2>2, <2>3 DEF TextBraces
<1>8. ASSUME NEW k \in 1..Len(f), f[k].name = n
      PROVE  \E p \in places : In(p, f, ends, k)
  <2>1. TextBraces(f[k])
    BY <1>1, BracesOfText DEF IsFile
  <2>2. PICK j \in 1..Len(Text(f[k])) : Text(f[k])[j].t = "name"
    BY <2>1 DEF TextBraces
  <2>3. Text(f[k])[j].v = n
    BY <1>8, <2>1, <2>2 DEF TextBraces
  <2>4. PICK p : p = ends[k - 1] + j
    OBVIOUS
  <2>5. Piece(text, f, ends, k)
    BY <1>4
  <2>6. text[p] = Text(f[k])[j]
    BY <2>4, <2>5 DEF Piece
  <2>7. p \in 1..Len(text)
    <3>1. /\ ends[k - 1] \in Nat /\ Len(Text(f[k])) \in Nat
          /\ ends[k - 1] + Len(Text(f[k])) <= Len(text)
      BY <2>5 DEF Piece
    <3> QED BY ONLY <3>1, <2>4, <1>5, j \in 1..Len(Text(f[k]))
  <2>8. p \in places
    BY <2>2, <2>3, <2>6, <2>7, <1>5
  <2> QED BY <2>4, <2>8 DEF In
<1> HIDE DEF places
<1>9. Finds(BlockAt(text, places, decls), f, ends, places, decls)
  BY <1>1, <1>3, <1>6, BlockFound
<1> QED BY <1>2, <1>7, <1>8, <1>9 DEF Finds, Hit

\* A module says of itself that it is available; the defaults in its file say so.
Avail(m) == Field(m.props, "vendor_available", FALSE)
Given(f, m) ==
  \E j \in 1..Len(f) :
    /\ Offers(f[j], {"cc_defaults"}) /\ f[j].name \in ToSet(Field(m.props, "defaults", <<>>))
    /\ Avail(f[j])

\* What the block of a name says of it: what its own properties and the defaults in the
\* file say.
LEMMA Extracted ==
  ASSUME NEW f, Cc!IsFile(f), NEW n
  PROVE  \/ /\ Cc!ExtractCcBlock(f, n) = "absent"
            /\ \A k \in 1..Len(f) : ~(Offers(f[k], Cc!CcFilter) /\ f[k].name = n)
         \/ \E k \in 1..Len(f) :
              /\ Offers(f[k], Cc!CcFilter) /\ f[k].name = n
              /\ Cc!ExtractCcBlock(f, n) = IF Avail(f[k]) \/ Given(f, f[k]) THEN "yes" ELSE "no"
<1> DEFINE text == Cc!FileText(f)
           block == Cc!MatchBlock(text, n, Cc!CcFilter)
<1>1. "nested" \notin Cc!CcFilter /\ "nested" \notin {"cc_defaults"}
  BY DEF Cc!CcFilter
<1>2. \A k \in 1..Len(f) : WellFormed(f[k])
  BY CcOperators DEF Cc!IsFile
<1>3. ASSUME NEW k \in 1..Len(f), ~f[k].early
      PROVE  /\ Cc!VendorAvailable(Text(f[k])) = Avail(f[k])
             /\ Cc!Field(Text(f[k]), "defaults", <<>>) = Field(f[k].props, "defaults", <<>>)
             /\ Text(f[k]) # <<>>
  <2>1. Field(Text(f[k]), "vendor_available", FALSE) = Avail(f[k])
    BY <1>2, <1>3, FieldOfText DEF Avail
  <2>2. Field(Text(f[k]), "defaults", <<>>) = Field(f[k].props, "defaults", <<>>)
    BY <1>2, <1>3, FieldOfText
  <2>3. Text(f[k]) # <<>>
    <3>1. TextBraces(f[k])
      BY <1>2, BracesOfText
    <3>2. 1..Len(Text(f[k])) # {}
      BY <3>1 DEF TextBraces
    <3> QED BY <3>2
  <2> QED BY <2>1, <2>2, <2>3, CcOperators DEF Cc!VendorAvailable
<1>4. Cc!VendorAvailable(<<>>) = FALSE
  BY DEF Cc!VendorAvailable, Cc!Field
<1>5. ASSUME NEW k \in 1..Len(f), ~f[k].early, block = Text(f[k])
      PROVE  Cc!Inherits(text, block) <=> Given(f, f[k])
  <2>1. Cc!ToSet(Cc!Field(block, "defaults", <<>>)) = ToSet(Field(f[k].props, "defaults", <<>>))
    BY <1>3, <1>5, CcOperators
  <2> HIDE DEF text, block
  <2>2. ASSUME NEW d
        PROVE  Cc!VendorAvailable(Cc!MatchBlock(text, d, {"cc_defaults"}))
                 <=> \E j \in 1..Len(f) : /\ Offers(f[j], {"cc_defaults"}) /\ f[j].name = d
                                         /\ Avail(f[j])
    <3>1. CASE /\ Cc!MatchBlock(text, d, {"cc_defaults"}) = <<>>
               /\ \A j \in 1..Len(f) : ~(Offers(f[j], {"cc_defaults"}) /\ f[j].name = d)
      BY <3>1, <1>4
    <3>2. ASSUME NEW j \in 1..Len(f), Offers(f[j], {"cc_defaults"}), f[j].name = d,
                 Cc!MatchBlock(text, d, {"cc_defaults"}) = Text(f[j])
          PROVE  Cc!VendorAvailable(Cc!MatchBlock(text, d, {"cc_defaults"}))
                   <=> \E i \in 1..Len(f) : /\ Offers(f[i], {"cc_defaults"}) /\ f[i].name = d
                                           /\ Avail(f[i])
      <4>1. Cc!VendorAvailable(Text(f[j])) = Avail(f[j])
        BY <1>3, <3>2 DEF Offers
      <4>2. \A i \in 1..Len(f) : f[i].name = d => i = j
        BY <3>2 DEF Cc!IsFile
      <4> QED BY <4>1, <4>2, <3>2
    <3> QED BY <3>1, <3>2, <1>1, MatchFound DEF text
  <2> QED BY <2>1, <2>2 DEF Cc!Inherits, Given
<1>6. CASE /\ block = <<>>
           /\ \A k \in 1..Len(f) : ~(Offers(f[k], Cc!CcFilter) /\ f[k].name = n)
  BY <1>6 DEF Cc!ExtractCcBlock
<1>7. ASSUME NEW k \in 1..Len(f), Offers(f[k], Cc!CcFilter), f[k].name = n,
             block = Text(f[k])
      PROVE  Cc!ExtractCcBlock(f, n) = IF Avail(f[k]) \/ Given(f, f[k]) THEN "yes" ELSE "no"
  <2>1. Cc!VendorAvailable(block) = Avail(f[k]) /\ block # <<>>
    BY <1>3, <1>7 DEF Offers
  <2>2. Cc!Inherits(text, block) <=> Given(f, f[k])
    BY <1>5, <1>7 DEF Offers
  <2>3. Cc!ExtractCcBlock(f, n)
          = IF block = <<>> THEN "absent"
            ELSE IF Cc!VendorAvailable(block) \/ Cc!Inherits(text, block) THEN "yes" ELSE "no"
    BY DEF Cc!ExtractCcBlock
  <2> HIDE DEF text, block
  <2> QED BY <2>1, <2>2, <2>3
<1> QED BY <1>1, <1>6, <1>7, MatchFound

-----------------------------------------------------------------------------
(***************************************************************************)
(* verify_cc_libs.py in the files of the index.                            *)
(***************************************************************************)
\* The files read are those of the indexed roots.
LEMMA FilesRead ==
  ASSUME Cc!IsTree(cTree)
  PROVE  /\ \A i \in DOMAIN Cc!Files : \E r \in 1..Len(cTree) : \E j \in 1..Len(cTree[r]) :
              Cc!Files[i] = cTree[r][j]
         /\ \A r \in 1..Len(cTree) : r \in cIndexed => \A j \in 1..Len(cTree[r]) :
              \E i \in DOMAIN Cc!Files : Cc!Files[i] = cTree[r][j]
         /\ DOMAIN Cc!Files \subseteq Nat
<1> DEFINE n == Len(cTree)
           seqs == [r \in DOMAIN cTree |-> IF r \in cIndexed THEN cTree[r] ELSE <<>>]
           A == UNION {ToSet(cTree[r]) : r \in 1..n}
<1>1. n \in Nat /\ DOMAIN cTree = 1..n
  <2>1. cTree \in Seq(ToSet(cTree))
    BY CcOperators DEF Cc!IsTree
  <2> QED BY ONLY <2>1
<1>2. ASSUME NEW r \in 1..n
      PROVE  cTree[r] \in Seq(A) /\ <<>> \in Seq(A) /\ DOMAIN cTree[r] = 1..Len(cTree[r])
  <2>1. cTree[r] \in Seq(ToSet(cTree[r]))
    BY CcOperators DEF Cc!IsTree
  <2>2. ToSet(cTree[r]) \subseteq A
    OBVIOUS
  <2> HIDE DEF A
  <2>3. cTree[r] \in Seq(A)
    BY ONLY <2>1, <2>2, SeqMonotonic
  <2>4. DOMAIN cTree[r] = 1..Len(cTree[r])
    BY ONLY <2>3
  <2> QED BY <2>3, <2>4
<1> HIDE DEF A
<1>3. seqs \in [1..n -> Seq(A)]
  BY <1>1, <1>2
<1>4. Cc!Files = FlattenSeq(seqs)
  BY CcOperators DEF Cc!Files
<1>5. \A r \in 1..n : seqs[r] = IF r \in cIndexed THEN cTree[r] ELSE <<>>
  BY <1>1
<1> HIDE DEF seqs, n
<1>6. PICK flat : flat = FlattenSeq(seqs)
  OBVIOUS
<1>7. FlattenSeq(seqs) \in Seq(A) /\ Elements(FlattenSeq(seqs), seqs, n)
  <2>1. n \in Nat
    BY <1>1
  <2> QED BY ONLY <2>1, <1>3, FlattenElements
<1>8. flat \in Seq(A) /\ Elements(flat, seqs, n)
  BY ONLY <1>6, <1>7
<1>9. DOMAIN flat \subseteq Nat
  BY ONLY <1>8
<1>10. ASSUME NEW p \in DOMAIN flat
      PROVE  \E r \in 1..n : \E j \in 1..Len(cTree[r]) : flat[p] = cTree[r][j]
  <2>1. PICK r \in 1..n : \E j \in DOMAIN seqs[r] : flat[p] = seqs[r][j]
    BY <1>8 DEF Elements
  <2>2. PICK j \in DOMAIN seqs[r] : flat[p] = seqs[r][j]
    BY <2>1
  <2>3. r \in cIndexed
    <3>1. DOMAIN <<>> = {}
      OBVIOUS
    <3> QED BY <3>1, <2>2, <1>5
  <2>4. seqs[r] = cTree[r]
    BY <2>3, <1>5
  <2> QED BY <2>2, <2>4, <1>2
<1>11. ASSUME NEW r \in 1..n, r \in cIndexed, NEW j \in 1..Len(cTree[r])
       PROVE  \E p \in DOMAIN flat : flat[p] = cTree[r][j]
  <2>1. seqs[r] = cTree[r] /\ j \in DOMAIN seqs[r]
    BY <1>2, <1>5, <1>11
  <2> QED BY <2>1, <1>8 DEF Elements
<1> QED BY <1>4, <1>6, <1>9, <1>10, <1>11 DEF n

\* The modules of the tree are those of its files.
LEMMA ModulesOf ==
  ASSUME Cc!IsTree(cTree)
  PROVE  /\ \A r \in 1..Len(cTree) : \A j \in 1..Len(cTree[r]) :
              /\ Cc!IsFile(cTree[r][j])
              /\ \A k \in 1..Len(cTree[r][j]) : cTree[r][j][k] \in Cc!Modules
         /\ \A m \in Cc!Modules : \E r \in 1..Len(cTree) : \E j \in 1..Len(cTree[r]) :
              \E k \in 1..Len(cTree[r][j]) : m = cTree[r][j][k]
         /\ DOMAIN cTree = 1..Len(cTree)
         /\ \A r \in 1..Len(cTree) : \A j \in 1..Len(cTree[r]) :
              cTree[r][j] \in Cc!ToSet(cTree[r])
<1>1. DOMAIN cTree = 1..Len(cTree)
  <2>1. cTree \in Seq(ToSet(cTree))
    BY CcOperators DEF Cc!IsTree
  <2> QED BY ONLY <2>1
<1>2. ASSUME NEW r \in 1..Len(cTree) PROVE DOMAIN cTree[r] = 1..Len(cTree[r])
  <2>1. cTree[r] \in Seq(ToSet(cTree[r]))
    BY CcOperators DEF Cc!IsTree
  <2> QED BY ONLY <2>1
<1>3. ASSUME NEW r \in 1..Len(cTree), NEW j \in 1..Len(cTree[r])
      PROVE  Cc!IsFile(cTree[r][j]) /\ DOMAIN cTree[r][j] = 1..Len(cTree[r][j])
  <2>1. Cc!IsFile(cTree[r][j])
    BY DEF Cc!IsTree
  <2>2. cTree[r][j] \in Seq(ToSet(cTree[r][j]))
    BY <2>1, CcOperators DEF Cc!IsFile
  <2>3. DOMAIN cTree[r][j] = 1..Len(cTree[r][j])
    BY ONLY <2>2
  <2> QED BY <2>1, <2>3
<1>4. ASSUME NEW r \in 1..Len(cTree), NEW j \in 1..Len(cTree[r])
      PROVE  cTree[r][j] \in ToSet(cTree[r])
  BY <1>2 DEF ToSet
<1>5. ASSUME NEW r \in 1..Len(cTree), NEW j \in 1..Len(cTree[r]),
             NEW k \in 1..Len(cTree[r][j])
      PROVE  cTree[r][j][k] \in Cc!Modules
  <2>1. cTree[r][j][k] \in ToSet(cTree[r][j])
    BY <1>3 DEF ToSet
  <2> QED BY <2>1, <1>1, <1>4, CcOperators DEF Cc!Modules
<1>6. ASSUME NEW m \in Cc!Modules
      PROVE  \E r \in 1..Len(cTree) : \E j \in 1..Len(cTree[r]) :
               \E k \in 1..Len(cTree[r][j]) : m = cTree[r][j][k]
  <2>1. PICK r \in DOMAIN cTree : \E f \in ToSet(cTree[r]) : m \in ToSet(f)
    BY CcOperators DEF Cc!Modules
  <2>2. PICK f \in ToSet(cTree[r]) : m \in ToSet(f)
    BY <2>1
  <2>3. r \in 1..Len(cTree)
    BY <1>1
  <2>4. PICK j \in 1..Len(cTree[r]) : f = cTree[r][j]
    BY <2>2, <2>3, <1>2 DEF ToSet
  <2>5. PICK k \in 1..Len(f) : m = f[k]
    BY <2>2, <2>3, <2>4, <1>3 DEF ToSet
  <2> QED BY <2>3, <2>4, <2>5
<1>7. \A r \in 1..Len(cTree) : \A j \in 1..Len(cTree[r]) : cTree[r][j] \in Cc!ToSet(cTree[r])
  BY <1>4, CcOperators
<1> QED BY <1>1, <1>3, <1>5, <1>6, <1>7

\* The block in file i decides on a name.
Decides(n, i) ==
  /\ i \in DOMAIN Cc!Files
  /\ Cc!ExtractCcBlock(Cc!Files[i], n) # "absent"
  /\ Cc!FindCcLibrary(n) = Cc!ExtractCcBlock(Cc!Files[i], n)

\* find_cc_library answers with what one file says, or no indexed file has a block.
LEMMA Decision ==
  ASSUME Cc!IsTree(cTree), NEW n
  PROVE  \/ /\ Cc!FindCcLibrary(n) = "absent"
            /\ \A i \in Cc!Index(n) : Cc!ExtractCcBlock(Cc!Files[i], n) = "absent"
         \/ \E i \in DOMAIN Cc!Files : Decides(n, i)
<1> DEFINE found == {i \in Cc!Index(n) : Cc!ExtractCcBlock(Cc!Files[i], n) # "absent"}
<1>1. CASE found = {}
  BY <1>1 DEF Cc!FindCcLibrary
<1>2. CASE found # {}
  <2>1. found \subseteq DOMAIN Cc!Files
    BY DEF Cc!Index
  <2>2. DOMAIN Cc!Files \subseteq Nat
    BY FilesRead
  <2>3. Cc!FindCcLibrary(n) = Cc!ExtractCcBlock(Cc!Files[Min(found)], n)
    BY <1>2, CcOperators DEF Cc!FindCcLibrary
  <2>4. \A i \in found : Cc!ExtractCcBlock(Cc!Files[i], n) # "absent"
    OBVIOUS
  <2> HIDE DEF found
  <2>5. Min(found) \in found
    BY <1>2, <2>1, <2>2, MinIsLeast
  <2> QED BY <2>1, <2>3, <2>4, <2>5 DEF Decides
<1> QED BY <1>1, <1>2

\* The defaults that a file gives a module are defaults of the module.
LEMMA DefaultsInFile ==
  ASSUME Cc!IsTree(cTree), NEW r \in 1..Len(cTree), NEW j \in 1..Len(cTree[r]),
         NEW f, f = cTree[r][j], NEW m, Given(f, m)
  PROVE  \E d \in Cc!DefaultsOf(m) : Avail(d)
<1>1. PICK l \in 1..Len(f) :
        /\ Offers(f[l], {"cc_defaults"})
        /\ f[l].name \in ToSet(Field(m.props, "defaults", <<>>))
        /\ Avail(f[l])
  BY DEF Given
<1>2. f[l] \in Cc!Modules
  BY ModulesOf
<1> QED BY <1>1, <1>2, CcOperators DEF Cc!DefaultsOf, Offers

\* What is not said is FALSE.
LEMMA Unknown ==
  ASSUME NEW m, ~Cc!Known(m)
  PROVE  ~Avail(m)
BY DEF Cc!Known, Avail, Field

\* The field a module has is the one its block is searched for.
LEMMA AvailIs ==
  ASSUME NEW m
  PROVE  Cc!VendorAvailable(m.props) = Avail(m)
BY CcOperators DEF Cc!VendorAvailable, Avail

\* A name found available is one of a library that is, or is misread.
LEMMA YesIsVendor ==
  ASSUME Cc!IsTree(cTree), NEW n, Cc!FindCcLibrary(n) = "yes"
  PROVE  Cc!Misread(n) \/ \E m \in Cc!Libraries(n) : Cc!Direct(m)
<1>1. PICK i \in DOMAIN Cc!Files : Decides(n, i)
  BY Decision
<1>2. PICK r \in 1..Len(cTree) : \E j \in 1..Len(cTree[r]) : Cc!Files[i] = cTree[r][j]
  BY FilesRead
<1>3. PICK j \in 1..Len(cTree[r]) : Cc!Files[i] = cTree[r][j]
  BY <1>2
<1>4. PICK f : f = cTree[r][j]
  OBVIOUS
<1>5. Cc!IsFile(f) /\ Cc!ExtractCcBlock(f, n) = "yes"
  BY <1>1, <1>3, <1>4, ModulesOf DEF Decides
<1>6. PICK k \in 1..Len(f) :
        /\ Offers(f[k], Cc!CcFilter) /\ f[k].name = n
        /\ Cc!ExtractCcBlock(f, n) = IF Avail(f[k]) \/ Given(f, f[k]) THEN "yes" ELSE "no"
  <2>1. Cc!ExtractCcBlock(f, n) # "absent"
    BY <1>5
  <2> QED BY <1>5, <2>1, Extracted
<1>7. PICK m : m = f[k]
  OBVIOUS
<1>8. /\ m \in Cc!Modules /\ m.name = n /\ m.decl \in Cc!CcFilter
      /\ Avail(m) \/ Given(f, m)
  BY <1>4, <1>5, <1>6, <1>7, ModulesOf DEF Offers
<1>9. Given(f, m) => \E d \in Cc!DefaultsOf(m) : Cc!VendorAvailable(d.props)
  BY <1>4, DefaultsInFile, AvailIs
<1>10. CASE m.decl \notin {"cc_library", "cc_library_shared"}
  BY <1>8, <1>10 DEF Cc!Misread
<1>11. CASE m.decl \in {"cc_library", "cc_library_shared"}
  <2>1. m \in Cc!Libraries(n)
    BY <1>8, <1>11 DEF Cc!Libraries
  <2>2. CASE Avail(m)
    <3>1. Cc!Known(m)
      BY <2>2, Unknown
    <3> QED BY <2>1, <2>2, <3>1, AvailIs DEF Cc!Direct
  <2>3. CASE ~Avail(m)
    <3>1. \E d \in Cc!DefaultsOf(m) : Cc!VendorAvailable(d.props)
      BY <1>8, <1>9, <2>3
    <3>2. CASE Cc!Known(m)
      BY <1>8, <3>1, <3>2 DEF Cc!Misread
    <3>3. CASE ~Cc!Known(m)
      BY <2>1, <3>1, <3>3 DEF Cc!Direct
    <3> QED BY <3>2, <3>3
  <2> QED BY <2>2, <2>3
<1> QED BY <1>10, <1>11

\* What KeepIsCanonical does not promise of a library m.
Exempt(m) ==
  \/ ~Cc!Direct(m)
  \/ Cc!Alike(m.name) # {m}
  \/ m.early \/ \E d \in Cc!DefaultsOf(m) : d.early
  \/ \E r \in DOMAIN cTree : \E f \in Cc!ToSet(cTree[r]) :
       m \in Cc!ToSet(f) /\ ~(Cc!DefaultsOf(m) \subseteq Cc!ToSet(f))

\* Any other library is found available, once the index is whole.
LEMMA CanonicalIsYes ==
  ASSUME Cc!IsTree(cTree), cIndexed = DOMAIN cTree,
         NEW n, NEW m \in Cc!Libraries(n), ~Exempt(m)
  PROVE  Cc!FindCcLibrary(n) = "yes"
<1>1. /\ m \in Cc!Modules /\ m.name = n /\ m.decl \in Cc!CcFilter /\ ~m.early
      /\ Cc!Alike(n) = {m} /\ Cc!Direct(m)
  BY DEF Exempt, Cc!Libraries, Cc!CcFilter
<1>2. ASSUME NEW i \in DOMAIN Cc!Files, NEW k \in 1..Len(Cc!Files[i]),
             Offers(Cc!Files[i][k], Cc!CcFilter), Cc!Files[i][k].name = n
      PROVE  Cc!Files[i][k] = m
  <2>1. Cc!Files[i][k] \in Cc!Modules
    <3>1. PICK r \in 1..Len(cTree) : \E j \in 1..Len(cTree[r]) : Cc!Files[i] = cTree[r][j]
      BY FilesRead
    <3>2. PICK j \in 1..Len(cTree[r]) : Cc!Files[i] = cTree[r][j]
      BY <3>1
    <3> QED BY <3>2, ModulesOf
  <2> QED BY <1>1, <1>2, <2>1 DEF Cc!Alike, Offers
<1>3. \E i \in DOMAIN Cc!Files : /\ Cc!IsFile(Cc!Files[i]) /\ i \in Cc!Index(n)
                                /\ \E k \in 1..Len(Cc!Files[i]) : Cc!Files[i][k] = m
  <2>1. PICK r \in 1..Len(cTree) : \E j \in 1..Len(cTree[r]) :
               \E k \in 1..Len(cTree[r][j]) : m = cTree[r][j][k]
    BY <1>1, ModulesOf
  <2>2. PICK j \in 1..Len(cTree[r]) : \E k \in 1..Len(cTree[r][j]) : m = cTree[r][j][k]
    BY <2>1
  <2>3. PICK k \in 1..Len(cTree[r][j]) : m = cTree[r][j][k]
    BY <2>2
  <2>4. r \in cIndexed
    BY ModulesOf
  <2>5. PICK i \in DOMAIN Cc!Files : Cc!Files[i] = cTree[r][j]
    BY <2>4, FilesRead
  <2>6. Cc!IsFile(Cc!Files[i])
    BY <2>5, ModulesOf
  <2>7. k \in DOMAIN Cc!Files[i]
    <3>1. PICK f : f = Cc!Files[i]
      OBVIOUS
    <3>2. f \in Seq(ToSet(f))
      BY <2>6, <3>1, CcOperators DEF Cc!IsFile
    <3>3. DOMAIN f = 1..Len(f)
      BY ONLY <3>2
    <3> QED BY <3>1, <3>3, <2>5
  <2> QED BY <1>1, <2>3, <2>5, <2>6, <2>7 DEF Cc!Index
<1>4. ASSUME NEW i \in DOMAIN Cc!Files
      PROVE  Cc!IsFile(Cc!Files[i])
  BY FilesRead, ModulesOf
<1>5. PICK i \in DOMAIN Cc!Files : Decides(n, i)
  <2>1. PICK i \in DOMAIN Cc!Files : /\ Cc!IsFile(Cc!Files[i]) /\ i \in Cc!Index(n)
                                    /\ \E k \in 1..Len(Cc!Files[i]) : Cc!Files[i][k] = m
    BY <1>3
  <2>2. Cc!ExtractCcBlock(Cc!Files[i], n) # "absent"
    <3>1. PICK f : f = Cc!Files[i]
      OBVIOUS
    <3>2. PICK k \in 1..Len(f) : f[k] = m
      BY <2>1, <3>1
    <3>3. Offers(f[k], Cc!CcFilter) /\ f[k].name = n
      BY <1>1, <3>2 DEF Offers
    <3>4. Cc!IsFile(f)
      BY <2>1, <3>1
    <3> QED BY <3>1, <3>3, <3>4, Extracted
  <2> QED BY <2>1, <2>2, Decision
<1>6. PICK f : f = Cc!Files[i]
  OBVIOUS
<1>7. Cc!IsFile(f) /\ Cc!ExtractCcBlock(f, n) # "absent"
  BY <1>4, <1>5, <1>6 DEF Decides
<1>8. PICK k \in 1..Len(f) :
        /\ Offers(f[k], Cc!CcFilter) /\ f[k].name = n
        /\ Cc!ExtractCcBlock(f, n) = IF Avail(f[k]) \/ Given(f, f[k]) THEN "yes" ELSE "no"
  BY <1>7, Extracted
<1>9. f[k] = m
  BY <1>2, <1>6, <1>8
<1>10. DOMAIN f = 1..Len(f)
  <2>1. f \in Seq(ToSet(f))
    BY <1>7, CcOperators DEF Cc!IsFile
  <2> QED BY ONLY <2>1
<1>11. Cc!DefaultsOf(m) \subseteq ToSet(f)
  <2>1. PICK r \in 1..Len(cTree) : \E j \in 1..Len(cTree[r]) : f = cTree[r][j]
    BY <1>6, FilesRead
  <2>2. PICK j \in 1..Len(cTree[r]) : f = cTree[r][j]
    BY <2>1
  <2>3. r \in DOMAIN cTree /\ f \in Cc!ToSet(cTree[r])
    BY <2>2, ModulesOf
  <2>4. m \in ToSet(f)
    BY <1>9, <1>10 DEF ToSet
  <2> QED BY <2>3, <2>4, CcOperators DEF Exempt
<1>12. CASE Avail(m)
  BY <1>5, <1>6, <1>8, <1>9, <1>12 DEF Decides
<1>13. CASE ~Avail(m)
  <2>1. PICK d \in Cc!DefaultsOf(m) : Avail(d)
    BY <1>1, <1>13, AvailIs DEF Cc!Direct
  <2>2. PICK l \in 1..Len(f) : d = f[l]
    BY <1>10, <1>11 DEF ToSet
  <2>3. /\ d.decl = "cc_defaults" /\ ~d.early
        /\ d.name \in ToSet(Field(m.props, "defaults", <<>>))
    BY CcOperators DEF Cc!DefaultsOf, Exempt
  <2>4. Given(f, m)
    BY <2>1, <2>2, <2>3 DEF Given, Offers
  <2> QED BY <1>5, <1>6, <1>8, <1>9, <2>4 DEF Decides
<1> QED BY <1>12, <1>13

-----------------------------------------------------------------------------
(***************************************************************************)
(* The verdicts.                                                           *)
(***************************************************************************)
\* What a DROP and a KEEP of verify_cc_libs.py say of the name.
Vendored(n) == Cc!Misread(n) \/ \E m \in Cc!Libraries(n) : Cc!Direct(m)
Absent(n)   == cIndexed = DOMAIN cTree => \A m \in Cc!Libraries(n) : Exempt(m)

\* The inductive invariant: no verdict before the last grep, and every verdict right.
CcInv ==
  IF tool # "cc" THEN cRows = <<>>
  ELSE /\ cTree \in CcTrees /\ cRows \in Seq({"DROP", "KEEP"})
       /\ cRows # <<>> => cScanned = Len(cTree)
       /\ DropIsVendor /\ KeepIsCanonical

\* The two properties, verdict by verdict.
LEMMA CcVerdicts ==
  /\ DropIsVendor <=>
       \A i \in DOMAIN cRows : cRows[i] = "DROP" => Vendored(Cc!Candidates[i].name)
  /\ KeepIsCanonical <=>
       \A i \in DOMAIN cRows : cRows[i] = "KEEP" => Absent(Cc!Candidates[i].name)
<1>1. DropIsVendor <=>
        \A i \in DOMAIN cRows : cRows[i] = "DROP" => Vendored(Cc!Candidates[i].name)
  BY DEF DropIsVendor, Cc!DropIsVendor, Vendored
<1>2. KeepIsCanonical <=>
        \A i \in DOMAIN cRows : cRows[i] = "KEEP" => Absent(Cc!Candidates[i].name)
  BY DEF KeepIsCanonical, Cc!KeepIsCanonical, Absent, Exempt
<1> QED BY <1>1, <1>2

\* The same of the next state.
LEMMA CcVerdictsNext ==
  /\ DropIsVendor' <=>
       \A i \in DOMAIN cRows' : cRows'[i] = "DROP" => Vendored(Cc!Candidates[i].name)'
  /\ KeepIsCanonical' <=>
       \A i \in DOMAIN cRows' : cRows'[i] = "KEEP" => Absent(Cc!Candidates[i].name)'
<1>1. DropIsVendor' <=>
        \A i \in DOMAIN cRows' : cRows'[i] = "DROP" => Vendored(Cc!Candidates[i].name)'
  BY DEF DropIsVendor, Cc!DropIsVendor, Vendored
<1>2. KeepIsCanonical' <=>
        \A i \in DOMAIN cRows' : cRows'[i] = "KEEP" => Absent(Cc!Candidates[i].name)'
  BY DEF KeepIsCanonical, Cc!KeepIsCanonical, Absent, Exempt
<1> QED BY <1>1, <1>2

\* Nothing is judged at first.
LEMMA CcInitInv == Init => CcInv
<1> SUFFICES ASSUME Init PROVE CcInv
  OBVIOUS
<1>1. cRows = <<>>
  BY DEF Init, CcIdle, Cc!Init
<1>2. tool = "cc" => cTree \in CcTrees
  BY DEF Init, Cc!Init
<1>3. DropIsVendor /\ KeepIsCanonical
  <2>1. DOMAIN cRows = {}
    BY <1>1
  <2> QED BY <2>1, CcVerdicts
<1> QED BY <1>1, <1>2, <1>3 DEF CcInv

\* The verdicts are about the tree and the index, which Judge leaves alone.
LEMMA SameTree ==
  ASSUME cTree' = cTree, cIndexed' = cIndexed, NEW n
  PROVE  Vendored(n)' = Vendored(n) /\ Absent(n)' = Absent(n)
<1>1. Cc!Modules' = Cc!Modules
  BY DEF Cc!Modules
<1>2. \A m : Cc!DefaultsOf(m)' = Cc!DefaultsOf(m)
  BY <1>1 DEF Cc!DefaultsOf
<1>3. \A m : Cc!Direct(m)' = Cc!Direct(m)
  BY <1>2 DEF Cc!Direct
<1>4. \A k : Cc!Libraries(k)' = Cc!Libraries(k) /\ Cc!Alike(k)' = Cc!Alike(k)
  BY <1>1 DEF Cc!Libraries, Cc!Alike
<1>5. Cc!Misread(n)' = Cc!Misread(n)
  BY <1>1, <1>2 DEF Cc!Misread
<1>6. \A m : Exempt(m)' = Exempt(m)
  BY <1>2, <1>3, <1>4 DEF Exempt
<1>7. Vendored(n)' = Vendored(n)
  BY <1>3, <1>4, <1>5 DEF Vendored
<1>8. Absent(n)' = Absent(n)
  BY <1>4, <1>6 DEF Absent
<1> QED BY <1>7, <1>8

\* A grep comes before every verdict, and the verdict of one turn of the loop is right.
LEMMA CcStepInv == CcInv /\ [Next]_vars => CcInv'
<1> SUFFICES ASSUME CcInv, [Next]_vars PROVE CcInv'
  OBVIOUS
<1>1. CASE UNCHANGED <<tool, cTree, cScanned, cIndexed, cRows>>
  <2>1. \A n : Vendored(n)' = Vendored(n) /\ Absent(n)' = Absent(n)
    BY <1>1, SameTree
  <2>2. (DropIsVendor' <=> DropIsVendor) /\ (KeepIsCanonical' <=> KeepIsCanonical)
    BY <1>1, <2>1, CcVerdicts, CcVerdictsNext
  <2> QED BY <1>1, <2>2 DEF CcInv
<1>2. CASE tool = "cc" /\ tool' = tool /\ (Cc!GrepRoot \/ Cc!GrepTimeout)
  <2>1. cScanned < Len(cTree) /\ cTree' = cTree /\ cRows' = cRows
    BY <1>2 DEF Cc!GrepRoot, Cc!GrepTimeout, Cc!Scan
  <2>2. cRows = <<>>
    <3>1. Cc!IsTree(cTree)
      BY <1>2, CcTreesAssumption DEF CcInv, Cc!TreesAreSoong
    <3>2. Len(cTree) \in Nat
      <4>1. cTree \in Seq(ToSet(cTree))
        BY <3>1, CcOperators DEF Cc!IsTree
      <4> QED BY ONLY <4>1
    <3>3. cScanned # Len(cTree)
      BY <2>1, <3>2
    <3> QED BY <1>2, <3>3 DEF CcInv
  <2>3. DOMAIN cRows' = {}
    BY <2>1, <2>2
  <2>4. DropIsVendor' /\ KeepIsCanonical'
    BY <2>3, CcVerdictsNext
  <2> QED BY <1>2, <2>1, <2>2, <2>4 DEF CcInv
<1>3. CASE tool = "cc" /\ tool' = tool /\ Cc!Judge
  <2>1. /\ cTree' = cTree /\ cIndexed' = cIndexed /\ cScanned' = cScanned
        /\ cScanned = Len(cTree)
    BY <1>3 DEF Cc!Judge
  <2> DEFINE n == Cc!Current
             row == IF Cc!FindCcLibrary(n) = "yes" THEN "DROP" ELSE "KEEP"
  <2>2. cRows \in Seq({"DROP", "KEEP"}) /\ cRows' = Append(cRows, row)
    BY <1>3 DEF CcInv, Cc!Judge
  <2>3. Cc!IsTree(cTree)
    BY <1>3, CcTreesAssumption DEF CcInv, Cc!TreesAreSoong
  <2>4. n = Cc!Candidates[Len(cRows) + 1].name
    BY DEF Cc!Current
  <2>5. row = "DROP" => Vendored(n)
    BY <2>3, YesIsVendor DEF Vendored
  <2>6. row = "KEEP" => Absent(n)
    BY <2>3, CanonicalIsYes DEF Absent
  <2>7. row \in {"DROP", "KEEP"}
    OBVIOUS
  <2> HIDE DEF row, n
  <2>8. cRows' \in Seq({"DROP", "KEEP"})
    BY <2>2, <2>7
  <2>9. ASSUME NEW i \in DOMAIN cRows'
        PROVE  \/ i \in DOMAIN cRows /\ cRows'[i] = cRows[i]
               \/ i = Len(cRows) + 1 /\ cRows'[i] = row
    BY <2>2, <2>7
  <2>10. \A k : Vendored(k)' = Vendored(k) /\ Absent(k)' = Absent(k)
    BY <2>1, SameTree
  <2>11. DropIsVendor /\ KeepIsCanonical
    BY <1>3 DEF CcInv
  <2>12. DropIsVendor'
    <3>1. ASSUME NEW i \in DOMAIN cRows', cRows'[i] = "DROP"
          PROVE  Vendored(Cc!Candidates[i].name)
      BY <3>1, <2>4, <2>5, <2>9, <2>11, CcVerdicts
    <3> QED BY <3>1, <2>10, CcVerdictsNext
  <2>13. KeepIsCanonical'
    <3>1. ASSUME NEW i \in DOMAIN cRows', cRows'[i] = "KEEP"
          PROVE  Absent(Cc!Candidates[i].name)
      BY <3>1, <2>4, <2>6, <2>9, <2>11, CcVerdicts
    <3> QED BY <3>1, <2>10, CcVerdictsNext
  <2> QED BY <1>3, <2>1, <2>8, <2>12, <2>13 DEF CcInv
<1>4. CASE tool # "cc" /\ tool' = tool /\ UNCHANGED cVars
  BY <1>1, <1>4 DEF cVars
<1> QED BY <1>1, <1>2, <1>3, <1>4 DEF Next, vars, cVars, Cc!Next

\* verify_cc_libs.py:14: whatever greps time out, a library it drops has a source module
\* of its name that is vendor_available, or one of the two kinds it misreads.
THEOREM DropIsVendorHolds == Spec => []DropIsVendor
<1>1. CcInv => DropIsVendor
  <2>1. DOMAIN <<>> = {}
    OBVIOUS
  <2> QED BY <2>1, CcVerdicts DEF CcInv
<1> QED BY <1>1, CcInitInv, CcStepInv, PTL DEF Spec

\* Lines 15-16: with a whole index, a library it keeps has no source module that is
\* vendor_available by itself or by defaults in its file, unless something else of the
\* name or a nested block stands before it.
THEOREM KeepIsCanonicalHolds == Spec => []KeepIsCanonical
<1>1. CcInv => KeepIsCanonical
  <2>1. DOMAIN <<>> = {}
    OBVIOUS
  <2> QED BY <2>1, CcVerdicts DEF CcInv
<1> QED BY <1>1, CcInitInv, CcStepInv, PTL DEF Spec

-----------------------------------------------------------------------------
(***************************************************************************)
(* verify_aidl_versions.py in one file.                                    *)
(***************************************************************************)
\* The operators of verify_aidl_versions.py are those of Soong.
LEMMA AidlOperators ==
  /\ \A s : Aidl!FlattenSeq(s) = FlattenSeq(s)
  /\ \A s : Aidl!ToSet(s) = ToSet(s)
  /\ \A S : Aidl!Min(S) = Min(S) /\ Aidl!Max(S) = Max(S)
  /\ \A m : Aidl!WellFormed(m) = WellFormed(m)
  /\ \A f : Aidl!FileText(f) = FileText(f)
  /\ \A t, p, d : Aidl!BlockAt(t, p, d) = BlockAt(t, p, d)
  /\ \A t, f, d : Aidl!Field(t, f, d) = Field(t, f, d)
  /\ \A t : Aidl!Quoted(t) = Quoted(t)
<1>1. \A s : Aidl!FlattenSeq(s) = FlattenSeq(s)
  BY DEF Aidl!FlattenSeq, FlattenSeq
<1>2. \A s : Aidl!ToSet(s) = ToSet(s)
  BY DEF Aidl!ToSet, ToSet
<1>3. \A S : Aidl!Min(S) = Min(S) /\ Aidl!Max(S) = Max(S)
  BY DEF Aidl!Max, Max, Aidl!Min, Min
<1>4. \A S : Aidl!Cardinality(S) = Cardinality(S)
  BY DEF Aidl!Cardinality, Cardinality
<1>5. \A m : Aidl!WellFormed(m) = WellFormed(m)
  BY <1>2 DEF Aidl!WellFormed, WellFormed
<1>6. \A m : Aidl!Text(m) = Text(m)
  BY DEF Aidl!Text, Text, Aidl!Tok, Tok
<1>7. ASSUME NEW f PROVE Aidl!FileText(f) = FileText(f)
  BY <1>1, <1>6 DEF Aidl!FileText, FileText
<1>8. \A t, i : Aidl!Brace(t, i) = Brace(t, i)
  BY <1>3 DEF Aidl!Brace, Brace
<1>9. ASSUME NEW t, NEW i PROVE Aidl!Closing(t, i) = Closing(t, i)
  BY <1>3, <1>4 DEF Aidl!Closing, Closing
<1>10. ASSUME NEW t, NEW p, NEW d PROVE Aidl!BlockAt(t, p, d) = BlockAt(t, p, d)
  BY <1>3, <1>8, <1>9 DEF Aidl!BlockAt, BlockAt
<1>11. ASSUME NEW t, NEW f, NEW d PROVE Aidl!Field(t, f, d) = Field(t, f, d)
  BY <1>3 DEF Aidl!Field, Field
<1>12. ASSUME NEW t PROVE Aidl!Quoted(t) = Quoted(t)
  BY <1>2 DEF Aidl!Quoted, Quoted
<1> QED BY <1>1, <1>2, <1>3, <1>5, <1>7, <1>10, <1>11, <1>12

\* The text of a module quotes the names that the module mentions.
LEMMA QuotedInText ==
  ASSUME NEW m, WellFormed(m), NEW n
  PROVE  (\E j \in 1..Len(Text(m)) : n \in Quoted(Text(m)[j])) <=> Aidl!Mentions(m, n)
<1> DEFINE t == Text(m)
           l == Len(m.props)
           b == Before(m)
<1>1. l \in Nat /\ DOMAIN m.props = 1..l
  <2>1. PICK s : s = m.props
    OBVIOUS
  <2>2. s \in Seq(ToSet(s))
    BY <2>1 DEF WellFormed
  <2>3. Len(s) \in Nat /\ DOMAIN s = 1..Len(s)
    BY ONLY <2>2
  <2> QED BY <2>1, <2>3
<1>2. /\ Len(t) = b + 3 + l
      /\ t[1].t = "open"
      /\ m.early => t[2].t = "open" /\ t[3].t = "close"
      /\ t[b + 2].t = "name" /\ t[b + 2].v = m.name
      /\ \A i \in 1..l : t[b + 2 + i] = m.props[i]
      /\ t[b + 3 + l].t = "close"
  BY TextShape DEF TextPlaces, Reads
<1>3. (m.early /\ b = 2) \/ (~m.early /\ b = 0)
  BY DEF WellFormed, Before
<1>4. \A tok : tok.t \in {"open", "close"} => Quoted(tok) = {}
  BY DEF Quoted
<1>5. \A tok : tok.t = "name" => Quoted(tok) = {tok.v}
  BY DEF Quoted
<1>6. Aidl!Mentions(m, n) <=> n = m.name \/ \E i \in 1..l : n \in Quoted(m.props[i])
  BY <1>1, AidlOperators DEF Aidl!Mentions
<1> HIDE DEF t, l, b
<1>7. ASSUME NEW j \in 1..Len(t), n \in Quoted(t[j])
      PROVE  n = m.name \/ \E i \in 1..l : n \in Quoted(m.props[i])
  <2>1. j \in 1..(b + 3 + l) /\ j # 1 /\ j # b + 3 + l /\ (m.early => j # 2 /\ j # 3)
    BY <1>2, <1>4, <1>7
  <2>2. b \in Nat
    BY <1>3
  <2>3. j = b + 2 \/ j - (b + 2) \in 1..l
    BY ONLY <2>1, <2>2, <1>1, <1>3
  <2>4. CASE j = b + 2
    BY <2>4, <1>2, <1>5, <1>7
  <2>5. CASE j - (b + 2) \in 1..l
    <3>1. b + 2 + (j - (b + 2)) = j
      BY <2>1, <2>2
    <3>2. t[j] = m.props[j - (b + 2)]
      BY <2>5, <3>1, <1>2
    <3> QED BY <2>5, <3>2, <1>7
  <2> QED BY <2>3, <2>4, <2>5
<1>8. ASSUME n = m.name \/ \E i \in 1..l : n \in Quoted(m.props[i])
      PROVE  \E j \in 1..Len(t) : n \in Quoted(t[j])
  <2>1. CASE n = m.name
    <3>1. b + 2 \in 1..Len(t)
      BY <1>1, <1>2, <1>3
    <3>2. n \in Quoted(t[b + 2])
      BY <2>1, <1>2, <1>5
    <3> QED BY <3>1, <3>2
  <2>2. ASSUME NEW i \in 1..l, n \in Quoted(m.props[i])
        PROVE  \E j \in 1..Len(t) : n \in Quoted(t[j])
    <3>1. b + 2 + i \in 1..Len(t)
      BY <1>1, <1>2, <1>3
    <3>2. n \in Quoted(t[b + 2 + i])
      BY <2>2, <1>2
    <3> QED BY <3>1, <3>2
  <2> QED BY <2>1, <2>2, <1>8
<1> QED BY <1>6, <1>7, <1>8 DEF t

\* The module of a file at place k is one that a search for a name may find.
Meant(f, n, decls, k) == Offers(f.mods[k], decls) /\ Aidl!Mentions(f.mods[k], n)

\* A search for a name in a file finds the first module that mentions it.
LEMMA NamedFound ==
  ASSUME NEW f, Aidl!IsFile(f), NEW n, NEW decls, "nested" \notin decls
  PROVE  LET block == Aidl!NamedBlock(Aidl!FileText(f.mods), n, decls)
         IN \/ /\ block = <<>> /\ Aidl!First(f, n, decls) = {}
               /\ \A k \in 1..Len(f.mods) : ~Meant(f, n, decls, k)
            \/ \E k \in 1..Len(f.mods) :
                 /\ Meant(f, n, decls, k) /\ block = Text(f.mods[k])
                 /\ Aidl!First(f, n, decls) = {f.mods[k]}
<1> DEFINE mods == f.mods
           text == FileText(mods)
           places == {i \in DOMAIN text : n \in Quoted(text[i])}
           l == Len(mods)
<1>1. IsFile(mods)
  BY AidlOperators DEF Aidl!IsFile, IsFile
<1>2. Aidl!NamedBlock(Aidl!FileText(f.mods), n, decls) = BlockAt(text, places, decls)
  BY AidlOperators DEF Aidl!NamedBlock
<1>3. l \in Nat /\ DOMAIN mods = 1..l
  <2> HIDE DEF mods
  <2>1. mods \in Seq(ToSet(mods))
    BY <1>1 DEF IsFile
  <2> QED BY ONLY <2>1
<1>4. Aidl!First(f, n, decls)
        = {f.mods[i] : i \in {j \in 1..l : Meant(f, n, decls, j)
                                          /\ \A k \in 1..(j - 1) : ~Meant(f, n, decls, k)}}
  <2>1. \A j : Meant(f, n, decls, j)
                 <=> ~f.mods[j].early /\ f.mods[j].decl \in decls /\ Aidl!Mentions(f.mods[j], n)
    BY DEF Meant, Offers
  <2> QED BY <2>1, <1>3 DEF Aidl!First
<1>5. PICK ends : Layout(text, mods, ends)
  BY <1>1, FileLayout
<1> HIDE DEF text
<1>6. /\ \A k \in 1..l : Piece(text, mods, ends, k)
      /\ Len(text) \in Nat /\ DOMAIN text = 1..Len(text)
  BY <1>1, <1>5, PieceOf
<1>7. Searchable(text, places)
  <2>1. \A i \in DOMAIN text : n \in Quoted(text[i]) => text[i].t \notin {"open", "close"}
    BY DEF Quoted
  <2> QED BY <2>1, <1>6 DEF Searchable
<1>8. ASSUME NEW k \in 1..l
      PROVE  Hit(mods, ends, places, decls, k) <=> Meant(f, n, decls, k)
  <2>1. /\ ends[k - 1] \in Nat /\ Len(Text(mods[k])) \in Nat
        /\ ends[k - 1] + Len(Text(mods[k])) <= Len(text)
        /\ \A j \in 1..Len(Text(mods[k])) : text[ends[k - 1] + j] = Text(mods[k])[j]
    <3>1. Piece(text, mods, ends, k)
      BY <1>6
    <3> QED BY <3>1 DEF Piece
  <2>2. WellFormed(mods[k])
    BY <1>1 DEF IsFile
  <2>3. (\E j \in 1..Len(Text(mods[k])) : n \in Quoted(Text(mods[k])[j]))
          <=> Aidl!Mentions(mods[k], n)
    BY <2>2, QuotedInText
  <2>4. ASSUME NEW p \in places, In(p, mods, ends, k)
        PROVE  \E j \in 1..Len(Text(mods[k])) : n \in Quoted(Text(mods[k])[j])
    <3>1. PICK j \in 1..Len(Text(mods[k])) : p = ends[k - 1] + j
      BY <2>4 DEF In
    <3> QED BY <3>1, <2>1
  <2>5. ASSUME NEW j \in 1..Len(Text(mods[k])), n \in Quoted(Text(mods[k])[j])
        PROVE  \E p \in places : In(p, mods, ends, k)
    <3>1. PICK p : p = ends[k - 1] + j
      OBVIOUS
    <3>2. p \in 1..Len(text)
      BY ONLY <3>1, <2>1, <1>6, j \in 1..Len(Text(mods[k]))
    <3>3. n \in Quoted(text[p])
      BY <3>1, <2>1, <2>5
    <3> QED BY <3>1, <3>2, <3>3, <1>6 DEF In
  <2> HIDE DEF places
  <2> QED BY <2>3, <2>4, <2>5 DEF Hit, Meant
<1> HIDE DEF places
<1>9. Finds(BlockAt(text, places, decls), mods, ends, places, decls)
  BY <1>1, <1>5, <1>7, BlockFound
<1>10. PICK block : block = BlockAt(text, places, decls)
  OBVIOUS
<1>11. CASE /\ block = <<>>
            /\ \A k \in 1..l : ~Hit(mods, ends, places, decls, k)
  <2>1. \A k \in 1..l : ~Meant(f, n, decls, k)
    BY <1>8, <1>11
  <2>2. Aidl!First(f, n, decls) = {}
    BY <2>1, <1>4
  <2> QED BY <2>1, <2>2, <1>2, <1>10, <1>11
<1>12. ASSUME NEW k \in 1..l, Hit(mods, ends, places, decls, k), block = Text(mods[k]),
              \A j \in 1..(k - 1) : ~Hit(mods, ends, places, decls, j)
       PROVE  Meant(f, n, decls, k) /\ Aidl!First(f, n, decls) = {f.mods[k]}
  <2>1. Meant(f, n, decls, k)
    BY <1>8, <1>12
  <2>2. ASSUME NEW j \in 1..(k - 1) PROVE ~Meant(f, n, decls, j)
    <3>1. j \in 1..l
      BY <1>3
    <3> QED BY <3>1, <1>8, <1>12
  <2>3. ASSUME NEW j \in 1..l, Meant(f, n, decls, j),
               \A i \in 1..(j - 1) : ~Meant(f, n, decls, i)
        PROVE  j = k
    <3>1. j \notin 1..(k - 1) /\ k \notin 1..(j - 1)
      BY <2>1, <2>2, <2>3
    <3> QED BY ONLY <3>1, <1>3, j \in 1..l, k \in 1..l
  <2> QED BY <2>1, <2>2, <2>3, <1>4
<1> QED BY <1>2, <1>9, <1>10, <1>11, <1>12 DEF Finds
-----------------------------------------------------------------------------
(***************************************************************************)
(* What extract_block makes of a file.                                     *)
(***************************************************************************)
\* The file tells a module's defaults apart.
DefaultsOf(m) == Field(m.props, "defaults", <<>>)
Clear(f, m) ==
  \A d \in ToSet(DefaultsOf(m)) :
    Aidl!First(f, d, Aidl!DefaultsFilter) = Aidl!Named(d, "aidl_interface_defaults")

\* A block says of every field what Soong makes of the module.
Speaks(block, m) ==
  \A fld : fld \notin {"open", "close", "name"} =>
    \A default : Field(block, fld, default) = Aidl!Prop(m, fld, default)

\* The block of a name among defaults, where the file tells them apart, says what Soong
\* inherits.
LEMMA DefaultsFound ==
  ASSUME NEW f, Aidl!IsFile(f), NEW d,
         Aidl!First(f, d, Aidl!DefaultsFilter) = Aidl!Named(d, "aidl_interface_defaults"),
         NEW fld, fld \notin {"open", "close", "name"}
  PROVE  Same(Aidl!NamedBlock(Aidl!FileText(f.mods), d, Aidl!DefaultsFilter),
              Aidl!PropsOf(d), fld)
<1>1. PICK block : block = Aidl!NamedBlock(Aidl!FileText(f.mods), d, Aidl!DefaultsFilter)
  OBVIOUS
<1>2. PICK named : named = Aidl!Named(d, "aidl_interface_defaults")
  OBVIOUS
<1>3. "nested" \notin Aidl!DefaultsFilter
  BY DEF Aidl!DefaultsFilter
<1>4. Aidl!PropsOf(d) = IF named = {} THEN <<>> ELSE (CHOOSE m \in named : TRUE).props
  BY <1>2 DEF Aidl!PropsOf, Aidl!AnyProps
<1>5. \/ block = <<>> /\ Aidl!First(f, d, Aidl!DefaultsFilter) = {}
      \/ \E k \in 1..Len(f.mods) :
           /\ Meant(f, d, Aidl!DefaultsFilter, k) /\ block = Text(f.mods[k])
           /\ Aidl!First(f, d, Aidl!DefaultsFilter) = {f.mods[k]}
  BY <1>1, <1>3, NamedFound
<1>6. CASE block = <<>> /\ Aidl!First(f, d, Aidl!DefaultsFilter) = {}
  <2>1. Aidl!PropsOf(d) = <<>>
    BY <1>2, <1>4, <1>6
  <2> QED BY <2>1, <1>1, <1>6 DEF Same
<1>7. ASSUME NEW k \in 1..Len(f.mods), NEW m, m = f.mods[k],
             Meant(f, d, Aidl!DefaultsFilter, k), block = Text(m),
             Aidl!First(f, d, Aidl!DefaultsFilter) = {m}
      PROVE  Same(block, Aidl!PropsOf(d), fld)
  <2>1. Aidl!PropsOf(d) = m.props
    BY <1>2, <1>4, <1>7
  <2>2. WellFormed(m) /\ ~m.early
    BY <1>7, AidlOperators DEF Aidl!IsFile, Meant, Offers
  <2>3. \A default : Field(block, fld, default) = Field(m.props, fld, default)
    BY <2>2, <1>7, FieldOfText
  <2> QED BY <2>1, <2>3 DEF Same
<1> QED BY <1>1, <1>5, <1>6, <1>7

\* Everything in the text of a file.
AllTokens(f) == UNION {Tokens(f.mods[k]) : k \in 1..Len(f.mods)}

\* What a search of the file finds.
LEMMA NamedTokens ==
  ASSUME NEW f, Aidl!IsFile(f), NEW n, NEW decls, "nested" \notin decls
  PROVE  Aidl!NamedBlock(Aidl!FileText(f.mods), n, decls) \in Seq(AllTokens(f))
<1>1. PICK block : block = Aidl!NamedBlock(Aidl!FileText(f.mods), n, decls)
  OBVIOUS
<1>2. block = <<>> \/ \E k \in 1..Len(f.mods) : block = Text(f.mods[k])
  BY <1>1, NamedFound
<1>3. CASE block = <<>>
  BY <1>1, <1>3
<1>4. ASSUME NEW k \in 1..Len(f.mods), block = Text(f.mods[k])
      PROVE  block \in Seq(AllTokens(f))
  <2>1. block \in Seq(Tokens(f.mods[k]))
    BY <1>4, TextShape, AidlOperators DEF Aidl!IsFile
  <2>2. Tokens(f.mods[k]) \subseteq AllTokens(f)
    BY DEF AllTokens
  <2> QED BY ONLY <2>1, <2>2
<1> QED BY <1>1, <1>2, <1>3, <1>4

\* What Soong inherits, where the file tells its defaults apart.
LEMMA InheritedProps ==
  ASSUME NEW f, Aidl!IsFile(f), NEW d,
         Aidl!First(f, d, Aidl!DefaultsFilter) = Aidl!Named(d, "aidl_interface_defaults")
  PROVE  Aidl!PropsOf(d) \in Seq(AllTokens(f))
<1>1. PICK named : named = Aidl!Named(d, "aidl_interface_defaults")
  OBVIOUS
<1>2. Aidl!PropsOf(d) = IF named = {} THEN <<>> ELSE (CHOOSE m \in named : TRUE).props
  BY <1>1 DEF Aidl!PropsOf, Aidl!AnyProps
<1>3. "nested" \notin Aidl!DefaultsFilter
  BY DEF Aidl!DefaultsFilter
<1>4. named = {} \/ \E k \in 1..Len(f.mods) : named = {f.mods[k]}
  BY <1>1, <1>3, NamedFound
<1>5. CASE named = {}
  BY <1>2, <1>5
<1>6. ASSUME NEW k \in 1..Len(f.mods), NEW m, m = f.mods[k], named = {m}
      PROVE  Aidl!PropsOf(d) \in Seq(AllTokens(f))
  <2>1. Aidl!PropsOf(d) = m.props
    BY <1>2, <1>6
  <2>2. m.props \in Seq(ToSet(m.props))
    BY <1>6, AidlOperators DEF Aidl!IsFile, WellFormed
  <2>3. ToSet(m.props) \subseteq AllTokens(f)
    BY <1>6 DEF AllTokens, Tokens
  <2>4. PICK s : s = m.props
    OBVIOUS
  <2>5. s \in Seq(AllTokens(f))
    BY ONLY <2>2, <2>3, <2>4
  <2> QED BY <2>1, <2>4, <2>5
<1> QED BY <1>4, <1>5, <1>6

\* A name finds a module of a file, the first that mentions it; and the block says of it
\* what Soong makes of it, where the file tells its defaults apart.
Finding(f, n, m) ==
  /\ ~m.early /\ m.decl \in Aidl!AidlFilter /\ Aidl!First(f, n, Aidl!AidlFilter) = {m}
  /\ Aidl!ExtractBlock(f, n) # <<>>
  /\ Clear(f, m) => Speaks(Aidl!ExtractBlock(f, n), m)

\* That is what extract_block finds in a file.
LEMMA AidlExtracted ==
  ASSUME NEW f, Aidl!IsFile(f), f.readable, NEW n
  PROVE  \/ /\ Aidl!ExtractBlock(f, n) = <<>> /\ Aidl!First(f, n, Aidl!AidlFilter) = {}
            /\ \A k \in 1..Len(f.mods) : ~Meant(f, n, Aidl!AidlFilter, k)
         \/ \E k \in 1..Len(f.mods) : Finding(f, n, f.mods[k])
<1> DEFINE text == Aidl!FileText(f.mods)
<1>1. PICK block : block = Aidl!NamedBlock(text, n, Aidl!AidlFilter)
  OBVIOUS
<1>2. PICK ds : ds = Field(block, "defaults", <<>>)
  OBVIOUS
<1>3. PICK a : a = [i \in DOMAIN ds |-> Aidl!NamedBlock(text, ds[i], Aidl!DefaultsFilter)]
  OBVIOUS
<1>4. Aidl!ExtractBlock(f, n) = IF block = <<>> THEN <<>> ELSE block \o FlattenSeq(a)
  BY <1>1, <1>2, <1>3, AidlOperators DEF Aidl!ExtractBlock
<1>5. "nested" \notin Aidl!AidlFilter /\ "nested" \notin Aidl!DefaultsFilter
  BY DEF Aidl!AidlFilter, Aidl!DefaultsFilter
<1>6. \/ /\ block = <<>> /\ Aidl!First(f, n, Aidl!AidlFilter) = {}
         /\ \A k \in 1..Len(f.mods) : ~Meant(f, n, Aidl!AidlFilter, k)
      \/ \E k \in 1..Len(f.mods) :
           /\ Meant(f, n, Aidl!AidlFilter, k) /\ block = Text(f.mods[k])
           /\ Aidl!First(f, n, Aidl!AidlFilter) = {f.mods[k]}
  BY <1>1, <1>5, NamedFound
<1>7. ASSUME NEW k \in 1..Len(f.mods), NEW m, m = f.mods[k],
             Meant(f, n, Aidl!AidlFilter, k), block = Text(m),
             Aidl!First(f, n, Aidl!AidlFilter) = {m}
      PROVE  Finding(f, n, m)
  <2>1. WellFormed(m) /\ ~m.early /\ m.decl \in Aidl!AidlFilter
    BY <1>7, AidlOperators DEF Aidl!IsFile, Meant, Offers
  <2>2. Tokens(m) \subseteq AllTokens(f)
    BY <1>7 DEF AllTokens
  <2>3. block \in Seq(AllTokens(f)) /\ block # <<>>
    <3>1. block \in Seq(Tokens(m)) /\ Len(block) = Before(m) + 3 + Len(m.props)
      BY <1>7, <2>1, TextShape
    <3>2. block \in Seq(AllTokens(f))
      BY ONLY <3>1, <2>2
    <3>3. Before(m) = 0
      BY <2>1 DEF Before
    <3>4. Len(m.props) \in Nat
      <4>1. PICK s : s = m.props
        OBVIOUS
      <4>2. s \in Seq(ToSet(s))
        BY <2>1, <4>1 DEF WellFormed
      <4>3. Len(s) \in Nat
        BY ONLY <4>2
      <4> QED BY <4>1, <4>3
    <3>5. Len(block) # 0
      BY ONLY <3>1, <3>3, <3>4
    <3> QED BY <3>2, <3>5
  <2>4. ds = DefaultsOf(m)
    BY <1>2, <1>7, <2>1, FieldOfText DEF DefaultsOf
  <2>5. PICK l : l = Len(ds)
    OBVIOUS
  <2>6. ds \in Seq(ToSet(ds))
    <3>1. Aidl!Field(m.props, "defaults", <<>>) = DefaultsOf(m)
      BY AidlOperators DEF DefaultsOf
    <3>2. Aidl!Field(m.props, "defaults", <<>>)
            \in Seq(Aidl!ToSet(Aidl!Field(m.props, "defaults", <<>>)))
      BY <1>7 DEF Aidl!IsFile
    <3> QED BY <3>1, <3>2, <2>4, AidlOperators
  <2>7. l \in Nat /\ DOMAIN ds = 1..l
    BY ONLY <2>5, <2>6
  <2>8. \A i \in 1..l : ds[i] \in ToSet(ds)
    BY <2>7 DEF ToSet
  <2>9. a \in [1..l -> Seq(AllTokens(f))]
    <3>1. \A i \in 1..l : Aidl!NamedBlock(text, ds[i], Aidl!DefaultsFilter) \in Seq(AllTokens(f))
      BY <1>5, NamedTokens
    <3> QED BY <3>1, <2>7, <1>3
  <2>10. FlattenSeq(a) \in Seq(AllTokens(f))
    BY ONLY <2>7, <2>9, FlattenElements
  <2>11. Aidl!ExtractBlock(f, n) = block \o FlattenSeq(a)
    BY <1>4, <2>3
  <2>12. Aidl!ExtractBlock(f, n) # <<>>
    <3>1. Len(block \o FlattenSeq(a)) = Len(block) + Len(FlattenSeq(a))
      BY ONLY <2>3, <2>10
    <3>2. Len(block) \in Nat \ {0} /\ Len(FlattenSeq(a)) \in Nat
      BY ONLY <2>3, <2>10
    <3>3. Len(block \o FlattenSeq(a)) # 0
      BY ONLY <3>1, <3>2
    <3> QED BY <3>3, <2>11
  <2>13. ASSUME Clear(f, m), NEW fld, fld \notin {"open", "close", "name"}, NEW default
         PROVE  Field(Aidl!ExtractBlock(f, n), fld, default) = Aidl!Prop(m, fld, default)
    <3>1. PICK b : b = [i \in DOMAIN ds |-> Aidl!PropsOf(ds[i])]
      OBVIOUS
    <3>2. \A i \in 1..l : Aidl!First(f, ds[i], Aidl!DefaultsFilter)
                           = Aidl!Named(ds[i], "aidl_interface_defaults")
      BY <2>4, <2>8, <2>13 DEF Clear
    <3>3. b \in [1..l -> Seq(AllTokens(f))]
      <4>1. \A i \in 1..l : Aidl!PropsOf(ds[i]) \in Seq(AllTokens(f))
        BY <3>2, InheritedProps
      <4> QED BY <4>1, <3>1, <2>7
    <3>4. \A i \in 1..l : Same(a[i], b[i], fld)
      <4>1. \A i \in 1..l : Same(Aidl!NamedBlock(text, ds[i], Aidl!DefaultsFilter),
                                  Aidl!PropsOf(ds[i]), fld)
        BY <3>2, <2>13, DefaultsFound
      <4> QED BY <4>1, <3>1, <1>3, <2>7
    <3>5. Same(FlattenSeq(a), FlattenSeq(b), fld)
      BY ONLY <2>7, <2>9, <3>3, <3>4, FieldOfFlat
    <3>6. Field(block \o FlattenSeq(a), fld, default)
            = Field(block, fld, Field(FlattenSeq(a), fld, default))
      BY ONLY <2>3, <2>10, FieldOfJoin
    <3>7. Field(FlattenSeq(a), fld, default) = Field(FlattenSeq(b), fld, default)
      BY <3>5 DEF Same
    <3>8. PICK d : d = Field(FlattenSeq(b), fld, default)
      OBVIOUS
    <3>9. Field(block, fld, d) = Field(m.props, fld, d)
      BY <1>7, <2>1, <2>13, FieldOfText
    <3>10. Aidl!Prop(m, fld, default) = Field(m.props, fld, d)
      BY <2>4, <3>1, <3>8, AidlOperators DEF Aidl!Prop, DefaultsOf
    <3> QED BY <2>11, <3>6, <3>7, <3>8, <3>9, <3>10
  <2> QED BY <1>7, <2>1, <2>12, <2>13 DEF Finding, Speaks
<1>8. CASE block = <<>>
  BY <1>4, <1>6, <1>7, <1>8 DEF Finding
<1>9. CASE \E k \in 1..Len(f.mods) :
             /\ Meant(f, n, Aidl!AidlFilter, k) /\ block = Text(f.mods[k])
             /\ Aidl!First(f, n, Aidl!AidlFilter) = {f.mods[k]}
  BY <1>7, <1>9
<1> QED BY <1>6, <1>8, <1>9, <1>4
-----------------------------------------------------------------------------
(***************************************************************************)
(* From the block to the verdict.                                          *)
(***************************************************************************)
\* On a block that says what Soong makes of an interface, the verdict is right of it; but
\* a current version without a frozen one is not told.
LEMMA VerdictRight ==
  ASSUME NEW block, block # <<>>, NEW m, Speaks(block, m), NEW ver
  PROVE  /\ Aidl!VerdictOf(block, ver) = "DROP" => Aidl!Builds(m, ver) /\ Aidl!ForVendor(m)
         /\ Aidl!Builds(m, ver) /\ Aidl!ForVendor(m) /\ Aidl!Frozen(m) # {}
              => Aidl!VerdictOf(block, ver) = "DROP"
<1>1. PICK vs : vs = Aidl!Frozen(m)
  OBVIOUS
<1>2. Aidl!Versions(block) = vs
  <2>1. Field(block, "versions", {}) = Aidl!Prop(m, "versions", {})
    BY DEF Speaks
  <2>2. \A d : Field(block, "versions_with_info", d) = Aidl!Prop(m, "versions_with_info", d)
    BY DEF Speaks
  <2> QED BY <2>1, <2>2, <1>1, AidlOperators DEF Aidl!Versions, Aidl!Frozen
<1>3. Aidl!Field(block, "unstable", FALSE) = Aidl!Prop(m, "unstable", FALSE)
  BY AidlOperators DEF Speaks
<1>4. Aidl!Field(block, "frozen", FALSE) = Aidl!Prop(m, "frozen", FALSE)
  BY AidlOperators DEF Speaks
<1>5. Aidl!Consumable(block) <=> Aidl!ForVendor(m)
  <2>1. Aidl!Field(block, "vendor_available", FALSE) = Aidl!Prop(m, "vendor_available", FALSE)
    BY AidlOperators DEF Speaks
  <2>2. Aidl!Field(block, "stability", "") = Aidl!Prop(m, "stability", "")
    BY AidlOperators DEF Speaks
  <2> QED BY <2>1, <2>2 DEF Aidl!Consumable, Aidl!ForVendor
<1>6. Aidl!VerdictOf(block, ver) = "DROP" <=> ver \in Aidl!Built(block) /\ Aidl!Consumable(block)
  BY DEF Aidl!VerdictOf
<1>7. ver \in Aidl!Built(block) <=>
        \/ ver \in vs
        \/ /\ vs # {} /\ ~Aidl!Prop(m, "unstable", FALSE) /\ ~Aidl!Prop(m, "frozen", FALSE)
           /\ ver = Aidl!Max(vs) + 1
  BY <1>2, <1>3, <1>4 DEF Aidl!Built
<1>8. vs # {} => Aidl!Latest(m) = Aidl!Max(vs)
  BY <1>1 DEF Aidl!Latest
<1>9. Aidl!Builds(m, ver) <=>
        \/ ver \in vs
        \/ /\ ~Aidl!Prop(m, "unstable", FALSE) /\ ~Aidl!Prop(m, "frozen", FALSE)
           /\ ver = Aidl!Latest(m) + 1
  BY <1>1 DEF Aidl!Builds
<1> QED BY <1>1, <1>5, <1>6, <1>7, <1>8, <1>9

\* A file that is searched for a name.
SearchedAt(r, i, n) ==
  LET f == aTree[r][i] IN f.readable /\ (n \in f.direct \/ Aidl!Declares(f, n))

\* The files and the modules of a tree.
LEMMA TreeFiles ==
  ASSUME Aidl!IsTree(aTree)
  PROVE  /\ Len(aTree) \in Nat /\ DOMAIN aTree = 1..Len(aTree)
         /\ \A r \in 1..Len(aTree) :
              /\ Len(aTree[r]) \in Nat /\ DOMAIN aTree[r] = 1..Len(aTree[r])
              /\ aTree[r] \in Seq(ToSet(aTree[r]))
              /\ \A i \in 1..Len(aTree[r]) : Aidl!IsFile(aTree[r][i])
<1>1. aTree \in Seq(ToSet(aTree))
  BY AidlOperators DEF Aidl!IsTree
<1>2. Len(aTree) \in Nat /\ DOMAIN aTree = 1..Len(aTree)
  BY ONLY <1>1
<1>3. ASSUME NEW r \in 1..Len(aTree)
      PROVE  /\ Len(aTree[r]) \in Nat /\ DOMAIN aTree[r] = 1..Len(aTree[r])
             /\ aTree[r] \in Seq(ToSet(aTree[r]))
             /\ \A i \in 1..Len(aTree[r]) : Aidl!IsFile(aTree[r][i])
  <2>1. aTree[r] \in Seq(ToSet(aTree[r]))
    BY AidlOperators DEF Aidl!IsTree
  <2>2. PICK s : s = aTree[r]
    OBVIOUS
  <2>3. Len(s) \in Nat /\ DOMAIN s = 1..Len(s)
    BY ONLY <2>1, <2>2
  <2> QED BY <2>1, <2>2, <2>3 DEF Aidl!IsTree
<1> QED BY <1>2, <1>3

\* The files searched for a name, by their places.
LEMMA SearchedFiles ==
  ASSUME Aidl!IsTree(aTree), NEW n, NEW f
  PROVE  f \in Aidl!Searched(n) <=>
           \E r \in 1..Len(aTree) : \E i \in 1..Len(aTree[r]) :
             f = aTree[r][i] /\ SearchedAt(r, i, n)
<1>1. \A r \in 1..Len(aTree) : Aidl!ToSet(aTree[r]) = {aTree[r][i] : i \in 1..Len(aTree[r])}
  BY TreeFiles DEF Aidl!ToSet
<1>2. DOMAIN aTree = 1..Len(aTree)
  BY TreeFiles
<1> QED BY <1>1, <1>2 DEF Aidl!Searched, SearchedAt

\* A module of the name is declared in a file searched for the name.
LEMMA NamedModules ==
  ASSUME Aidl!IsTree(aTree), NEW n, NEW decl, NEW m \in Aidl!Named(n, decl)
  PROVE  \E r \in 1..Len(aTree) : \E i \in 1..Len(aTree[r]) :
           \E k \in 1..Len(aTree[r][i].mods) :
             /\ m = aTree[r][i].mods[k] /\ m.name = n /\ m.decl = decl
             /\ aTree[r][i].readable /\ Aidl!Declares(aTree[r][i], n)
<1>1. m \in Aidl!Modules /\ m.name = n /\ m.decl = decl
  BY DEF Aidl!Named
<1>2. PICK r \in DOMAIN aTree :
        m \in UNION {Aidl!ToSet(f.mods) : f \in {g \in Aidl!ToSet(aTree[r]) : g.readable}}
  BY <1>1 DEF Aidl!Modules
<1>3. PICK f \in Aidl!ToSet(aTree[r]) : f.readable /\ m \in Aidl!ToSet(f.mods)
  BY <1>2
<1>4. r \in 1..Len(aTree) /\ DOMAIN aTree[r] = 1..Len(aTree[r])
  BY TreeFiles
<1>5. PICK i \in 1..Len(aTree[r]) : f = aTree[r][i]
  BY <1>3, <1>4 DEF Aidl!ToSet
<1>6. PICK k \in DOMAIN f.mods : m = f.mods[k]
  BY <1>3 DEF Aidl!ToSet
<1>7. DOMAIN f.mods = 1..Len(f.mods)
  <2>1. Aidl!IsFile(f)
    BY <1>4, <1>5, TreeFiles
  <2>2. PICK s : s = f.mods
    OBVIOUS
  <2>3. s \in Seq(ToSet(s))
    BY <2>1, <2>2, AidlOperators DEF Aidl!IsFile
  <2>4. DOMAIN s = 1..Len(s)
    BY ONLY <2>3
  <2> QED BY <2>2, <2>4
<1>8. Aidl!Declares(f, n)
  BY <1>1, <1>6 DEF Aidl!Declares
<1> QED BY <1>1, <1>3, <1>4, <1>5, <1>6, <1>7, <1>8
-----------------------------------------------------------------------------
(***************************************************************************)
(* The search for a name.                                                  *)
(***************************************************************************)
\* Of the files at some places, the search takes a block of one that yields one.
LEMMA FirstFound ==
  ASSUME NEW fs, NEW places \in SUBSET Nat, NEW n
  PROVE  \/ /\ Aidl!FirstBlock(fs, places, n) = <<>>
            /\ \A i \in places : Aidl!ExtractBlock(fs[i], n) = <<>>
         \/ \E i \in places : /\ Aidl!ExtractBlock(fs[i], n) # <<>>
                              /\ Aidl!FirstBlock(fs, places, n) = Aidl!ExtractBlock(fs[i], n)
<1>1. PICK hits : hits = {i \in places : Aidl!ExtractBlock(fs[i], n) # <<>>}
  OBVIOUS
<1>2. Aidl!FirstBlock(fs, places, n)
        = IF hits = {} THEN <<>> ELSE Aidl!ExtractBlock(fs[Min(hits)], n)
  BY <1>1, AidlOperators DEF Aidl!FirstBlock
<1>3. CASE hits = {}
  BY <1>1, <1>2, <1>3
<1>4. CASE hits # {}
  <2>1. hits \subseteq Nat
    BY <1>1
  <2>2. Min(hits) \in hits
    BY <2>1, <1>4, MinIsLeast
  <2> QED BY <2>2, <1>1, <1>2, <1>4
<1> QED BY <1>3, <1>4

\* A block comes from a file that is searched for the name.
Origin(block, n) ==
  \E f \in Aidl!Searched(n) :
    Aidl!IsFile(f) /\ f.readable /\ block = Aidl!ExtractBlock(f, n)

\* A block of a file at a place that is searched comes from a file searched for.
LEMMA SearchedOrigin ==
  ASSUME Aidl!IsTree(aTree), NEW r \in 1..Len(aTree), NEW i \in 1..Len(aTree[r]),
         NEW f, f = aTree[r][i], NEW n, n \in f.direct \/ Aidl!Declares(f, n),
         NEW block, block = Aidl!ExtractBlock(f, n), block # <<>>
  PROVE  Origin(block, n)
<1>1. f.readable
  BY DEF Aidl!ExtractBlock
<1>2. Aidl!IsFile(f)
  BY TreeFiles
<1>3. f \in Aidl!Searched(n)
  BY <1>1, SearchedFiles DEF SearchedAt
<1> QED BY <1>1, <1>2, <1>3 DEF Origin

\* What the obvious paths yield.
LEMMA PathFound ==
  ASSUME Aidl!IsTree(aTree), NEW n, Aidl!ByPath(n) # <<>>
  PROVE  Origin(Aidl!ByPath(n), n)
<1> DEFINE l == Len(aTree)
           A == UNION {ToSet(aTree[r]) : r \in 1..l}
<1>1. l \in Nat
  BY TreeFiles
<1>2. aTree \in [1..l -> Seq(A)]
  <2>1. ASSUME NEW r \in 1..l PROVE aTree[r] \in Seq(A)
    <3>1. aTree[r] \in Seq(ToSet(aTree[r]))
      BY TreeFiles
    <3>2. ToSet(aTree[r]) \subseteq A
      OBVIOUS
    <3> HIDE DEF A
    <3> QED BY ONLY <3>1, <3>2, SeqMonotonic
  <2>2. aTree \in Seq(ToSet(aTree))
    BY AidlOperators DEF Aidl!IsTree
  <2>3. aTree = [r \in 1..l |-> aTree[r]]
    BY ONLY <2>2
  <2> HIDE DEF A, l
  <2> QED BY <2>1, <2>3
<1> HIDE DEF A, l
<1>3. PICK flat : flat = FlattenSeq(aTree)
  OBVIOUS
<1>4. FlattenSeq(aTree) \in Seq(A) /\ Elements(FlattenSeq(aTree), aTree, l)
  BY ONLY <1>1, <1>2, FlattenElements
<1>5. DOMAIN flat \subseteq Nat /\ Elements(flat, aTree, l)
  <2>1. flat \in Seq(A)
    BY ONLY <1>3, <1>4
  <2>2. DOMAIN flat \subseteq Nat
    BY ONLY <2>1
  <2> QED BY <2>2, <1>3, <1>4
<1>6. PICK places : places = {i \in DOMAIN flat : n \in flat[i].direct}
  OBVIOUS
<1>7. Aidl!ByPath(n) = Aidl!FirstBlock(flat, places, n)
  BY <1>3, <1>6, AidlOperators DEF Aidl!ByPath
<1>8. PICK p \in places : /\ Aidl!ExtractBlock(flat[p], n) # <<>>
                          /\ Aidl!ByPath(n) = Aidl!ExtractBlock(flat[p], n)
  <2>1. places \in SUBSET Nat
    BY <1>5, <1>6
  <2> QED BY <2>1, <1>7, FirstFound
<1>9. PICK r \in 1..l : \E i \in DOMAIN aTree[r] : flat[p] = aTree[r][i]
  BY <1>5, <1>6 DEF Elements
<1>10. PICK i \in 1..Len(aTree[r]) : flat[p] = aTree[r][i]
  BY <1>9, TreeFiles DEF l
<1>11. n \in flat[p].direct
  BY <1>6
<1> QED BY <1>8, <1>9, <1>10, <1>11, SearchedOrigin DEF l

\* What a grep yields, and what it has seen when it yields nothing.
LEMMA GrepFound ==
  ASSUME Aidl!IsTree(aTree), NEW r \in 1..Len(aTree), NEW n
  PROVE  \/ /\ Aidl!ByGrep(r, n) = <<>>
            /\ \A i \in 1..Len(aTree[r]) :
                 Aidl!Declares(aTree[r][i], n) => Aidl!ExtractBlock(aTree[r][i], n) = <<>>
         \/ Aidl!ByGrep(r, n) # <<>> /\ Origin(Aidl!ByGrep(r, n), n)
<1>1. PICK fs : fs = aTree[r]
  OBVIOUS
<1>2. Len(fs) \in Nat /\ DOMAIN fs = 1..Len(fs)
  BY <1>1, TreeFiles
<1>3. PICK places : places = {i \in 1..Len(fs) : Aidl!Declares(fs[i], n)}
  OBVIOUS
<1>4. Aidl!ByGrep(r, n) = Aidl!FirstBlock(fs, places, n)
  BY <1>1, <1>2, <1>3 DEF Aidl!ByGrep
<1>5. places \in SUBSET Nat
  BY <1>2, <1>3
<1>6. CASE /\ Aidl!FirstBlock(fs, places, n) = <<>>
           /\ \A i \in places : Aidl!ExtractBlock(fs[i], n) = <<>>
  BY <1>1, <1>3, <1>4, <1>6
<1>7. ASSUME NEW i \in places, Aidl!ExtractBlock(fs[i], n) # <<>>,
             Aidl!FirstBlock(fs, places, n) = Aidl!ExtractBlock(fs[i], n)
      PROVE  Aidl!ByGrep(r, n) # <<>> /\ Origin(Aidl!ByGrep(r, n), n)
  <2>1. i \in 1..Len(aTree[r]) /\ Aidl!Declares(aTree[r][i], n)
    BY <1>1, <1>3
  <2> QED BY <2>1, <1>1, <1>4, <1>7, SearchedOrigin
<1> QED BY <1>5, <1>6, <1>7, FirstFound

-----------------------------------------------------------------------------
(***************************************************************************)
(* A verdict is right.                                                     *)
(***************************************************************************)
\* What a verdict says of a prebuilt, but for the names that are hidden or loose.
DropRight(p) ==
  ~Aidl!Hidden(p.name) /\ ~Aidl!Loose(p.name) => Aidl!Replacing(p) # {}
KeepRight(p) ==
  ~Aidl!Hidden(p.name) /\ ~Aidl!Loose(p.name) =>
    \A m \in Aidl!Replacing(p) :
      m.early \/ Aidl!Frozen(m) = {} \/ Aidl!Named(p.name, "aidl_interface") # {m}
RowRight(p, verdict, complete) ==
  /\ verdict = "DROP" => DropRight(p)
  /\ complete /\ verdict # "DROP" => KeepRight(p)

\* It is right if a block was found.
LEMMA FoundRight ==
  ASSUME NEW p, NEW block, block # <<>>, Origin(block, p.name), NEW complete
  PROVE  RowRight(p, Aidl!VerdictOf(block, p.ver), complete)
<1> SUFFICES ASSUME ~Aidl!Hidden(p.name), ~Aidl!Loose(p.name)
             PROVE  /\ Aidl!VerdictOf(block, p.ver) = "DROP" => Aidl!Replacing(p) # {}
                    /\ Aidl!VerdictOf(block, p.ver) # "DROP" =>
                         \A m \in Aidl!Replacing(p) :
                           \/ m.early \/ Aidl!Frozen(m) = {}
                           \/ Aidl!Named(p.name, "aidl_interface") # {m}
  BY DEF RowRight, DropRight, KeepRight
<1>1. PICK f \in Aidl!Searched(p.name) :
        Aidl!IsFile(f) /\ f.readable /\ block = Aidl!ExtractBlock(f, p.name)
  BY DEF Origin
<1>2. PICK k \in 1..Len(f.mods) : Finding(f, p.name, f.mods[k])
  BY <1>1, AidlExtracted
<1>3. PICK m : m = f.mods[k]
  OBVIOUS
<1>4. m \in Aidl!Named(p.name, "aidl_interface")
  BY <1>1, <1>2, <1>3 DEF Finding, Aidl!Hidden
<1>5. m \in ToSet(f.mods)
  <2>1. PICK s : s = f.mods
    OBVIOUS
  <2>2. s \in Seq(ToSet(s))
    BY <1>1, <2>1, AidlOperators DEF Aidl!IsFile
  <2>3. DOMAIN s = 1..Len(s)
    BY ONLY <2>2
  <2> QED BY <2>1, <2>3, <1>3 DEF ToSet
<1>6. Clear(f, m)
  BY <1>1, <1>4, <1>5, AidlOperators DEF Aidl!Loose, Clear, DefaultsOf
<1>7. Speaks(block, m)
  BY <1>1, <1>2, <1>3, <1>6 DEF Finding
<1>8. /\ Aidl!VerdictOf(block, p.ver) = "DROP" => Aidl!Builds(m, p.ver) /\ Aidl!ForVendor(m)
      /\ Aidl!Builds(m, p.ver) /\ Aidl!ForVendor(m) /\ Aidl!Frozen(m) # {}
           => Aidl!VerdictOf(block, p.ver) = "DROP"
  BY <1>7, VerdictRight
<1>9. Aidl!VerdictOf(block, p.ver) = "DROP" => m \in Aidl!Replacing(p)
  BY <1>4, <1>8 DEF Aidl!Replacing
<1>10. ASSUME Aidl!VerdictOf(block, p.ver) # "DROP", NEW o \in Aidl!Replacing(p),
              Aidl!Named(p.name, "aidl_interface") = {o}
       PROVE  Aidl!Frozen(o) = {}
  <2>1. o = m /\ Aidl!Builds(o, p.ver) /\ Aidl!ForVendor(o)
    BY <1>4, <1>10 DEF Aidl!Replacing
  <2> QED BY <2>1, <1>8, <1>10
<1> QED BY <1>9, <1>10

\* It is right if every root was searched and none yields a block.
LEMMA NothingRight ==
  ASSUME Aidl!IsTree(aTree), NEW p, NEW complete,
         complete => \A r \in 1..Len(aTree) : Aidl!ByGrep(r, p.name) = <<>>
  PROVE  RowRight(p, "UNKNOWN", complete)
<1> SUFFICES ASSUME complete, NEW m \in Aidl!Replacing(p) PROVE m.early
  BY DEF RowRight, KeepRight
<1>1. m \in Aidl!Named(p.name, "aidl_interface")
  BY DEF Aidl!Replacing
<1>2. PICK r \in 1..Len(aTree) : \E i \in 1..Len(aTree[r]) :
        \E k \in 1..Len(aTree[r][i].mods) :
          /\ m = aTree[r][i].mods[k] /\ m.name = p.name /\ m.decl = "aidl_interface"
          /\ aTree[r][i].readable /\ Aidl!Declares(aTree[r][i], p.name)
  BY <1>1, NamedModules
<1>3. PICK i \in 1..Len(aTree[r]) : \E k \in 1..Len(aTree[r][i].mods) :
        /\ m = aTree[r][i].mods[k] /\ m.name = p.name /\ m.decl = "aidl_interface"
        /\ aTree[r][i].readable /\ Aidl!Declares(aTree[r][i], p.name)
  BY <1>2
<1>4. PICK f : f = aTree[r][i]
  OBVIOUS
<1>5. PICK k \in 1..Len(f.mods) :
        /\ m = f.mods[k] /\ m.name = p.name /\ m.decl = "aidl_interface"
        /\ f.readable /\ Aidl!Declares(f, p.name)
  BY <1>3, <1>4
<1>6. Aidl!ExtractBlock(f, p.name) = <<>>
  BY <1>4, <1>5, GrepFound
<1>7. Aidl!IsFile(f)
  BY <1>4, TreeFiles
<1>8. ~Meant(f, p.name, Aidl!AidlFilter, k)
  BY <1>5, <1>6, <1>7, AidlExtracted DEF Finding
<1>9. Aidl!Mentions(m, p.name) /\ m.decl \in Aidl!AidlFilter
  BY <1>5 DEF Aidl!Mentions, Aidl!AidlFilter
<1> QED BY <1>5, <1>8, <1>9 DEF Meant, Offers
-----------------------------------------------------------------------------
(***************************************************************************)
(* The verdicts of verify_aidl_versions.py.                                *)
(***************************************************************************)
Verdicts == [verdict : {"DROP", "KEEP", "UNKNOWN"}, complete : BOOLEAN]

\* A search has gone past a root only if the root yields no block, or its grep timed out.
Passed ==
  ~aSkipped => \A r \in 1..(aRoot - 1) : Aidl!ByGrep(r, Aidl!Current.name) = <<>>

\* The inductive invariant: what the search has passed, and every verdict is right.
AidlInv ==
  IF tool # "aidl" THEN aRows = <<>>
  ELSE /\ aTree \in AidlTrees /\ aRows \in Seq(Verdicts)
       /\ aRoot \in 0..Len(aTree) /\ aSkipped \in BOOLEAN
       /\ DropIsBuilt /\ KeepIsOrphan /\ Passed

\* The two properties, verdict by verdict.
LEMMA AidlVerdicts ==
  /\ DropIsBuilt <=>
       \A i \in DOMAIN aRows : aRows[i].verdict = "DROP" => DropRight(AidlPrebuilts[i])
  /\ KeepIsOrphan <=>
       \A i \in DOMAIN aRows :
         aRows[i].complete /\ aRows[i].verdict # "DROP" => KeepRight(AidlPrebuilts[i])
<1>1. DropIsBuilt <=>
        \A i \in DOMAIN aRows : aRows[i].verdict = "DROP" => DropRight(AidlPrebuilts[i])
  BY DEF DropIsBuilt, Aidl!DropIsBuilt, DropRight
<1>2. KeepIsOrphan <=>
        \A i \in DOMAIN aRows :
          aRows[i].complete /\ aRows[i].verdict # "DROP" => KeepRight(AidlPrebuilts[i])
  BY DEF KeepIsOrphan, Aidl!KeepIsOrphan, KeepRight
<1> QED BY <1>1, <1>2

\* The same of the next state.
LEMMA AidlVerdictsNext ==
  /\ DropIsBuilt' <=>
       \A i \in DOMAIN aRows' : aRows'[i].verdict = "DROP" => DropRight(AidlPrebuilts[i])'
  /\ KeepIsOrphan' <=>
       \A i \in DOMAIN aRows' :
         aRows'[i].complete /\ aRows'[i].verdict # "DROP" => KeepRight(AidlPrebuilts[i])'
<1>1. DropIsBuilt' <=>
        \A i \in DOMAIN aRows' : aRows'[i].verdict = "DROP" => DropRight(AidlPrebuilts[i])'
  BY DEF DropIsBuilt, Aidl!DropIsBuilt, DropRight
<1>2. KeepIsOrphan' <=>
        \A i \in DOMAIN aRows' :
          aRows'[i].complete /\ aRows'[i].verdict # "DROP" => KeepRight(AidlPrebuilts[i])'
  BY DEF KeepIsOrphan, Aidl!KeepIsOrphan, KeepRight
<1> QED BY <1>1, <1>2

\* What a verdict says of a prebuilt is about the tree, which the check never writes.
LEMMA SameAidlTree ==
  ASSUME aTree' = aTree
  PROVE  /\ \A p : DropRight(p)' = DropRight(p) /\ KeepRight(p)' = KeepRight(p)
         /\ \A r, n : Aidl!ByGrep(r, n)' = Aidl!ByGrep(r, n)
<1>1. Aidl!Modules' = Aidl!Modules
  BY DEF Aidl!Modules
<1>2. \A n, decl : Aidl!Named(n, decl)' = Aidl!Named(n, decl)
  BY <1>1 DEF Aidl!Named
<1>3. \A n : Aidl!PropsOf(n)' = Aidl!PropsOf(n)
  BY <1>2 DEF Aidl!PropsOf
<1>4. \A m, f, d : Aidl!Prop(m, f, d)' = Aidl!Prop(m, f, d)
  BY <1>3 DEF Aidl!Prop
<1>5. \A m : Aidl!Frozen(m)' = Aidl!Frozen(m)
  BY <1>4 DEF Aidl!Frozen
<1>6. \A m : Aidl!Latest(m)' = Aidl!Latest(m)
  BY <1>5 DEF Aidl!Latest
<1>7. \A m, ver : Aidl!Builds(m, ver)' = Aidl!Builds(m, ver)
  BY <1>4, <1>5, <1>6 DEF Aidl!Builds
<1>8. \A m : Aidl!ForVendor(m)' = Aidl!ForVendor(m)
  BY <1>4 DEF Aidl!ForVendor
<1>9. \A p : Aidl!Replacing(p)' = Aidl!Replacing(p)
  BY <1>2, <1>7, <1>8 DEF Aidl!Replacing
<1>10. \A n : Aidl!Searched(n)' = Aidl!Searched(n)
  BY DEF Aidl!Searched
<1>11. \A n : Aidl!Hidden(n)' = Aidl!Hidden(n) /\ Aidl!Loose(n)' = Aidl!Loose(n)
  BY <1>2, <1>10 DEF Aidl!Hidden, Aidl!Loose
<1>12. \A p : DropRight(p)' = DropRight(p)
  BY <1>9, <1>11 DEF DropRight
<1>13. \A p : KeepRight(p)' = KeepRight(p)
  BY <1>2, <1>5, <1>9, <1>11 DEF KeepRight
<1>14. \A r, n : Aidl!ByGrep(r, n)' = Aidl!ByGrep(r, n)
  BY DEF Aidl!ByGrep
<1> QED BY <1>12, <1>13, <1>14

\* No verdict is given at first.
LEMMA AidlInitInv == Init => AidlInv
<1> SUFFICES ASSUME Init PROVE AidlInv
  OBVIOUS
<1>1. aRows = <<>> /\ aRoot = 0 /\ aSkipped = FALSE
  BY DEF Init, AidlIdle, Aidl!Init
<1>2. tool = "aidl" => aTree \in AidlTrees
  BY DEF Init, Aidl!Init
<1>3. DropIsBuilt /\ KeepIsOrphan
  <2>1. DOMAIN aRows = {}
    BY <1>1
  <2> QED BY <2>1, AidlVerdicts
<1>4. Passed
  <2>1. 1..(0 - 1) = {}
    OBVIOUS
  <2> QED BY <2>1, <1>1 DEF Passed
<1>5. tool = "aidl" => aRoot \in 0..Len(aTree)
  <2>1. CASE tool = "aidl"
    <3>1. Aidl!IsTree(aTree)
      BY <2>1, <1>2, AidlTreesAssumption DEF Aidl!TreesAreFiles
    <3>2. Len(aTree) \in Nat
      BY <3>1, TreeFiles
    <3> QED BY <3>2, <1>1
  <2> QED BY <2>1
<1>6. aRows \in Seq(Verdicts)
  BY <1>1
<1> QED BY <1>1, <1>2, <1>3, <1>4, <1>5, <1>6 DEF AidlInv

\* One more verdict keeps the invariant, if it is right.
LEMMA Judged ==
  ASSUME tool = "aidl", AidlInv, tool' = tool, aTree' = aTree, aRoot' = 0,
         aSkipped' \in BOOLEAN,
         NEW row \in Verdicts, aRows' = Append(aRows, row),
         RowRight(Aidl!Current, row.verdict, row.complete)
  PROVE  AidlInv'
<1>1. aRows \in Seq(Verdicts) /\ DropIsBuilt /\ KeepIsOrphan /\ aTree \in AidlTrees
  BY DEF AidlInv
<1>2. aRows' \in Seq(Verdicts)
  BY <1>1
<1>3. ASSUME NEW i \in DOMAIN aRows'
      PROVE  \/ i \in DOMAIN aRows /\ aRows'[i] = aRows[i]
             \/ i = Len(aRows) + 1 /\ aRows'[i] = row
  BY <1>1, <1>3
<1>4. Aidl!Current = AidlPrebuilts[Len(aRows) + 1]
  BY DEF Aidl!Current
<1>5. DropIsBuilt'
  <2>1. ASSUME NEW i \in DOMAIN aRows', aRows'[i].verdict = "DROP"
        PROVE  DropRight(AidlPrebuilts[i])
    BY <1>1, <1>3, <1>4, <2>1, AidlVerdicts DEF RowRight
  <2> QED BY <2>1, SameAidlTree, AidlVerdictsNext
<1>6. KeepIsOrphan'
  <2>1. ASSUME NEW i \in DOMAIN aRows', aRows'[i].complete, aRows'[i].verdict # "DROP"
        PROVE  KeepRight(AidlPrebuilts[i])
    BY <1>1, <1>3, <1>4, <2>1, AidlVerdicts DEF RowRight
  <2> QED BY <2>1, SameAidlTree, AidlVerdictsNext
<1>7. Passed'
  <2>1. 1..(0 - 1) = {}
    OBVIOUS
  <2> QED BY <2>1 DEF Passed
<1>8. aRoot' \in 0..Len(aTree')
  <2>1. Aidl!IsTree(aTree)
    BY <1>1, AidlTreesAssumption DEF Aidl!TreesAreFiles
  <2>2. Len(aTree) \in Nat
    BY <2>1, TreeFiles
  <2> QED BY <2>2
<1> QED BY <1>1, <1>2, <1>5, <1>6, <1>7, <1>8 DEF AidlInv

\* Going on to the next root keeps it, if this one yields no block or was skipped.
LEMMA GoneOn ==
  ASSUME tool = "aidl", AidlInv, tool' = tool, aTree' = aTree, aRows' = aRows,
         aRoot < Len(aTree), aRoot' = aRoot + 1, aSkipped' \in BOOLEAN,
         ~aSkipped' => \A r \in 1..aRoot : Aidl!ByGrep(r, Aidl!Current.name) = <<>>
  PROVE  AidlInv'
<1>1. /\ aTree \in AidlTrees /\ aRows \in Seq(Verdicts) /\ aRoot \in 0..Len(aTree)
      /\ DropIsBuilt /\ KeepIsOrphan
  BY DEF AidlInv
<1>2. Len(aTree) \in Nat
  <2>1. Aidl!IsTree(aTree)
    BY <1>1, AidlTreesAssumption DEF Aidl!TreesAreFiles
  <2> QED BY <2>1, TreeFiles
<1>3. DropIsBuilt' /\ KeepIsOrphan'
  BY <1>1, SameAidlTree, AidlVerdicts, AidlVerdictsNext
<1>4. Passed'
  <2>1. aRoot' - 1 = aRoot
    BY <1>1, <1>2
  <2>2. Aidl!Current' = Aidl!Current
    BY DEF Aidl!Current
  <2>3. \A r : Aidl!ByGrep(r, Aidl!Current.name)' = Aidl!ByGrep(r, Aidl!Current.name)
    BY <2>2 DEF Aidl!ByGrep
  <2> QED BY <2>1, <2>3 DEF Passed
<1>5. aRoot' \in 0..Len(aTree')
  BY <1>1, <1>2
<1> QED BY <1>1, <1>3, <1>4, <1>5 DEF AidlInv

\* A search that yields nothing ends with the last root.
LEMMA NextRootInv ==
  ASSUME tool = "aidl", AidlInv, tool' = tool, aTree' = aTree, Aidl!NextRoot,
         aSkipped' \in BOOLEAN,
         ~aSkipped' => \A r \in 1..aRoot : Aidl!ByGrep(r, Aidl!Current.name) = <<>>
  PROVE  AidlInv'
<1>1. aTree \in AidlTrees /\ aRoot \in 0..Len(aTree)
  BY DEF AidlInv
<1>2. Aidl!IsTree(aTree)
  BY <1>1, AidlTreesAssumption DEF Aidl!TreesAreFiles
<1>3. CASE aRoot < Len(aTree)
  <2>1. aRoot' = aRoot + 1 /\ aRows' = aRows
    BY <1>3 DEF Aidl!NextRoot
  <2> QED BY <2>1, <1>3, GoneOn
<1>4. CASE ~(aRoot < Len(aTree))
  <2>1. aRoot = Len(aTree)
    <3>1. Len(aTree) \in Nat
      BY <1>2, TreeFiles
    <3> QED BY ONLY <3>1, <1>1, <1>4
  <2>2. PICK complete : complete = ~aSkipped'
    OBVIOUS
  <2>3. Aidl!VerdictOf(<<>>, Aidl!Current.ver) = "UNKNOWN"
    BY DEF Aidl!VerdictOf
  <2>4. PICK row : row = [verdict |-> "UNKNOWN", complete |-> complete]
    OBVIOUS
  <2>5. aRows' = Append(aRows, row) /\ aRoot' = 0
    BY <1>4, <2>2, <2>3, <2>4 DEF Aidl!NextRoot, Aidl!Decide
  <2>6. row \in Verdicts /\ row.verdict = "UNKNOWN" /\ row.complete = complete
    BY <2>2, <2>4 DEF Verdicts
  <2>7. complete => \A r \in 1..Len(aTree) : Aidl!ByGrep(r, Aidl!Current.name) = <<>>
    BY <2>1, <2>2
  <2>8. RowRight(Aidl!Current, row.verdict, row.complete)
    BY <2>6, <2>7, <1>2, NothingRight
  <2> QED BY <2>5, <2>6, <2>8, Judged
<1> QED BY <1>3, <1>4

\* A search that yields a block ends with it.
LEMMA DecideInv ==
  ASSUME tool = "aidl", AidlInv, tool' = tool, aTree' = aTree,
         NEW block, block # <<>>, Origin(block, Aidl!Current.name), Aidl!Decide(block),
         aSkipped' \in BOOLEAN
  PROVE  AidlInv'
<1>1. PICK complete : complete = ~aSkipped'
  OBVIOUS
<1>2. PICK verdict : verdict = Aidl!VerdictOf(block, Aidl!Current.ver)
  OBVIOUS
<1>3. PICK row : row = [verdict |-> verdict, complete |-> complete]
  OBVIOUS
<1>4. aRows' = Append(aRows, row) /\ aRoot' = 0
  BY <1>1, <1>2, <1>3 DEF Aidl!Decide
<1>5. row \in Verdicts /\ row.verdict = verdict /\ row.complete = complete
  BY <1>1, <1>2, <1>3 DEF Verdicts, Aidl!VerdictOf
<1>6. RowRight(Aidl!Current, row.verdict, row.complete)
  BY <1>2, <1>5, FoundRight
<1> QED BY <1>4, <1>5, <1>6, Judged

\* Every step of the check keeps it.
LEMMA AidlStepInv == AidlInv /\ [Next]_vars => AidlInv'
<1> SUFFICES ASSUME AidlInv, [Next]_vars PROVE AidlInv'
  OBVIOUS
<1>1. CASE UNCHANGED <<tool, aTree, aRows, aRoot, aSkipped>>
  <2>1. (DropIsBuilt' <=> DropIsBuilt) /\ (KeepIsOrphan' <=> KeepIsOrphan)
    BY <1>1, SameAidlTree, AidlVerdicts, AidlVerdictsNext
  <2>2. Passed' <=> Passed
    <3>1. Aidl!Current' = Aidl!Current
      BY <1>1 DEF Aidl!Current
    <3>2. \A r : Aidl!ByGrep(r, Aidl!Current.name)' = Aidl!ByGrep(r, Aidl!Current.name)
      BY <1>1, <3>1 DEF Aidl!ByGrep
    <3> QED BY <1>1, <3>2 DEF Passed
  <2> QED BY <1>1, <2>1, <2>2 DEF AidlInv
<1>2. CASE tool = "aidl" /\ tool' = tool /\ Aidl!Next
  <2>1. /\ aTree \in AidlTrees /\ aRoot \in 0..Len(aTree) /\ aSkipped \in BOOLEAN
        /\ Passed
    BY <1>2 DEF AidlInv
  <2>2. Aidl!IsTree(aTree)
    BY <2>1, AidlTreesAssumption DEF Aidl!TreesAreFiles
  <2>3. Len(aTree) \in Nat
    BY <2>2, TreeFiles
  <2>4. PICK n : n = Aidl!Current.name
    OBVIOUS
  <2>5. CASE Aidl!TryPaths
    <3>1. PICK block : block = Aidl!ByPath(n)
      OBVIOUS
    <3>2. /\ aRoot = 0 /\ aSkipped' = FALSE /\ aTree' = aTree
          /\ IF block # <<>> THEN Aidl!Decide(block) ELSE Aidl!NextRoot
      BY <2>4, <2>5, <3>1 DEF Aidl!TryPaths
    <3>3. 1..0 = {}
      OBVIOUS
    <3>4. CASE block # <<>>
      <4>1. Origin(block, n)
        BY <2>2, <3>1, <3>4, PathFound
      <4> QED BY <4>1, <1>2, <2>4, <3>2, <3>4, DecideInv
    <3>5. CASE block = <<>>
      BY <1>2, <3>2, <3>3, <3>5, NextRootInv
    <3> QED BY <3>4, <3>5
  <2>6. CASE Aidl!Grep
    <3>1. PICK block : block = Aidl!ByGrep(aRoot, n)
      OBVIOUS
    <3>2. /\ aRoot > 0 /\ aSkipped' = aSkipped /\ aTree' = aTree
          /\ IF block # <<>> THEN Aidl!Decide(block) ELSE Aidl!NextRoot
      BY <2>4, <2>6, <3>1 DEF Aidl!Grep
    <3>3. aRoot \in 1..Len(aTree)
      BY <2>1, <2>3, <3>2
    <3>4. CASE block # <<>>
      <4>1. Origin(block, n)
        BY <2>2, <3>1, <3>3, <3>4, GrepFound
      <4> QED BY <4>1, <1>2, <2>1, <2>4, <3>2, <3>4, DecideInv
    <3>5. CASE block = <<>>
      <4>1. ASSUME ~aSkipped', NEW r \in 1..aRoot
            PROVE  Aidl!ByGrep(r, Aidl!Current.name) = <<>>
        <5>1. r = aRoot \/ r \in 1..(aRoot - 1)
          BY <3>3
        <5> QED BY <5>1, <4>1, <2>1, <2>4, <3>1, <3>2, <3>5 DEF Passed
      <4> QED BY <4>1, <1>2, <2>1, <3>2, <3>5, NextRootInv
    <3> QED BY <3>4, <3>5
  <2>7. CASE Aidl!GrepTimeout
    <3>1. aSkipped' = TRUE /\ Aidl!NextRoot /\ aTree' = aTree
      BY <2>7 DEF Aidl!GrepTimeout
    <3> QED BY <3>1, <1>2, NextRootInv
  <2> QED BY <1>2, <2>5, <2>6, <2>7 DEF Aidl!Next
<1>3. CASE tool # "aidl" /\ tool' = tool /\ UNCHANGED aVars
  BY <1>1, <1>3 DEF aVars
<1> QED BY <1>1, <1>2, <1>3 DEF Next, vars, aVars

\* verify_aidl_versions.py:7-9: whatever greps time out, a prebuilt it drops is of a
\* version that an interface of the name builds for vendor processes, in every tree; but
\* for the names that something else hides and the defaults a file does not tell apart.
THEOREM DropIsBuiltHolds == Spec => []DropIsBuilt
<1>1. AidlInv => DropIsBuilt
  <2>1. DOMAIN <<>> = {}
    OBVIOUS
  <2> QED BY <2>1, AidlVerdicts DEF AidlInv
<1> QED BY <1>1, AidlInitInv, AidlStepInv, PTL DEF Spec

\* Lines 11-13: a search in which no grep timed out drops every prebuilt of a version
\* that the one interface of the name, with frozen versions and its name before its nested
\* blocks, builds for vendor processes; with the same exceptions.
THEOREM KeepIsOrphanHolds == Spec => []KeepIsOrphan
<1>1. AidlInv => KeepIsOrphan
  <2>1. DOMAIN <<>> = {}
    OBVIOUS
  <2> QED BY <2>1, AidlVerdicts DEF AidlInv
<1> QED BY <1>1, AidlInitInv, AidlStepInv, PTL DEF Spec

-----------------------------------------------------------------------------
(***************************************************************************)
(* The types of all the tools.                                             *)
(***************************************************************************)
\* No verdict without a prebuilt or a candidate, and no root in the index before its grep.
Counted ==
  /\ tool \in {"aidl", "cc", "walk", "naming"}
  /\ tool = "aidl" => Len(aRows) <= Len(AidlPrebuilts)
  /\ tool = "cc" => /\ cScanned \in 0..Len(cTree) /\ cIndexed \subseteq 1..cScanned
                    /\ Len(cRows) <= Len(Cc!Candidates)

TypesInv == NeededInv /\ CcInv /\ AidlInv /\ Counted

\* The dumps are lists, and so is what is left of one.
LEMMA DumpLengths == Len(AidlPrebuilts) \in Nat /\ Len(Cc!Candidates) \in Nat
<1>1. Len(AidlPrebuilts) \in Nat
  <2>1. AidlPrebuilts \in Seq(ToSet(AidlPrebuilts))
    BY DumpsAssumption, AidlOperators DEF Aidl!DumpIsList
  <2> QED BY ONLY <2>1
<1>2. Len(Cc!Candidates) \in Nat
  <2>1. PICK A : A = ToSet(CcDump)
    OBVIOUS
  <2>2. PICK n : n = Len(CcDump)
    OBVIOUS
  <2>3. CcDump \in Seq(A)
    BY <2>1, DumpsAssumption, CcOperators DEF Cc!DumpIsList
  <2>4. n \in Nat /\ DOMAIN CcDump = 1..n /\ \A i \in 1..n : CcDump[i] \in A
    BY ONLY <2>2, <2>3
  <2>5. PICK s : s = [i \in DOMAIN CcDump |->
                        IF Cc!IsCandidate(CcDump[i]) THEN <<CcDump[i]>> ELSE <<>>]
    OBVIOUS
  <2>6. s \in [1..n -> Seq(A)]
    <3>1. \A i \in 1..n : <<CcDump[i]>> \in Seq(A) /\ <<>> \in Seq(A)
      BY <2>4, Singleton
    <3> QED BY <3>1, <2>4, <2>5
  <2>7. FlattenSeq(s) \in Seq(A)
    BY ONLY <2>4, <2>6, FlattenElements
  <2>8. Len(FlattenSeq(s)) \in Nat
    BY ONLY <2>7
  <2>9. Cc!Candidates = FlattenSeq(s)
    BY <2>5, CcOperators DEF Cc!Candidates
  <2> QED BY <2>8, <2>9
<1> QED BY <1>1, <1>2

\* A tree is a list of roots.
LEMMA CcTreeLength ==
  ASSUME tool = "cc", CcInv PROVE Len(cTree) \in Nat
<1>1. Cc!IsTree(cTree)
  BY CcTreesAssumption DEF CcInv, Cc!TreesAreSoong
<1>2. cTree \in Seq(ToSet(cTree))
  BY <1>1, CcOperators DEF Cc!IsTree
<1> QED BY ONLY <1>2

\* Nothing is counted at first.
LEMMA CountedInit == Init => Counted
<1> SUFFICES ASSUME Init PROVE Counted
  OBVIOUS
<1>1. tool \in {"aidl", "cc", "walk", "naming"}
  BY DEF Init
<1>2. CASE tool = "aidl"
  <2>1. aRows = <<>>
    BY <1>2 DEF Init, Aidl!Init
  <2>2. Len(aRows) = 0
    BY <2>1
  <2> QED BY <1>1, <1>2, <2>2, DumpLengths DEF Counted
<1>3. CASE tool = "cc"
  <2>1. cRows = <<>> /\ cScanned = 0 /\ cIndexed = {}
    BY <1>3 DEF Init, Cc!Init
  <2>2. Len(cRows) = 0
    BY <2>1
  <2>3. Len(cTree) \in Nat
    BY <1>3, CcInitInv, CcTreeLength
  <2> QED BY <1>1, <1>3, <2>1, <2>2, <2>3, DumpLengths DEF Counted
<1> QED BY <1>1, <1>2, <1>3 DEF Counted

\* A step of verify_aidl_versions.py counts one more verdict at most.
LEMMA AidlCounted ==
  ASSUME tool = "aidl", AidlInv, Counted, Aidl!Next
  PROVE  Len(aRows') <= Len(AidlPrebuilts)
<1>1. aRows \in Seq(Verdicts) /\ Len(aRows) <= Len(AidlPrebuilts)
  BY DEF AidlInv, Counted
<1>2. Len(aRows) < Len(AidlPrebuilts)
  BY DEF Aidl!Next, Aidl!TryPaths, Aidl!Grep, Aidl!GrepTimeout, Aidl!Pending
<1>3. aRows' = aRows \/ \E x : aRows' = Append(aRows, x)
  BY DEF Aidl!Next, Aidl!TryPaths, Aidl!Grep, Aidl!GrepTimeout, Aidl!NextRoot, Aidl!Decide
<1>4. CASE aRows' = aRows
  BY <1>1, <1>4
<1>5. ASSUME NEW x, aRows' = Append(aRows, x)
      PROVE  Len(aRows') <= Len(AidlPrebuilts)
  <2>1. Len(aRows') = Len(aRows) + 1 /\ Len(aRows) \in Nat
    BY <1>1, <1>5
  <2> QED BY <2>1, <1>2, DumpLengths
<1> QED BY <1>3, <1>4, <1>5
\* So does a step of verify_cc_libs.py, which indexes a root it has scanned.
LEMMA CcCounted ==
  ASSUME tool = "cc", CcInv, Counted, Cc!Next
  PROVE  /\ cScanned' \in 0..Len(cTree') /\ cIndexed' \subseteq 1..cScanned'
         /\ Len(cRows') <= Len(Cc!Candidates)
<1>1. /\ cRows \in Seq({"DROP", "KEEP"}) /\ Len(cRows) <= Len(Cc!Candidates)
      /\ cScanned \in 0..Len(cTree) /\ cIndexed \subseteq 1..cScanned
  BY DEF CcInv, Counted
<1>2. Len(cTree) \in Nat
  BY CcTreeLength
<1>3. CASE Cc!GrepRoot \/ Cc!GrepTimeout
  <2>1. /\ cScanned < Len(cTree) /\ cScanned' = cScanned + 1
        /\ cTree' = cTree /\ cRows' = cRows
        /\ cIndexed' = cIndexed \/ cIndexed' = cIndexed \cup {cScanned'}
    BY <1>3 DEF Cc!GrepRoot, Cc!GrepTimeout, Cc!Scan
  <2>2. cScanned' \in 0..Len(cTree)
    BY <1>1, <1>2, <2>1
  <2>3. 1..cScanned \subseteq 1..cScanned' /\ cScanned' \in 1..cScanned'
    BY <1>1, <1>2, <2>1
  <2> QED BY <1>1, <2>1, <2>2, <2>3
<1>4. CASE Cc!Judge
  <2>1. /\ UNCHANGED <<cTree, cScanned, cIndexed>>
        /\ Len(cRows) < Len(Cc!Candidates)
    BY <1>4 DEF Cc!Judge
  <2>2. PICK row \in {"DROP", "KEEP"} : cRows' = Append(cRows, row)
    BY <1>4 DEF Cc!Judge
  <2>3. Len(cRows') = Len(cRows) + 1 /\ Len(cRows) \in Nat
    BY <1>1, <2>2
  <2>4. Len(cRows') <= Len(Cc!Candidates)
    BY <2>1, <2>3, DumpLengths
  <2> QED BY <1>1, <2>1, <2>4
<1> QED BY <1>3, <1>4 DEF Cc!Next

\* And the other tools count nothing.
LEMMA CountedStep == AidlInv /\ CcInv /\ Counted /\ [Next]_vars => Counted'
<1> SUFFICES ASSUME AidlInv, CcInv, Counted, [Next]_vars PROVE Counted'
  OBVIOUS
<1>1. tool' = tool /\ tool' \in {"aidl", "cc", "walk", "naming"}
  BY DEF Next, vars, Counted
<1>2. CASE tool = "aidl"
  <2>1. Aidl!Next \/ aRows' = aRows
    BY <1>2 DEF Next, vars, aVars
  <2>2. Len(aRows) <= Len(AidlPrebuilts)
    BY <1>2 DEF Counted
  <2>3. Len(aRows') <= Len(AidlPrebuilts)
    BY <1>2, <2>1, <2>2, AidlCounted
  <2> QED BY <1>1, <1>2, <2>3 DEF Counted
<1>3. CASE tool = "cc"
  <2>1. Cc!Next \/ UNCHANGED cVars
    BY <1>3 DEF Next, vars
  <2>2. CASE Cc!Next
    <3>1. /\ cScanned' \in 0..Len(cTree') /\ cIndexed' \subseteq 1..cScanned'
          /\ Len(cRows') <= Len(Cc!Candidates)
      BY <1>3, <2>2, CcCounted
    <3> QED BY <1>1, <1>3, <3>1 DEF Counted
  <2>3. CASE UNCHANGED cVars
    BY <1>1, <1>3, <2>3 DEF Counted, cVars
  <2> QED BY <2>1, <2>2, <2>3
<1> QED BY <1>1, <1>2, <1>3 DEF Counted

\* Every tool keeps its own types, and no check gives more verdicts than its dump has
\* candidates.
THEOREM ToolsTypeCorrect == Spec => []TypeOK
<1>1. TypesInv => TypeOK
  <2> SUFFICES ASSUME TypesInv PROVE TypeOK
    OBVIOUS
  <2>1. Walk!TypeOK
    BY DEF TypesInv, NeededInv
  <2>2. tool = "aidl" => Aidl!TypeOK
    BY DEF TypesInv, AidlInv, Counted, Aidl!TypeOK, Verdicts
  <2>3. tool = "cc" => Cc!TypeOK
    BY DEF TypesInv, CcInv, Counted, Cc!TypeOK
  <2> QED BY <2>1, <2>2, <2>3 DEF TypesInv, Counted, TypeOK
<1>2. Init => TypesInv
  BY NeededInitInv, CcInitInv, AidlInitInv, CountedInit DEF TypesInv
<1>3. TypesInv /\ [Next]_vars => TypesInv'
  BY NeededStepInv, CcStepInv, AidlStepInv, CountedStep DEF TypesInv
<1> QED BY <1>1, <1>2, <1>3, PTL DEF Spec
=============================================================================
