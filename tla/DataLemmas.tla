----------------------------- MODULE DataLemmas -----------------------------
(***************************************************************************)
(* Lemmas about naturals, finite sets and sequences that the proofs about  *)
(* the developer's tools need: none of them mentions the tools.            *)
(***************************************************************************)
EXTENDS SequencesExt, SequenceTheorems, FiniteSetTheorems, TLAPS

\* A nonempty set of naturals has a least element: every proof below that would be an
\* induction takes the least counterexample instead.
LEMMA LeastNat ==
  ASSUME NEW T, T \subseteq Nat, T # {}
  PROVE  \E x \in T : \A y \in T : x <= y
<1> DEFINE R == OpToRel(<, Nat)
<1>1. IsWellFoundedOn(R, Nat)
  BY NatLessThanWellFounded
<1>2. R = {ss \in Nat \X Nat : ss[1] < ss[2]}
  BY DEF OpToRel
<1> HIDE DEF R
<1>3. PICK x \in T : \A y \in T : ~(<<y, x>> \in R)
  BY <1>1, WFMin
<1>4. ASSUME NEW y \in T PROVE x <= y
  <2>1. <<y, x>> \notin R
    BY <1>3
  <2> QED BY <1>2, <2>1
<1> QED BY <1>4

\* What Min and Max of FiniteSetsExt choose.
LEMMA MinIsLeast ==
  ASSUME NEW T, T \subseteq Nat, T # {}
  PROVE  Min(T) \in T /\ \A y \in T : Min(T) <= y
BY LeastNat DEF Min

\* The least element of a set is its Min.
LEMMA MinIs ==
  ASSUME NEW T, T \subseteq Nat, NEW x \in T, \A y \in T : x <= y
  PROVE  Min(T) = x
<1>1. Min(T) \in T /\ \A y \in T : Min(T) <= y
  BY MinIsLeast
<1>2. Min(T) \in Nat /\ x \in Nat /\ Min(T) <= x /\ x <= Min(T)
  BY <1>1
<1> QED BY ONLY <1>2

\* The greatest element of a bounded set.
LEMMA MaxIsGreatest ==
  ASSUME NEW T, T \subseteq Nat, T # {}, NEW n \in Nat, \A y \in T : y <= n
  PROVE  Max(T) \in T /\ \A y \in T : y <= Max(T)
<1> DEFINE U == {k \in 0..n : n - k \in T}
<1>1. PICK y \in T : TRUE
  OBVIOUS
<1>2. U \subseteq Nat
  OBVIOUS
<1>3. n - y \in U
  <2>1. n - y \in 0..n /\ n - (n - y) = y
    OBVIOUS
  <2> QED BY <2>1
<1>4. PICK k \in U : \A j \in U : k <= j
  <2> HIDE DEF U
  <2> QED BY <1>2, <1>3, LeastNat
<1>5. n - k \in T /\ \A z \in T : n - k >= z
  <2>1. ASSUME NEW z \in T PROVE n - k >= z
    <3>1. n - z \in U
      <4>1. n - z \in 0..n /\ n - (n - z) = z
        OBVIOUS
      <4> QED BY <4>1
    <3>2. k <= n - z /\ k \in 0..n /\ z \in Nat
      BY <3>1, <1>4
    <3> QED BY <3>2
  <2> QED BY <2>1, <1>4
<1>6. \E x \in T : \A z \in T : x >= z
  BY <1>5
<1> QED BY <1>6 DEF Max

\* A finite set of naturals has an upper bound.
LEMMA FiniteIsBounded ==
  ASSUME NEW S \in SUBSET Nat, IsFiniteSet(S)
  PROVE  \E m \in Nat : \A x \in S : x <= m
<1> DEFINE Bounded(U) == \E m \in Nat : \A x \in U : x <= m
           Bad(n)  == \E U \in SUBSET Nat :
                        IsFiniteSet(U) /\ Cardinality(U) = n /\ ~Bounded(U)
           T == {n \in Nat : Bad(n)}
<1>1. SUFFICES ASSUME ~Bounded(S) PROVE FALSE
  OBVIOUS
<1>2. Cardinality(S) \in T
  BY <1>1, FS_CardinalityType
<1>3. PICK n \in T : \A k \in T : n <= k
  <2> HIDE DEF T
  <2>1. T \subseteq Nat BY DEF T
  <2> QED BY <1>2, <2>1, LeastNat
<1>4. PICK U \in SUBSET Nat : IsFiniteSet(U) /\ Cardinality(U) = n /\ ~Bounded(U)
  BY <1>3
<1>5. PICK x \in U : TRUE
  <2>1. U # {}
    BY <1>4
  <2> QED BY <2>1
<1>6. IsFiniteSet(U \ {x}) /\ Cardinality(U \ {x}) = n - 1
  BY <1>4, <1>5, FS_RemoveElement
<1>7. Cardinality(U \ {x}) \in Nat
  BY <1>6, FS_CardinalityType
<1>8. PICK m \in Nat : \A y \in U \ {x} : y <= m
  <2>1. Bounded(U \ {x}) 
    <3>1. n - 1 \notin T
      BY <1>3, <1>6, <1>7
    <3> QED BY <3>1, <1>6, <1>7
  <2> QED BY <2>1
<1>9. \A y \in U : y <= m + x
  BY <1>8
<1>10. m + x \in Nat
  OBVIOUS
<1> QED BY <1>9, <1>10, <1>4

\* Moved up by a, a set has its least element moved up by a.
LEMMA MinShifts ==
  ASSUME NEW T, T \subseteq Nat, T # {}, NEW a, a \in Nat,
         NEW U, U \subseteq Nat, \A u \in U : u - a \in T, \A t \in T : t + a \in U
  PROVE  Min(U) = Min(T) + a
<1>1. Min(T) \in T /\ \A t \in T : Min(T) <= t
  BY MinIsLeast
<1>2. Min(T) + a \in U
  BY <1>1
<1>3. Min(U) \in U /\ \A u \in U : Min(U) <= u
  BY <1>2, MinIsLeast
<1>4. Min(U) <= Min(T) + a /\ Min(T) <= Min(U) - a
  BY <1>1, <1>2, <1>3
<1>5. Min(U) \in Nat /\ Min(T) \in Nat
  BY <1>1, <1>3
<1> QED BY ONLY <1>4, <1>5, a \in Nat

-----------------------------------------------------------------------------
(***************************************************************************)
(* FlattenSeq is a recursive function chosen by CHOOSE: that there is one, *)
(* that it is the one that concatenates from the left, and where it puts   *)
(* the elements of its pieces.                                             *)
(***************************************************************************)
\* Values along 1..k that start with s[1] and combine with each s[i] in turn.
Along(g, s, c, V, k) ==
  /\ g \in [1..k -> V] /\ g[1] = s[1]
  /\ \A i \in 2..k : g[i] = c[<<g[i - 1], s[i]>>]

\* There are such values for every number of steps.
LEMMA RecursionExists ==
  ASSUME NEW V, NEW n \in Nat \ {0}, NEW s \in [1..n -> V], NEW c \in [V \X V -> V]
  PROVE  \E g : Along(g, s, c, V, n)
<1> DEFINE T == {k \in 1..n : ~\E g : Along(g, s, c, V, k)}
<1>1. SUFFICES ASSUME ~\E g : Along(g, s, c, V, n) PROVE FALSE
  OBVIOUS
<1>2. n \in T
  BY <1>1
<1>3. PICK k \in T : \A j \in T : k <= j
  <2>1. T \subseteq Nat
    OBVIOUS
  <2> HIDE DEF T
  <2> QED BY <1>2, <2>1, LeastNat
<1>4. k \in 1..n /\ ~\E g : Along(g, s, c, V, k)
  OBVIOUS
<1>5. CASE k = 1
  <2>1. Along([i \in 1..1 |-> s[1]], s, c, V, 1)
    BY DEF Along
  <2> QED BY <2>1, <1>4, <1>5
<1>6. CASE k # 1
  <2>1. k - 1 \in 1..n /\ k - 1 \notin T
    BY <1>4, <1>6, <1>3
  <2>2. PICK g : Along(g, s, c, V, k - 1)
    BY <2>1
  <2> HIDE DEF T
  <2> DEFINE h == [i \in 1..k |-> IF i = k THEN c[<<g[k - 1], s[k]>>] ELSE g[i]]
  <2>3. g \in [1..(k - 1) -> V]
    BY <2>2 DEF Along
  <2>4. <<g[k - 1], s[k]>> \in V \X V
    BY <2>1, <2>3, <1>4
  <2>5. h \in [1..k -> V]
    <3>1. c[<<g[k - 1], s[k]>>] \in V
      BY <2>4
    <3> QED BY <3>1, <2>3, <1>4
  <2>6. h[1] = s[1]
    BY <2>2, <1>4, <1>6 DEF Along
  <2>7. ASSUME NEW i \in 2..k PROVE h[i] = c[<<h[i - 1], s[i]>>]
    <3>1. h[i - 1] = g[i - 1]
      BY <1>4
    <3>2. CASE i = k
      <4>1. h[k] = c[<<g[k - 1], s[k]>>]
        BY <1>4
      <4> HIDE DEF h
      <4> QED BY <4>1, <3>1, <3>2
    <3>3. CASE i # k
      <4>1. h[i] = g[i] /\ i \in 2..(k - 1)
        BY <3>3, <1>4
      <4> QED BY <4>1, <3>1, <2>2 DEF Along
    <3> QED BY <3>2, <3>3
  <2>8. Along(h, s, c, V, k)
    <3> HIDE DEF h
    <3> QED BY <2>5, <2>6, <2>7 DEF Along
  <2> QED BY <2>8, <1>4
<1> QED BY <1>5, <1>6

\* f combines where its own values let it.
Follows(f, s, c, V, n) ==
  f[1] = s[1] /\ \A i \in 2..n : f[i - 1] \in V => f[i] = c[<<f[i - 1], s[i]>>]

\* There is but one.
LEMMA RecursionUnique ==
  ASSUME NEW V, NEW n, NEW s, NEW c, NEW g, NEW f,
         n \in Nat \ {0}, Along(g, s, c, V, n), Follows(f, s, c, V, n)
  PROVE  \A i \in 1..n : f[i] = g[i]
<1> DEFINE T == {k \in 1..n : f[k] # g[k]}
<1>1. SUFFICES ASSUME T # {} PROVE FALSE
  OBVIOUS
<1>2. PICK k \in T : \A j \in T : k <= j
  <2>1. T \subseteq Nat
    OBVIOUS
  <2> HIDE DEF T
  <2> QED BY <1>1, <2>1, LeastNat
<1>3. k \in 1..n /\ f[k] # g[k]
  OBVIOUS
<1>4. k # 1
  BY <1>3 DEF Along, Follows
<1>5. k - 1 \in 1..n /\ k - 1 \notin T /\ k \in 2..n
  BY <1>2, <1>3, <1>4
<1>6. f[k - 1] = g[k - 1]
  BY <1>5
<1> QED BY <1>3, <1>5, <1>6 DEF Along, Follows

\* FlattenSeq concatenates from the left.
Concatenates(g, seqs, n) ==
  g[1] = seqs[1] /\ \A i \in 2..n : g[i] = g[i - 1] \o seqs[i]

\* FlattenSeq is the last of the partial concatenations.
LEMMA FlattenSteps ==
  ASSUME NEW A, NEW n \in Nat \ {0}, NEW seqs \in [1..n -> Seq(A)]
  PROVE  \E g \in [1..n -> Seq(A)] :
           FlattenSeq(seqs) = g[n] /\ Concatenates(g, seqs, n)
<1> DEFINE V == Seq(A)
           c == [p \in V \X V |-> p[1] \o p[2]]
           Steps(g) == g = [i \in 1..n |-> IF i = 1 THEN seqs[i] ELSE g[i - 1] \o seqs[i]]
<1>1. \A p \in V \X V : p[1] \o p[2] \in V
  OBVIOUS
<1>2. c \in [V \X V -> V]
  BY <1>1
<1>3. \A a, b \in V : c[<<a, b>>] = a \o b
  OBVIOUS
<1>4. PICK g : Along(g, seqs, c, V, n)
  <2> HIDE DEF V, c
  <2>1. seqs \in [1..n -> V]
    BY DEF V
  <2> QED BY <1>2, <2>1, RecursionExists
<1> HIDE DEF c
<1>5. /\ g \in [1..n -> V] /\ g[1] = seqs[1]
      /\ \A i \in 2..n : g[i] = c[<<g[i - 1], seqs[i]>>]
  BY <1>4 DEF Along
<1>6. ASSUME NEW i \in 2..n PROVE g[i] = g[i - 1] \o seqs[i]
  <2>1. i - 1 \in 1..n
    OBVIOUS
  <2>2. g[i - 1] \in V /\ seqs[i] \in V
    BY <2>1, <1>5
  <2> QED BY <2>2, <1>3, <1>5
<1>7. Steps(g)
  <2>1. ASSUME NEW i \in 1..n
        PROVE  g[i] = IF i = 1 THEN seqs[i] ELSE g[i - 1] \o seqs[i]
    <3>1. CASE i = 1
      BY <3>1, <1>5
    <3>2. CASE i # 1
      <4>1. i \in 2..n
        BY <3>2
      <4> QED BY <4>1, <3>2, <1>6
    <3> QED BY <3>1, <3>2
  <2> QED BY <2>1, <1>5
<1>8. PICK f : f = CHOOSE h : Steps(h)
  OBVIOUS
<1>9. Steps(f)
  <2> HIDE DEF Steps
  <2> QED BY <1>7, <1>8
<1>10. FlattenSeq(seqs) = f[n]
  <2>1. Len(seqs) = n
    OBVIOUS
  <2>2. n # 0
    OBVIOUS
  <2> QED BY <2>1, <2>2, <1>8 DEF FlattenSeq
<1> HIDE DEF Steps
<1>11. \A i \in 1..n : f[i] = IF i = 1 THEN seqs[i] ELSE f[i - 1] \o seqs[i]
  BY <1>9 DEF Steps
<1>12. f[1] = seqs[1]
  BY <1>11
<1>13. ASSUME NEW i \in 2..n, f[i - 1] \in V PROVE f[i] = c[<<f[i - 1], seqs[i]>>]
  <2>1. f[i] = f[i - 1] \o seqs[i]
    <3>1. i \in 1..n /\ i # 1
      OBVIOUS
    <3> QED BY <3>1, <1>11
  <2>2. seqs[i] \in V
    OBVIOUS
  <2> HIDE DEF V
  <2> QED BY <2>1, <2>2, <1>3, <1>13
<1>14. f[n] = g[n]
  <2> HIDE DEF V
  <2>1. seqs \in [1..n -> V]
    BY DEF V
  <2>2. \A i \in 2..n : f[i - 1] \in V => f[i] = c[<<f[i - 1], seqs[i]>>]
    BY <1>13
  <2>3. Follows(f, seqs, c, V, n)
    BY <1>12, <2>2 DEF Follows
  <2>4. \A i \in 1..n : f[i] = g[i]
    <3>1. Along(g, seqs, c, V, n)
      BY <1>4
    <3>2. n \in Nat \ {0}
      OBVIOUS
    <3> HIDE DEF Steps
    <3> QED BY ONLY <3>1, <3>2, <2>3, RecursionUnique
  <2> QED BY <2>4
<1>15. Concatenates(g, seqs, n)
  BY <1>5, <1>6 DEF Concatenates
<1> QED BY <1>5, <1>15, <1>10, <1>14

\* The pieces of a flattened sequence, in their order: piece i ends at ends[i].
Ends(seqs, n, ends) ==
  /\ ends \in [0..n -> Nat] /\ ends[0] = 0
  /\ \A i \in 1..n : ends[i] = ends[i - 1] + Len(seqs[i])
Pieces(seqs, n, flat, ends) ==
  \A i \in 1..n : \A j \in 1..Len(seqs[i]) : flat[ends[i - 1] + j] = seqs[i][j]

\* A later piece ends no earlier.
LEMMA EndsGrow ==
  ASSUME NEW seqs, NEW n, NEW ends, n \in Nat, Ends(seqs, n, ends),
         \A i \in 1..n : Len(seqs[i]) \in Nat,
         NEW i \in 0..n, NEW k \in i..n
  PROVE  ends[i] <= ends[k]
<1> DEFINE T == {m \in i..n : ends[i] > ends[m]}
<1>1. SUFFICES ASSUME ends[i] > ends[k] PROVE FALSE
  BY DEF Ends
<1>2. PICK m \in T : \A j \in T : m <= j
  <2>1. T \subseteq Nat /\ k \in T
    BY <1>1
  <2> HIDE DEF T
  <2> QED BY <2>1, LeastNat
<1>3. m \in i..n /\ ends[i] > ends[m]
  OBVIOUS
<1>4. m # i
  BY <1>3 DEF Ends
<1>5. m - 1 \in i..n /\ m - 1 \notin T /\ m \in 1..n /\ m - 1 \in 0..n
  BY <1>2, <1>3, <1>4
<1>6. ends[i] <= ends[m - 1]
  BY <1>5 DEF Ends
<1>7. ends[m] = ends[m - 1] + Len(seqs[m]) /\ Len(seqs[m]) \in Nat
  BY <1>5 DEF Ends
<1>8. ends[i] \in Nat /\ ends[m] \in Nat /\ ends[m - 1] \in Nat
  BY <1>3, <1>5 DEF Ends
<1> HIDE DEF T
<1> QED BY <1>3, <1>6, <1>7, <1>8

\* Every piece stands in the flattened sequence, whole and in its place.
LEMMA FlattenPieces ==
  ASSUME NEW A, NEW n \in Nat \ {0}, NEW seqs \in [1..n -> Seq(A)]
  PROVE  /\ FlattenSeq(seqs) \in Seq(A)
         /\ \E ends : /\ Ends(seqs, n, ends) /\ Len(FlattenSeq(seqs)) = ends[n]
                      /\ Pieces(seqs, n, FlattenSeq(seqs), ends)
<1>1. PICK g \in [1..n -> Seq(A)] :
        /\ FlattenSeq(seqs) = g[n] /\ Concatenates(g, seqs, n)
  BY FlattenSteps
<1>2. g[1] = seqs[1] /\ \A i \in 2..n : g[i] = g[i - 1] \o seqs[i]
  BY <1>1 DEF Concatenates
<1>3. \A i \in 1..n : g[i] \in Seq(A) /\ Len(g[i]) \in Nat
  OBVIOUS
<1>4. \A i \in 1..n : seqs[i] \in Seq(A) /\ Len(seqs[i]) \in Nat
  OBVIOUS
<1> DEFINE ends == [i \in 0..n |-> IF i = 0 THEN 0 ELSE Len(g[i])]
<1>5. ends \in [0..n -> Nat] /\ ends[0] = 0 /\ \A i \in 1..n : ends[i] = Len(g[i])
  BY <1>3
<1> HIDE DEF ends
<1>6. ASSUME NEW i \in 2..n
      PROVE  /\ i - 1 \in 1..n /\ i \in 1..n
             /\ Len(g[i]) = Len(g[i - 1]) + Len(seqs[i])
             /\ \A j \in 1..Len(g[i - 1]) : g[i][j] = g[i - 1][j]
             /\ \A j \in 1..Len(seqs[i]) : g[i][Len(g[i - 1]) + j] = seqs[i][j]
  <2>1. i - 1 \in 1..n /\ i \in 1..n
    OBVIOUS
  <2>2. g[i - 1] \in Seq(A) /\ seqs[i] \in Seq(A) /\ g[i] = g[i - 1] \o seqs[i]
    BY <2>1, <1>2, <1>3, <1>4
  <2> QED BY ONLY <2>1, <2>2
<1>7. Ends(seqs, n, ends)
  <2>1. ASSUME NEW i \in 1..n PROVE ends[i] = ends[i - 1] + Len(seqs[i])
    <3>1. CASE i = 1
      BY <3>1, <1>2, <1>4, <1>5
    <3>2. CASE i # 1
      <4>1. i \in 2..n
        BY <3>2
      <4> QED BY <4>1, <1>6, <1>5
    <3> QED BY <3>1, <3>2
  <2> QED BY <2>1, <1>5 DEF Ends
<1> DEFINE Bad == {k \in 1..n : ~Pieces(seqs, k, g[k], ends)}
<1>8. Bad = {}
  <2>1. SUFFICES ASSUME Bad # {} PROVE FALSE
    OBVIOUS
  <2>2. PICK k \in Bad : \A j \in Bad : k <= j
    <3>1. Bad \subseteq Nat
      OBVIOUS
    <3> HIDE DEF Bad
    <3> QED BY <2>1, <3>1, LeastNat
  <2>3. k \in 1..n /\ ~Pieces(seqs, k, g[k], ends)
    OBVIOUS
  <2>4. CASE k = 1
    <3>1. ASSUME NEW j \in 1..Len(seqs[1]) PROVE g[1][ends[0] + j] = seqs[1][j]
      BY <1>2, <1>5
    <3>2. Pieces(seqs, 1, g[1], ends)
      BY <3>1 DEF Pieces
    <3> QED BY <3>2, <2>3, <2>4
  <2>5. CASE k # 1
    <3>1. k \in 2..n /\ k - 1 \in 1..n /\ k - 1 \notin Bad
      BY <2>2, <2>3, <2>5
    <3>2. Pieces(seqs, k - 1, g[k - 1], ends)
      BY <3>1
    <3> HIDE DEF Bad
    <3>3. ASSUME NEW i \in 1..k, NEW j \in 1..Len(seqs[i])
          PROVE  g[k][ends[i - 1] + j] = seqs[i][j]
      <4>1. CASE i = k
        <5>1. ends[k - 1] = Len(g[k - 1])
          BY <1>5, <3>1
        <5> QED BY <5>1, <4>1, <3>1, <1>6
      <4>2. CASE i # k
        <5>1. i \in 1..(k - 1) /\ i \in 1..n
          BY <4>2, <2>3
        <5>2. g[k - 1][ends[i - 1] + j] = seqs[i][j]
          BY <5>1, <3>2 DEF Pieces
        <5>3. ends[i - 1] + j \in 1..Len(g[k - 1])
          <6>1. ends[i] \in Nat /\ ends[i - 1] \in Nat /\ ends[i] = ends[i - 1] + Len(seqs[i])
            BY <5>1, <1>7 DEF Ends
          <6>2. ends[i] <= ends[k - 1]
            <7>1. \A m \in 1..n : Len(seqs[m]) \in Nat
              BY <1>4
            <7>2. i \in 0..n /\ k - 1 \in i..n /\ n \in Nat
              BY <5>1, <2>3
            <7> QED BY ONLY <7>1, <7>2, <1>7, EndsGrow
          <6>3. ends[k - 1] = Len(g[k - 1]) /\ ends[k - 1] \in Nat
            BY <1>3, <1>5, <3>1
          <6>4. j \in 1..Len(seqs[i]) /\ Len(seqs[i]) \in Nat
            BY <1>4, <5>1
          <6>5. ends[i - 1] + j \in Nat /\ ends[i - 1] + j >= 1
            BY <6>1, <6>4
          <6>6. ends[i - 1] + j <= ends[i]
            BY <6>1, <6>4
          <6>7. ends[i - 1] + j <= ends[k - 1]
            BY <6>1, <6>2, <6>3, <6>5, <6>6
          <6> QED BY <6>3, <6>5, <6>7
        <5> QED BY <5>2, <5>3, <3>1, <1>6
      <4> QED BY <4>1, <4>2
    <3>4. Pieces(seqs, k, g[k], ends)
      BY <3>3 DEF Pieces
    <3> QED BY <3>4, <2>3
  <2> QED BY <2>4, <2>5
<1>9. Pieces(seqs, n, g[n], ends)
  <2>1. n \notin Bad /\ n \in 1..n
    <3> HIDE DEF Bad
    <3> QED BY <1>8
  <2> QED BY <2>1
<1>10. Len(g[n]) = ends[n]
  BY <1>5
<1> QED BY <1>1, <1>3, <1>7, <1>9, <1>10

\* Place p is in one of the pieces; the pieces are sequences.
Within(seqs, n, ends, p) ==
  \E i \in 1..n : \E j \in 1..Len(seqs[i]) : p = ends[i - 1] + j
Sized(seqs, n) == \A i \in 1..n : Len(seqs[i]) \in Nat

\* Each place of a flattened sequence is in one of the pieces.
LEMMA PieceAt ==
  ASSUME NEW seqs, NEW n, NEW ends, n \in Nat, Ends(seqs, n, ends),
         Sized(seqs, n), NEW p, p \in 1..ends[n]
  PROVE  Within(seqs, n, ends, p)
<1> DEFINE T == {i \in 0..n : p <= ends[i]}
<1>1. \A i \in 0..n : ends[i] \in Nat
  BY DEF Ends
<1>2. p \in Nat /\ p >= 1 /\ n \in T
  BY <1>1
<1>3. PICK i \in T : \A j \in T : i <= j
  <2>1. T \subseteq Nat
    OBVIOUS
  <2> HIDE DEF T
  <2> QED BY <1>2, <2>1, LeastNat
<1>4. i \in 0..n /\ p <= ends[i]
  OBVIOUS
<1>5. i # 0
  BY <1>2, <1>4 DEF Ends
<1>6. i - 1 \in 0..n /\ i - 1 \notin T /\ i \in 1..n
  BY <1>3, <1>4, <1>5
<1>7. ends[i - 1] < p
  BY <1>1, <1>2, <1>6
<1>8. ends[i] = ends[i - 1] + Len(seqs[i])
  BY <1>6 DEF Ends
<1>9. p - ends[i - 1] \in 1..Len(seqs[i]) /\ p = ends[i - 1] + (p - ends[i - 1])
  <2> HIDE DEF T
  <2>1. ends[i - 1] \in Nat /\ Len(seqs[i]) \in Nat
    BY <1>1, <1>6 DEF Sized
  <2>2. p <= ends[i - 1] + Len(seqs[i])
    BY <1>4, <1>8
  <2> QED BY ONLY <1>2, <1>7, <2>1, <2>2
<1> QED BY <1>6, <1>9 DEF Within

\* The elements of a flattened sequence are those of its pieces.
Elements(flat, seqs, n) ==
  /\ \A p \in DOMAIN flat : \E i \in 1..n : \E j \in DOMAIN seqs[i] : flat[p] = seqs[i][j]
  /\ \A i \in 1..n : \A j \in DOMAIN seqs[i] : \E p \in DOMAIN flat : flat[p] = seqs[i][j]

LEMMA FlattenElements ==
  ASSUME NEW A, NEW n, n \in Nat, NEW seqs, seqs \in [1..n -> Seq(A)]
  PROVE  FlattenSeq(seqs) \in Seq(A) /\ Elements(FlattenSeq(seqs), seqs, n)
<1>1. CASE n = 0
  <2>1. Len(seqs) = 0
    BY <1>1
  <2>2. FlattenSeq(seqs) = <<>>
    BY <2>1 DEF FlattenSeq
  <2>3. Elements(<<>>, seqs, n)
    BY <1>1 DEF Elements
  <2> QED BY <2>2, <2>3
<1>2. CASE n # 0
  <2> DEFINE flat == FlattenSeq(seqs)
  <2>1. PICK ends : Ends(seqs, n, ends) /\ Len(flat) = ends[n] /\ Pieces(seqs, n, flat, ends)
    BY <1>2, FlattenPieces
  <2>2. flat \in Seq(A)
    BY <1>2, FlattenPieces
  <2> HIDE DEF flat
  <2>3. \A i \in 1..n : Len(seqs[i]) \in Nat /\ DOMAIN seqs[i] = 1..Len(seqs[i])
    OBVIOUS
  <2>4. DOMAIN flat = 1..ends[n]
    BY <2>1, <2>2
  <2>5. ASSUME NEW p \in DOMAIN flat
        PROVE  \E i \in 1..n : \E j \in DOMAIN seqs[i] : flat[p] = seqs[i][j]
    <3>1. p \in 1..ends[n]
      BY <2>4
    <3>2. PICK i \in 1..n : \E j \in 1..Len(seqs[i]) : p = ends[i - 1] + j
      <4>1. Ends(seqs, n, ends) /\ Sized(seqs, n)
        BY <2>1, <2>3 DEF Sized
      <4>2. Within(seqs, n, ends, p)
        BY ONLY n \in Nat, <4>1, <3>1, PieceAt
      <4> QED BY <4>2 DEF Within
    <3>3. PICK j \in 1..Len(seqs[i]) : p = ends[i - 1] + j
      BY <3>2
    <3>4. flat[p] = seqs[i][j]
      BY <3>3, <2>1 DEF Pieces
    <3> QED BY <3>4, <2>3
  <2>6. ASSUME NEW i \in 1..n, NEW j \in DOMAIN seqs[i]
        PROVE  \E p \in DOMAIN flat : flat[p] = seqs[i][j]
    <3>1. j \in 1..Len(seqs[i]) /\ Len(seqs[i]) \in Nat
      BY <2>3
    <3>2. flat[ends[i - 1] + j] = seqs[i][j]
      BY <3>1, <2>1 DEF Pieces
    <3>3. ends[i - 1] + j \in 1..ends[n]
      <4>1. ends[i] = ends[i - 1] + Len(seqs[i]) /\ ends[i - 1] \in Nat /\ ends[i] \in Nat
            /\ ends[n] \in Nat
        BY <2>1 DEF Ends
      <4>2. ends[i] <= ends[n]
        <5>1. n \in Nat /\ Ends(seqs, n, ends) /\ \A m \in 1..n : Len(seqs[m]) \in Nat
          BY <2>1, <2>3
        <5>2. i \in 0..n /\ n \in i..n
          OBVIOUS
        <5> QED BY ONLY <5>1, <5>2, EndsGrow
      <4> QED BY ONLY <3>1, <4>1, <4>2
    <3> QED BY <3>2, <3>3, <2>4
  <2> QED BY <2>2, <2>5, <2>6 DEF flat, Elements
<1> QED BY <1>1, <1>2

-----------------------------------------------------------------------------
\* Where the elements of two sequences are in their concatenation.
Joins(u, s, t, p, q) ==
  /\ Len(u) = p + q
  /\ \A i \in 1..p : u[i] = s[i]
  /\ \A j \in 1..q : u[p + j] = t[j]

\* So they are, for the concatenation.
LEMMA ConcatAt ==
  ASSUME NEW S, NEW s, NEW t, s \in Seq(S), t \in Seq(S),
         NEW p, NEW q, Len(s) = p, Len(t) = q
  PROVE  s \o t \in Seq(S) /\ Joins(s \o t, s, t, p, q)
<1>1. p \in Nat /\ q \in Nat
  OBVIOUS
<1>2. s \o t \in Seq(S)
  OBVIOUS
<1>3. Len(s \o t) = p + q
  BY ConcatProperties
<1>4. \A i \in 1..(p + q) : (s \o t)[i] = IF i <= p THEN s[i] ELSE t[i - p]
  BY ConcatProperties
<1>5. ASSUME NEW i \in 1..p PROVE (s \o t)[i] = s[i]
  <2>1. i \in 1..(p + q) /\ i <= p
    BY <1>1
  <2> QED BY ONLY <2>1, <1>4
<1>6. ASSUME NEW j \in 1..q PROVE (s \o t)[p + j] = t[j]
  <2>1. PICK i : i = p + j
    OBVIOUS
  <2>2. i \in 1..(p + q) /\ ~(i <= p) /\ i - p = j
    BY <1>1, <2>1
  <2>3. (s \o t)[i] = t[i - p]
    BY ONLY <2>2, <1>4
  <2> QED BY ONLY <2>1, <2>2, <2>3
<1> QED BY <1>2, <1>3, <1>5, <1>6 DEF Joins

\* t stands in s after place a.
Stands(s, t, a) == \A j \in 1..Len(t) : s[a + j] = t[j]

\* A part of a sequence that reads like t is t.
LEMMA SubSeqIs ==
  ASSUME NEW S, NEW s, NEW t, t \in Seq(S), NEW a, a \in Nat, NEW b, b = a + Len(t),
         Stands(s, t, a)
  PROVE  SubSeq(s, a + 1, b) = t
<1> DEFINE l == Len(t)
           u == SubSeq(s, a + 1, b)
           c == a + 1
<1>1. l \in Nat /\ b \in Nat /\ c \in Int /\ b \in Int
  OBVIOUS
<1>2. ASSUME NEW i \in c..b PROVE s[i] \in S
  <2>1. PICK j : j = i - a
    OBVIOUS
  <2>2. j \in 1..Len(t) /\ a + j = i
    BY <1>1, <2>1
  <2>3. t[j] \in S
    BY <2>2, ElementOfSeq
  <2>4. s[a + j] = t[j]
    BY <2>2 DEF Stands
  <2> QED BY <2>2, <2>3, <2>4
<1> HIDE DEF l
<1>3. /\ u \in Seq(S) /\ Len(u) = (IF c <= b THEN b - c + 1 ELSE 0)
      /\ \A i \in 1..(b - c + 1) : u[i] = s[c + i - 1]
  <2> HIDE DEF c
  <2> QED BY <1>1, <1>2, SubSeqProperties DEF c
<1> HIDE DEF u
<1>4. b - c + 1 = l /\ b = a + l
  BY <1>1 DEF l
<1>5. Len(u) = l
  BY <1>1, <1>3, <1>4
<1>6. ASSUME NEW j \in 1..l PROVE u[j] = t[j]
  <2>1. u[j] = s[c + j - 1]
    BY <1>3, <1>4
  <2>2. c + j - 1 = a + j
    BY <1>1
  <2>3. s[a + j] = t[j]
    BY DEF l, Stands
  <2> QED BY ONLY <2>1, <2>2, <2>3
<1>7. u = t
  BY <1>3, <1>5, <1>6, SeqEqual DEF l
<1> QED BY <1>7 DEF u

\* A sequence of one element.
LEMMA Singleton ==
  ASSUME NEW A, NEW a \in A
  PROVE  <<a>> \in Seq(A) /\ <<a>>[1] = a /\ Len(<<a>>) = 1
<1>1. <<a>> \in Seq(A)
  OBVIOUS
<1>2. <<a>>[1] = a
  OBVIOUS
<1>3. Len(<<a>>) = 1
  OBVIOUS
<1> QED BY <1>1, <1>2, <1>3

\* What follows a prefix of one element leaves it the first.
LEMMA MarkedPrefix ==
  ASSUME NEW A, NEW s, NEW t, s \in Seq(A), t \in Seq(A), Len(s) = 1
  PROVE  s \o t \in Seq(A) /\ s \o t # <<>> /\ (s \o t)[1] = s[1]
<1>1. s \o t \in Seq(A)
  OBVIOUS
<1>2. Len(s \o t) = Len(s) + Len(t) /\ Len(t) \in Nat
  <2>1. Len(s \o t) = Len(s) + Len(t)
    BY ConcatProperties
  <2>2. Len(t) \in Nat
    OBVIOUS
  <2> QED BY <2>1, <2>2
<1>3. Len(s \o t) # 0
  BY <1>2
<1>4. s \o t # <<>>
  BY <1>3, EmptySeq
<1>5. PICK i : i = 1
  OBVIOUS
<1>6. i \in 1..(Len(s) + Len(t)) /\ i <= Len(s)
  BY <1>2, <1>5
<1>7. (s \o t)[i] = s[i]
  BY <1>6, ConcatProperties
<1> QED BY <1>1, <1>4, <1>5, <1>7

\* The rest of a longer one.
LEMMA TailShape ==
  ASSUME NEW A, NEW s, s \in Seq(A), Len(s) >= 2
  PROVE  Tail(s) \in Seq(A) /\ Tail(s) # <<>>
<1>1. s # <<>>
  OBVIOUS
<1>2. Tail(s) \in Seq(A) /\ Len(Tail(s)) = Len(s) - 1
  BY <1>1, HeadTailProperties
<1>3. Len(Tail(s)) # 0
  BY <1>2
<1>4. Tail(s) # <<>>
  BY <1>2, <1>3, EmptySeq
<1> QED BY <1>2, <1>4

\* What begins with an element of its own where the other has one of N, or is longer,
\* differs.
LEMMA LongerOrMarked ==
  ASSUME NEW S, NEW N, NEW s, NEW t, NEW k,
         s \in Seq(S), t \in Seq(S), s # <<>>, t # <<>>, t[1] \notin N,
         k \in 1..Len(s), k = 1 \/ k < Len(s),
         \A i \in (k + 1)..(Len(s) - 1) : s[i] \in N
  PROVE  SubSeq(s, 1, k) \o t # IF Len(s) = 1 THEN s ELSE SubSeq(s, 1, Len(s) - 1)
<1> DEFINE r == SubSeq(s, 1, k)
           p == IF Len(s) = 1 THEN s ELSE SubSeq(s, 1, Len(s) - 1)
           n == Len(s)
           l == Len(t)
<1>1. n \in Nat /\ n >= 1 /\ l \in Nat /\ l >= 1
  OBVIOUS
<1>2. k \in Nat /\ k >= 1 /\ k <= n /\ (k = 1 \/ k < n)
  BY <1>1
<1>3. r \in Seq(S) /\ Len(r) = k
  BY <1>1
<1> HIDE DEF n, l, r, p
<1>4. r \o t \in Seq(S) /\ Len(r \o t) = k + l /\ (r \o t)[k + 1] = t[1]
  <2>1. k + 1 \in 1..(k + l) /\ ~(k + 1 <= k) /\ k + 1 - k = 1
    BY <1>1, <1>2
  <2>2. Len(r \o t) = k + l
    BY <1>3, ConcatProperties DEF l
  <2>3. (r \o t)[k + 1] = t[1]
    <3>1. t \in Seq(S)
      OBVIOUS
    <3>2. \A i \in 1..(k + l) : (r \o t)[i] = IF i <= k THEN r[i] ELSE t[i - k]
      BY ONLY <1>3, <3>1, ConcatProperties DEF l
    <3>3. PICK i : i = k + 1
      OBVIOUS
    <3>4. i \in 1..(k + l) /\ ~(i <= k) /\ i - k = 1
      BY <2>1, <3>3
    <3>5. (r \o t)[i] = t[i - k]
      BY ONLY <3>2, <3>4
    <3> QED BY ONLY <3>3, <3>4, <3>5
  <2>4. r \o t \in Seq(S)
    BY <1>3
  <2> QED BY <2>2, <2>3, <2>4
<1>5. n = Len(s)
  BY DEF n
<1>6. CASE n = 1
  <2>1. p = s /\ Len(p) = 1
    BY <1>6 DEF p, n
  <2>2. Len(r \o t) # Len(p)
    BY <1>4, <1>1, <1>2, <2>1
  <2>3. r \o t # p
    BY <2>2
  <2> QED BY <2>3 DEF p, r
<1>7. CASE n # 1
  <2>1. p = SubSeq(s, 1, n - 1)
    BY <1>7 DEF p, n
  <2>2. n - 1 \in Int /\ 1 \in Int /\ 1 <= n - 1 /\ n - 1 - 1 + 1 = n - 1 /\ k <= n - 1
    BY ONLY <1>1, <1>2, <1>7
  <2>3. \A i \in 1..(n - 1) : s[i] \in S
    <3>1. \A i \in 1..(n - 1) : i \in 1..n
      BY <1>1
    <3> QED BY <3>1, <1>5
  <2>4. Len(p) = n - 1
    BY <2>1, <2>2, <2>3, SubSeqProperties
  <2>5. ASSUME NEW i \in 1..(n - 1) PROVE p[i] = s[i]
    <3>1. 1 + i - 1 = i /\ i \in 1..(n - 1 - 1 + 1)
      BY <2>2
    <3> QED BY <3>1, <2>1, <2>2, <2>3, SubSeqProperties
  <2>6. CASE k = n - 1
    <3>1. Len(r \o t) # Len(p)
      BY <1>1, <1>2, <2>4, <2>6, <1>4
    <3>2. r \o t # p
      BY <3>1
    <3> QED BY <3>2 DEF p, r
  <2>7. CASE k < n - 1
    <3>1. k + 1 \in (k + 1)..(n - 1) /\ k + 1 \in 1..(n - 1)
      BY <2>7, <1>1, <1>2
    <3>2. s[k + 1] \in N
      BY <3>1, <1>5
    <3>3. p[k + 1] \in N /\ (r \o t)[k + 1] \notin N
      BY <3>1, <3>2, <2>5, <1>4
    <3>4. r \o t # p
      BY <3>3
    <3> QED BY <3>4 DEF p, r
  <2> QED BY <2>2, <2>6, <2>7, <1>1, <1>2
<1> QED BY <1>6, <1>7
=============================================================================
