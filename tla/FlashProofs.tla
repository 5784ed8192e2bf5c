---------------------------- MODULE FlashProofs ----------------------------
(***************************************************************************)
(* Theorems about flash_lineage.sh, for every list of images and erased    *)
(* partitions and any number of failures.  The invariant says how far the  *)
(* running qdl command has come: what it has passed is written (Passed),   *)
(* and stays so, because no later attempt puts anything older back.        *)
(***************************************************************************)
EXTENDS FlashEdl, TLAPS

\* Only a decompression that was cut short leaves a partial image.
Archived == super = "partial" => unpacks

\* What a partition holds once the command has passed it.
Good(k) ==
  \/ part[Target(k)] = IF k <= Len(Images) THEN "lineage" ELSE "erased"
  \/ k <= Len(Images) /\ Target(k) = "super" /\ unpacks

Passed ==
  /\ pc = "qdl" => \A k \in 1..N : k < at => part[Target(k)] # "stock" /\ Good(k)
  /\ pc = "done" => \A k \in 1..N : Good(k)

FlashInv == TypeOK /\ Archived /\ Passed /\ EraseComesLast

-----------------------------------------------------------------------------
\* The command names every partition: first the images, then those it erases.
LEMMA Command ==
  /\ Len(Images) \in Nat /\ Len(Erased) \in Nat /\ N \in Nat /\ N >= 1
  /\ \A k \in 1..N : Target(k) \in Partitions
  /\ \A k \in 1..N : k <= Len(Images) => Target(k) \in ToSet(Images)
  /\ \A k \in 1..N : k > Len(Images) => Target(k) \in ToSet(Erased)
  /\ \A p \in ToSet(Images) : \E k \in 1..N : k <= Len(Images) /\ Target(k) = p
  /\ \A p \in ToSet(Erased) : \E k \in 1..N : k > Len(Images) /\ Target(k) = p
<1>1. Images \in Seq(ToSet(Images)) /\ Erased \in Seq(ToSet(Erased))
  BY PartitionsAssumption
<1>2. /\ Len(Images) \in Nat /\ DOMAIN Images = 1..Len(Images)
      /\ Len(Erased) \in Nat /\ DOMAIN Erased = 1..Len(Erased)
  BY <1>1
<1>3. N \in Nat /\ N = Len(Images) + Len(Erased)
  BY <1>2 DEF N
<1>4. ToSet(Images) = {Images[i] : i \in 1..Len(Images)}
  BY <1>2 DEF ToSet
<1>5. ToSet(Erased) = {Erased[i] : i \in 1..Len(Erased)}
  BY <1>2 DEF ToSet
<1>6. ASSUME NEW k \in 1..N, k <= Len(Images)
      PROVE  Target(k) = Images[k]
  BY <1>6, <1>1, <1>2, <1>3 DEF Target
<1>7. ASSUME NEW k \in 1..N, k > Len(Images)
      PROVE  Target(k) = Erased[k - Len(Images)] /\ k - Len(Images) \in 1..Len(Erased)
  BY <1>7, <1>1, <1>2, <1>3 DEF Target
<1>8. \A k \in 1..N : k <= Len(Images) => Target(k) \in ToSet(Images)
  BY <1>6, <1>4, <1>2
<1>9. \A k \in 1..N : k > Len(Images) => Target(k) \in ToSet(Erased)
  BY <1>7, <1>5
<1>10. \A k \in 1..N : Target(k) \in Partitions
  BY <1>8, <1>9, <1>2, <1>3 DEF Partitions
<1>11. ASSUME NEW p \in ToSet(Images)
       PROVE  \E k \in 1..N : k <= Len(Images) /\ Target(k) = p
  <2>1. PICK i \in 1..Len(Images) : p = Images[i]
    BY <1>4
  <2>2. i \in 1..N /\ i <= Len(Images)
    BY <1>2, <1>3
  <2> QED BY <2>1, <2>2, <1>6
<1>12. ASSUME NEW p \in ToSet(Erased)
       PROVE  \E k \in 1..N : k > Len(Images) /\ Target(k) = p
  <2>1. PICK i \in 1..Len(Erased) : p = Erased[i]
    BY <1>5
  <2>2. i + Len(Images) \in 1..N /\ i + Len(Images) > Len(Images)
        /\ (i + Len(Images)) - Len(Images) = i
    BY <1>2, <1>3
  <2> QED BY <2>1, <2>2, <1>7
<1>13. N >= 1
  <2>1. "super" \in ToSet(Images)
    BY PartitionsAssumption
  <2> QED BY <2>1, <1>11, <1>3
<1> QED BY <1>2, <1>3, <1>8, <1>9, <1>10, <1>11, <1>12, <1>13

\* No partition is both written and erased.
LEMMA Disjoint == \A j, k \in 1..N : j <= Len(Images) /\ k > Len(Images) => Target(j) # Target(k)
<1>1. ToSet(Images) \cap ToSet(Erased) = {}
  BY PartitionsAssumption
<1> QED BY <1>1, Command

LEMMA FlashInitInv == Init => FlashInv
<1>1. SUFFICES ASSUME Init PROVE FlashInv
  OBVIOUS
<1>2. TypeOK
  <2>1. part \in [Partitions -> {"stock", "mixed", "lineage", "erased"}]
    BY <1>1 DEF Init
  <2>2. at \in 1..N
    BY <1>1, Command DEF Init
  <2>3. MaxFaults \in Nat
    BY PartitionsAssumption
  <2>4. faults \in 0..MaxFaults
    BY <1>1, <2>3 DEF Init
  <2> QED BY <1>1, <2>1, <2>2, <2>4 DEF Init, TypeOK
<1>3. Archived /\ Passed
  BY <1>1 DEF Init, Archived, Passed
<1>4. EraseComesLast
  BY <1>1 DEF Init, EraseComesLast, Partitions
<1> QED BY <1>2, <1>3, <1>4 DEF FlashInv

\* What the command leaves on the partition it has come to, written in whole or in
\* part, disturbs nothing that was written before: a partition is erased only after
\* every image was passed.
LEMMA WriteKeepsOrder ==
  ASSUME FlashInv, pc = "qdl",
         NEW v \in {"mixed", "lineage", "erased"},
         part' = [part EXCEPT ![Target(at)] = v]
  PROVE  EraseComesLast' /\ part' \in [Partitions -> {"stock", "mixed", "lineage", "erased"}]
<1>1. at \in 1..N /\ Target(at) \in Partitions
  BY Command DEF FlashInv, TypeOK
<1>2. part' \in [Partitions -> {"stock", "mixed", "lineage", "erased"}]
  BY <1>1 DEF FlashInv, TypeOK
<1>3. \A p \in Partitions : part'[p] = IF p = Target(at) THEN v ELSE part[p]
  BY <1>1 DEF FlashInv, TypeOK
<1>4. \A p \in Partitions : part[p] # "stock" => part'[p] # "stock"
  BY <1>3
<1>5. ASSUME NEW e \in ToSet(Erased), part'[e] # "stock", NEW p \in ToSet(Images)
      PROVE  part'[p] # "stock"
  <2>1. e \in Partitions /\ p \in Partitions
    BY DEF Partitions
  <2>2. CASE part[e] # "stock"
    BY <2>1, <2>2, <1>4 DEF FlashInv, EraseComesLast
  <2>3. CASE part[e] = "stock"
    <3>1. e = Target(at)
      BY <2>1, <2>3, <1>5, <1>3
    <3>2. PICK k \in 1..N : k <= Len(Images) /\ Target(k) = p
      BY Command
    <3>3. at > Len(Images)
      <4>1. ToSet(Images) \cap ToSet(Erased) = {}
        BY PartitionsAssumption
      <4> QED BY <4>1, <3>1, <1>1, Command
    <3>4. k < at
      BY <3>2, <3>3, <1>1, Command
    <3>5. part[p] # "stock"
      BY <3>2, <3>4 DEF FlashInv, Passed
    <3> QED BY <3>5, <2>1, <1>4
  <2> QED BY <2>2, <2>3
<1> QED BY <1>2, <1>5 DEF EraseComesLast

\* One partition further on, everything passed is still as the command left it.
LEMMA QdlInv == ASSUME FlashInv, QdlStep PROVE FlashInv'
<1>1. /\ pc = "qdl" /\ part' = [part EXCEPT ![Target(at)] = Outcome(at)]
      /\ UNCHANGED <<images, super, zst, edl, faults, unpacks>>
  BY DEF QdlStep
<1>2. at \in 1..N /\ Target(at) \in Partitions
  BY Command DEF FlashInv, TypeOK
<1>3. Outcome(at) \in {"mixed", "lineage", "erased"}
  BY DEF Outcome
<1>4. EraseComesLast' /\ part' \in [Partitions -> {"stock", "mixed", "lineage", "erased"}]
  BY <1>1, <1>3, WriteKeepsOrder
<1>5. \A p \in Partitions : part'[p] = IF p = Target(at) THEN Outcome(at) ELSE part[p]
  BY <1>1, <1>2 DEF FlashInv, TypeOK
<1>6. \A k \in 1..N : k <= at => part'[Target(k)] # "stock"
  <2>1. SUFFICES ASSUME NEW k \in 1..N, k <= at PROVE part'[Target(k)] # "stock"
    OBVIOUS
  <2>2. Target(k) \in Partitions
    BY Command
  <2>3. CASE k = at
    BY <2>3, <1>5, <1>3, <2>2
  <2>4. CASE k < at
    BY <2>4, <2>2, <1>1, <1>5, <1>3 DEF FlashInv, Passed
  <2> QED BY <2>1, <2>3, <2>4, <1>2, Command
<1>7. \A k \in 1..N : k <= at => Good(k)'
  <2>1. \/ Outcome(at) = IF at <= Len(Images) THEN "lineage" ELSE "erased"
        \/ at <= Len(Images) /\ Target(at) = "super" /\ unpacks
    BY <1>2, Command DEF Outcome, FlashInv, Archived
  <2>2. SUFFICES ASSUME NEW k \in 1..N, k <= at
                 PROVE  \/ part'[Target(k)] = IF k <= Len(Images) THEN "lineage" ELSE "erased"
                        \/ k <= Len(Images) /\ Target(k) = "super" /\ unpacks
    BY <1>1 DEF Good, Target
  <2>3. Target(k) \in Partitions
    BY Command
  <2>4. CASE Target(k) = Target(at)
    <3>1. k <= Len(Images) <=> at <= Len(Images)
      BY <2>4, <1>2, Disjoint, Command
    <3> QED BY <3>1, <2>1, <2>3, <2>4, <1>5
  <2>5. CASE Target(k) # Target(at)
    <3>1. k < at
      BY <2>5, <2>2, <1>2, Command
    <3>2. Good(k)
      BY <3>1, <1>1 DEF FlashInv, Passed
    <3> QED BY <3>2, <2>3, <2>5, <1>5 DEF Good
  <2> QED BY <2>4, <2>5
<1>8. Archived'
  BY <1>1 DEF FlashInv, Archived
<1>9. CASE at = N /\ pc' = "done" /\ UNCHANGED at
  <2>1. TypeOK'
    BY <1>1, <1>4, <1>9 DEF FlashInv, TypeOK
  <2>2. \A k \in 1..N : k <= at
    BY <1>9, Command
  <2>3. Passed'
    BY <1>1, <1>7, <1>9, <2>2 DEF Passed
  <2> QED BY <2>1, <2>3, <1>4, <1>8 DEF FlashInv
<1>10. CASE at # N /\ at' = at + 1 /\ UNCHANGED pc
  <2>1. at' \in 1..N
    BY <1>2, <1>10, Command
  <2>2. TypeOK'
    BY <1>1, <1>4, <1>10, <2>1 DEF FlashInv, TypeOK
  <2>3. \A k \in 1..N : k < at' => k <= at
    BY <1>2, <1>10, Command
  <2>4. pc' = "qdl" /\ unpacks' = unpacks
    BY <1>1, <1>10
  <2>5. \A k \in 1..N : k < at' => part'[Target(k)] # "stock"
    BY <2>3, <1>6
  <2>6. \A k \in 1..N : k < at' => Good(k)'
    BY <2>3, <1>7
  <2>7. Passed'
    BY <2>4, <2>5, <2>6 DEF Passed, Target
  <2> QED BY <2>2, <2>7, <1>4, <1>8 DEF FlashInv
<1> QED BY <1>9, <1>10 DEF QdlStep

\* A step after which no command runs or has just finished, and that has at most
\* begun to write a partition.
LEMMA Rest ==
  ASSUME FlashInv, TypeOK', Archived', pc' \notin {"qdl", "done"},
         \/ part' = part
         \/ pc = "qdl" /\ part' = [part EXCEPT ![Target(at)] = "mixed"]
  PROVE  FlashInv'
<1>1. Passed'
  BY DEF Passed
<1>2. EraseComesLast'
  <2>1. CASE part' = part
    BY <2>1 DEF FlashInv, EraseComesLast
  <2>2. CASE pc = "qdl" /\ part' = [part EXCEPT ![Target(at)] = "mixed"]
    BY <2>2, WriteKeepsOrder
  <2> QED BY <2>1, <2>2
<1> QED BY <1>1, <1>2 DEF FlashInv

LEMMA FaultCount ==
  ASSUME faults \in 0..MaxFaults, Fault PROVE faults' \in 0..MaxFaults
<1>1. MaxFaults \in Nat
  BY PartitionsAssumption
<1> QED BY <1>1 DEF Fault

\* The invariant is inductive.
LEMMA FlashStepInv == FlashInv /\ [Next]_vars => FlashInv'
<1> SUFFICES ASSUME FlashInv, [Next]_vars PROVE FlashInv'
  OBVIOUS
<1>t. TypeOK /\ Archived
  BY DEF FlashInv
<1>1. CASE Start
  <2>1. TypeOK' /\ Archived' /\ pc' \notin {"qdl", "done"} /\ part' = part
    BY <1>1, <1>t DEF Start, TypeOK, Archived
  <2> QED BY <2>1, Rest
<1>2. CASE Decompress
  <2>1. TypeOK' /\ Archived' /\ pc' \notin {"qdl", "done"} /\ part' = part
    BY <1>2, <1>t DEF Decompress, TypeOK, Archived
  <2> QED BY <2>1, Rest
<1>3. CASE DecompressFails
  <2>1. faults' \in 0..MaxFaults
    BY <1>3, <1>t, FaultCount DEF DecompressFails, TypeOK
  <2>2. TypeOK' /\ Archived' /\ pc' \notin {"qdl", "done"} /\ part' = part
    BY <1>3, <1>t, <2>1 DEF DecompressFails, TypeOK, Archived
  <2> QED BY <2>2, Rest
<1>4. CASE CheckEdl
  <2>1. at' = 1 /\ 1 \in 1..N /\ pc' \in {"qdl", "error"} /\ UNCHANGED <<super, part, unpacks>>
    BY <1>4, Command DEF CheckEdl
  <2>2. TypeOK' /\ Archived'
    BY <1>4, <2>1, <1>t DEF CheckEdl, TypeOK, Archived
  <2>3. \A k \in 1..N : ~(k < at')
    BY <2>1, Command
  <2>4. Passed'
    BY <2>1, <2>3 DEF Passed
  <2>5. EraseComesLast'
    BY <2>1 DEF FlashInv, EraseComesLast
  <2> QED BY <2>2, <2>4, <2>5 DEF FlashInv
<1>5. CASE QdlStep
  BY <1>5, QdlInv
<1>6. CASE QdlRefuses
  <2>1. TypeOK' /\ Archived' /\ pc' \notin {"qdl", "done"} /\ part' = part
    BY <1>6, <1>t DEF QdlRefuses, TypeOK, Archived
  <2> QED BY <2>1, Rest
<1>7. CASE QdlFails
  <2>1. faults' \in 0..MaxFaults
    BY <1>7, <1>t, FaultCount DEF QdlFails, TypeOK
  <2>2. pc = "qdl" /\ part' = [part EXCEPT ![Target(at)] = "mixed"]
    BY <1>7 DEF QdlFails
  <2>3. part' \in [Partitions -> {"stock", "mixed", "lineage", "erased"}]
    BY <2>2, WriteKeepsOrder
  <2>4. TypeOK' /\ Archived' /\ pc' \notin {"qdl", "done"}
    BY <1>7, <1>t, <2>1, <2>3 DEF QdlFails, TypeOK, Archived
  <2> QED BY <2>2, <2>4, Rest
<1>8. CASE Kill
  <2>1. faults' \in 0..MaxFaults
    BY <1>8, <1>t, FaultCount DEF Kill, TypeOK
  <2>2. \/ part' = part
        \/ pc = "qdl" /\ part' = [part EXCEPT ![Target(at)] = "mixed"]
    BY <1>8 DEF Kill
  <2>3. part' \in [Partitions -> {"stock", "mixed", "lineage", "erased"}]
    BY <2>2, <1>t, WriteKeepsOrder DEF TypeOK
  <2>4. super' \in {"absent", "partial", "whole"} /\ unpacks' \in BOOLEAN
    BY <1>8, <1>t DEF Kill, TypeOK
  <2>5. TypeOK' /\ pc' \notin {"qdl", "done"}
    BY <1>8, <1>t, <2>1, <2>3, <2>4 DEF Kill, TypeOK
  <2>6. Archived'
    BY <1>8, <1>t DEF Kill, Archived
  <2> QED BY <2>2, <2>5, <2>6, Rest
<1>9. CASE EnterEdl \/ UNCHANGED vars
  <2>1. UNCHANGED <<images, super, zst, part, pc, at, faults, unpacks>> /\ edl' \in BOOLEAN
    BY <1>9, <1>t DEF EnterEdl, vars, TypeOK
  <2> QED BY <2>1 DEF FlashInv, TypeOK, Archived, Passed, Good, Target, EraseComesLast
<1> QED BY <1>1, <1>2, <1>3, <1>4, <1>5, <1>6, <1>7, <1>8, <1>9 DEF Next, Script

-----------------------------------------------------------------------------
\* The invariant above holds of every run of the script: the types, what the command
\* has passed, and both promises below.
THEOREM FlashSpec == Spec => []FlashInv
BY FlashInitInv, FlashStepInv, PTL DEF Spec

\* Every variable keeps its type, in particular qdl never runs past its last partition.
THEOREM FlashTypeCorrect == Spec => []TypeOK
<1>1. FlashInv => TypeOK
  BY DEF FlashInv
<1> QED BY <1>1, FlashSpec, PTL

\* When the script says DONE, every image is wholly on the device and its data are
\* gone, after any number of failed attempts; but for a super.img cut short.
THEOREM DoneIsFlashedHolds == Spec => []DoneIsFlashed
<1>1. FlashInv => DoneIsFlashed
  <2>1. SUFFICES ASSUME FlashInv, pc = "done"
                 PROVE  /\ \A p \in ToSet(Images) :
                             part[p] = "lineage" \/ (p = "super" /\ unpacks)
                        /\ \A p \in ToSet(Erased) : part[p] = "erased"
    BY DEF DoneIsFlashed
  <2>2. \A k \in 1..N : Good(k)
    BY <2>1 DEF FlashInv, Passed
  <2>3. ASSUME NEW p \in ToSet(Images)
        PROVE  part[p] = "lineage" \/ (p = "super" /\ unpacks)
    BY <2>2, Command DEF Good
  <2>4. ASSUME NEW p \in ToSet(Erased) PROVE part[p] = "erased"
    <3>1. PICK k \in 1..N : k > Len(Images) /\ Target(k) = p
      BY Command
    <3>2. ~(k <= Len(Images))
      BY <3>1, Command
    <3> QED BY <3>1, <3>2, <2>2 DEF Good
  <2> QED BY <2>3, <2>4
<1> QED BY <1>1, FlashSpec, PTL

\* No attempt, however it ends, erases the data before every image was written.
THEOREM EraseComesLastHolds == Spec => []EraseComesLast
<1>1. FlashInv => EraseComesLast
  BY DEF FlashInv
<1> QED BY <1>1, FlashSpec, PTL
=============================================================================
