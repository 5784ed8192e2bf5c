------------------------------ MODULE FlashEdl ------------------------------
(***************************************************************************)
(* flash_lineage.sh: decompress super.img if it is not there, write seven  *)
(* images and erase two partitions over EDL.  The script has no set -e; it *)
(* can be killed, the host can lose power and the cable can be pulled, and *)
(* the user starts it again.                                               *)
(***************************************************************************)
EXTENDS Naturals, Sequences, SequencesExt

CONSTANTS
  Images,     \* partitions written, in the order of the qdl command
  Erased,     \* partitions erased after that
  Packages,   \* the sets of images, super.img apart, a package may hold
  MaxFaults   \* bound: failures, kills and cables pulled

Partitions == ToSet(Images) \cup ToSet(Erased)
ASSUME PartitionsAssumption ==
  /\ Images \in Seq(ToSet(Images)) /\ Erased \in Seq(ToSet(Erased))
  /\ Packages \subseteq SUBSET (ToSet(Images) \ {"super"})
  /\ "super" \in ToSet(Images) /\ ToSet(Images) \cap ToSet(Erased) = {}
  /\ MaxFaults \in Nat

VARIABLES
  images,     \* the other images of the package
  super,      \* images/super.img of the package
  zst,        \* whether there is an images/super.img.zst
  part,       \* what is on each partition of the device
  edl,        \* the device is in EDL mode
  pc,         \* where the script is
  at,         \* the partition qdl has come to, by its number in the command
  faults,
  unpacks     \* history: a decompression was cut short
vars == <<images, super, zst, part, edl, pc, at, faults, unpacks>>

N == Len(Images) + Len(Erased)

TypeOK ==
  /\ images \in Packages
  /\ super \in {"absent", "partial", "whole"} /\ zst \in BOOLEAN
  /\ part \in [Partitions -> {"stock", "mixed", "lineage", "erased"}]
  /\ edl \in BOOLEAN
  /\ pc \in {"idle", "unzstd", "lsusb", "qdl", "done", "error"}
  /\ at \in 1..N
  /\ faults \in 0..MaxFaults /\ unpacks \in BOOLEAN

Init ==
  /\ images \in Packages
  /\ super \in {"absent", "whole"} /\ zst \in BOOLEAN
  /\ part = [p \in Partitions |-> "stock"]
  /\ edl = FALSE /\ pc = "idle" /\ at = 1 /\ faults = 0 /\ unpacks = FALSE

Ended == pc \in {"idle", "done", "error"}
Fault == faults < MaxFaults /\ faults' = faults + 1

\* Mutant: without an archive, an image that is there is not used.
StartArchive ==
  /\ Ended
  /\ pc' = IF zst THEN "unzstd" ELSE "error"
  /\ UNCHANGED <<images, super, zst, part, edl, at, faults, unpacks>>

\* Lines 18-25; any super.img will do.
Start ==
  /\ Ended
  /\ pc' = IF super # "absent" THEN "lsusb" ELSE IF zst THEN "unzstd" ELSE "error"
  /\ UNCHANGED <<images, super, zst, part, edl, at, faults, unpacks>>

Decompress ==
  /\ pc = "unzstd" /\ pc' = "lsusb" /\ super' = "whole"
  /\ UNCHANGED <<images, zst, part, edl, at, faults, unpacks>>

\* zstd fails (a full disk, a damaged file) and may leave a part; its exit status is
\* not looked at.
DecompressFails ==
  /\ pc = "unzstd" /\ Fault /\ pc' = "lsusb" /\ super' \in {"absent", "partial"}
  /\ unpacks' = TRUE
  /\ UNCHANGED <<images, zst, part, edl, at>>

\* Line 26.
CheckEdl ==
  /\ pc = "lsusb" /\ pc' = IF edl THEN "qdl" ELSE "error"
  /\ at' = 1
  /\ UNCHANGED <<images, super, zst, part, edl, faults, unpacks>>

\* Mutant: the erases come first.
TargetErasesFirst(k) == (Erased \o Images)[k]

\* What writing or erasing partition k of the qdl command leaves on it.
Target(k) == (Images \o Erased)[k]
Outcome(k) ==
  IF k > Len(Images) THEN "erased"
  ELSE IF Target(k) = "super" /\ super = "partial" THEN "mixed" ELSE "lineage"
Readable(k) ==
  IF Target(k) = "super" THEN super # "absent"
  ELSE Target(k) \in images \cup ToSet(Erased)

\* Mutant: the command says it is done before its last partition.
QdlStops ==
  /\ pc = "qdl" /\ edl /\ Readable(at)
  /\ part' = [part EXCEPT ![Target(at)] = Outcome(at)]
  /\ IF at = N - 1 THEN pc' = "done" /\ UNCHANGED at ELSE at' = at + 1 /\ UNCHANGED pc
  /\ UNCHANGED <<images, super, zst, edl, faults, unpacks>>
\* Mutant: the last partition is counted like the others.
QdlRunsPast ==
  /\ pc = "qdl" /\ edl /\ Readable(at)
  /\ part' = [part EXCEPT ![Target(at)] = Outcome(at)]
  /\ at' = at + 1 /\ pc' = IF at = N THEN "done" ELSE pc
  /\ UNCHANGED <<images, super, zst, edl, faults, unpacks>>
QdlStep ==
  /\ pc = "qdl" /\ edl /\ Readable(at)
  /\ part' = [part EXCEPT ![Target(at)] = Outcome(at)]
  /\ IF at = N THEN pc' = "done" /\ UNCHANGED at ELSE at' = at + 1 /\ UNCHANGED pc
  /\ UNCHANGED <<images, super, zst, edl, faults, unpacks>>

\* An image is not there, as qdl finds now or later: its status ends the script.
QdlRefuses ==
  /\ pc = "qdl" /\ (\E k \in at..N : ~Readable(k)) /\ pc' = "error"
  /\ UNCHANGED <<images, super, zst, part, edl, at, faults, unpacks>>

\* The cable is pulled or a transfer fails: the partition is written in part.
QdlFails ==
  /\ pc = "qdl" /\ Fault /\ pc' = "error"
  /\ edl' = FALSE /\ part' = [part EXCEPT ![Target(at)] = "mixed"]
  /\ UNCHANGED <<images, super, zst, at, unpacks>>

\* The script is killed, or the host goes down.
Kill ==
  /\ ~Ended /\ Fault /\ pc' = "idle"
  /\ super' \in IF pc = "unzstd" THEN {"absent", "partial"} ELSE {super}
  /\ part' = IF pc = "qdl" THEN [part EXCEPT ![Target(at)] = "mixed"] ELSE part
  /\ unpacks' = (unpacks \/ pc = "unzstd")
  /\ UNCHANGED <<images, zst, edl, at>>

\* The user puts the device into EDL mode.
EnterEdl ==
  /\ ~edl /\ edl' = TRUE
  /\ UNCHANGED <<images, super, zst, part, pc, at, faults, unpacks>>

Script == Decompress \/ CheckEdl \/ QdlStep \/ QdlRefuses
Next == Start \/ Script \/ DecompressFails \/ QdlFails \/ Kill \/ EnterEdl

Spec == Init /\ [][Next]_vars
\* The script runs on; the user keeps trying, each time with the device in EDL mode.
FairSpec ==
  /\ Spec /\ WF_vars(Script) /\ WF_vars(EnterEdl)
  /\ WF_vars(Start /\ pc # "done")

-----------------------------------------------------------------------------
\* flash_lineage.sh:39 "DONE. Long-press Power": whenever the script says so, every
\* image is wholly on the device and its data are gone, whatever an earlier attempt
\* left behind; but for super, if a decompression was ever cut short (line 18 takes any
\* super.img for a whole one).
DoneIsFlashed ==
  pc = "done" =>
    /\ \A p \in ToSet(Images) : part[p] = "lineage" \/ (p = "super" /\ unpacks)
    /\ \A p \in ToSet(Erased) : part[p] = "erased"

\* flash_lineage.sh:7-10, the stale encryption: in no attempt are the data erased
\* before all images are written, so that a device with erased data and no mixed
\* partition boots the new system.
EraseComesLast ==
  (\E p \in ToSet(Erased) : part[p] # "stock") =>
    \A p \in ToSet(Images) : part[p] # "stock"

\* Retrying gets there: with a package that has every image, or the archive of
\* super.img, the script eventually says DONE, however often it was interrupted.
RetryEndsDone ==
  (ToSet(Images) \subseteq images \cup {"super"} /\ (super # "absent" \/ zst))
    ~> (pc = "done")
=============================================================================
