---------------------------- MODULE ClosureProps ----------------------------
(***************************************************************************)
(* What the generated lists promise, stated over Closure.                  *)
(***************************************************************************)
EXTENDS Closure

ListedBlobs == {l.blob : l \in listing}

\* No blob is installed twice: whatever happened to the dump between the two
\* walks, or to the tables after the run read them, the two lists of a completed
\* run are disjoint (device.mk:292 includes both; a blob in both is a duplicate
\* rule of the build).
OneHome == finished => ListedBlobs \cap pcf = {}

\* A run that nothing disturbed leaves every regular file of the dump that no
\* table drops in exactly the list its path asks for, whatever earlier runs were
\* killed in the middle (closure.py:6-7, the inclusion gate).
Shipped == calm >= 1 => ListedBlobs = Listed(tables) /\ pcf = Bypassed(tables)

\* It keeps the marker of every path that had no arguments, even if the path gets
\* arguments now (closure.py:10-11).
PlainMarksKept ==
  calm >= 1 =>
    \A l \in before : l.args = {} /\ l.blob \in ListedBlobs =>
      \E k \in listing : k.blob = l.blob /\ k.mark = l.mark

\* From the third undisturbed run on, a run changes nothing.
Settles == calm >= 3 => listing = before

\* closure.py:13 "Idempotent: rerunning yields the same file": the second of two
\* undisturbed runs changes nothing.
Idempotent == calm >= 2 => listing = before

\* closure.py:2001 "Files listed in .bringup_orig_blobs.txt but NOT present in
\* dump": no basename reported as missing is that of a file in the dump.
MissingIsAbsent == calm >= 1 => \A b \in Regular : Base[b] \notin missing

\* Every baseline basename that is not in the dump is reported.
AbsentIsMissing ==
  calm >= 1 => \A n \in Baseline : (\A b \in Regular : Base[b] # n) => n \in missing
=============================================================================
