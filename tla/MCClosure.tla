------------------------------ MODULE MCClosure ------------------------------
(***************************************************************************)
(* An instance of Closure: a library with copies in vendor/lib (1),        *)
(* vendor/lib64/hw (2), vendor/lib64 (3) and an overlay (5), and a file of *)
(* vendor/qprof (4).  The tables bypass 4, or drop 4 and change 3's        *)
(* SONAME, or bypass the hw copy and rename 1.                             *)
(***************************************************************************)
EXTENDS ClosureProps

MCBlob == 1..5
MCBase == [b \in MCBlob |-> IF b = 4 THEN "profile" ELSE "libfoo.so"]
MCFlat == {1, 3}
MCTables ==
  {[exclude |-> {}, bypass |-> {4}, rename |-> {}, deps |-> {}, soname |-> {}],
   [exclude |-> {4}, bypass |-> {}, rename |-> {}, deps |-> {2}, soname |-> {3}],
   [exclude |-> {}, bypass |-> {2}, rename |-> {1}, deps |-> {}, soname |-> {}]}
MCBaseline == {"profile", "libfoo.so"}
=============================================================================
