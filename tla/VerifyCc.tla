------------------------------ MODULE VerifyCc ------------------------------
(***************************************************************************)
(* verify_cc_libs.py: for each plain shared library of the dump, does the  *)
(* source tree have a vendor_available cc_library of its name?  One grep   *)
(* per root builds an index from names to files, once; a grep that takes   *)
(* longer than 300 s leaves its root out of the index.                     *)
(***************************************************************************)
EXTENDS Soong

CONSTANTS
  Dump,        \* files of the dump, sorted: a sequence of
               \* [name, kind, where, link], see IsCandidate
  Trees        \* source trees: sequences of roots; a root is a sequence of
               \* files, a file a sequence of modules

VARIABLES
  tree,        \* the source tree
  scanned,     \* roots whose grep has ended
  indexed,     \* roots in the index
  rows         \* the verdicts so far
vars == <<tree, scanned, indexed, rows>>

(***************************************************************************)
(* collect_dump_libs.  kind: a plain library, one whose basename matches   *)
(* HAL_IMPL_PATTERNS, a versioned .so.N or something else; where: in an    *)
(* APK's directory, below a directory of vendor/lib* whose name begins     *)
(* with hw, or anywhere else.                                              *)
(***************************************************************************)
IsCandidate(f) ==
  /\ f.where \notin {"apk", "hw"}
  /\ ~f.link
  /\ f.kind = "plain"

\* What is left of the dump.
Candidates ==
  FlattenSeq([i \in DOMAIN Dump |-> IF IsCandidate(Dump[i]) THEN <<Dump[i]>> ELSE <<>>])
Current == Candidates[Len(rows) + 1].name

\* Declarations that contain the substring cc_library.
CcFilter == {"cc_library", "cc_library_shared", "cc_library_static", "cc_library_headers"}

MatchBlock(text, n, decls) ==
  BlockAt(text, {i \in DOMAIN text : text[i].t = "name" /\ text[i].v = n}, decls)

VendorAvailable(block) == Field(block, "vendor_available", FALSE)

\* The files the greps have read, in their order.
Files == FlattenSeq([r \in DOMAIN tree |-> IF r \in indexed THEN tree[r] ELSE <<>>])

\* Mutants: any defaults will do; the first file with the name decides.
InheritsAny(text, block) ==
  \E d \in ToSet(Field(block, "defaults", <<>>)) :
    MatchBlock(text, d, {"cc_defaults"}) # <<>>
HeadOnly(n) ==
  LET named == {i \in DOMAIN Files : \E k \in DOMAIN Files[i] : Files[i][k].name = n}
  IN IF named = {} THEN {} ELSE {Min(named)}

Inherits(text, block) ==
  \E d \in ToSet(Field(block, "defaults", <<>>)) :
    VendorAvailable(MatchBlock(text, d, {"cc_defaults"}))

\* extract_cc_block: absent, or whether it is vendor_available.
ExtractCcBlock(file, n) ==
  LET text  == FileText(file)
      block == MatchBlock(text, n, CcFilter)
  IN IF block = <<>> THEN "absent"
     ELSE IF VendorAvailable(block) \/ Inherits(text, block) THEN "yes" ELSE "no"

\* The places of the files the index has for a name.
Index(n) ==
  {i \in DOMAIN Files : \E k \in DOMAIN Files[i] : Files[i][k].name = n}

\* find_cc_library: the first of them with a block decides.
FindCcLibrary(n) ==
  LET found == {i \in Index(n) : ExtractCcBlock(Files[i], n) # "absent"}
  IN IF found = {} THEN "absent" ELSE ExtractCcBlock(Files[Min(found)], n)

-----------------------------------------------------------------------------
\* What Soong guarantees of a tree: no two modules of a file have one name.
IsFile(f) ==
  /\ f \in Seq(ToSet(f))
  /\ \A i \in 1..Len(f) : WellFormed(f[i])
  /\ \A i, j \in 1..Len(f) : f[i].name = f[j].name => i = j
IsTree(t) ==
  /\ t \in Seq(ToSet(t))
  /\ \A r \in 1..Len(t) : t[r] \in Seq(ToSet(t[r]))
                         /\ \A i \in 1..Len(t[r]) : IsFile(t[r][i])
TreesAreSoong == \A t \in Trees : IsTree(t)
DumpIsList == Dump \in Seq(ToSet(Dump))

TypeOK ==
  /\ tree \in Trees
  /\ scanned \in 0..Len(tree)
  /\ indexed \subseteq 1..scanned
  /\ rows \in Seq({"DROP", "KEEP"}) /\ Len(rows) <= Len(Candidates)

Init == tree \in Trees /\ scanned = 0 /\ indexed = {} /\ rows = <<>>

\* build_name_index, one root; a root that is no directory is never indexed.
Scan(ok) ==
  /\ scanned < Len(tree)
  /\ scanned' = scanned + 1
  /\ indexed' = IF ok THEN indexed \cup {scanned'} ELSE indexed
  /\ UNCHANGED <<tree, rows>>
GrepRoot    == Scan(TRUE)
GrepTimeout == Scan(FALSE)

\* One turn of main()'s loop.
Judge ==
  /\ scanned = Len(tree) /\ Len(rows) < Len(Candidates)
  /\ rows' = Append(rows, IF FindCcLibrary(Current) = "yes" THEN "DROP" ELSE "KEEP")
  /\ UNCHANGED <<tree, scanned, indexed>>

Next == GrepRoot \/ GrepTimeout \/ Judge
Spec == Init /\ [][Next]_vars
=============================================================================
