----------------------------- MODULE VerifyAidl -----------------------------
(***************************************************************************)
(* verify_aidl_versions.py: for each <name>-V<ver>-ndk.so of the dump, may *)
(* the prebuilt be dropped because the source tree builds that version?    *)
(* Paths that follow from the name are tried first; then grep looks in     *)
(* each root, and a grep that takes longer than 20 s is skipped.           *)
(***************************************************************************)
EXTENDS Soong

CONSTANTS
  Prebuilts,   \* the dump, sorted: a sequence of [name, ver]
  Trees        \* source trees: sequences of roots; a root is a sequence of
               \* files [mods, direct, readable], direct being the names for
               \* which the path is one of the obvious ones

VARIABLES
  tree,        \* the source tree
  rows,        \* the verdicts so far
  root,        \* 0: obvious paths; n: grep in root n
  skipped      \* history: a grep of this search timed out
vars == <<tree, rows, root, skipped>>

TypeOK ==
  /\ tree \in Trees
  /\ rows \in Seq([verdict : {"DROP", "KEEP", "UNKNOWN"}, complete : BOOLEAN])
  /\ Len(rows) <= Len(Prebuilts)
  /\ root \in 0..Len(tree)
  /\ skipped \in BOOLEAN

Current == Prebuilts[Len(rows) + 1]

AidlFilter     == {"aidl_interface", "aidl_interface_defaults"}  \* a substring
DefaultsFilter == {"aidl_interface_defaults"}

NamedBlock(text, n, decls) ==
  BlockAt(text, {i \in DOMAIN text : n \in Quoted(text[i])}, decls)

\* extract_block: the block, and the defaults it names in the same file.
ExtractBlock(file, n) ==
  LET text  == FileText(file.mods)
      block == NamedBlock(text, n, AidlFilter)
      names == Field(block, "defaults", <<>>)
  IN IF ~file.readable \/ block = <<>> THEN <<>>
     ELSE block \o FlattenSeq([i \in DOMAIN names |->
                                 NamedBlock(text, names[i], DefaultsFilter)])

\* The block in the first of the files at some places that yields one.
FirstBlock(files, places, n) ==
  LET hits == {i \in places : ExtractBlock(files[i], n) # <<>>}
  IN IF hits = {} THEN <<>> ELSE ExtractBlock(files[Min(hits)], n)

\* The obvious paths of every root, in order.
ByPath(n) ==
  LET files == FlattenSeq(tree)
  IN FirstBlock(files, {i \in DOMAIN files : n \in files[i].direct}, n)

\* grep lists the files of a root that declare the name.
Declares(f, n) == \E i \in DOMAIN f.mods : f.mods[i].name = n
ByGrep(r, n) ==
  FirstBlock(tree[r], {i \in DOMAIN tree[r] : Declares(tree[r][i], n)}, n)

-----------------------------------------------------------------------------
\* The texts of a tree are as Soong describes them, and a module's defaults are a list.
IsFile(f) ==
  /\ f.mods \in Seq(ToSet(f.mods))
  /\ \A i \in 1..Len(f.mods) :
       /\ WellFormed(f.mods[i])
       /\ LET names == Field(f.mods[i].props, "defaults", <<>>)
          IN names \in Seq(ToSet(names))
IsTree(t) ==
  /\ t \in Seq(ToSet(t))
  /\ \A r \in 1..Len(t) : t[r] \in Seq(ToSet(t[r]))
                         /\ \A i \in 1..Len(t[r]) : IsFile(t[r][i])
TreesAreFiles == \A t \in Trees : IsTree(t)
DumpIsList == Prebuilts \in Seq(ToSet(Prebuilts))

-----------------------------------------------------------------------------
(* Mutants: a frozen interface is given a next version; vintf is not       *)
(* consumable.                                                             *)
BuiltFrozen(block) ==
  LET vs == Field(block, "versions", {})
  IN IF vs = {} THEN vs ELSE vs \cup {Max(vs) + 1}
ConsumableVa(block) == Field(block, "vendor_available", FALSE)

-----------------------------------------------------------------------------
(* parse_versions and the decision of main().                              *)

Versions(block) ==
  Field(block, "versions_with_info", Field(block, "versions", {}))

Built(block) ==
  LET vs == Versions(block)
  IN IF vs = {} \/ Field(block, "unstable", FALSE) \/ Field(block, "frozen", FALSE)
     THEN vs ELSE vs \cup {Max(vs) + 1}

Consumable(block) ==
  \/ Field(block, "vendor_available", FALSE)
  \/ Field(block, "stability", "") = "vintf"

VerdictOf(block, ver) ==
  IF block = <<>> THEN "UNKNOWN"
  ELSE IF ver \in Built(block) /\ Consumable(block) THEN "DROP" ELSE "KEEP"

-----------------------------------------------------------------------------
Init == tree \in Trees /\ rows = <<>> /\ root = 0 /\ skipped = FALSE

Pending == Len(rows) < Len(Prebuilts)

Decide(block) ==
  /\ rows' = Append(rows, [verdict  |-> VerdictOf(block, Current.ver),
                           complete |-> ~skipped'])
  /\ root' = 0

NextRoot == IF root < Len(tree) THEN root' = root + 1 /\ UNCHANGED rows
            ELSE Decide(<<>>)

\* Paths first.
TryPaths ==
  LET block == ByPath(Current.name)
  IN /\ Pending /\ root = 0
     /\ skipped' = FALSE
     /\ IF block # <<>> THEN Decide(block) ELSE NextRoot
     /\ UNCHANGED tree

\* Then root by root.
Grep ==
  LET block == ByGrep(root, Current.name)
  IN /\ Pending /\ root > 0
     /\ UNCHANGED <<tree, skipped>>
     /\ IF block # <<>> THEN Decide(block) ELSE NextRoot

GrepTimeout ==
  /\ Pending /\ root > 0
  /\ skipped' = TRUE
  /\ NextRoot
  /\ UNCHANGED tree

Next == TryPaths \/ Grep \/ GrepTimeout
Spec == Init /\ [][Next]_vars
=============================================================================
