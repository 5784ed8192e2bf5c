----------------------------- MODULE ModuleNames -----------------------------
(***************************************************************************)
(* compute_module_renames of closure.py: extract-utils names the module of *)
(* a blob by its basename, so copies in other directories need names of    *)
(* their own.  The dump changes, and the run is repeated.                  *)
(*                                                                         *)
(* Blobs are numbered in the order of their paths.                         *)
(***************************************************************************)
EXTENDS Integers, Sequences, SequencesExt

CONSTANTS
  Blob,      \* blobs that may be listed
  Dirs,      \* of each, the directories below vendor
  Base,      \* of each, the dotted parts of the basename
  LibDirs,   \* names of directories that begin with lib
  Numeric,   \* parts of basenames that are numbers
  Words,     \* of each directory name, its parts between -, . and _
  Manual     \* MANUAL_MODULE_RENAMES: a function from blobs

VARIABLES
  files,     \* rel_paths
  names      \* the module name of each blob in the listing
vars == <<files, names>>

\* vendor/lib*/<basename>
IsFlat(b) == Len(Dirs[b]) = 1 /\ Dirs[b][1] \in LibDirs

\* Of a listing F, the last flat copy of a basename, or none.
Canonical(F, b) ==
  LET flat == {c \in F : IsFlat(c) /\ Base[c] = Base[b]}
  IN IF flat = {} THEN {} ELSE {Max(flat)}

\* Mutants: the canonical copy is renamed as well; only the last directory counts.
CollidingAll(F) == {b \in F : Canonical(F, b) # {}}
SuffixLast(b) == <<"_", Last(Dirs[b])>>

Colliding(F) == {b \in F : Canonical(F, b) \notin {{}, {b}}}

\* What the code keeps of the directories: vendor/lib*/ is left out if there are more.
Above(b) ==
  LET subdirs == IF Len(Dirs[b]) >= 2 /\ Dirs[b][1] \in LibDirs
                 THEN Tail(Dirs[b]) ELSE Dirs[b]
  IN FlattenSeq([i \in DOMAIN subdirs |-> Words[subdirs[i]]])
Suffix(b) == <<"_">> \o Above(b)

\* The basename without its extension, and without the numbers before that.
Root(b) ==
  SubSeq(Base[b], 1, Max({1} \cup {i \in 1..(Len(Base[b]) - 1) :
                                     Base[b][i] \notin Numeric}))
Computed(b) == Root(b) \o Suffix(b)

\* Without MODULE= extract-utils names the module by the basename less its extension.
Plain(b) == IF Len(Base[b]) = 1 THEN Base[b] ELSE Front(Base[b])

\* A manual rename overrules a computed one.
NameOf(F, b) ==
  IF b \in DOMAIN Manual THEN Manual[b]
  ELSE IF b \in Colliding(F) THEN Computed(b) ELSE Plain(b)

Init == files = {} /\ names = <<>>

ChangeDump(b) ==
  /\ files' = IF b \in files THEN files \ {b} ELSE files \cup {b}
  /\ UNCHANGED names

Emit ==
  /\ names' = [b \in files |-> NameOf(files, b)]
  /\ UNCHANGED files

Next == Emit \/ \E b \in Blob : ChangeDump(b)
Spec == Init /\ [][Next]_vars

-----------------------------------------------------------------------------
(* What the names are worth.                                               *)

\* Blobs are numbers, basenames and directories are made of parts, and no underscore
\* is a number.
Parts == Seq(STRING)
NamesAreParts ==
  /\ Blob \subseteq Nat /\ IsFiniteSet(Blob)
  /\ Base \in [Blob -> Parts \ {<<>>}] /\ Dirs \in [Blob -> Seq(DOMAIN Words) \ {<<>>}]
  /\ Words \in [DOMAIN Words -> Parts]
  /\ "_" \notin Numeric

\* What the code leaves to the dump and to the manual table: what it keeps of
\* the directories differs between the copies of a basename, and a manual name is of one blob.
CopiesDiffer ==
  \A b, c \in Blob : b # c /\ Base[b] = Base[c] =>
    IF b \in DOMAIN Manual
    THEN Manual[b] \notin IF c \in DOMAIN Manual THEN {Manual[c]}
                          ELSE {Computed(c), Plain(c)}
    ELSE c \notin DOMAIN Manual => Above(b) # Above(c)

Siblings(b) == {c \in DOMAIN names \ {b} : Base[c] = Base[b]}
HasFlat(b)  == \E c \in DOMAIN names : IsFlat(c) /\ Base[c] = Base[b]

\* closure.py:1777-1778 "extract-utils generates module names from the basename, so
\* these collide. Disambiguate": if a basename has a canonical copy, its copies have
\* different module names.
DistinctNames ==
  \A b \in DOMAIN names : HasFlat(b) =>
    \A c \in Siblings(b) : names[c] # names[b]

\* DT_NEEDED gives extract-utils a basename only (extract-files.py:53-57): a library
\* with a canonical copy keeps exactly one module named by its basename, so that
\* its consumers still find one, in every listing and whatever copies came or went.
OneDefault ==
  \A b \in DOMAIN names : HasFlat(b) /\ Siblings(b) \cap DOMAIN Manual = {} =>
    \/ b \in DOMAIN Manual
    \/ \E c \in Siblings(b) \cup {b} :
         /\ IsFlat(c) /\ names[c] = Plain(c)
         /\ \A d \in Siblings(c) : names[d] # Plain(c)

=============================================================================
