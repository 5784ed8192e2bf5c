------------------------------- MODULE Needed -------------------------------
(***************************************************************************)
(* Who finds whose libraries.  closure.py walks the listed blobs with      *)
(* readelf and reports every DT_NEEDED name it thinks nothing provides; it *)
(* also lists some blobs under another module name or another file name.   *)
(* extract-files.py then patches the blobs that need a renamed one.        *)
(***************************************************************************)
EXTENDS Naturals, FiniteSets

CONSTANTS
  Universe,     \* blobs that may be listed: records [base, shape, dsp, needs],
                \* base and needs being file names, see IsLikelyElf for shape
  SystemLibs,   \* SYSTEM_LIBS
  Excluded,     \* EXCLUDE_BASENAMES
  DisableDeps,  \* DISABLE_DEPS_PATHS
  ModuleRename, \* MANUAL_MODULE_RENAMES: a function from file names
  FixSoname,    \* FIX_SONAME_PATHS: a function from file names
  LibFixup,     \* lib_fixups: a function from module names, vendor partition
  Removed,      \* blob_fixups remove_needed: pairs <<consumer, name>>
  Replaced      \* blob_fixups replace_needed: triples <<consumer, old, new>>

VARIABLES
  listed,       \* rel_paths of the run
  todo,         \* blobs the walk has not come to
  unresolved,   \* edges <<blob, name>> of .closure_unresolved.txt
  mute          \* history: blobs readelf gave no answer for
vars == <<listed, todo, unresolved, mute>>

TypeOK ==
  /\ listed \subseteq Universe /\ todo \subseteq listed
  /\ unresolved \subseteq UNION {{b} \X b.needs : b \in Universe}
  /\ mute \subseteq listed

(***************************************************************************)
(* What may be an ELF file: *.so, and what is below a bin directory and    *)
(* has no dot in its basename.                                             *)
(***************************************************************************)
IsLikelyElf(b) == b.shape \in {"so", "bin"}

InDump(n) == \E b \in listed : b.base = n   \* basename_index

\* Mutant: libgcc.so is excused for every parent.
ExcusedAlways(b, n) ==
  \/ n \in SystemLibs \/ InDump(n)
  \/ n = "libgcc.so"
  \/ n \in Excluded

\* The four reasons not to report an edge.
Excused(b, n) ==
  \/ n \in SystemLibs \/ InDump(n)
  \/ n = "libgcc.so" /\ b.dsp
  \/ n \in Excluded

-----------------------------------------------------------------------------
(* What extract-utils makes of the listing and the fixups.                 *)

\* Mutants: the consumers are left alone; the renamed module is not passed on.
NeedsUnpatched(b) == b.needs \ {n \in b.needs : <<b.base, n>> \in Removed}
RefUnfixed(n) == n

\* The names a blob needs once it is patched.
NeedsOf(b) ==
  {n \in b.needs : /\ <<b.base, n>> \notin Removed
                   /\ \A r \in Replaced : <<r[1], r[2]>> # <<b.base, n>>}
  \cup {r[3] : r \in {s \in Replaced : s[1] = b.base /\ s[2] \in b.needs}}

\* The file and the module a blob becomes.
InstalledAs(b) == IF b.base \in DOMAIN FixSoname THEN FixSoname[b.base] ELSE b.base
ModuleOf(b) == IF b.base \in DOMAIN ModuleRename /\ b.base \notin DOMAIN FixSoname
               THEN ModuleRename[b.base] ELSE InstalledAs(b)

\* The module that shared_libs names for a needed file.
RefOf(n) == IF n \in DOMAIN LibFixup THEN LibFixup[n] ELSE n
SharedLibs(b) == IF b.base \in DisableDeps THEN {} ELSE {RefOf(n) : n \in NeedsOf(b)}

-----------------------------------------------------------------------------
\* An excluded basename is never listed.
Init ==
  /\ listed \in {s \in SUBSET Universe : \A b \in s : b.base \notin Excluded}
  /\ todo = listed /\ unresolved = {} /\ mute = {}

\* read_dt_needed answers; the blob's other edges are reported.
Read(b) ==
  /\ b \in todo /\ IsLikelyElf(b) /\ todo' = todo \ {b}
  /\ unresolved' = unresolved \cup {<<b, n>> : n \in {m \in b.needs : ~Excused(b, m)}}
  /\ UNCHANGED <<listed, mute>>

\* readelf takes more than 10 s, or fails: no edges.
ReadFails(b) ==
  /\ b \in todo /\ IsLikelyElf(b) /\ todo' = todo \ {b}
  /\ mute' = mute \cup {b}
  /\ UNCHANGED <<listed, unresolved>>

Skip(b) ==
  /\ b \in todo /\ ~IsLikelyElf(b) /\ todo' = todo \ {b}
  /\ UNCHANGED <<listed, unresolved, mute>>

Next == \E b \in todo : Read(b) \/ ReadFails(b) \/ Skip(b)
Spec == Init /\ [][Next]_vars
=============================================================================
