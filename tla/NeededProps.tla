----------------------------- MODULE NeededProps -----------------------------
(***************************************************************************)
(* What the report and the renames promise, stated over Needed.            *)
(***************************************************************************)
EXTENDS Needed

CONSTANTS
  SourceBuilt,  \* names of libraries the build installs from source
  Wants         \* pairs <<consumer, library>>: the consumer needs symbols that
                \* only the library of the dump has

Done == todo = {}
Installed == {InstalledAs(b) : b \in listed} \cup SourceBuilt \cup SystemLibs

\* What the tables of the two files must agree on, as their comments demand: a needed
\* name that is excluded, or whose blob is installed under another name, is built from
\* source unless the fixups take the dependency away; and they point a dependency only
\* at the new name of the blob it was on.
TablesAgree ==
  /\ \A b \in Universe : \A n \in b.needs :
       /\ n \in Excluded \cup DOMAIN FixSoname
       /\ <<b.base, n>> \notin Removed
       /\ \A r \in Replaced : <<r[1], r[2]>> # <<b.base, n>>
       => n \in SourceBuilt \cup SystemLibs
  /\ \A r \in Replaced :
       /\ r[2] \in DOMAIN FixSoname /\ r[3] = FixSoname[r[2]]
       /\ r[2] \notin SystemLibs \cup Excluded \cup {"libgcc.so"}

\* closure.py:1932-1968, with extract-files.py:88-121: when the walk is over, every
\* name a blob still needs once it is patched is the name of an installed file, or
\* was reported (by the name before the patch), or is libgcc.so of a DSP blob;
\* unless readelf did not answer.
SilenceLoads ==
  Done =>
    \A b \in {c \in listed : IsLikelyElf(c)} \ mute : \A n \in NeedsOf(b) :
      \/ n \in Installed
      \/ <<b, n>> \in unresolved
      \/ \E r \in Replaced : r[1] = b.base /\ r[3] = n /\ <<b, r[2]>> \in unresolved
      \/ n = "libgcc.so" /\ b.dsp

\* extract-files.py:96-121, closure.py:250-256: a consumer of symbols that only the
\* blob has finds the blob at run time, not the source-built library of that name.
VendorCopyLoads ==
  \A c \in listed : \A l \in listed : <<c.base, l.base>> \in Wants =>
    InstalledAs(l) \in NeedsOf(c)

\* extract-files.py:59-62: and at build time its shared_libs name the blob's module,
\* unless it has none (DISABLE_DEPS).
VendorCopyLinks ==
  \A c \in listed : \A l \in listed : <<c.base, l.base>> \in Wants =>
    SharedLibs(c) = {} \/ ModuleOf(l) \in SharedLibs(c)

=============================================================================
