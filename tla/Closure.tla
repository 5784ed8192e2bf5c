------------------------------ MODULE Closure ------------------------------
(***************************************************************************)
(* closure.py, the generator of the two lists of proprietary blobs:        *)
(* proprietary-files.txt (extract-utils) and firmware_pcf.mk               *)
(* (PRODUCT_COPY_FILES).  A run takes minutes: it walks the dump twice,    *)
(* reads the markers of the old listing, runs readelf on every library and *)
(* rewrites the listing at the end.  Meanwhile the dump, the tables inside *)
(* closure.py and the listing can be edited, and the run can be killed.    *)
(*                                                                         *)
(* A blob is a path below the dump; blobs are numbered in the order of     *)
(* their paths.                                                            *)
(***************************************************************************)
EXTENDS Naturals, FiniteSets

CONSTANTS
  Blob,       \* paths that may be in the dump
  Base,       \* their basenames
  Flat,       \* blobs at vendor/lib*/<basename>
  Unlisted,   \* no partition, unhandled subdirectory, library of an APK
  Tables,     \* contents the tables of closure.py may have
  Baseline,   \* basenames in .bringup_orig_blobs.txt
  Marks,      \* markers a developer puts before a path
  MaxEdits    \* bound: edits and kills

NoMark == "none"

ASSUME BlobAssumption ==
  /\ Blob \subseteq Nat
  /\ Flat \subseteq Blob /\ Unlisted \subseteq Blob
  /\ DOMAIN Base = Blob
  /\ Tables \subseteq [exclude : SUBSET Blob, bypass : SUBSET Blob,
                       rename : SUBSET Blob, deps : SUBSET Blob,
                       soname : SUBSET Blob]
  /\ NoMark \notin Marks
  /\ MaxEdits \in Nat

VARIABLES
  dump,      \* what is at each path of the dump
  tables,    \* the tables in closure.py
  listing,   \* lines of proprietary-files.txt
  pcf,       \* blobs in firmware_pcf.mk
  missing,   \* basenames in .closure_baseline_diff.txt
  pc,        \* where the run is in main()
  loaded,    \* the tables as the run imported them
  files,     \* the run's rel_paths
  prefixes,  \* the run's markers, by path
  edits,     \* edits and kills so far
  before,    \* history: the listing when the run started
  calm,      \* history: completed runs since anything was edited or killed
  clean,     \* history: nothing was, since the run started
  finished   \* history: both lists come from one completed run

runVars     == <<pc, loaded, files, prefixes>>
outVars     == <<listing, pcf, missing>>
historyVars == <<before, calm, clean, finished>>
vars        == <<dump, tables, outVars, runVars, edits, historyVars>>

Args  == {"MODULE", "DISABLE_DEPS", "FIX_SONAME"}
Lines == [blob : Blob, mark : Marks \cup {NoMark}, args : SUBSET Args]

TypeOK ==
  /\ dump \in [Blob -> {"absent", "file", "link"}]
  /\ tables \in Tables /\ loaded \in Tables
  /\ listing \subseteq Lines /\ before \subseteq Lines
  /\ pcf \subseteq Blob /\ files \subseteq Blob
  /\ missing \subseteq Baseline
  /\ pc \in {"idle", "pcf", "walk", "load", "report", "emit"}
  /\ prefixes \in [Blob -> Marks \cup {NoMark}]
  /\ edits \in 0..MaxEdits
  /\ calm \in 0..3
  /\ clean \in BOOLEAN /\ finished \in BOOLEAN

Regular == {b \in Blob : dump[b] = "file"}

\* What the two walks of the dump select.
Bypassed(t) == Regular \cap t.bypass
Listed(t)   == Regular \ (Unlisted \cup t.exclude \cup t.bypass)

(***************************************************************************)
(* Collisions of basenames.  The canonical copy is the last flat one, every *)
(* other copy gets a module name of its own.                               *)
(***************************************************************************)
Canonical(b, fs) ==
  {c \in fs \cap Flat : /\ Base[c] = Base[b]
                        /\ \A d \in fs \cap Flat : Base[d] = Base[b] => d <= c}
Renamed(fs) == {b \in fs : Canonical(b, fs) \notin {{}, {b}}}

\* The arguments after a path; FIX_SONAME replaces the others.
ArgsOf(b, fs, t) ==
  IF b \in t.soname THEN {"FIX_SONAME"}
  ELSE {a \in Args : \/ a = "MODULE" /\ b \in Renamed(fs) \cup t.rename
                     \/ a = "DISABLE_DEPS" /\ b \in t.deps}

NewListing ==
  {[blob |-> b, mark |-> prefixes[b], args |-> ArgsOf(b, files, loaded)] : b \in files}

Init ==
  /\ dump \in [Blob -> {"absent", "file"}]
  /\ tables \in Tables /\ loaded = tables
  /\ listing = {} /\ pcf = {} /\ missing = {}
  /\ pc = "idle" /\ files = {} /\ prefixes = [b \in Blob |-> NoMark]
  /\ edits = 0
  /\ before = {} /\ calm = 0 /\ clean = FALSE /\ finished = FALSE

-----------------------------------------------------------------------------
(* The developer.                                                          *)

Disturb ==
  /\ edits < MaxEdits /\ edits' = edits + 1
  /\ calm' = 0 /\ clean' = FALSE

\* The dump is extracted anew, wholly or in part.
ChangeDump(b, kind) ==
  /\ Disturb /\ dump' = [dump EXCEPT ![b] = kind]
  /\ UNCHANGED <<tables, outVars, runVars, before, finished>>

EditTables(t) ==
  /\ Disturb /\ tables' = t
  /\ UNCHANGED <<dump, outVars, runVars, before, finished>>

\* A marker is put before a listed path, or removed.
SetMark(l, m) ==
  /\ Disturb
  /\ listing' = (listing \ {l}) \cup {[l EXCEPT !.mark = m]}
  /\ UNCHANGED <<dump, tables, pcf, missing, runVars, before, finished>>

-----------------------------------------------------------------------------
(* A run: main().                                                          *)

Step(from, to) == pc = from /\ pc' = to

Start ==
  /\ Step("idle", "pcf")
  /\ loaded' = tables
  /\ before' = listing /\ clean' = TRUE
  /\ UNCHANGED <<dump, tables, outVars, files, prefixes, edits, calm, finished>>

\* emit_pcf_bypass_mk: the first walk, and its output.
EmitPcf ==
  /\ Step("pcf", "walk")
  /\ pcf' = Bypassed(loaded)
  /\ finished' = FALSE
  /\ UNCHANGED <<dump, tables, listing, missing, loaded, files, prefixes, edits,
                 before, calm, clean>>

\* Mutants: the second walk does not look at the bypass prefixes, or at links,
\* or lists only what is new.
EnumerateAll ==
  /\ Step("walk", "load")
  /\ files' = Regular \ (Unlisted \cup loaded.exclude)
  /\ UNCHANGED <<dump, tables, outVars, loaded, prefixes, edits, historyVars>>
EnumerateLinks ==
  /\ Step("walk", "load")
  /\ files' = {b \in Blob : dump[b] # "absent"}
                \ (Unlisted \cup loaded.exclude \cup loaded.bypass)
  /\ UNCHANGED <<dump, tables, outVars, loaded, prefixes, edits, historyVars>>
EnumerateNew ==
  /\ Step("walk", "load")
  /\ files' = Listed(loaded) \ {l.blob : l \in listing}
  /\ UNCHANGED <<dump, tables, outVars, loaded, prefixes, edits, historyVars>>

\* enumerate_dump: the second walk.
Enumerate ==
  /\ Step("walk", "load")
  /\ files' = Listed(loaded)
  /\ UNCHANGED <<dump, tables, outVars, loaded, prefixes, edits, historyVars>>

\* load_existing_prefixes keys a marker by the whole line after it: a path
\* finds its marker only if its line had no arguments.
MarkOf(b) == {l.mark : l \in {k \in listing : k.blob = b /\ k.args = {}}}

\* Mutants: the old markers are not read, or a path without one has no entry.
LoadNothing ==
  /\ Step("load", "report")
  /\ prefixes' = [b \in Blob |-> NoMark]
  /\ UNCHANGED <<dump, tables, outVars, loaded, files, edits, historyVars>>
LoadListedOnly ==
  /\ Step("load", "report")
  /\ prefixes' = [b \in {l.blob : l \in listing} |-> NoMark]
  /\ UNCHANGED <<dump, tables, outVars, loaded, files, edits, historyVars>>

LoadPrefixes ==
  /\ Step("load", "report")
  /\ prefixes' = [b \in Blob |-> IF MarkOf(b) = {} THEN NoMark
                                 ELSE CHOOSE m \in MarkOf(b) : TRUE]
  /\ UNCHANGED <<dump, tables, outVars, loaded, files, edits, historyVars>>

\* Mutant: the report goes by the old listing.
ReportListed ==
  /\ Step("report", "emit")
  /\ missing' = {n \in Baseline : \A l \in listing : Base[l.blob] # n}
  /\ UNCHANGED <<dump, tables, listing, pcf, loaded, files, prefixes, edits,
                 historyVars>>

\* The baseline report: basenames that no listed file has.
Report ==
  /\ Step("report", "emit")
  /\ missing' = {n \in Baseline : \A b \in files : Base[b] # n}
  /\ UNCHANGED <<dump, tables, listing, pcf, loaded, files, prefixes, edits,
                 historyVars>>

\* emit_proprietary_files: the listing is rewritten.
Emit ==
  /\ Step("emit", "idle")
  /\ listing' = NewListing
  /\ finished' = TRUE
  /\ calm' = IF ~clean THEN 0 ELSE IF calm < 3 THEN calm + 1 ELSE 3
  /\ UNCHANGED <<dump, tables, pcf, missing, loaded, files, prefixes, edits,
                 before, clean>>

(***************************************************************************)
(* The run is killed or fails.  While it writes a list it has truncated it *)
(* and has written any part of it; Python loses the rest of its buffer.    *)
(***************************************************************************)
Kill ==
  /\ pc # "idle" /\ pc' = "idle" /\ Disturb
  /\ \/ UNCHANGED <<listing, pcf, missing, finished>>
     \/ /\ pc = "pcf" /\ pcf' \in SUBSET Bypassed(loaded)
        /\ finished' = FALSE /\ UNCHANGED <<listing, missing>>
     \/ /\ pc = "report" /\ missing' \in SUBSET Baseline
        /\ UNCHANGED <<listing, pcf, finished>>
     \/ /\ pc = "emit" /\ listing' \in SUBSET NewListing
        /\ finished' = FALSE /\ UNCHANGED <<pcf, missing>>
  /\ UNCHANGED <<dump, tables, loaded, files, prefixes, before>>

Developer == \/ \E b \in Blob : \E k \in {"absent", "file", "link"} : ChangeDump(b, k)
             \/ \E t \in Tables : EditTables(t)
             \/ \E l \in listing : \E m \in Marks \cup {NoMark} : SetMark(l, m)

Run == Start \/ EmitPcf \/ Enumerate \/ LoadPrefixes \/ Report \/ Emit

Next == Developer \/ Run \/ Kill

Spec == Init /\ [][Next]_vars
=============================================================================
