---------------------------- MODULE VerifyCcProps ----------------------------
(***************************************************************************)
(* The verdicts of verify_cc_libs.py against what Soong builds.            *)
(***************************************************************************)
EXTENDS VerifyCc, FiniteSetsExt

Modules == UNION {UNION {ToSet(f) : f \in ToSet(tree[r])} : r \in DOMAIN tree}
Libraries(n) ==
  {m \in Modules : m.name = n /\ m.decl \in {"cc_library", "cc_library_shared"}}
DefaultsOf(m) ==
  {d \in Modules : /\ d.decl = "cc_defaults"
                   /\ d.name \in ToSet(Field(m.props, "defaults", <<>>))}

\* A module's own property wins; else a defaults block may set it.
Known(m) == \E i \in DOMAIN m.props : m.props[i].t = "vendor_available"
Direct(m) ==
  IF Known(m) THEN VendorAvailable(m.props)
  ELSE \E d \in DefaultsOf(m) : VendorAvailable(d.props)

\* What the substring cc_library and the search of defaults take for available: a
\* static or header library, and one whose own false its defaults overrule.
Misread(n) ==
  \E m \in Modules : /\ m.name = n
                     /\ \/ m.decl \in CcFilter \ {"cc_library", "cc_library_shared"}
                        \/ Known(m) /\ \E d \in DefaultsOf(m) : VendorAvailable(d.props)

\* verify_cc_libs.py:14 "DROP - source defines this module with vendor_available":
\* whatever greps time out, a library is dropped only if the source has a shared
\* library of the name that is vendor_available, or one of the two misread ones.
DropIsVendor ==
  \A i \in DOMAIN rows : rows[i] = "DROP" =>
    \/ Misread(Candidates[i].name)
    \/ \E m \in Libraries(Candidates[i].name) : Direct(m)

\* What the search finds under a name, of whatever kind of cc_library.
Alike(n) == {m \in Modules : m.name = n /\ m.decl \in CcFilter}

\* Lines 15-16 "KEEP - basename has no source counterpart, OR source exists but is
\* not vendor_available": with a whole index, no candidate is kept for which the tree
\* has one library, wherever it is, with vendor_available of its own or from defaults
\* in the same file.  Not if a static or header library has its name too, or where a
\* nested block before a name hides it from the search.
\* Lines 17-19 promise UNKNOWN for deeper defaults; the code says KEEP.
KeepIsCanonical ==
  indexed = DOMAIN tree =>
    \A i \in DOMAIN rows : rows[i] = "KEEP" =>
      \A m \in Libraries(Candidates[i].name) :
        \/ ~Direct(m)
        \/ Alike(m.name) # {m}
        \/ m.early \/ \E d \in DefaultsOf(m) : d.early
        \/ \E r \in DOMAIN tree : \E f \in ToSet(tree[r]) :
             m \in ToSet(f) /\ ~(DefaultsOf(m) \subseteq ToSet(f))
=============================================================================
