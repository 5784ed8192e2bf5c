--------------------------- MODULE VerifyAidlProps ---------------------------
(***************************************************************************)
(* The verdicts of verify_aidl_versions.py against what Soong builds.      *)
(***************************************************************************)
EXTENDS VerifyAidl

\* What Soong makes of the files it can read: a property is the module's own or
\* else that of the first of its defaults that has it, wherever they are.
Modules ==
  UNION {UNION {ToSet(f.mods) : f \in {g \in ToSet(tree[r]) : g.readable}}
         : r \in DOMAIN tree}
Named(n, decl) == {m \in Modules : m.name = n /\ m.decl = decl}
AnyProps(ds) == IF ds = {} THEN <<>> ELSE (CHOOSE d \in ds : TRUE).props
PropsOf(n)   == AnyProps(Named(n, "aidl_interface_defaults"))
Prop(m, f, default) ==
  LET names     == Field(m.props, "defaults", <<>>)
      inherited == FlattenSeq([i \in DOMAIN names |-> PropsOf(names[i])])
  IN Field(m.props, f, Field(inherited, f, default))

Frozen(m) == Prop(m, "versions_with_info", Prop(m, "versions", {}))
Latest(m) == IF Frozen(m) = {} THEN 0 ELSE Max(Frozen(m))
Builds(m, ver) ==
  \/ ver \in Frozen(m)
  \/ /\ ~Prop(m, "unstable", FALSE) /\ ~Prop(m, "frozen", FALSE)
     /\ ver = Latest(m) + 1
ForVendor(m) ==
  Prop(m, "vendor_available", FALSE) \/ Prop(m, "stability", "") = "vintf"

Replacing(p) ==
  {m \in Named(p.name, "aidl_interface") : Builds(m, p.ver) /\ ForVendor(m)}

\* The first interface or defaults of a file to mention a name, be it its own, one it
\* imports or one of its defaults; not if a nested block stands before its own name.
Mentions(m, n) == n = m.name \/ \E i \in DOMAIN m.props : n \in Quoted(m.props[i])
First(f, n, decls) ==
  LET Meant(i) == ~f.mods[i].early /\ f.mods[i].decl \in decls /\ Mentions(f.mods[i], n)
  IN {f.mods[i] : i \in {j \in DOMAIN f.mods : Meant(j) /\ \A k \in 1..(j - 1) : ~Meant(k)}}

\* The files that are searched for a name.
Searched(n) ==
  UNION {{f \in ToSet(tree[r]) : f.readable /\ (n \in f.direct \/ Declares(f, n))}
         : r \in DOMAIN tree}

\* A name that another module mentions first: the brace before the quoted name is that
\* module's, and it is judged in place of the interface.
Hidden(n) ==
  \E f \in Searched(n) : ~(First(f, n, AidlFilter) \subseteq Named(n, "aidl_interface"))

\* An interface with defaults that its file does not tell apart: they are in another
\* file, or twice in the tree, or other defaults mention them first.
Loose(n) ==
  \E f \in Searched(n) : \E m \in ToSet(f.mods) \cap Named(n, "aidl_interface") :
    \E d \in ToSet(Field(m.props, "defaults", <<>>)) :
      First(f, d, DefaultsFilter) # Named(d, "aidl_interface_defaults")

\* verify_aidl_versions.py:7-9 "DROP - source builds this exact version (frozen or
\* current)": whatever greps time out, a prebuilt is dropped only if the tree has
\* an interface of its name that builds its version for vendor processes; unless
\* its name is hidden or its defaults are loose.
DropIsBuilt ==
  \A i \in DOMAIN rows :
    LET p == Prebuilts[i]
    IN rows[i].verdict = "DROP" /\ ~Hidden(p.name) /\ ~Loose(p.name) => Replacing(p) # {}

\* Lines 11-13 "KEEP - source does NOT build this version": a search in which no
\* grep timed out drops every prebuilt of a version that the one interface of the name,
\* with frozen versions, builds for vendor processes, wherever the tree declares it; with
\* the same exceptions, and if its name comes before its nested blocks.
KeepIsOrphan ==
  \A i \in DOMAIN rows :
    LET p == Prebuilts[i]
    IN rows[i].complete /\ rows[i].verdict # "DROP" /\ ~Hidden(p.name) /\ ~Loose(p.name) =>
         \A m \in Replacing(p) :
           m.early \/ Frozen(m) = {} \/ Named(p.name, "aidl_interface") # {m}
=============================================================================
