---------------------------- MODULE MCVerifyAidl ----------------------------
(***************************************************************************)
(* Two interfaces, "light" and "power", three versions of each in the dump *)
(* and trees that differ in where and how they declare them.               *)
(***************************************************************************)
EXTENDS Soong

MCPrebuilts == <<[name |-> "light", ver |-> 1], [name |-> "light", ver |-> 3],
                 [name |-> "power", ver |-> 2], [name |-> "power", ver |-> 3]>>

Iface(n, props)    == [decl |-> "aidl_interface", name |-> n, early |-> FALSE,
                       props |-> props]
Defaults(n, props) == [decl |-> "aidl_interface_defaults", name |-> n,
                       early |-> FALSE, props |-> props]
File(mods, direct) == [mods |-> mods, direct |-> direct, readable |-> TRUE]

Vintf     == Tok("stability", "vintf")
VendorIs(b) == Tok("vendor_available", b)
Inherits  == Tok("defaults", <<"common">>)
Common(props) == Defaults("common", props)

LightProps ==
  {<<Tok("versions", {1, 2}), Vintf>>,
   <<Tok("versions", {1, 2}), Tok("frozen", TRUE), VendorIs(TRUE)>>,
   <<Inherits, Tok("versions_with_info", {1, 2, 3})>>,
   <<Tok("unstable", TRUE), VendorIs(TRUE)>>}
PowerProps ==
  {<<Tok("versions_with_info", {1, 2}), VendorIs(FALSE), Inherits>>,
   <<Inherits, Tok("versions", {1})>>}
CommonProps == {<<VendorIs(TRUE)>>, <<Tok("frozen", TRUE), Vintf>>}

\* Together in one file at an obvious path, apart in two roots, out of reach of
\* the obvious paths, unreadable or named after a nested block, and alone.
TidyTrees ==
  UNION {
    {<<<<File(<<Common(c), Iface("light", l), Iface("power", p)>>, {"light"})>>, <<>>>>,
     <<<<File(<<Common(c), Iface("power", p)>>, {})>>,
       <<File(<<Iface("other", <<>>)>>, {"light"}),
         File(<<Common(c), Iface("light", l)>>, {})>>>>,
     <<<<[File(<<Iface("light", l), Common(c)>>, {"light"}) EXCEPT !.readable = FALSE]>>,
       <<File(<<[Iface("power", p) EXCEPT !.early = TRUE], Common(c)>>, {"power"})>>>>,
     <<<<>>, <<File(<<Iface("power", p), Common(c)>>, {"power"})>>>>}
    : l \in LightProps, p \in PowerProps, c \in CommonProps}

\* "light" imports "power" and stands before it in the same file.
ImportTrees ==
  {<<<<File(<<Iface("light", <<Tok("imports", <<"power">>), Vintf,
                               Tok("versions", {1, 2})>>),
              Iface("power", <<Vintf, Tok("versions", {1}), Tok("frozen", TRUE)>>)>>,
            {"power"})>>>>}

\* Defaults in another file than the interface, an interface in two roots, and one
\* without frozen versions.
OddTrees ==
  {<<<<File(<<Iface("light", <<Inherits, Tok("versions", {1, 2}), Vintf>>)>>, {"light"})>>,
     <<File(<<Common(<<Tok("frozen", TRUE)>>)>>, {})>>>>,
   <<<<File(<<Iface("power", <<Tok("versions", {1}), Vintf>>)>>, {})>>,
     <<File(<<Iface("power", <<Tok("versions", {1, 2}), Vintf>>)>>, {})>>>>,
   <<<<File(<<Iface("light", <<Vintf>>)>>, {"light"})>>>>}

MCTrees == TidyTrees \cup ImportTrees \cup OddTrees
=============================================================================
