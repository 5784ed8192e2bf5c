----------------------------- MODULE MCVerifyCc -----------------------------
(***************************************************************************)
(* A dump with one candidate, one file of each kind that is skipped, and   *)
(* trees of three roots that declare "libfoo" in several ways.             *)
(***************************************************************************)
EXTENDS Soong

DumpBlob(n, k, w, l) == [name |-> n, kind |-> k, where |-> w, link |-> l]
MCDump ==
  <<DumpBlob("libapk", "plain", "apk", FALSE), DumpBlob("libbar", "plain", "lib", FALSE),
    DumpBlob("libfoo", "plain", "lib", FALSE), DumpBlob("libfoo", "versioned", "lib", FALSE),
    DumpBlob("liblink", "plain", "lib", TRUE), DumpBlob("power-impl", "impl", "lib", FALSE),
    DumpBlob("sensors", "plain", "hw", FALSE)>>

Mod(decl, n, props) == [decl |-> decl, name |-> n, early |-> FALSE, props |-> props]
Va(b)   == Tok("vendor_available", b)
Uses(d) == Tok("defaults", <<d>>)

FooProps == {<<>>, <<Va(TRUE)>>, <<Uses("d1")>>, <<Uses("d2"), Va(FALSE)>>}
BarDecls == {"cc_library_shared", "cc_library"}
D1 == Mod("cc_defaults", "d1", <<Va(TRUE)>>)
D2 == Mod("cc_defaults", "d2", <<Va(FALSE)>>)
Foo(p) == Mod("cc_library", "libfoo", p)
Bar(d, p) == Mod(d, "libbar", p)
Rust == Mod("rust_library", "libfoo", <<Va(TRUE)>>)

PlainTrees ==
  UNION {{<< <<<<D1, D2, Foo(p)>>>>, <<<<Rust>>>>, <<<<D2, Bar(d, q), D1>>>> >>,
          << <<<<Rust>>>>, <<<<Foo(p), D1, D2>>, <<D1, Bar(d, q), D2>>>>, <<>> >>,
          << <<>>, <<<<D2, Foo(p)>>>>, <<<<D1, D2>>>> >>}
         : p \in FooProps, q \in {<<Uses("d1")>>, <<Uses("d2")>>}, d \in BarDecls}

\* A false of its own over defaults, a static library, defaults of defaults, a block
\* before the name.
Early(m) == [m EXCEPT !.early = TRUE]
OddTrees ==
  {<< <<<<D1, Foo(<<Uses("d1"), Va(FALSE)>>)>>>>, <<<<D1, Foo(<<Uses("d1")>>)>>>> >>,
   << <<<<Mod("cc_library_static", "libfoo", <<Va(TRUE)>>)>>>> >>,
   << <<<<D1, Mod("cc_defaults", "d3", <<Uses("d1")>>), Foo(<<Uses("d3")>>)>>>> >>,
   << <<<<Early(D1), Foo(<<Uses("d1")>>), Early(Mod("cc_library", "libbar", <<Va(TRUE)>>))>>>> >>}

MCTrees == PlainTrees \cup OddTrees
=============================================================================
