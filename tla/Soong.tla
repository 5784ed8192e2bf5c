-------------------------------- MODULE Soong --------------------------------
(***************************************************************************)
(* Android.bp files as verify_aidl_versions.py and verify_cc_libs.py read  *)
(* them: not a parser, but a search of the text for a quoted name, for the *)
(* brace before it and for the brace that closes that one.  A text is a    *)
(* sequence of tokens; "open" carries what its line says before the brace. *)
(***************************************************************************)
EXTENDS Integers, Sequences, SequencesExt

Tok(t, v) == [t |-> t, v |-> v]

(***************************************************************************)
(* A module of the tree is [decl, name, early, props]: its kind, its name, *)
(* whether a nested block stands before the name, and its other            *)
(* properties, as tokens.                                                  *)
(***************************************************************************)
Text(m) ==
  <<Tok("open", m.decl)>>
  \o (IF m.early THEN <<Tok("open", "nested"), Tok("close", "none")>> ELSE <<>>)
  \o <<Tok("name", m.name)>> \o m.props \o <<Tok("close", "none")>>

\* The other properties are no braces and no second name; Soong knows no such kind of
\* module.
WellFormed(m) ==
  /\ m.props \in Seq(ToSet(m.props)) /\ m.early \in BOOLEAN /\ m.decl # "nested"
  /\ \A i \in DOMAIN m.props : m.props[i].t \notin {"open", "close", "name"}

FileText(mods) == FlattenSeq([i \in DOMAIN mods |-> Text(mods[i])])

\* The value of the first field f; lists of names are the fields below.
Field(text, f, default) ==
  LET at == {i \in DOMAIN text : text[i].t = f}
  IN IF at = {} THEN default ELSE text[Min(at)].v

Quoted(tok) ==
  CASE tok.t = "name"                  -> {tok.v}
    [] tok.t \in {"defaults", "imports"} -> ToSet(tok.v)
    [] OTHER                           -> {}

Brace(text, i) ==   \* pre.rfind('{'): the last one, closed or not
  Max({0} \cup {j \in 1..(i - 1) : text[j].t = "open"})

Closing(text, ob) ==
  LET Count(t, j) == Cardinality({k \in ob..j : text[k].t = t})
  IN Min({j \in ob..Len(text) : Count("open", j) = Count("close", j)} \cup {Len(text)})

(***************************************************************************)
(* The block around the first of the given places whose brace follows one  *)
(* of the declarations; <<>> is None.                                      *)
(***************************************************************************)
BlockAt(text, places, decls) ==
  LET hits == {i \in places : /\ Brace(text, i) > 0
                              /\ text[Brace(text, i)].v \in decls}
      ob == Brace(text, Min(hits))
  IN IF hits = {} THEN <<>> ELSE SubSeq(text, ob, Closing(text, ob))
=============================================================================
