--------------------------- MODULE MCModuleNames ---------------------------
(***************************************************************************)
(* Copies of one library in directories like those of the dump, a          *)
(* versioned one, a configuration file twice and a manual rename.          *)
(***************************************************************************)
EXTENDS TLC

Foo == <<"libfoo", "so">>
MCDirs ==
  <<<<"lib">>, <<"lib64">>, <<"lib64", "hw">>, <<"lib64", "hw", "audio">>,
    <<"lib64">>, <<"lib64", "hw">>, <<"lib64">>, <<"rfsa", "hw", "audio">>>>
MCBase ==
  <<Foo, Foo, Foo, Foo, <<"libbar", "2", "so">>, <<"libbar", "2", "so">>,
    <<"libjni", "so">>, Foo>>
MCWords == [d \in {"lib", "lib64", "hw", "audio", "rfsa"} |-> <<d>>]
             @@ ("hw-audio" :> <<"hw", "audio">>)
MCManual == 7 :> <<"libjni_nubia_vendor">>
=============================================================================
