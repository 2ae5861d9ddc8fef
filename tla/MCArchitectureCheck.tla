------------------------ MODULE MCArchitectureCheck ------------------------
(***************************************************************************)
(* Instances of ArchitectureCheck for TLC.                                 *)
(***************************************************************************)
EXTENDS ArchitectureCheck

\* One module's prefix extends another's.
MCPrefix == {<<"app">>, <<"app", "core">>, <<"lib">>}

\* An import inside the nested module, one that names it by its last part,
\* one across packages and one within a package.
MCStatement ==
    {[form |-> "import", dotted |-> 0, path |-> <<"app", "core", "x">>],
     [form |-> "from", dotted |-> 0, path |-> <<"app", "core">>],
     [form |-> "from", dotted |-> 1, path |-> <<"app", "lib", "x">>],
     [form |-> "from", dotted |-> 2, path |-> <<"app", "core", "y">>]}

\* No statement, or one of them.
MCSources == {{}} \union {{s} : s \in MCStatement}

\* Modules side by side in one package, as in architecture.toml.
MCSiblings == {<<"app", "core">>, <<"app", "lib">>}
MCFromParent == {[form |-> "from", dotted |-> 0, path |-> <<"app", "core">>]}
MCFromSources == SUBSET MCFromParent

=============================================================================
