------------------------------- MODULE MCScan -------------------------------
(* The trees of MCScanDirectory, and databases of up to three files with    *)
(* directories of up to two components below two roots: a common prefix of   *)
(* any length or none, nested and sibling directories, a path that is a      *)
(* directory of another row (a stale row), an empty file.                   *)
EXTENDS MCScanDirectory, ScanDirectoryOrDb

MCPaths == {<<"a", "x">>, <<"a", "y">>, <<"b", "x">>, <<"a", "x", "x">>,
            <<"a", "b", "x">>, <<"a", "b", "x", "y">>, <<"a", "b", "y", "x">>}

MCDatabases ==
    UNION {[S -> {"file"}] : S \in {S \in SUBSET MCPaths : Cardinality(S) <= 3}}
        \cup {<<"a", "x">> :> "empty" @@ <<"a", "y">> :> "file"}
=============================================================================
