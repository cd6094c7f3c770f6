------------------------------- MODULE MCDirs -------------------------------
(* Dirs with paths of one and two names. *)
EXTENDS Dirs
MCPaths == {<<"a">>, <<"b">>, <<"a", "b">>}
=============================================================================
