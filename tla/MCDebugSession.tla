--------------------------- MODULE MCDebugSession ---------------------------
(***************************************************************************)
(* Two functions with a line each.                                         *)
(***************************************************************************)
EXTENDS DebugSession

TwoSites == {<<"Start", 1>>, <<"Helper", 2>>}
=============================================================================
