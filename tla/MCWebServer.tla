----------------------------- MODULE MCWebServer -----------------------------
(***************************************************************************)
(* Connections and workers are interchangeable: nothing orders or chooses  *)
(* among them, so the safety runs reduce by their permutations.            *)
(***************************************************************************)
EXTENDS WebServer, TLC

Symmetry == Permutations(Conns) \cup Permutations(Workers)
=============================================================================
