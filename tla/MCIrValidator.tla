--------------------------- MODULE MCIrValidator ---------------------------
(***************************************************************************)
(* Values of one class are interchangeable: nothing compares their numbers. *)
(***************************************************************************)
EXTENDS IrValidator, TLC

Symmetry == Permutations(Strings)
=============================================================================
