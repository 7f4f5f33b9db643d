------------------------- MODULE MCAutomationRunner -------------------------
(***************************************************************************)
(* Instances of AutomationRunner for TLC: two or three tasks of a project. *)
(* They are interchangeable where none is recurring or shared, and all or  *)
(* none of them have an instruction.                                       *)
(***************************************************************************)
EXTENDS AutomationRunner, TLC

Symmetry == Permutations(Tasks \ Wordless)
=============================================================================
