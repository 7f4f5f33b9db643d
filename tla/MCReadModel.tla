----------------------------- MODULE MCReadModel -----------------------------
(* Instances of ReadModel for TLC: the fields are model values. *)
EXTENDS ReadModel

CONSTANTS f1, f2
=============================================================================
