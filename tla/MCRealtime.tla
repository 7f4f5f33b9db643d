------------------------------ MODULE MCRealtime ------------------------------
(* Instances of Realtime for TLC. *)
EXTENDS Realtime

CONSTANTS r1, s1, s2
=============================================================================
