---------------------------- MODULE MCCommandPath ----------------------------
(***************************************************************************)
(* Instances of CommandPath for TLC.  The calls: a command and the retry   *)
(* of the same command by its client (r1, r2), a bulk command of another   *)
(* user that reuses the id and whose handler appends two events to one     *)
(* stream and one to another (r3), and a command without id (r4).          *)
(***************************************************************************)
EXTENDS CommandPath

CONSTANTS r1, r2, r3, r4, i1, s1, s2

MCIdOf(r) == IF r = r4 THEN NoId ELSE i1
MCIntentOf(r) == IF r = r3 THEN "other" ELSE "own"
MCAppendsOf(r) == IF r = r3 THEN <<s1, s1, s2>> ELSE <<s1>>
=============================================================================
