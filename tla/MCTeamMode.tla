----------------------------- MODULE MCTeamMode -----------------------------
EXTENDS TeamMode

CONSTANTS t1, t2, d1, d2

OwnAgents == [t \in Tasks |-> IF t = t1 THEN d1 ELSE d2]
=============================================================================
