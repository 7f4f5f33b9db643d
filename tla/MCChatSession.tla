---------------------------- MODULE MCChatSession ----------------------------
EXTENDS ChatSession

CONSTANT s1

Two == 1 .. 2
=============================================================================
