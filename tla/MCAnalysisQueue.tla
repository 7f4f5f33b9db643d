--------------------------- MODULE MCAnalysisQueue ---------------------------
EXTENDS AnalysisQueue

CONSTANTS e1, e2, w1, w2
=============================================================================
