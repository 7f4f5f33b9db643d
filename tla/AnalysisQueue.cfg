SPECIFICATION Spec
CONSTANTS
  e1 = e1
  e2 = e2
  w1 = w1
  w2 = w2
  Entities = {e1, e2}
  Projects = {"p"}
  Contents = {"a", "b", "gone"}
  First = "a"
  Workers = {w1, w2}
  Faults = {"raise", "partial", "empty", "slow", "crash", "disable", "late", "unanswered"}
  MaxEvents = 2
INVARIANT TypeOK
INVARIANT OneAnalysisPerProject
INVARIANT GraphIsCurrent
CHECK_DEADLOCK FALSE
PROPERTY JobsSettle
