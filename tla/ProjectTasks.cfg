SPECIFICATION Spec
CONSTANTS
  c1 = c1
  c2 = c2
  c3 = c3
  Tasks = {1, 2, 3}
  Calls = {c1, c2, c3}
  Scenarios <- Chosen
  NoCall = NoCall
  MaxAttempts = 2
  Tagged = TRUE
  Faults = {"append", "crash"}
INVARIANT TypeOK
INVARIANT DeletionIsComplete
INVARIANT PlanIsSound
PROPERTY NothingComesBack
PROPERTY CallsEnd
CHECK_DEADLOCK FALSE
