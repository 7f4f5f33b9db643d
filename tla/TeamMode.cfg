SPECIFICATION Spec
CONSTANTS
  t1 = t1
  t2 = t2
  d1 = d1
  d2 = d2
  Tasks = {t1, t2}
  DeployTasks = {t1, t2}
  DevSlot <- OwnAgents
  ReviewRequired = TRUE
  Limit = 2
  Failures = {"retry", "exhausted", "uncommitted", "other", "conflict", "unhealthy"}
  Environment = {"request", "review", "crash", "slow", "complete"}
  MaxEnv = 1
INVARIANT TypeOK
INVARIANT CompletedWasDeployed
INVARIANT LockIsAttended
PROPERTY CyclesAdvance
PROPERTY NothingHangs
