SPECIFICATION Spec
CONSTANTS
  t1 = t1
  t2 = t2
  d1 = d1
  d2 = d2
  Tasks = {t1, t2}
  DeployTasks = {t1, t2}
  DevSlot <- OwnAgents
  ReviewRequired = FALSE
  Limit = 2
  Failures = {"other"}
  Environment = {"crash"}
  MaxEnv = 1
PROPERTY MergesFrozen
