SPECIFICATION FairSpec
CONSTANTS
  Tasks = {t1, t2}
  Recurring = {}
  Shared = {t1, t2}
  Wordless = {t2}
  Loop = loop
  Kickoffs = {}
  Limit = 2
  MaxRetries = 2
  Failures = {"recoverable", "gate", "other"}
  Environment = {"human", "trigger", "crash", "fault"}
  MaxEnv = 3
  MaxPending = 1
INVARIANT SharedExclusive
PROPERTY RequestsAreServed
PROPERTY AutomationSettles
