SPECIFICATION FairSpec
CONSTANTS
  t1 = t1
  t2 = t2
  loop = loop
  Tasks = {t1, t2}
  Recurring = {t1, t2}
  Shared = {}
  Wordless = {}
  Loop = loop
  Kickoffs = {}
  Limit = 2
  MaxRetries = 1
  Failures = {"recoverable", "transient", "gate", "other"}
  Environment = {}
  MaxEnv = 0
  MaxPending = 1
PROPERTY RecurringRearms
