SPECIFICATION RowFairSpec
CONSTANTS
  f1 = f1
  f2 = f2
  Fields = {f1,f2}
  Buffer = 2
  MaxRetries = 2
  Overlap = TRUE
  MaxLog = 3
  MaxRestarts = 1
CHECK_DEADLOCK FALSE
INVARIANT RowTypeOK
INVARIANT CleanRowIsReplay
PROPERTY EveryEventIsAcked
