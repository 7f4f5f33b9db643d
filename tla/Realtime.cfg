SPECIFICATION FairSpec
CONSTANTS
  r1 = r1
  s1 = s1
  s2 = s2
  Sessions = {s1,s2}
  Readers = {r1}
  QueueSize = 1
  ActivityLimit = 1
  NoticeLimit = 1
  MaxChanges = 2
  MaxAuth = 1
  MaxConnects = 2
  WorkerRows = TRUE
CHECK_DEADLOCK FALSE
INVARIANT TypeOK
INVARIANT NothingMissed
PROPERTY ChangesAreTold
