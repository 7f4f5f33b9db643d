SPECIFICATION FairSpec
CONSTANTS
  r1 = r1
  r2 = r2
  r3 = r3
  r4 = r4
  i1 = i1
  s1 = s1
  s2 = s2
  NoId = NoId
  Requests = {r1,r2,r3}
  Streams = {s1,s2}
  Ids = {i1}
  IdOf <- MCIdOf
  IntentOf <- MCIntentOf
  AppendsOf <- MCAppendsOf
  MaxAttempts = 2
  SnapshotEvery = 2
  Faults = {"append","commit","crash"}
  MaxFaults = 1
CHECK_DEADLOCK FALSE
INVARIANT TypeOK
INVARIANT RebuildIsExact
INVARIANT AnswersAreTrue
PROPERTY SerialSpec
PROPERTY EveryCallIsAnswered
