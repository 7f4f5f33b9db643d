SPECIFICATION FairSpec
CONSTANTS
  Publishers = {p1, p2}
  Consumers = {c1}
  MaxEvents = 2
  MaxRuns = 2
  MaxSeq = 3
INVARIANT TypeOK
INVARIANT DeliveryIsExact
PROPERTY StreamsEnd
