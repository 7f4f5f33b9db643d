SPECIFICATION Spec
CONSTANTS
  s1 = s1
  Runs <- Two
  Stops = {s1}
  Faults = {"worker", "persist", "link", "gone"}
  MaxFaults = 1
INVARIANT TypeOK
INVARIANT AnswersAreHonest
PROPERTY StopIsObeyed
PROPERTY StreamsAnswer
CHECK_DEADLOCK FALSE
