SPECIFICATION Spec
CONSTANTS
  Tasks = {t1, t2, t3}
  Recurring = {}
  Shared = {}
  Wordless = {t3}
  Loop = loop
  Kickoffs = {kick}
  Limit = 1
  MaxRetries = 1
  Failures = {"other"}
  Environment = {"human", "trigger"}
  MaxEnv = 3
  MaxPending = 1
SYMMETRY Symmetry
INVARIANT TypeOK
INVARIANT PumpLimit
INVARIANT RunningIsAttended
PROPERTY ClaimsCurrentRequest
