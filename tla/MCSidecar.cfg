SPECIFICATION FairSpec
CONSTANTS
  Caller = {c1, c2}
  MaxCalls = 2
  MaxChecks = 2
  MaxFailures = 2
  Capacity = 2
INVARIANTS TypeOK AnswersOwnAlone InFlightAccounted
PROPERTIES NobodyWaitsForEver
CHECK_DEADLOCK FALSE
