SPECIFICATION FairSpec
CONSTANTS
  e1 = e1
  e2 = e2
  Execution = {e1, e2}
  Graph <- Charts
  Runs <- Pairs
  MaxSteps = 14
  MaxItems = 2
  MaxCrashes = 1
  MaxDbFailures = 1
INVARIANTS TypeOK RunsAsOften ResultComplete DiskTruthful LosesAtMostOne CompensatedInReverse
PROPERTIES ExecutionsEnd
CHECK_DEADLOCK FALSE
