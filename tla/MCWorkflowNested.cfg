SPECIFICATION Spec
CONSTANTS
  e1 = e1
  e2 = e2
  Execution = {e1}
  Graph <- NestedLoops
  Runs <- OneNested
  MaxSteps = 40
  MaxItems = 2
  MaxCrashes = 0
  MaxDbFailures = 0
INVARIANTS RunsAsOften
CHECK_DEADLOCK FALSE
