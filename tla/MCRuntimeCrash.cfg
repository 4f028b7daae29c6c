SPECIFICATION FairSpec
CONSTANTS
  Proc <- P3
  InitRoutes <- FanIn
  QueueCap = 1
  MaxSamples = 3
  Shared = FALSE
  TableSize = 4
  MayDie = {1}
  MayBeCrashed = {}
  Reroutes <- NoReroutes
INVARIANTS LivingUnharmed NothingLeaks CleanedMeansGone
PROPERTIES CleanupReturns
CHECK_DEADLOCK FALSE
