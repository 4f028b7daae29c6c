SPECIFICATION FairSpec
CONSTANTS
  Proc <- P3
  InitRoutes <- FanOut
  QueueCap = 1
  MaxSamples = 3
  Shared = FALSE
  TableSize = 4
  MayDie = {}
  MayBeCrashed = {}
  Reroutes <- OneReroute
INVARIANTS TypeOK ReadsAccounted SoundReads NothingLeaks
PROPERTIES ReclaimOnlyWhenRead CallsReturn
CHECK_DEADLOCK FALSE
