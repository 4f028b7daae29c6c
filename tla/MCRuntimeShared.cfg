SPECIFICATION Spec
CONSTANTS
  Proc <- P2
  InitRoutes <- Chain
  QueueCap = 2
  MaxSamples = 3
  Shared = TRUE
  TableSize = 2
  MayDie = {}
  MayBeCrashed = {}
  Reroutes <- TwiceTheSame
INVARIANTS SoundReads
CHECK_DEADLOCK FALSE
