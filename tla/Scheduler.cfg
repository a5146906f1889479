CONSTANTS
  Device = {"timers", "cd", "spu", "watch"}
  Feeder = {"cd", "spu"}
  Drive = {"cd"}
  Lines = 3
  LineCycles = 2
  SpuStride = 2
  Gap = 1
  MaxCost = 2
  MaxStall = 1
  MaxDelay = 2
  MaxFrames = 1
SPECIFICATION FairSpec
INVARIANTS
  LateOnlyAfterStall
  RequestServedIfTold
PROPERTIES
  TimersExact
  FrameEnds
CHECK_DEADLOCK FALSE
