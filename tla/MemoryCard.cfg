CONSTANTS
  Frames = {0, 1}
  FrameSize = 2
  Values = {v0, v1}
  Blank = v0
  Paths = {p, q}
  NoPath = none
  MaxWrites = 2
  MaxFaults = 2
SPECIFICATION Spec
INVARIANTS
  CleanMeansSaved
  FrameKept
  TornOnlyWhenCut
PROPERTIES
  ImplementsDevice
