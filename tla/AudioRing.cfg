CONSTANTS
  TargetSamples = 2
  MaxSamples = 4
  Capacity = 5
  History = 4
  Batch = 6
  MaxProduced = 10
SPECIFICATION Spec
INVARIANTS
  Contiguous
  ChannelOrder
  LoopIsPast
PROPERTY RefinesFifo
