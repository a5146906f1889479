CONSTANTS
  TargetBlocks = 1
  MaxBlocks = 2
  EnterBlocks = 1
  ExitBlocks = 1
  MaxSession = 3
  MaxSwaps = 2
SPECIFICATION HostFairSpec
PROPERTIES
  NothingStale
  PlaybackResumes
  StutterEnds
