CONSTANTS
  Channels = {1, 3}
  Streaming = {1}
  Asking = {1, 3}
  Supplied = {1, 3}
  Sectors = {3}
  Otc = 6
  Slices = {3}
  Wrap = 2
  Space = 3
  RawTail = 1
  Starts = {0}
  Sizes = {1}
  Counts = {1}
  Masks = {{}, {1, 3}}
  Commands <- SomeCommands
  Loads = {3}
  MaxOps = 4
  Packets = {p1, p2, p3, p4}
  NoPacket = NoPacket
  MaxPackets = 8
SPECIFICATION FairSpec
INVARIANTS
  WordsConserved
  AddressFollows
  SliceBound
  InterruptsKept
PROPERTIES
  TransfersEnd
