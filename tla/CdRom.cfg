SPECIFICATION CdSpec
CONSTANTS
  Targets = {1}
  LastLba = 3
  Backlog = 2
  Retry = 1
  IrqGap = 2
  Redelivery = 2
  Busy = 3
  SecondDelay = 4
  Period = 5
  SeekTime = 6
  RawSize = 3
  DataSize = 1
  HeaderAt = 1
  TailAt = 2
  MaxCommands = 2
  None = None
INVARIANTS AnswersOwed OneDataReady AnnouncedIfPrompt
PROPERTIES SectorsInOrder
CHECK_DEADLOCK FALSE
