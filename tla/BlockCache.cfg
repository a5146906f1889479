CONSTANTS
  LineCount = 3
  PageLines = 3
  IndexCount = 2
  Contents = {"alu", "mem", "jump"}
  AluOnly = {"alu"}
  SlotCount = 2
  MaxLines = 2
  V5Enabled = TRUE
  Program <- MCProgram
  Warm = {0, 1}
  Stored = {0, 1}
  Entries <- MCEntries
  MaxBumps = 3
  MaxPageGen = 2
  MaxEpoch = 2
  MaxWrites = 1
  Ends = {"jump"}
SPECIFICATION Spec
INVARIANTS RunsWhatIsFetched RunsItsOwnCode UncachedIsMemory DropsOnce
