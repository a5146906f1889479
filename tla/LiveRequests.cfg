SPECIFICATION Spec
CONSTANTS
  Disc = {d1, d2}
  None = None
  MaxOps = 7
INVARIANTS
  LastRequestWins
  ServedByNextFrame
CHECK_DEADLOCK FALSE
