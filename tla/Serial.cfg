CONSTANTS
  Sockets = {"slot1"}
  Queries = {"45"}
  Buttons = {"up", "down"}
  Released = "up"
SPECIFICATION Spec
INVARIANTS
  SelectionsApart
  OnlyFirstByteStrays
  WaitsOnlyWhenRefused
  ReplyWhole
