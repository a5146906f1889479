SPECIFICATION TimerSpec
CONSTANTS
  Wrap = 4
  PulseCycles = 2
  Divider = 2
  Sources = {0, 3}
  MaxStep = 5
  MaxSpan = 8
INVARIANTS
  Additive
  DeadlineExact
  OneShotOnce
