SPECIFICATION FairSpec
INVARIANTS
  AtMostOneStrayFrame
  PauseDrainsFrame
PROPERTIES
  CallsReturnUnlessMissed
