SPECIFICATION Spec
CONSTANTS
  MaxDgrams = 4
  ChanCap = 2
  DropPct = 0
  SwapPct = 0
  MaxDelay = 2
  DgramSize = 2
  Outcomes = {"ok", "short"}
CHECK_DEADLOCK FALSE
PROPERTY LinkSpec
