SPECIFICATION Spec
CONSTANTS
  MaxDgrams = 4
  ChanCap = 2
  DropPct = 5
  SwapPct = 10
  MaxDelay = 2
  DgramSize = 2
  Outcomes = {"ok", "short", "error"}
CHECK_DEADLOCK FALSE
INVARIANTS ExactlyOneFate NothingLeftBehind OvertakenOnce BytesBalance QuietFlush
PROPERTIES Settled CloseEnds LinkSpec
