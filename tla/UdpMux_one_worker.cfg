SPECIFICATION Spec
CONSTANTS
  Peers = {p1}
  MaxWorkers = 1
  MaxPackets = 2
  MaxResponses = 1
  MaxGC = 1
  ChanCap = 1
CHECK_DEADLOCK FALSE
INVARIANT WaitGroupExact
PROPERTIES WaitDrains ShutdownEnds
