SPECIFICATION Spec
CONSTANTS
  Peers = {p1, p2}
  MaxWorkers = 2
  MaxPackets = 2
  MaxResponses = 0
  MaxGC = 1
  ChanCap = 1
CHECK_DEADLOCK FALSE
SYMMETRY PeerSymmetry
INVARIANTS ShutDownOnce MapIsLive NoOvercount TotalsComplete AtMostOneOrphan
