SPECIFICATION FairSpec
CONSTANTS
  m1 = m1
  m2 = m2
  m3 = m3
  Msgs = {m1, m2, m3}
  NumLHS = 1
  NumRHS = 3
  LHSCap <- FanoutLHSCap
  RHSCap <- FanoutRHSCap
  Latency = 1
  PropIdxMask <- RingMask
  CyclesPerMsg = 1
  MaskBits = 4
  MsgType = "PLAIN"
  Src <- FanoutSrc
  Dest <- FanoutDest
  GatedRHS = {1}
INVARIANTS TypeOK RoomForInFlight
PROPERTY ImplementsLiveChannel
