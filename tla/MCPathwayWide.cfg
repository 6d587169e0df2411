SPECIFICATION Spec
CONSTANTS
  m1 = m1
  m2 = m2
  m3 = m3
  Msgs = {m1, m2}
  NumLHS = 1
  NumRHS = 33
  LHSCap <- FanoutLHSCap
  RHSCap <- WideRHSCap
  Latency = 0
  PropIdxMask <- RingMask
  CyclesPerMsg = 0
  MaskBits = 32
  MsgType = "PLAIN"
  Src <- WideSrc
  Dest <- WideDest
  GatedRHS = {}
INVARIANT NoDrop
