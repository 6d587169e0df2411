SPECIFICATION FairToggleSpec
CONSTANTS
  m1 = m1
  m2 = m2
  m3 = m3
  Msgs = {m1, m2, m3}
  NumLHS = 1
  NumRHS = 2
  LHSCap <- ToggleLHSCap
  RHSCap <- ToggleRHSCap
  Latency = 0
  PropIdxMask <- RingMask
  CyclesPerMsg = 0
  MaskBits = 3
  MsgType = "TOGGLE"
  Src <- ToggleSrc
  Dest <- ToggleDest
  GatedRHS = {}
INVARIANT NewestLevelKept
PROPERTY LevelSettles
