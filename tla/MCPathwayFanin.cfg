SPECIFICATION FairSpec
CONSTANTS
  m1 = m1
  m2 = m2
  m3 = m3
  Msgs = {m1, m2, m3}
  NumLHS = 2
  NumRHS = 1
  LHSCap <- FaninLHSCap
  RHSCap <- FaninRHSCap
  Latency = 2
  PropIdxMask <- RingMask
  CyclesPerMsg = 0
  MaskBits = 1
  MsgType = "PLAIN"
  Src <- FaninSrc
  Dest <- FaninDest
  GatedRHS = {}
INVARIANTS NoDrop OneDriver SelectedDrives NoGhosts
PROPERTIES ImplementsLiveChannel NoStarvation
