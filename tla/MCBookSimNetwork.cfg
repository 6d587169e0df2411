SPECIFICATION Spec
CONSTANTS
  NumVCs = 2
  VCBufSize = 6
  NumPorts = 3
  Configs <- MCConfigs
  OutputBufferSize = 1
  Packets <- MCPackets
  Source <- MCSource
  Dest <- MCDest
  Size <- MCSize
  Offered <- MCOffered
  Nodes <- MCNodes
  RouterIds <- MCNodes
  OutChannelOf <- MCOut
  InChannelOf <- MCIn
  Flit <- MCFlit
  Route <- MCRoute
  ChannelDelay = 2
  MaxDelay = 1
CHECK_DEADLOCK FALSE
INVARIANTS CreditsMatch WholePackets OutputBufferBound
PROPERTY ImplementsPacketNetwork
