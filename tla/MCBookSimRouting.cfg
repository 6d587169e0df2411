SPECIFICATION Spec
CONSTANTS
  Networks <- MCNetworks
  Waiting <- MCWaiting
  RoutersOf <- MCRouters
  PortsOf <- MCPorts
  VCsOf <- MCVCs
  SourcesOf <- MCSources
  DestsOf <- MCDests
  NodeHome <- MCHome
  OutChannelOf <- MCOutChannel
  InChannelOf <- MCInChannel
  Route <- MCRoute
CHECK_DEADLOCK FALSE
INVARIANT LegalRoute
PROPERTIES Arrives NoCircularWait
