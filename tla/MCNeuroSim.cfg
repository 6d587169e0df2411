CONSTANTS
  Domains = {1, 2, 3}
  Period <- MCPeriod
  Units <- NSUnits
  ClockOf <- NSClockOf
  PDepth <- NSPDepth
  Wires <- NSWires
  Lhs <- NSLhs
  Rhs <- NSRhs
  LhsCap <- NSLhsCap
  RhsCap <- NSRhsCap
  Levels <- NSLevels
  Leaves <- NSLeaves
  Readers <- NSReaders
  InitStates <- NSInitStates
  Operation <- NSOperation
  Outside <- NSOutside
  DestOf <- NSDestOf
  IsFinished <- NSIsFinished
  ReserveStep = 1
  NumNeurons = 2
  DynLatency = 0
  Depth = 7
  AccDepth = 2
  Props = {1}
  PropOf <- MCPropOf
  AxonLen <- MCAxonLen
  NumStreamer = 2
  IoBufSize = 2
  OutqueSize = 5
  ReqIDRange = 4
  NumBoards = 1
  NumCores = 2
  NumDelay = 1
  DramQueue = 2
  MinLatency = 1
  MaxLatency = 2
  IoCounters = {0}
  Targets <- MCTargets
  NumInputs = 1
  InputLen = 2
  TsBuf = 3
  MaxTimestep = 2
  DynSections <- MCDynSections
  DelaySections <- MCDelaySections
  SynQueueSize = 4
  StreamQueueSize = 4
  EntryQueueSize = 2
SPECIFICATION FairSpec
INVARIANTS NoSimError InOwnTimestep NoSkippedTimestep
PROPERTIES AllStreamed TimestepsGoOn
CHECK_DEADLOCK FALSE
