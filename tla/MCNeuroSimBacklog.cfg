CONSTANTS
  Domains = {1, 2, 3}
  Period <- MCPeriod
  Units <- NSUnits
  ClockOf <- NSClockOf
  PDepth <- NSPDepth
  Wires <- NSWires
  Lhs <- NSLhs
  Rhs <- NSRhs
  LhsCap <- NSLhsCap
  RhsCap <- NSRhsCap
  Levels <- NSLevels
  Leaves <- NSLeaves
  Readers <- NSReaders
  InitStates <- NSInitStates
  Operation <- NSOperation
  Outside <- NSOutside
  DestOf <- NSDestOf
  IsFinished <- NSIsFinished
  ReserveStep = 1
  NumNeurons = 2
  DynLatency = 0
  Depth = 7
  AccDepth = 2
  Props = {1}
  PropOf <- MCPropOf
  AxonLen <- BacklogAxonLen
  NumStreamer = 2
  IoBufSize = 2
  OutqueSize = 9
  ReqIDRange = 4
  NumBoards = 1
  NumCores = 2
  NumDelay = 1
  DramQueue = 4
  MinLatency = 2
  MaxLatency = 2
  IoCounters = {0}
  Targets <- MCTargets
  NumInputs = 0
  InputLen = 2
  TsBuf = 3
  MaxTimestep = 4
  DynSections <- BacklogDynSections
  DelaySections <- NoDelaySections
  SynQueueSize = 64
  StreamQueueSize = 4
  EntryQueueSize = 4
SPECIFICATION Spec
INVARIANTS NoSkippedTimestep
CHECK_DEADLOCK FALSE
