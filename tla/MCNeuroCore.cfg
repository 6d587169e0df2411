CONSTANTS
  Domains = {1, 2}
  Period <- MCPeriod
  Units <- NCUnits
  ClockOf <- NCClockOf
  PDepth <- NCPDepth
  Wires <- NCWires
  Lhs <- NCLhs
  Rhs <- NCRhs
  LhsCap <- NCLhsCap
  RhsCap <- NCRhsCap
  Levels <- NCLevels
  Leaves <- NCLeaves
  Readers <- NCReaders
  InitStates <- NCInitStates
  Operation <- NCOperation
  Outside <- NCOutside
  DestOf <- NCDestOf
  IsFinished <- NCIsFinished
  ReserveStep = 1
  NumNeurons = 4
  DynLatency = 0
  Depth = 7
  AccDepth = 2
  Props = {1, 2}
  PropOf <- MCPropOf
  AxonLen <- MCAxonLen
  BlockDepth = 2
  Bursts = {0, 1, 5}
  TsBuffer = 3
  SynDelay = 20
  MaxCoreTS = 2
  CoreSections <- MCCoreSections
SPECIFICATION FairSpec
INVARIANT NoCoreError
PROPERTY TakesWhenQuiet
CHECK_DEADLOCK FALSE
