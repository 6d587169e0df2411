SPECIFICATION FairSpec
CONSTANTS
  Outs = {"queued", "direct"}
  OutCap <- MixedOutCap
  Plains = {"data"}
  Toggles = {"level"}
  InCap <- MixedInCap
  PDepth = 2
  OMsgIdxMask <- SlotMask
  MaxOps = 3
  MaxIn = 2
INVARIANTS NoRejection OutputsInOrder LeaveTogether PlainInputsOnce ToggleInputLatest
PROPERTY PipelineDrains
