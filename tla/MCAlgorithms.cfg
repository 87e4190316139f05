SPECIFICATION Spec
CONSTANTS
  Null = Null
  Failed = Failed
  Broken = Broken
  MaxDepth = 8
  RunAgents = {"DataAnalyst", "PipelineManager"}
  Tried = {"readCanvasState"}
  MaxLoopSteps <- MCLoopSteps
  MaxDeltas = 1
  MaxCalls = 1
  MaxRetries = 1
  MaxReads = 2
  StreamFaultSets <- MCStreamFaultSets
INVARIANTS StitchIsJoin LoadsAreBuilt   PrCheckMatchesMerge StreamInv
CHECK_DEADLOCK FALSE
