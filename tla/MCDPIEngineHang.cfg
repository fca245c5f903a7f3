SPECIFICATION FairSpec
CONSTANTS
  NumLBs = 1
  FpsPerLB = 2
  QueueSize = 1
  Tuples <- MCTuples
  Mix <- MCMix
  Frames <- MCFrames
PROPERTIES EngineReturns
CHECK_DEADLOCK FALSE
