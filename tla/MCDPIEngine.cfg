SPECIFICATION Spec
CONSTANTS
  NumLBs = 1
  FpsPerLB = 2
  QueueSize = 1
  Tuples <- MCTuples
  Mix <- MCMix
  Frames <- MCFrames
INVARIANTS TypeOK NoJobDiscarded FlowOrder WellFormedFile
CHECK_DEADLOCK FALSE
