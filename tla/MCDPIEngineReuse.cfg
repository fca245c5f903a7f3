SPECIFICATION SpecReuse
CONSTANTS
  NumLBs = 1
  FpsPerLB = 2
  QueueSize = 1
  Tuples <- MCTuples
  Mix <- MCMix
  Frames <- MCFrames
INVARIANTS NoJobDiscarded
