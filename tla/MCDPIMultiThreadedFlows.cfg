SPECIFICATION FlowFairSpec
CONSTANTS
  NumLBs = 2
  FpsPerLB = 1
  QueueSize = 1
  Tuples <- MCTuples
  Mix <- MCMix
  Frames <- MCFrames
  Contents <- MCContents
  Names <- MCNames
  NoName = NoName
  AppTypes = {"UNKNOWN", "HTTP", "HTTPS", "DNS", "VIDEO"}
  sniToAppType <- MCSniToAppType
  contains <- MCContains
  RuleSets <- MCRuleSets
INVARIANTS FlowsTypeOK EveryJobInOnePlace NoJobDiscarded FlowPinned OnlyInputQueuesKeepPackets DecidesAsSingleThreaded CountsAsSingleThreaded
PROPERTIES ImplementsPacketFilter
