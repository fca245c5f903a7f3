SPECIFICATION Spec
CONSTANTS
  NumLBs = 1
  FpsPerLB = 1
  Tuples <- MCTuples
  Mix <- MCMix
  MaxConnections = 2
  MaxPackets = 4
  Names <- MCNames
  NoName = NoName
  AppTypes = {"UNKNOWN", "HTTP", "HTTPS", "DNS", "VIDEO"}
  IPs = {1}
  Ports = {}
  Apps = {}
  Domains <- NoNames
  Patterns <- NoNames
  labels <- MCLabels
  MaxPatterns = 0
  Packets <- MCPackets
  sniToAppType <- MCSniToAppType
INVARIANTS BlockedConnectionDropped
