SPECIFICATION Spec
CONSTANTS
  NumLBs = 1
  FpsPerLB = 1
  Tuples <- MCTuples
  Mix <- MCMix
  MaxConnections = 2
  MaxPackets = 3
  Names <- MCNames
  NoName = NoName
  AppTypes = {"UNKNOWN", "HTTP", "HTTPS", "DNS", "VIDEO"}
  IPs = {2}
  Ports = {53}
  Apps = {"VIDEO"}
  Domains <- NoNames
  Patterns <- MCPatterns
  labels <- MCLabels
  MaxPatterns = 1
  Packets <- MCPackets
  sniToAppType <- MCSniToAppType
INVARIANTS TypeOK StandingRuleEnforced OneRecordPerFlow CurrentInTable DirectionAccounting FirstPayloadDecides CountedOncePerOpening
PROPERTIES BlockedUntilClosed
