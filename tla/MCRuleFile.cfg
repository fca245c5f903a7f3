SPECIFICATION Spec
CONSTANTS
  IPs <- MCIPs
  Ports = {80}
  Apps = {"HTTPS"}
  Domains <- MCDomains
  Patterns <- MCPatterns
  labels <- MCLabels
  MaxPatterns = 2
  Bracketed = {"[::1]", "[:"}
  EmptyName = ""
  starred <- MCStarred
  pieces <- MCPieces
  AppNames = {"HTTP", "HTTPS"}
  Initially <- MCInitially
  MaxChanges = 2
INVARIANTS TypeOK StandingRulesSaved QuietSaveIsExact CutSaveLosesTheEnd ClearAllClears
