SPECIFICATION Spec
CONSTANTS
  Messages <- MCSites
  Tails <- MCTails
INVARIANTS AppsAreRecognised
CHECK_DEADLOCK FALSE
