SPECIFICATION Spec
CONSTANTS
  Messages <- MCMessages
  Tails <- MCTails
INVARIANTS ReadsOnlyThePayload HelloNeverMisnamed RequestNamedAsFarAsItGoes QueryNamedByWholeLabels EnginesAgree
CHECK_DEADLOCK FALSE
