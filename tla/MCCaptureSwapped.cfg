SPECIFICATION Spec
CONSTANTS
  Captures <- FewCaptures
INVARIANTS OutputReadsBack
