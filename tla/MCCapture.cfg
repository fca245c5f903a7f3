SPECIFICATION Spec
CONSTANTS
  Captures <- MCCaptures
INVARIANTS TypeOK ReadsInBounds PayloadsAgree PacketsAreRecords NativeOutputReadsBack
