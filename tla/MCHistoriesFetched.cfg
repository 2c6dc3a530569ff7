\* One run; a request and its retry may fail.
SPECIFICATION Spec
CONSTANTS
  input_count = 2
  MaxRuns = 1
  Captures <- SmallCaptures
  Answer <- SmallDetector
INVARIANT AllHistoriesFetched
CHECK_DEADLOCK FALSE
