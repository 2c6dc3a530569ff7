\* One feature; whatever an earlier sweep left.
SPECIFICATION Spec
CONSTANTS
  Features = 1
  Thresholds = 3
  Captures = 2
INVARIANT WholeRangeSwept
CHECK_DEADLOCK FALSE
