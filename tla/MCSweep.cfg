\* Two features, two thresholds of two captures each, after any earlier sweep.
SPECIFICATION Spec
CONSTANTS
  Features = 2
  Thresholds = 2
  Captures = 2
INVARIANTS
  TypeOK
  CountedAsKept
  OldOnlyWhereNotRun
PROPERTIES
  SweepEnds
\* The program ends.
CHECK_DEADLOCK FALSE
