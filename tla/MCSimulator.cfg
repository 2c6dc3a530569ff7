\* Two inputs; two runs into one directory, each of up to two windows.
SPECIFICATION Spec
CONSTANTS
  input_count = 2
  MaxRuns = 2
  Captures <- SmallCaptures
  Answer <- SmallDetector
INVARIANTS
  TypeOK
  GroupIsWindow
  EveryPacketPosted
  FirstVerdict
  RerunVerdict
  StaleOnlyLeftOver
PROPERTIES
  EveryRunEnds
\* The program ends.
CHECK_DEADLOCK FALSE
