\* Five scenarios, up to two windows each, and three probes of the engine.
SPECIFICATION Spec
CONSTANTS
  w1 = w1
  w2 = w2
  w3 = w3
  w4 = w4
  w5 = w5
  w6 = w6
  Scenarios <- MCScenarios
  Marks <- MCMarks
  MaxProbes = 3
INVARIANTS
  TypeOK
  PassEarned
PROPERTIES
  VerifyEnds
