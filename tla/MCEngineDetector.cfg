\* Two sources of at most two packets, three in all, and an over-long window.
SPECIFICATION Spec
CONSTANTS
  n = 2
  base <- BaseOfRatio
  ratio = 50
  rate_K = 2
  pattern_P = 2
  H = 2
  ratio_weight = 1
  rate_weight = 1
  pattern_weight = 1
  decision_threshold = 2
  MaxPackets = 3
  Streams <- ShortStreams
  Order <- BuiltOrder
  Inputs <- BuiltInputs
  Outputs <- BuiltOutputs
  RulesOf <- BuiltRules
  ContentOf <- BuiltContent
  Weight <- BuiltWeight
  Requests <- SmallRequests
INVARIANTS
  TypeOK
  AtMostOneRule
  MailFoldedWithinTick
  HaltedIsQuiescent
PROPERTIES
  ImplementsDetector
  Served
