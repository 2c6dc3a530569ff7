\* Two sources, every window of up to three packets each, H = 3; a ratio above
\* one half; thresholds low enough for the pattern detector and RatioOR to fire,
\* refill and fire again.
SPECIFICATION Spec
CONSTANTS
  n = 2
  base <- BaseOfRatio
  ratio = 50
  rate_K = 3
  pattern_P = 2
  H = 3
  ratio_weight = 1
  rate_weight = 1
  pattern_weight = 1
  decision_threshold = 2
  MaxPackets = 3
  OverLimit = 1
  Streams <- AllStreams
INVARIANTS
  TypeOK
  NeverFails
  RatioLedger
  RatioVerdict
  AggregateVerdicts
  AlarmVerdict
PROPERTIES
  OneVotePerFeature
  Answered
