\* MCDetector with a pattern threshold of one bogon SYN.
SPECIFICATION Spec
CONSTANTS
  n = 2
  base = 100
  ratio = 50
  rate_K = 2
  pattern_P = 1
  H = 3
  ratio_weight = 1
  rate_weight = 1
  pattern_weight = 1
  decision_threshold = 2
  MaxPackets = 3
  OverLimit = 1
  Streams <- AllStreams
INVARIANT PatternFiresAtThreshold
