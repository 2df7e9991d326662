CONSTANTS
  w1 = w1
  w2 = w2
  Workers <- TwoWorkers
  MaxRetries = 1
  NumPages = 1
  Layout <- OneRegion
  EntityRegions <- FirstRegion
  FlagRegions <- NoRegion
  WordFlagRegions <- FirstRegion
  MaxFaults <- SoftLimitFaults
  MaxKinds = 2
SPECIFICATION Spec
CHECK_DEADLOCK FALSE
INVARIANTS
  SoftLimitIsRetried
