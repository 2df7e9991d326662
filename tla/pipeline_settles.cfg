CONSTANTS
  w1 = w1
  w2 = w2
  Workers <- TwoWorkers
  MaxRetries = 1
  NumPages = 1
  Layout <- OneRegion
  EntityRegions <- FirstRegion
  FlagRegions <- NoRegion
  WordFlagRegions <- FirstRegion
  MaxFaults <- EachFaultOnce
  MaxKinds = 2
SPECIFICATION FairSpec
CHECK_DEADLOCK FALSE
INVARIANTS
  NeverStranded
  LockHeldOnlyInRun
PROPERTIES
  EventuallySettled
