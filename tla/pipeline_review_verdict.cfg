CONSTANTS
  w1 = w1
  w2 = w2
  Workers <- TwoWorkers
  MaxRetries = 1
  NumPages = 2
  Layout <- OneRegionEach
  EntityRegions <- FirstRegion
  FlagRegions <- NoRegion
  WordFlagRegions <- FirstRegion
  MaxFaults <- RowFaults
  MaxKinds = 2
SPECIFICATION Spec
SYMMETRY WorkerSymmetry
CHECK_DEADLOCK FALSE
INVARIANTS
  ReviewVerdictTruthful
  UnreadNeverReady
PROPERTIES
  ImplementsLifecycle
