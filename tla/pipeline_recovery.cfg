CONSTANTS
  w1 = w1
  w2 = w2
  Workers <- TwoWorkers
  MaxRetries = 1
  NumPages = 2
  Layout <- TwoRegionsAndEmptyPage
  EntityRegions <- FirstRegion
  FlagRegions <- NoRegion
  WordFlagRegions <- FirstRegion
  MaxFaults <- OverlapAndLoss
  MaxKinds = 3
SPECIFICATION Spec
SYMMETRY WorkerSymmetry
CHECK_DEADLOCK FALSE
INVARIANTS
  TypeOK
  VerdictMeansComplete
  OcrVerdictTruthful
  RunsExclusive
  NoDuplicateRows
PROPERTIES
  OcrResultsFinal
