CONSTANTS
  w1 = w1
  c1 = c1
  Workers <- OneWorker
  MaxRetries = 1
  NumPages = 1
  Layout <- EmptyPage
  EntityRegions <- NoRegion
  FlagRegions <- NoRegion
  WordFlagRegions <- NoRegion
  MaxFaults <- RunFaults
  MaxKinds = 1
  Clients <- OneClient
  MaxQueued = 2
  MaxMishaps = 1
SPECIFICATION FairArchive
CHECK_DEADLOCK FALSE
INVARIANTS
  NeverForgotten
PROPERTIES
  EventuallyAnswered
