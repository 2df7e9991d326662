CONSTANTS
  w1 = w1
  c1 = c1
  Workers <- OneWorker
  MaxRetries = 1
  NumPages = 1
  Layout <- EmptyPage
  EntityRegions <- NoRegion
  FlagRegions <- NoRegion
  WordFlagRegions <- NoRegion
  MaxFaults <- NoFaults
  MaxKinds = 0
  Clients <- OneClient
  MaxQueued = 2
  MaxMishaps = 0
SPECIFICATION ArchiveSpec
CHECK_DEADLOCK FALSE
PROPERTIES
  OnlyStuckRequeued
