CONSTANTS
  Names = {n1, n2}
  Files <- PngOrNot
  Request <- ThreeFiles
  MaxPages = 2
  MaxPixels = 1
  Concurrency = 2
  MaxChanges = 2
  MaxFaults = 1
  MaxKinds = 2
SPECIFICATION ScanSpec
INVARIANTS
  ScanTypeOK
  DocumentsReadable
  DuplicatesAccounted
  SeenHasDocument
  AnswerMatchesRows
PROPERTIES
  NewScansIngested
CHECK_DEADLOCK FALSE
