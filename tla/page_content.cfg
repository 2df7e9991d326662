CONSTANTS
  Width = 100
  Height = 100
  Pages <- FoundPages
  TokenCount = 4
  MaxFound = 2
  MaxDates = 1
  MaxAmounts = 2
  Labels = {"PERSON", "PRODUCT", "CARDINAL"}
  Places <- PlaceSpans
  ProperNouns = {2, 3}
  Days = {0, 1, 28, 29, 30, 31, 32}
  Months = {2, 4, 12, 13}
  Years = {999, 1000, 1896, 1900, 2000, 2101}
  Pounds = {0, 1, 10}
  Shillings = {0, 1, 19, 20}
  Pence = {0, 1, 2, 3, 6, 11, 12}
  Dollars = {0, 5}
  OcrConfidences = {0, 60, 100}
  Kinds <- TableAndSignature
  Readings <- Read5
  Findings <- Found5
  Similar <- OneName
  Corrections = {0, 99, 1500}
  LowConfidence = 60
  IllegibleConfidence = 15
  MinYear = 1100
  MaxYear = 2100
  MaxPlausible = 50
  ColumnLimit = 500
  MaxInterruptions = 1
  MaxCorrected = 1
SPECIFICATION ContentSpec
INVARIANTS
  ReadingOrderTopDown
  DroppedForLonger
  ParseIsOwn
  MisreadNeverSurer
  LedgerOrderKept
  ResumeLosesOnlyWordFlags
  FlagsNameTheirEntities
CHECK_DEADLOCK FALSE
