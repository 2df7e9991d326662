CONSTANTS
  Kind <- HandwrittenThenTyped
  MaxAttempts = 2
  Late <- FirstCalls
  SoftLimit = TRUE
SPECIFICATION RouterSpec
INVARIANTS
  RouterTypeOK
  OutcomeIsEarned
  NeverHalfLoaded
  ReloadsAreTimeouts
PROPERTIES
  RouterAnswers
CHECK_DEADLOCK FALSE
