SPECIFICATION Spec
CONSTANTS
  None = None
  Gone = Gone
  MaxAttempts = 2
  MaxClaims = 3
  Human = TRUE
  IOFaults = TRUE
CHECK_DEADLOCK FALSE
INVARIANTS SucceededMeansPromoted NoAttemptOnUnacceptedTree StageTellsTree
PROPERTIES SuccessNeverUndone
