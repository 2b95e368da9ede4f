SPECIFICATION Spec
CONSTANTS
  None = None
  Gone = Gone
  MaxAttempts = 1
  MaxClaims = 2
  Human = FALSE
  IOFaults = FALSE
CHECK_DEADLOCK FALSE
INVARIANTS RecoversAfterPromotion
