CONSTANTS
  Processes = {p1}
  Runs = {r1}
  Workers = {w1}
  SameRunTwice = FALSE
  MaxCrashes = 0
  None = None
SPECIFICATION Spec
INVARIANTS ResumedRunGoesOn
