CONSTANTS
  Processes = {p1, p2}
  Runs = {r1}
  Workers = {w1}
  SameRunTwice = TRUE
  MaxCrashes = 0
  None = None
SPECIFICATION Spec
INVARIANTS StreamReplays
