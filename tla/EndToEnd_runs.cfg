CONSTANTS
  Processes = {p1, p2}
  Runs = {r1, r2}
  Workers = {w1, w2}
  SameRunTwice = FALSE
  MaxCrashes = 2
  None = None
SPECIFICATION Spec
INVARIANTS PublishedIsWhole OutcomesTell
PROPERTIES RootsAreKept
