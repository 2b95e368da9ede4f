SPECIFICATION FairSpec
CONSTANTS
  Questions = 2
  Strategies = 1
  ArtRound = TRUE
  Web <- MCWeb
  Limit = 1
  Passages = 1
  Sufficient = 1
  Saturation = 1
  MaxTotal = 2
  MaxReviewed = 2
  GroupSize = 2
  MaxAttempts = 2
  Budget = 1
  Delay = 1
  MaxBad = 2
  Faulty = {"claim", "insight"}
  MaxEdits = 1
INVARIANTS NothingOrphaned FilesRepairable AttemptsAccounted SearchLoggedFirst EditsKept
PROPERTIES FinalForGood RunEnds
CHECK_DEADLOCK FALSE
