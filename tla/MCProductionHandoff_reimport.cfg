SPECIFICATION Spec
CONSTANTS
  None = None
  Records <- MCRecords
  Bodies <- MCStray
  ResultIds = {"PR1"}
  HandoffIds = {"HO1", "HO2"}
  EvidenceIds <- MCEvidence
  Goals = {"DECIDING"}
  FirstContent = "base"
  FirstStatus = "VALIDATING"
  FirstLog <- MCLog
  StageDStart = TRUE
  MaxRevision = 1
  MaxEdits = 0
  MaxMoves = 1
  MaxTroubles = 0
INVARIANTS ReimportSucceeds
CHECK_DEADLOCK FALSE
