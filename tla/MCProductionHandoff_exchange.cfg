SPECIFICATION Spec
CONSTANTS
  None = None
  Records <- MCRecords
  Bodies <- MCBodies
  ResultIds = {"PR1", "PR2"}
  HandoffIds = {HO1, HO2}
  EvidenceIds <- MCEvidence
  Goals = {"DECIDING", "INCOMPLETE"}
  FirstContent = "base"
  FirstStatus = "VALIDATING"
  FirstLog <- MCLog
  StageDStart = TRUE
  MaxRevision = 2
  MaxEdits = 1
  MaxMoves = 1
  MaxTroubles = 1
INVARIANTS OneContentPerRevision BundleStandsAlone ImportedWhole SignalsBacked
PROPERTIES FailedImportLeavesNoTrace
CHECK_DEADLOCK FALSE
SYMMETRY Symmetry
