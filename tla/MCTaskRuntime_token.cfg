SPECIFICATION MCSpec
CONSTANTS
  DependsOn <- MCDependsOn
  MaxAttempts <- MCMaxAttempts
  None = None
  Tasks = {1}
  Shape = "free"
  Workers = {w1, w2}
  LeaseSeconds = 2
  MaxDelay = 1
  Retryable = {"TRANSIENT"}
  Terminal = {"PERMANENT"}
  EffectKeys = {e1}
  Requests = {q1}
  Responses = {a1}
  MaxExpiries = 2
  Crashes = FALSE
SYMMETRY Symmetry
INVARIANTS NoTokenMintedTwice
