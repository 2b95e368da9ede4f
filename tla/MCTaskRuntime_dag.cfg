SPECIFICATION MCSpec
CONSTANTS
  DependsOn <- MCDependsOn
  MaxAttempts <- MCMaxAttempts
  None = None
  Tasks = {1, 2, 3, 4}
  Shape = "zigzag"
  Workers = {w1, w2}
  LeaseSeconds = 1
  MaxDelay = 0
  Retryable = {"TRANSIENT"}
  Terminal = {"PERMANENT"}
  EffectKeys = {e1}
  Requests = {}
  Responses = {}
  MaxExpiries = 1
  Crashes = FALSE
SYMMETRY Symmetry
INVARIANTS DependenciesHonoured
PROPERTIES ImplementsLifecycle
