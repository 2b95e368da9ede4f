SPECIFICATION MCFairSpec
CONSTANTS
  DependsOn <- MCDependsOn
  MaxAttempts <- MCMaxAttempts
  None = None
  Tasks = {1}
  Shape = "free"
  Workers = {w1, w2}
  LeaseSeconds = 2
  MaxDelay = 1
  Retryable = {"TRANSIENT"}
  Terminal = {"PERMANENT"}
  EffectKeys = {e1}
  Requests = {q1, q2}
  Responses = {a1, a2}
  MaxExpiries = 2
  Crashes = TRUE
INVARIANTS TypeOK AttemptBudget RetiredTokensFenced AnswerMatchesRequest
PROPERTIES SettledForGood DeadWorkerLosesLease
