SPECIFICATION MCFairSpec
CONSTANTS
  DependsOn <- MCDependsOn
  MaxAttempts <- MCMaxAttempts
  None = None
  Tasks = {1, 2}
  Chain = TRUE
  Attempts = 2
  LeaseSeconds = 1
  Retryable = {"VALIDATION", "LEASE_EXPIRED"}
  Terminal = {"PERMANENT"}
  Requests = {q1}
  Responses = {a1}
  Self = supervisor
  Rivals = {rival}
  MaxTasks = 2
  MaxExpiries = 1
  Prompt = TRUE
INVARIANTS WorkIsBounded NoResultAbandoned SucceededOnOwnResult OutcomeIsTrue
PROPERTIES RunStops RuntimeKept
