SPECIFICATION MCSpec
CONSTANTS
  DependsOn <- MCDependsOn
  MaxAttempts <- MCMaxAttempts
  None = None
  Tasks = {1}
  Chain = FALSE
  Attempts = 2
  LeaseSeconds = 1
  Retryable = {"VALIDATION", "LEASE_EXPIRED"}
  Terminal = {"PERMANENT"}
  Requests = {}
  Responses = {}
  Self = supervisor
  Rivals = {}
  MaxTasks = 3
  MaxExpiries = 1
  Prompt = FALSE
INVARIANTS ConsumedOnce
