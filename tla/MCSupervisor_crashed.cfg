SPECIFICATION MCSpec
CONSTANTS
  DependsOn <- MCDependsOn
  MaxAttempts <- MCMaxAttempts
  None = None
  Tasks = {1, 2}
  Chain = FALSE
  Attempts = 1
  LeaseSeconds = 1
  Retryable = {"VALIDATION", "LEASE_EXPIRED"}
  Terminal = {"PERMANENT"}
  Requests = {}
  Responses = {}
  Self = supervisor
  Rivals = {}
  MaxTasks = 3
  MaxExpiries = 0
  Prompt = FALSE
PROPERTIES CrashedRunResumes
