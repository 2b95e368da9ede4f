SPECIFICATION Spec
CONSTANTS
  Processes = {1}
  Questions = {1}
  Goals <- MCGoals
  Entries <- MCEntries
  AgentEntries <- MCAgentEntries
  Requests <- MCRequests
  CallerNumbers = {1, 2}
  Decisions = {"d1"}
  StartStatus = "VALIDATING"
  Limits <- MCLimits
  Exclusive = TRUE
  MaxLog = 4
  MaxDeaths = 1
  MaxFaults = 1
INVARIANTS AnswersLoggedOnce
CHECK_DEADLOCK FALSE
