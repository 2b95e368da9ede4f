SPECIFICATION Spec
CONSTANTS
  Processes = {1, 2}
  Questions = {1}
  Goals <- MCGoals
  Entries <- MCEntries
  AgentEntries <- MCAgentEntries
  Requests <- MCRequests
  CallerNumbers = {1, 2}
  Decisions = {"d1"}
  StartStatus = "VALIDATING"
  Limits <- MCLimits
  Exclusive = FALSE
  MaxLog = 4
  MaxDeaths = 1
  MaxFaults = 1
INVARIANTS LoggedIsCountable
CHECK_DEADLOCK FALSE
