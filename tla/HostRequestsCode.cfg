SPECIFICATION Spec
CONSTANTS
  Requests = {r1}
  Results <- Failures
  MaxConcurrent = 1
  MaxRestarts = 0
  MaxPings = 0
INVARIANT ExitsWithRemoteCode
CHECK_DEADLOCK FALSE
