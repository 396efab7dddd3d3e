SPECIFICATION Spec
CONSTANTS
  Sessions = {1, 2}
  Background = {3}
  Residents = {}
  MaxStarts = 1
  MaxRestarts = 1
  MaxConcurrent = 2
  MaxOthers = 1
INVARIANTS TypeOK CountIsMonitors IdleSawNobody ThreadsBounded
PROPERTIES ImplementsLedger
CHECK_DEADLOCK FALSE
