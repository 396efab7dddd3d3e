SPECIFICATION FairSpec
CONSTANTS
  Sessions = {1}
  Background = {}
  Residents = {9}
  MaxStarts = 1
  MaxRestarts = 0
  MaxConcurrent = 2
  MaxOthers = 0
PROPERTY DrainedContainerStops
CHECK_DEADLOCK FALSE
