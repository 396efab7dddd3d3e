SPECIFICATION FairSpec
CONSTANTS
  Sessions = {1}
  Background = {2}
  Residents = {}
  MaxStarts = 2
  MaxRestarts = 1
  MaxConcurrent = 2
  MaxOthers = 0
PROPERTIES DrainedContainerStops WatchEndsInRescan CountDrains HandshakeEnds
CHECK_DEADLOCK FALSE
