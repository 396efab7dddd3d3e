SPECIFICATION FairSpec
CONSTANTS
  Requests = {r1, r2}
  Results <- SomeResults
  MaxConcurrent = 1
  MaxRestarts = 1
  MaxPings = 1
INVARIANTS TypeOK DoneTellsAll RunsAtMostOnce
PROPERTIES ImplementsRemoteCommand WaitsForItsOwn PlacesComeBack AcceptedIsServed
CHECK_DEADLOCK FALSE
