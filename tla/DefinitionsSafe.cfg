CONSTANTS
  Files <- PairsOfEntries
  LabelMaps <- SomeLabels
  Hosts <- SomeHosts
  Packages = {"vim", "gcc"}
SPECIFICATION Spec
INVARIANT UnitsAgree
PROPERTY WrittenAsMeant
CHECK_DEADLOCK FALSE
