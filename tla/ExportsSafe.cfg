CONSTANTS
  Names <- SomeNames
  Apps <- SomeApps
  Bins = {"x"}
  Dash = "-"
  Commands = {p, q}
  None = None
  Scripts <- SomeScripts
SPECIFICATION Spec
SYMMETRY Symmetry
INVARIANTS TypeOK CleanLeavesNothing
PROPERTY UnrelatedLeftAlone
CHECK_DEADLOCK FALSE
