CONSTANTS
  Names = {1, 2}
  Profiles = {1}
  LocalNames = {2}
  Revs = {r1, r2}
  None = None
SPECIFICATION Spec
SYMMETRY Symmetry
INVARIANT TypeOK
PROPERTIES NeverOverwritten BuiltIsDefined RemoveSparesOthers
CHECK_DEADLOCK FALSE
