SPECIFICATION Spec
CONSTANTS
  Versions = {v1, v2, v3}
  Plain = {v2}
  Layered = {v3}
  Labelled = {v3}
  Commands = {p, q}
INVARIANTS TypeOK LockMeansImage
PROPERTIES SkipIsTrue
SYMMETRY Interchangeable
CHECK_DEADLOCK FALSE
