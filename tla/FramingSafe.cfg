CONSTANTS
  Base = 4
  MAX_FRAME_SIZE = 11
  Scripts <- SomeScripts
SPECIFICATION WireSpec
INVARIANTS WireTypeOK InStep
PROPERTY QuietAfterTear
CHECK_DEADLOCK FALSE
