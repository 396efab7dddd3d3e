CONSTANTS
  Caps = {"notify", "host_exec"}
  Groups = {"wheel", "video"}
  Versions = {1, 2}
  MaxStarts = 3
SPECIFICATION Spec
INVARIANTS TypeOK MarkerMeansSetUp ListenerIsServed
CHECK_DEADLOCK FALSE
