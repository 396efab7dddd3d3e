SPECIFICATION Spec
CONSTANTS
  Versions = {1, 2}
  Prebuilt = {2}
  Proxied = {1}
INVARIANTS TypeOK DisableStaysDown
PROPERTIES InstallConverges InstallServes
CHECK_DEADLOCK FALSE
