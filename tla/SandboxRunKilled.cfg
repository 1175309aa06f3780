SPECIFICATION RunSpec
CONSTANTS
  Backends = {"qemu"}
  Deadline = 2
CHECK_DEADLOCK FALSE
INVARIANTS
  AlwaysDestroyed
