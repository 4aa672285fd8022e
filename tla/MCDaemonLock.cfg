\* One daemon that leaves, one that comes as it does, one that comes after.
SPECIFICATION Spec
CONSTANTS
  Procs = {p1, p2, p3}
  Inodes = {i1, i2, i3}
  None = None
INVARIANT OneDaemon
CHECK_DEADLOCK FALSE
