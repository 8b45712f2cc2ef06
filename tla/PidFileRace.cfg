CONSTANTS
  p1 = p1
  p2 = p2
  p3 = p3
  p4 = p4
  Procs = {p1, p2, p3}
  Teardowns = {}
  None = None
  Concurrent = TRUE
SYMMETRY ProcSymmetry
SPECIFICATION Spec
INVARIANT
  SingleDaemon
CHECK_DEADLOCK FALSE
