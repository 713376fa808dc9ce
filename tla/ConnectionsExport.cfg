SPECIFICATION Spec
CONSTANTS
  Procs = {p1}
  Conns = {c1, c2}
  p1 = p1
  c1 = c1
  c2 = c2
  Ops = {"connect", "disconnect", "get"}
  Faults = {}
  MaxFaults = 0
  Serialize = FALSE
SYMMETRY ConnSymmetry
CHECK_DEADLOCK FALSE
INVARIANT ConnectedIsExported
