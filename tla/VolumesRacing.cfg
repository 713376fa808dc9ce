SPECIFICATION Spec
CONSTANTS
  Procs = {p1, p2}
  Vols = {v1}
  Snaps = {s1}
  p1 = p1
  p2 = p2
  v1 = v1
  s1 = s1
  VolOf <- MCVolOf
  MaxSize = 2
  Ops = {"create", "snapshot", "extend", "delete", "get", "refresh"}
  Faults = {"driver", "store", "crash"}
  MaxFaults = 2
  Serialize = FALSE
SYMMETRY ProcSymmetry
CHECK_DEADLOCK FALSE
INVARIANT DeleteIsFinal
INVARIANT SizeIsBacked
INVARIANT LinkedIsListed
