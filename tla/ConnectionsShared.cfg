SPECIFICATION Spec
CONSTANTS
  Procs = {p1, p2}
  Conns = {c1, c2}
  p1 = p1
  p2 = p2
  c1 = c1
  c2 = c2
  Ops = {"connect", "attach", "detach", "disconnect", "plug", "unplug", "connections", "get"}
  Faults = {"driver", "host", "store", "crash"}
  MaxFaults = 1
  Serialize = TRUE
SYMMETRY BothSymmetries
CHECK_DEADLOCK FALSE
INVARIANT DeviceIsMapped
INVARIANT NoLeakedMapping
INVARIANT NoLeakedExport
