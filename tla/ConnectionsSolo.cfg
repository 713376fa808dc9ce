SPECIFICATION Spec
CONSTANTS
  Procs = {p1}
  Conns = {c1, c2}
  p1 = p1
  c1 = c1
  c2 = c2
  Ops = {"connect", "attach", "detach", "disconnect", "cleanup", "plug", "unplug", "connections", "get", "get connection", "refresh"}
  Faults = {"driver", "host", "store", "crash"}
  MaxFaults = 2
  Serialize = FALSE
SYMMETRY ConnSymmetry
CHECK_DEADLOCK FALSE
INVARIANT TypeOK
INVARIANT ConnectedIsInUse
INVARIANT NoForgottenDevice
