CONSTANTS
  Procs = {p1, p2}
  Ids = {v1}
  Data = {d1, d2}
  Faults = {"store", "crash"}
  MaxFaults = 2
SPECIFICATION Spec
INVARIANTS TypeOK WholeVolumes NoOrphanTypes
PROPERTIES ImplementsStore OnlyRestoresRevive
CHECK_DEADLOCK FALSE
