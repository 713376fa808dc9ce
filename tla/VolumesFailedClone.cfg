SPECIFICATION Spec
CONSTANTS
  Procs = {p1}
  Vols = {v1, v2}
  Snaps = {}
  p1 = p1
  v1 = v1
  v2 = v2
  VolOf <- MCVolOf
  MaxSize = 1
  Ops = {"create", "clone"}
  Faults = {"driver"}
  MaxFaults = 1
  Serialize = FALSE
CHECK_DEADLOCK FALSE
PROPERTY FailedCloneIsRecordedAsError
