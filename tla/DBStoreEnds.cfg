CONSTANTS
  Procs = {p1, p2}
  Ids = {v1}
  Data = {d1}
  Faults = {"store", "crash"}
  MaxFaults = 2
SPECIFICATION FairSpec
PROPERTIES CallsEnd RetriesEndRecorded
CHECK_DEADLOCK FALSE
