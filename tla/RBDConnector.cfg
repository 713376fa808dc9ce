CONSTANTS
  Clients = {c1, c2}
  Vols = {v1, v2}
  Devices = {d1, d2, d3}
  None = None
  MaxFaults = 2
SPECIFICATION FairSpec
INVARIANTS TypeOK HeldIsOwn MappedIsFound ConfsAccounted
PROPERTIES RetriesEndDisconnected
CHECK_DEADLOCK FALSE
