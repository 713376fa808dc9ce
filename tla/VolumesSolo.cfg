SPECIFICATION Spec
CONSTANTS
  Procs = {p1}
  Vols = {v1, v2}
  Snaps = {s1}
  p1 = p1
  v1 = v1
  v2 = v2
  s1 = s1
  VolOf <- MCVolOf
  MaxSize = 2
  Ops = {"create", "clone", "restore", "snapshot", "extend", "delete", "get", "refresh", "snapshots", "volumes"}
  Faults = {"driver", "store", "crash"}
  MaxFaults = 2
  Serialize = FALSE
CHECK_DEADLOCK FALSE
INVARIANT TypeOK
INVARIANT ObjectAgreesWithRow
INVARIANT ListingTracksRows
INVARIANT TransientNotRecorded
INVARIANT DeleteSparesKnownSnapshots
