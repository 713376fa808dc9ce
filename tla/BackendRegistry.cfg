CONSTANTS
  Threads = {t1, t2}
  Names = {n1, n2}
  Stores = {s1, s2}
  MaxObjects = 3
  MaxFaults = 1
SPECIFICATION Spec
INVARIANTS TypeOK DriversShareStore OneAttemptPerName SectionsStay
CHECK_DEADLOCK FALSE
