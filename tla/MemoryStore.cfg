CONSTANTS
  VolRefs = {r1, r2}
  SnapRefs = {o1, o2, o3}
  Snaps = {s1, s2}
  None = None
  MaxRestarts = 1
  MaxHollow = 1
SPECIFICATION Spec
SYMMETRY Symmetry
INVARIANTS TypeOK ListIsStore DumpedComesBack
CHECK_DEADLOCK FALSE
