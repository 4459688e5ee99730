SPECIFICATION Spec
CONSTANTS
  Appliers = {p1, p2}
  Views = {{1}, {1, 2}}
  MaxEdits = 0
SYMMETRY Symmetry
INVARIANT RegeneratedAtomically
CHECK_DEADLOCK FALSE
