SPECIFICATION Spec
CONSTANTS
  Procs = {p1, p2}
  NoProc = NoProc
  RemoteClock <- MCOneRemote
  MaxLamport = 2
SYMMETRY Symmetry
INVARIANTS TypeOK ClockUnique CursorCovered StateIsDurable
PROPERTY CountersNeverRollBack
