SPECIFICATION Spec
CONSTANTS
  Procs = {p1, p2}
  Records = {r1}
  Shares = {Nil, s1}
  Nil = Nil
  Mintings = {k1}
  MaxEpochs = 2
  MaxLog = 3
  Threshold = 1
  None = None
SYMMETRY Symmetry
INVARIANT TypeOK
PROPERTY Transparent
