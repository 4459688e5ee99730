SPECIFICATION Spec
CONSTANTS
  Devices <- MCDevices
  Ids = {i1}
  Names = {alias, hostname}
  Values = {a, b}
  Shares = {nil, s1}
  None = None
  NameField = alias
  AddKinds <- MCHost
  InitialHeld <- MCLateKeys
  MaxEntries = 3
SYMMETRY Symmetry
INVARIANTS TypeOK StrongConvergence ClockNamesOneWrite LamportCoversState
PROPERTIES NoResurrection ReaderWriteWins
