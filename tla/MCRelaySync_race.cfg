SPECIFICATION Spec
CONSTANTS
  d1 = d1
  d2 = d2
  s1 = s1
  Nil = Nil
  Devices = {d1, d2}
  Shares = {Nil, s1}
  InitialKeys <- OneHolder
  Mintable = {}
  MaxWrites = 1
  MaxFails = 0
  MaxRemoves = 0
INVARIANT CursorMissesNothing
