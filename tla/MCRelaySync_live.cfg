SPECIFICATION FairSpec
CONSTANTS
  d1 = d1
  d2 = d2
  s1 = s1
  Nil = Nil
  Devices = {d1, d2}
  Shares = {Nil, s1}
  InitialKeys <- NoHolder
  Mintable = {s1}
  MaxWrites = 2
  MaxFails = 1
  MaxRemoves = 0
PROPERTIES EventuallyDelivered UndisturbedCatchUp
