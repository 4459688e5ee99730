SPECIFICATION Spec
CONSTANTS
  Devices = {d1, d2, d3}
  Creator = d1
  MaxMints = 4
  MaxSends = 4
SYMMETRY Symmetry
PROPERTY AcceptedKeysStay
