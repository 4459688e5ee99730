SPECIFICATION Spec
CONSTANTS
  Founder = f
  Devices = {f, d1, d2}
  NoDevice = NoDevice
  MaxKeys = 3
  MaxSends = 3
SYMMETRY Symmetry
CHECK_DEADLOCK FALSE
INVARIANTS TypeOK SecretUnlessEarly EpochIsMinted
PROPERTIES OnlyRecoveryReadmits
