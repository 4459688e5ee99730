SPECIFICATION FairSpec
CONSTANTS
  MaxEntries = 2
  MaxFails = 1
  Capacity = 1
  MaxBackoff = 2
  Self = Self
  MaxEdits = 1
INVARIANTS TypeOK NoLostWakeUp BackoffClimbs ManagedIsWhole UserTextKept
CHECK_DEADLOCK FALSE
PROPERTIES RoundsDeliver 
