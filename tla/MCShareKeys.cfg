SPECIFICATION FairSpec
CONSTANTS
  Devices = {d1, d2, d3}
  Creator = d1
  MaxMints = 3
  MaxSends = 3
INVARIANTS TypeOK OneRotationPerEpoch NewerListIsNoticed RemovedLearnsNothing
PROPERTIES KeysKeptUnlessForked MembersHeal
