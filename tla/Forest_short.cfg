CONSTANTS
  NibbleBase = 2
  HashBytes = 3
  ReassuranceBytes = 1
  Words = 100000
  Tiers = {1}
  Configs <- MCConfigs
  StoredSets <- MCStoredSets
  Probes <- MCProbes
SPECIFICATION Spec
INVARIANT OpensWhenDone
CHECK_DEADLOCK FALSE
