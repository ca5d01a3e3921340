\* Lookups that meet the padding of a tiny node, in tier 0.
CONSTANTS
  NibbleBase = 2
  HashBytes = 3
  ReassuranceBytes = 1
  Words = 100000
  Tiers = {0}
  Configs <- MCConfigs
  StoredSets <- MCStoredSets
  Probes <- MCProbes
SPECIFICATION Spec
INVARIANT EmptySlotsLeadNowhere
CHECK_DEADLOCK FALSE
