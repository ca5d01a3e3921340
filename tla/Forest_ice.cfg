\* Icings of tiers 0 to 2, in four configurations.
CONSTANTS
  NibbleBase = 2
  HashBytes = 3
  ReassuranceBytes = 1
  Words = 100000
  Tiers = {0, 1, 2}
  Configs <- MCConfigs
  StoredSets <- MCStoredSets
  Probes <- MCProbes
SPECIFICATION Spec
INVARIANTS OpenReadsBack IcedFound CandidateAgrees PanicsOnlyIf OpensIff RowsAccounted TreesFit
CHECK_DEADLOCK FALSE
