\* One index is skipped inside an input tier; the tier is then baked.
CONSTANTS
  Cap = 3
  Donuts = 2
  NTiers = 2
  PrefixCount <- MCPrefixCount
  PrefixOf <- MCPrefixOf
  MaxGpi = 6
  MaxGap = 1
  MaxFaults = 0
SPECIFICATION Spec
INVARIANT LookupComplete
CHECK_DEADLOCK FALSE
