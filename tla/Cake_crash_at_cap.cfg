\* The process dies when an input tier is full but not yet recorded as frozen.
CONSTANTS
  Cap = 2
  Donuts = 2
  NTiers = 2
  PrefixCount <- MCPrefixCount
  PrefixOf <- MCPrefixOf
  MaxGpi = 6
  MaxGap = 0
  MaxFaults = 1
SPECIFICATION Spec
INVARIANT LocalPiFits
CHECK_DEADLOCK FALSE
