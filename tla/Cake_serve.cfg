\* No crashes and no gaps: three cascades deep, up to the last tier filling up.
CONSTANTS
  Cap = 2
  Donuts = 3
  NTiers = 3
  PrefixCount <- MCPrefixCount
  PrefixOf <- MCPrefixOf
  MaxGpi = 55
  MaxGap = 0
  MaxFaults = 0
SPECIFICATION Spec
INVARIANTS LookupComplete Shared ReopenFaithful Odometer NoOrphans OpenAfterCrash
PROPERTY ServiceSpec
CHECK_DEADLOCK FALSE
