\* Up to two crashes between any two file operations, and gaps of one index; after an
\* error the caller may go on with the open cake. Tiers of three donuts, so that a missing
\* one can be in the middle.
CONSTANTS
  Cap = 2
  Donuts = 3
  NTiers = 3
  PrefixCount <- MCPrefixCount
  PrefixOf <- MCPrefixOf
  MaxGpi = 18
  MaxGap = 1
  MaxFaults = 2
SPECIFICATION FairSpec
INVARIANTS TypeOK Inductive InputAhead Traced Tidy Durable LookupSound CurrentInputNotSealed
PROPERTIES ServedImmutable InputOffsetAdvances ArchiveSpec PipelineEnds
CHECK_DEADLOCK FALSE
