\* The process dies between the two writes of an append.
CONSTANTS
  Hashes = {h1, h2, h3}
  NoHash = none
  Offset = 1
  Ones2 = 3
  Ones3 = 5
  MaxGpi = 8
  MaxGap = 1
  MaxFaults = 1
SPECIFICATION Spec
INVARIANT EntriesPaired
CHECK_DEADLOCK FALSE
