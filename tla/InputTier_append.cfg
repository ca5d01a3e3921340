\* A tier of four, with gaps that may jump over its end, and two faults.
CONSTANTS
  Hashes = {h1, h2, h3, h4, h5}
  NoHash = none
  Offset = 1
  Ones2 = 4
  Ones3 = 6
  MaxGpi = 9
  MaxGap = 2
  MaxFaults = 2
SYMMETRY HashSymmetry
SPECIFICATION Spec
INVARIANTS NeverMisread LookupsExact ReadBackSame ReopensUntilFull
PROPERTY SuffixSpec
CHECK_DEADLOCK FALSE
