\* Bakes of tiers 0 to 2, of contiguous donuts or with a hole of one input tier.
CONSTANTS
  NibbleBase = 2
  HashNibbles = 5
  Digits = 2
  Words = 256
  PrefixOnes <- MCPrefixOnes
  LocalOnes <- MCLocalOnes
  SuffixOnes = 12
  Tiers = {0, 1, 2}
  TierOffset = 16
  DonutSize <- MCDonutSize
  Donuts = 2
  Decks <- MCDecks
  NoHash = none
  Holes = {0, 2}
SPECIFICATION Spec
INVARIANTS EntriesPreserved NothingLost InOrder Explained Regrouped VerifiesBaked FailsOnlyIf
CHECK_DEADLOCK FALSE
