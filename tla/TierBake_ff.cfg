\* Contiguous tiers, with every prefix there is.
CONSTANTS
  NibbleBase = 2
  HashNibbles = 5
  Digits = 2
  Words = 256
  PrefixOnes <- MCPrefixOnes
  LocalOnes <- MCLocalOnes
  SuffixOnes = 12
  Tiers = {0, 1, 2}
  TierOffset = 16
  DonutSize <- MCDonutSize
  Donuts = 2
  Decks <- MCDecks
  NoHash = none
  Holes = {0}
SPECIFICATION Spec
INVARIANT PrefixFits
CHECK_DEADLOCK FALSE
