------------------------------ MODULE MCTierBake ------------------------------
(***************************************************************************)
(* Small bakes for TLC: nibbles are bits, a hash has five of them, a donut *)
(* of tier 0 has two local indices and every tier has two donuts.          *)
(***************************************************************************)
EXTENDS TierBakeInvariant, TLC

MCPrefixOnes == (0 :> 0) @@ (1 :> 3) @@ (2 :> 3) @@ (3 :> 15)
MCLocalOnes == (0 :> 2) @@ (1 :> 8) @@ (2 :> 8) @@ (3 :> 63)
MCDonutSize == (0 :> 2) @@ (1 :> 4) @@ (2 :> 8)

\* 16 of the n hashes with the lowest numbers, in an order that scatters their
\* prefixes, with gaps at some even places.
Deck(n, step, from, gaps) ==
  [i \in 1 .. 16 |-> IF i \in gaps THEN NoHash
                     ELSE PrefixNibbles((step * i + from) % n, HashNibbles)]

\* All 32 hashes, or only those whose first two nibbles are not all ones.
MCDecks ==
  {Deck(n, step, from, gaps) : n \in {24, 32}, step \in {1, 5, 7, 11}, from \in {0, 3, 14},
                               gaps \in {{}, {2}, {4, 6, 14}}}
=============================================================================
