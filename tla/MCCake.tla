-------------------------------- MODULE MCCake --------------------------------
(***************************************************************************)
(* Small wedding cakes for TLC.                                            *)
(***************************************************************************)
EXTENDS CakeInvariant

\* 2^t suffix files in a donut of tier t, where the code has 16^t.
TwoToThe(t) == IF t = 0 THEN 1 ELSE IF t = 1 THEN 2 ELSE 4

MCPrefixCount == [t \in Tiers |-> TwoToThe(t)]

\* Hash h starts with the two bits of (h * 3) % 4, most significant first, so
\* that neighbours land in different files and every file has several hashes.
MCPrefixOf ==
  [t \in Tiers |-> [h \in Hashes |-> ((3 * h) % 4) \div (4 \div TwoToThe(t))]]
=============================================================================
