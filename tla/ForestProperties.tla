---------------------------- MODULE ForestProperties ---------------------------
(***************************************************************************)
(* What an icing promises to Tier.LookupHash: a stored hash is found, and  *)
(* of a hash that is not stored it answers nothing, or a candidate that    *)
(* VerifyHash has yet to confirm.                                          *)
(***************************************************************************)
EXTENDS Forest

Done == pc = "done"
Lone(p) == Cardinality(HashesOf(p)) = 1
TooMany(f, hashes) ==
  \E l \in LevelsOf(tier, f, hashes) : Cardinality(AtLevel(tier, f, hashes, l)) > config.nodeOnes
Crowded(p) == TooMany(forks[p + 1], HashesOf(p))

\* The nodes at level l have examined this many bytes, and leave too few.
Depth(l) == (l - tier) \div 2
Exhausted(l) == Cardinality(Free(tier, {})) - Depth(l) < ReassuranceBytes
RunsShort(p) == \E l \in DOMAIN trees[p + 1] : Exhausted(l)

\* What a lone leaf keeps of its hash is not what a lookup compares it with.
Misread(h) ==
  LET compared == FirstFree(Free(tier, {}))
  IN  \E i \in DOMAIN compared : h[FirstBytes[i]] # h[compared[i]]

\* A tiny node that was merged with larger ones has pairs that stand for nothing.
Padded(p) ==
  \E l \in DOMAIN trees[p + 1] : \E i \in DOMAIN trees[p + 1][l].nodes :
    LET node == trees[p + 1][l].nodes[i]
    IN  node.kind = "slots" /\ \E j \in DOMAIN node.pairs : j > 1 /\ node.pairs[j][1] = 0

\* The way of h leads to node n, none of whose hashes has the byte that h has there.
StepsOff(p, h, n) ==
  LET f == forks[p + 1]
  IN  \A g \in n : g[f[n]] # h[f[n]] /\ \A b \in Examined(f, n) : g[b] = h[b]
MeetsPadding(p, h) ==
  Padded(p) /\ \E n \in DOMAIN forks[p + 1] : StepsOff(p, h, n) /\ h[forks[p + 1][n]] = 0

LeafLevel(p, h) ==
  CHOOSE l \in DOMAIN trees[p + 1] : \E i \in DOMAIN trees[p + 1][l].nodes :
    LET node == trees[p + 1][l].nodes[i] IN node.kind = "leaf" /\ node.pi = stored[h]

\* A forest that is only partly written is refused, or reads back as it was
\* encoded: the rows of the lengths files keep the trees apart, whichever levels
\* each of them reaches (forestwrite.go:21-22, forestread.go:53-126).
OpenReadsBack ==
  Opens => \A p \in 0 .. PrefixCount - 1 :
             /\ {l \in DOMAIN lengths : HasBytes(l, p)} = DOMAIN trees[p + 1]
             /\ \A l \in DOMAIN trees[p + 1] : Blob(l, p) = trees[p + 1][l]

\* Every stored hash is found at its index, whatever formats its nodes are merged
\* into and however the entropies tie (forestread.go:143-194 on what
\* nodeformatencoder.go wrote). Nothing is said of a hash whose tree has a level with
\* more nodes than two bytes can name (Crowded) or a level at which fewer than
\* ReassuranceBytes bytes are left (RunsShort), nor of one that is alone in its prefix and
\* begins with other bytes than it has after the prefix: that is for LoneHashFound.
IcedFound ==
  Done /\ Opens =>
    \A h \in DOMAIN stored :
      LET p == PrefixIndex(h)
      IN  \/ Lookup(h) = stored[h]
          \/ Crowded(p) \/ RunsShort(p) \/ (Lone(p) /\ Misread(h))

\* A stored hash that is alone in its prefix is found: its leaf, like any other, keeps
\* "bytes, out of the hash bytes that haven't been examined yet" (shallowtree.go:383-384),
\* which is what a lookup compares (forestread.go:164-176).
LoneHashFound ==
  Done /\ Opens =>
    \A h \in DOMAIN stored : Lone(PrefixIndex(h)) => Lookup(h) = stored[h]

\* Of a hash that is not stored, a lookup answers nothing, or the index of a hash g in
\* the same prefix that agrees with it in the bytes on the way to g and in
\* ReassuranceBytes more (forestread.go:161-178); above tier 0 a hash that is alone in
\* its prefix may agree in fewer, since its leaf keeps other bytes (shallowtree.go:121).
\* Any answer, a panic among them, is allowed in these cases only: nothing is stored
\* under the prefix, whose root is then no node (forestread.go:151-154); Crowded and
\* RunsShort, as above; and MeetsPadding: the way ends at a missing slot for the value
\* 0, which padding may stand for (nodeformatencoder.go:365): EmptySlotsLeadNowhere.
CandidateAgrees ==
  Done /\ Opens =>
    \A h \in Probes \ DOMAIN stored :
      LET p == PrefixIndex(h)
          common(g) == {b \in Free(tier, {}) : g[b] = h[b]}
      IN  \/ Lookup(h) = NoMatch
          \/ \E g \in HashesOf(p) :
               /\ Lookup(h) = stored[g]
               /\ \/ Cardinality(common(g)) >= Depth(LeafLevel(p, g)) + ReassuranceBytes
                  \/ Lone(p) /\ tier > 0
          \/ HashesOf(p) = {} \/ Crowded(p) \/ RunsShort(p) \/ MeetsPadding(p, h)

\* A hash whose way ends at a node without a slot for its byte is answered nothing, in a
\* tiny node with room to spare too: "the zero bytes for nodeId imply an empty slot"
\* (nodeformatencoder.go:339-340, 365-366; nodeformatdecoder.go:241-254 reads it).
EmptySlotsLeadNowhere ==
  Done /\ Opens =>
    \A h \in Probes :
      LET p == PrefixIndex(h)
      IN  (\E n \in DOMAIN forks[p + 1] : StepsOff(p, h, n)) /\ ~Crowded(p) => Lookup(h) = NoMatch

\* The icing fails only if an odd prefix ends inside the one byte in which two
\* hashes differ (shallowtree.go:336-340) or leaves a leaf too few bytes
\* (shallowtree.go:388-396), or if a level has more nodes than two bytes can name.
\* By then the bake has removed its sources.
PanicsOnlyIf ==
  /\ pc = "panicked" =>
       \/ /\ tier % 2 = 1
          /\ \E g, h \in HashesOf(prefix) : g # h /\ \A b \in Free(tier, {}) : g[b] = h[b]
       \/ TooMany(fork, HashesOf(prefix))
  /\ pc = "hung" => tier % 2 = 1 /\ \E l \in Levels : Exhausted(l)

\* A forest opens exactly if every level that the tree of a prefix has is a level
\* of the trees of all later ones: AppendTreeForPrefix catches up with the prefixes
\* before the first such tree, and with no others (forestwrite.go:87-105).
OpensIff ==
  Done => (Opens <=> \A p, q \in 1 .. PrefixCount : p < q => DOMAIN trees[p] \subseteq DOMAIN trees[q])

\* A forest that was written without an error can be opened: the lengths files
\* are indexed by the prefix (forestwrite.go:22-25).
OpensWhenDone == Done => Opens

================================================================================
