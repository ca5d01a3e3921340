----------------------------- MODULE ForestInvariant ----------------------------
(***************************************************************************)
(* The inductive invariants of an icing: of the files, and of the trees.   *)
(***************************************************************************)
EXTENDS ForestProperties

(***************************************************************************)
(* Why the rows keep the trees apart: with this, OpenReadsBack and OpensIff *)
(* follow at any time.                                                     *)
(***************************************************************************)
IsSequence(s) == s \in Seq(Range(s))

\* The file of roots and the list of trees grow together.
ControlFits ==
  /\ pc \in {"prefix", "fork", "append", "done", "panicked", "hung"}
  /\ tier \in Tiers /\ prefix \in Nat /\ level \in Nat /\ IsFiniteSet(DOMAIN fork)
  /\ IsSequence(roots) /\ Len(roots) = prefix
  /\ IsSequence(trees) /\ Len(trees) = prefix + IF pc = "append" THEN 1 ELSE 0
  /\ \A p \in 1 .. Len(trees) : DOMAIN trees[p] \subseteq Nat
  /\ pc \in {"fork", "append", "panicked", "hung"} => prefix < PrefixCount
  /\ pc = "append" => DOMAIN trees[prefix + 1] = Levels
  /\ pc = "done" => prefix = PrefixCount

\* The rows of level l and the encoded levels they are about, when the level has been
\* appended for the first n trees, where they have it. The file falls behind at the
\* first tree that lacks the level after one that has it, and never catches up. Until
\* then its rows say which trees have the level, and count what is encoded of them.
KeptUpTo(l, n, made) ==
  \A p, q \in 1 .. n : p < q /\ l \in DOMAIN made[p] => l \in DOMAIN made[q]
Ones(rows, n) == Cardinality({q \in 1 .. n : rows[q] = 1})
LevelFits(l, n, made, rows, encoded) ==
  /\ \E p \in 1 .. n : l \in DOMAIN made[p]
  /\ rows \in Seq({0, 1}) /\ Len(rows) <= n
  /\ Len(rows) = n <=> KeptUpTo(l, n, made)
  /\ IsSequence(encoded) /\ Len(encoded) = Ones(rows, Len(rows))
  /\ KeptUpTo(l, n, made) => \A p \in 1 .. n :
       /\ rows[p] = IF l \in DOMAIN made[p] THEN 1 ELSE 0
       /\ l \in DOMAIN made[p] => encoded[Ones(rows, p)] = made[p][l]

\* The levels that have files are those of the trees so far.
TreesAppended(l) == prefix + IF pc = "append" /\ l < level THEN 1 ELSE 0
RowsFit ==
  /\ DOMAIN lengths \subseteq Nat /\ DOMAIN blobs = DOMAIN lengths
  /\ \A p \in 1 .. Len(trees) : \A l \in DOMAIN trees[p] :
       p <= TreesAppended(l) => l \in DOMAIN lengths
  /\ \A l \in DOMAIN lengths : LevelFits(l, TreesAppended(l), trees, lengths[l], blobs[l])

RowsAccounted == ControlFits /\ RowsFit

(***************************************************************************)
(* Why the trees are as the lookups take them to be: with this, IcedFound, *)
(* CandidateAgrees and PanicsOnlyIf follow.                                *)
(***************************************************************************)
\* Two nodes have no hash in common, or one is in a slot of the other. A node forks on a
\* byte that is free where it is and in which its hashes differ.
Below(f, n, m) == m \in DOMAIN f /\ \E part \in Split(m, f[m]) : n \subseteq part
IsTree(t, f, hashes) ==
  /\ IsFiniteSet(DOMAIN f) /\ f \in [DOMAIN f -> Bytes]
  /\ DOMAIN f \subseteq Nodes(f, hashes) /\ Nodes(f, hashes) \subseteq SUBSET hashes
  /\ \A m, n \in Nodes(f, hashes) : m = n \/ m \cap n = {} \/ Below(f, n, m) \/ Below(f, m, n)
  /\ \A n \in DOMAIN f : /\ f[n] \in Free(t, Examined(f, n))
                         /\ \E g, h \in n : g[f[n]] # h[f[n]]
Crowds(f, hashes) == {n \in Nodes(f, hashes) : Cardinality(n) > 1}

\* The nodes that are still to be forked are those with hashes to tell apart.
TreeGrows ==
  pc \in {"fork", "panicked", "hung", "append"} =>
    /\ IsTree(tier, fork, HashesOf(prefix))
    /\ todo = Crowds(fork, HashesOf(prefix)) \ DOMAIN fork

\* What was encoded is a tree in which every hash has a leaf.
RootOf(hashes) ==
  IF hashes = {} THEN [level |-> EmptyTreeLevel, id |-> config.nodeOnes]
  ELSE [level |-> tier, id |-> 0]
EncodedFrom(f, p) ==
  [l \in LevelsOf(tier, f, HashesOf(p)) |-> Encoded(config, tier, f, Content(p), l)]
TreesFinished ==
  /\ IsSequence(forks) /\ Len(forks) = Len(trees)
  /\ \A p \in 1 .. Len(trees) :
       LET hashes == HashesOf(p - 1)
       IN  /\ IsTree(tier, forks[p], hashes) /\ Crowds(forks[p], hashes) \subseteq DOMAIN forks[p]
           /\ trees[p] = EncodedFrom(forks[p], p - 1)
           /\ p <= Len(roots) => roots[p] = RootOf(hashes)
  /\ pc = "append" => forks[prefix + 1] = fork

TreesFit == config \in Configs /\ stored \in StoredSets /\ TreeGrows /\ TreesFinished
            /\ PanicsOnlyIf

================================================================================
