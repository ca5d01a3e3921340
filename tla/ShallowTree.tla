------------------------------ MODULE ShallowTree ------------------------------
(***************************************************************************)
(* The trees of shallowtreebyte/: which byte each node forks on, and what  *)
(* a visitor sees of the result.                                           *)
(*                                                                         *)
(* A node is the set of the hashes below it, and a leaf a set of one. A    *)
(* tree is a function, fork, from its slots nodes to the index of the byte *)
(* they fork on (HashByteIndex, from 1 here): a node's children are the    *)
(* classes of its hashes that agree in that byte. Forest.tla generates     *)
(* fork one node at a time.                                                *)
(***************************************************************************)
EXTENDS Integers, Sequences, FiniteSets, FiniteSetsExt, SequencesExt

CONSTANTS
  NibbleBase,         \* the values of a nibble: 16
  HashBytes,          \* bytes in a hash: 32
  ReassuranceBytes    \* ReassuranceBytesCount: 2

ASSUME ShallowTreeAssumption ==
  /\ NibbleBase \in Nat \ {0, 1}
  /\ HashBytes \in Nat \ {0} /\ ReassuranceBytes \in 0 .. HashBytes

\* The elements of a set in a total order, given as the set of those before each of them
\* (SetToSortSeq goes through all functions).
InOrder(set, before) ==
  LET ranks == {<<x, Cardinality(before[x])>> : x \in set}
  IN  [i \in 1 .. Cardinality(set) |-> CHOOSE x \in set : <<x, i - 1>> \in ranks]
Ascending(numbers) == InOrder(numbers, [n \in numbers |-> {m \in numbers : m < n}])

Power(a, n) ==
  LET power[i \in 0 .. n] == IF i = 0 THEN 1 ELSE a * power[i - 1] IN power[n]

ByteCount == NibbleBase * NibbleBase
ByteValues == 0 .. ByteCount - 1
Bytes == 1 .. HashBytes
Hash == [Bytes -> ByteValues]

\* A definition that is used nowhere is a faulty variant of one that follows it.

(***************************************************************************)
(* NibblesFlags: a byte is free if neither of its nibbles is in the prefix *)
(* of t nibbles or has been examined. An odd prefix ends inside a byte,    *)
(* whose other nibble is then never examined.                              *)
(***************************************************************************)
FreeAfter(t, examined) == {b \in Bytes : 2 * (b - 1) > t} \ examined
Free(t, examined) == {b \in Bytes : 2 * (b - 1) >= t} \ examined

\* Both nibbles of the byte: the prefix of t nibbles as a sequence.
Nibble(hash, i) ==
  LET byte == hash[(i + 1) \div 2]
  IN  IF i % 2 = 1 THEN byte \div NibbleBase ELSE byte % NibbleBase
PrefixOf(hash, t) == [i \in 1 .. t |-> Nibble(hash, i)]

(***************************************************************************)
(* recurseGenerateNode: the free byte with the highest entropy. The        *)
(* entropy of counts c is highest where the product of c^c is lowest;      *)
(* which of several equal ones is taken depends on how floating point      *)
(* sums are rounded.                                                       *)
(***************************************************************************)
WithByte(node, b, v) == {h \in node : h[b] = v}
Split(node, b) == {WithByte(node, b, h[b]) : h \in node}

Unevenness(node, b) ==
  LET slots(v) == Cardinality(WithByte(node, b, v))
      upTo[n \in 0 .. ByteCount] ==
        IF n = 0 THEN 1 ELSE Power(slots(n - 1), slots(n - 1)) * upTo[n - 1]
  IN  upTo[ByteCount]

BestOfAny(node, free) ==
  {b \in free : \A c \in free : Unevenness(node, b) <= Unevenness(node, c)}

\* No byte is best if all hashes agree in every free byte.
Best(node, free) ==
  LET splitting == {b \in free : Cardinality(Split(node, b)) > 1}
  IN  {b \in splitting : \A c \in splitting : Unevenness(node, b) <= Unevenness(node, c)}

(***************************************************************************)
(* The finished tree of a set of hashes after a prefix of t nibbles        *)
(***************************************************************************)
Nodes(fork, hashes) ==
  (IF hashes = {} THEN {} ELSE {hashes}) \cup UNION {Split(n, fork[n]) : n \in DOMAIN fork}

Above(fork, node) == {n \in DOMAIN fork : node \subseteq n /\ node # n}
Examined(fork, node) == {fork[n] : n \in Above(fork, node)}
Level(t, fork, node) == t + 2 * Cardinality(Above(fork, node))
LevelsOf(t, fork, hashes) == {Level(t, fork, n) : n \in Nodes(fork, hashes)}
ActiveSlotsCount(fork, node) ==
  IF node \in DOMAIN fork THEN Cardinality(Split(node, fork[node])) ELSE 0

\* A lone hash is a leaf by itself, and takes its reassurance bytes from the
\* hash's very first byte, whatever the prefix.
FirstFree(free) == SubSeq(Ascending(free), 1, Min({ReassuranceBytes, Cardinality(free)}))
FirstBytes == [i \in 1 .. ReassuranceBytes |-> i]
ReassuranceIndices(t, fork, leaf) ==
  IF fork = <<>> THEN FirstBytes ELSE FirstFree(Free(t, Examined(fork, leaf)))
ReassuranceHashBytes(t, fork, leaf) ==
  LET indices == ReassuranceIndices(t, fork, leaf)
      hash == CHOOSE h \in leaf : TRUE
  IN  [i \in 1 .. Len(indices) |-> hash[indices[i]]]

\* The bytes after the prefix that no fork has examined are too few.
RunsOut(t, fork, leaf) == Cardinality(Free(t, Examined(fork, leaf))) < ReassuranceBytes

\* With an odd prefix the flags never become empty, and the search for the next
\* free byte of a leaf that has none left does not end.
GenerationHangs(t, fork, hashes) ==
  t % 2 = 1 /\ fork # <<>> /\ \E leaf \in Nodes(fork, hashes) \ DOMAIN fork : RunsOut(t, fork, leaf)

\* VisitAllNodes: depth first, the slot of the largest byte value before others.
Visited(fork, nodes) ==
  LET before(m, n) ==
        LET common == CHOOSE c \in DOMAIN fork :
                        /\ m \cup n \subseteq c
                        /\ \A d \in DOMAIN fork : m \cup n \subseteq d => c \subseteq d
            value(node) == (CHOOSE h \in node : TRUE)[fork[common]]
        IN  value(m) > value(n)
  IN  InOrder(nodes, [n \in nodes |-> {m \in nodes \ {n} : before(m, n)}])

AtLevel(t, fork, hashes, level) == {n \in Nodes(fork, hashes) : Level(t, fork, n) = level}
LevelNodes(t, fork, hashes, level) == Visited(fork, AtLevel(t, fork, hashes, level))

================================================================================
