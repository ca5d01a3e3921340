------------------------------ MODULE NodeFormats ------------------------------
(***************************************************************************)
(* smalltree/: how the nodes of a tree are grouped by format, numbered,    *)
(* encoded, and found again. The formats differ in what they keep for      *)
(* absent slots; what they cost in bytes decides which groups are merged.  *)
(*                                                                         *)
(* c is the configuration: the slot counts at which the formats change     *)
(* (tinyMax is 5 and fullMin 245), NodeFormatSpecsPerLevel (10) and the    *)
(* largest number of two bytes (nodeOnes, 65535), which is also "no        *)
(* match".                                                                 *)
(***************************************************************************)
EXTENDS ShallowTree

CONSTANT Words      \* 2^64

NoMatch == Words - 1
ReadID16(c, id) == IF id = c.nodeOnes THEN NoMatch ELSE id

(***************************************************************************)
(* Groups: nodes with slot counts from start to end, in one format         *)
(***************************************************************************)
Format(c, slots) ==
  IF slots = 0 THEN "leaf"
  ELSE IF slots <= c.tinyMax THEN "tiny"
  ELSE IF slots >= c.fullMin THEN "full" ELSE "medium"

\* No node forks into one slot. A level has room for a group of each of its formats.
IsConfig(c) ==
  /\ {c.tinyMax, c.fullMin, c.nodeOnes, c.specs} \subseteq Nat /\ c.nodeOnes < NoMatch
  /\ Cardinality({Format(c, slots) : slots \in (0 .. ByteCount) \ {1}}) <= c.specs

ByteSize(format, capacity) ==
  CASE format = "tiny" -> 1 + 3 * capacity
    [] format = "medium" -> 34 + 2 * capacity
    [] format = "full" -> 2 + 2 * ByteCount
    [] format = "leaf" -> ReassuranceBytes + 2

GroupBytes(g) == g.count * ByteSize(g.format, g.capacity)

\* The histogram of a level, in numbers of two bytes, makes the first groups.
Histogram(c, fork, nodes) ==
  [s \in 0 .. ByteCount |->
     Cardinality({i \in DOMAIN nodes : ActiveSlotsCount(fork, nodes[i]) = s}) % (c.nodeOnes + 1)]

Proposed(c, histogram) ==
  LET present == Ascending({s \in DOMAIN histogram : histogram[s] > 0})
  IN  [i \in DOMAIN present |->
         LET s == present[i]
         IN  [start |-> s, end |-> s, count |-> histogram[s], format |-> Format(c, s),
              capacity |-> IF Format(c, s) = "full" THEN ByteCount ELSE s]]

\* Neighbours of one format can be merged; the cheapest merge is made, as long as
\* there are too many groups.
MergedNarrow(c, left, right) ==
  [left EXCEPT !.end = right.end, !.count = (left.count + right.count) % (c.nodeOnes + 1)]
Merged(c, left, right) ==
  [left EXCEPT !.end = right.end, !.capacity = right.capacity,
               !.count = (left.count + right.count) % (c.nodeOnes + 1)]
MergeCost(c, groups, i) ==
  (GroupBytes(Merged(c, groups[i], groups[i + 1]))
     - GroupBytes(groups[i]) - GroupBytes(groups[i + 1])) % Words
Cheapest(c, groups) ==
  LET mergeable == {i \in 1 .. Len(groups) - 1 : groups[i].format = groups[i + 1].format}
  IN  CHOOSE i \in mergeable : \A j \in mergeable :
        \/ MergeCost(c, groups, i) < MergeCost(c, groups, j)
        \/ MergeCost(c, groups, i) = MergeCost(c, groups, j) /\ i <= j
RefinedOnce(c, groups) ==
  LET i == Cheapest(c, groups)
  IN  [j \in 1 .. Len(groups) - 1 |->
         IF j < i THEN groups[j]
         ELSE IF j = i THEN Merged(c, groups[i], groups[i + 1]) ELSE groups[j + 1]]
Refined(c, groups) ==
  LET after[n \in 0 .. Len(groups)] ==
        IF n = 0 THEN groups
        ELSE IF Len(after[n - 1]) <= c.specs THEN after[n - 1]
        ELSE RefinedOnce(c, after[n - 1])
  IN  after[Len(groups)]

\* The tiny ones last, otherwise the largest count first.
Sorted(groups) ==
  LET tiny(i) == groups[i].format = "tiny"
      before(i, j) ==
        IF tiny(i) # tiny(j) THEN tiny(j)
        ELSE \/ groups[i].count > groups[j].count
             \/ groups[i].count = groups[j].count /\ i < j
      places == DOMAIN groups
      order == InOrder(places, [j \in places |-> {i \in places : before(i, j)}])
  IN  [i \in DOMAIN groups |-> groups[order[i]]]

LevelGroups(c, fork, nodes) == Sorted(Refined(c, Proposed(c, Histogram(c, fork, nodes))))

(***************************************************************************)
(* Encoding. A level's nodes are written group by group, and within a      *)
(* group in the order of the visit; the ids count on over the groups.      *)
(***************************************************************************)
GroupOf(groups, slots) ==
  LET holding == {g \in DOMAIN groups : slots \in groups[g].start .. groups[g].end}
  IN  IF holding = {} THEN 1 ELSE CHOOSE g \in holding : TRUE

Members(groups, fork, nodes, g) ==
  LET places == Ascending({i \in DOMAIN nodes :
                             GroupOf(groups, ActiveSlotsCount(fork, nodes[i])) = g})
  IN  [i \in DOMAIN places |-> nodes[places[i]]]

FirstId(groups, g) ==
  LET first[i \in 0 .. Len(groups)] == IF i = 0 THEN 0 ELSE first[i - 1] + groups[i].count
  IN  first[g - 1]

NodeId(groups, fork, nodes, node) ==
  LET g == GroupOf(groups, ActiveSlotsCount(fork, node))
      members == Members(groups, fork, nodes, g)
  IN  FirstId(groups, g) + (CHOOSE i \in DOMAIN members : members[i] = node) - 1

\* "Too many nodes" for a group, or an id that two bytes cannot hold.
EncodePanics(c, fork, nodes) ==
  LET groups == LevelGroups(c, fork, nodes)
  IN  \/ groups = <<>> /\ nodes # <<>>
      \/ \E g \in DOMAIN groups : Len(Members(groups, fork, nodes, g)) > groups[g].count
      \/ Len(nodes) > c.nodeOnes + 1

PaddedTo(seq, n, filler) == [i \in 1 .. n |-> IF i <= Len(seq) THEN seq[i] ELSE filler]

LeafNode(t, fork, stored, leaf) ==
  [kind |-> "leaf",
   bytes |-> PaddedTo(ReassuranceHashBytes(t, fork, leaf), ReassuranceBytes, 0),
   pi |-> stored[CHOOSE h \in leaf : TRUE]]

\* The pairs of byte value and id that the format keeps. Only a tiny node has
\* room for pairs that are not there.
SlotsNode(fork, node, group, below, groupsBelow) ==
  LET values == Ascending({h[fork[node]] : h \in node})
      id(v) == NodeId(groupsBelow, fork, below, WithByte(node, fork[node], v))
      pairs == [i \in DOMAIN values |-> <<values[i], id(values[i])>>]
  IN  [kind |-> "slots", byte |-> fork[node],
       pairs |-> IF group.format = "tiny" THEN PaddedTo(pairs, group.capacity, <<0, 0>>)
                 ELSE pairs]

Encoded(c, t, fork, stored, level) ==
  LET nodes == LevelNodes(t, fork, DOMAIN stored, level)
      below == LevelNodes(t, fork, DOMAIN stored, level + 2)
      groups == LevelGroups(c, fork, nodes)
      groupsBelow == LevelGroups(c, fork, below)
      written(g) == LET members == Members(groups, fork, nodes, g)
                    IN  [i \in DOMAIN members |->
                           IF members[i] \in DOMAIN fork
                           THEN SlotsNode(fork, members[i], groups[g], below, groupsBelow)
                           ELSE LeafNode(t, fork, stored, members[i])]
  IN  [counts |-> [g \in DOMAIN groups |-> groups[g].count],
       nodes |-> FlattenSeq([g \in DOMAIN groups |-> written(g)])]

(***************************************************************************)
(* Decoding: the node of an id, and the id that a byte value leads to      *)
(***************************************************************************)
\* extractNode: the first group whose ids go beyond id.
HoldsNode(c, encoded, id) ==
  LET counts == encoded.counts
      end[g \in 0 .. Len(counts)] ==
        IF g = 0 THEN 0 ELSE (end[g - 1] + ReadID16(c, counts[g])) % Words
  IN  id < Len(encoded.nodes) /\ \E g \in DOMAIN counts : end[g] > id
GetNode(encoded, id) == encoded.nodes[id + 1]

GetNextNode(c, node, valSeen) ==
  LET slots == {i \in DOMAIN node.pairs : node.pairs[i][1] = valSeen}
  IN  IF slots = {} THEN NoMatch ELSE ReadID16(c, node.pairs[Min(slots)][2])

================================================================================
