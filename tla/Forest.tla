--------------------------------- MODULE Forest --------------------------------
(***************************************************************************)
(* The icing of a donut: cake.go's IceTheDonut makes a tree for every      *)
(* prefix (shallowtreebyte/), encodes it (smalltree/) and appends it to    *)
(* the files of the forest (forest/), which a lookup then reads.           *)
(*                                                                         *)
(* All trees share a file of roots, and one file of lengths and one of     *)
(* nodes per level. The file of lengths is the index of the other: its row *)
(* p is about prefix p. It is made when a tree first reaches the level,    *)
(* with rows of zeros for the prefixes before that one.                    *)
(***************************************************************************)
EXTENDS NodeFormats

CONSTANTS
  Tiers,          \* tiers whose donuts are iced
  Configs,        \* configurations, as NodeFormats has them
  StoredSets,     \* what the suffix files of a donut may hold: hash -> local index
  Probes          \* hashes to look up

ASSUME ForestAssumption ==
  /\ Tiers \subseteq 0 .. 2 * HashBytes - 1
  /\ Words \in Nat /\ \A c \in Configs : IsConfig(c)
  /\ Probes \subseteq Hash
  /\ \A s \in StoredSets :
       /\ IsFiniteSet(DOMAIN s) /\ DOMAIN s \subseteq Hash
       /\ \A g, h \in DOMAIN s : s[h] \in Nat /\ (s[g] = s[h] => g = h)

VARIABLES
  config,     \* the configuration,
  tier,       \*   the tier
  stored,     \*   and the entries of the donut that is iced
  pc,         \* "prefix", "fork", "append", "done", "panicked" or "hung"
  prefix,     \* the prefix index whose tree is being made
  fork,       \* its tree so far
  todo,       \* its slots nodes that recurseGenerateNode has still to fork
  level,      \* the next level to append
  roots,      \* TreesRoots.bin
  lengths,    \* Level<LL>Lengths.bin: level -> a row per prefix, 0 for no bytes
  blobs,      \* Level<LL>Nodes.bin: level -> the encoded levels in it
  trees,      \* what was encoded for each prefix so far,
  forks       \*   and the trees it was encoded from (history)

tree == <<prefix, fork, todo, level>>
files == <<roots, lengths, blobs>>
history == <<trees, forks>>
given == <<config, tier, stored>>
vars == <<given, pc, tree, files, history>>

PrefixCount == Power(NibbleBase, tier)
IndexOfNibbles(nibbles) ==
  LET index[i \in 0 .. Len(nibbles)] ==
        IF i = 0 THEN 0 ELSE NibbleBase * index[i - 1] + nibbles[i]
  IN  index[Len(nibbles)]
PrefixIndex(hash) == IndexOfNibbles(PrefixOf(hash, tier))
HashesOf(p) == {h \in DOMAIN stored : PrefixIndex(h) = p}
Content(p) == Restrict(stored, HashesOf(p))

EmptyTreeLevel == 255

Put(f, x, v) == [y \in DOMAIN f \cup {x} |-> IF y = x THEN v ELSE f[y]]

Init ==
  /\ config \in Configs /\ tier \in Tiers /\ stored \in StoredSets
  /\ pc = "prefix" /\ prefix = 0 /\ fork = <<>> /\ todo = {} /\ level = 0
  /\ roots = <<>> /\ lengths = <<>> /\ blobs = <<>>
  /\ trees = <<>> /\ forks = <<>>

(***************************************************************************)
(* Making the forest                                                       *)
(***************************************************************************)
\* IceTheDonut reads the suffix file of the next prefix.
TakePrefix ==
  /\ pc = "prefix" /\ prefix < PrefixCount
  /\ pc' = "fork"
  /\ fork' = <<>>
  /\ todo' = {n \in {HashesOf(prefix)} : Cardinality(n) > 1}
  /\ UNCHANGED <<given, prefix, level, files, history>>

\* recurseGenerateNode
Fork ==
  /\ pc = "fork" /\ todo # {}
  /\ LET node == CHOOSE n \in todo : TRUE
     IN  \E b \in Best(node, Free(tier, Examined(fork, node))) :
           /\ fork' = Put(fork, node, b)
           /\ todo' = (todo \ {node}) \cup {n \in Split(node, b) : Cardinality(n) > 1}
  /\ UNCHANGED <<given, pc, prefix, level, files, history>>

\* "Duplicate hashes are not tolerated"
ForkPanics ==
  /\ pc = "fork"
  /\ \E node \in todo : Best(node, Free(tier, Examined(fork, node))) = {}
  /\ pc' = "panicked"
  /\ UNCHANGED <<given, tree, files, history>>

\* The search for a leaf's reassurance bytes does not end.
ForkHangs ==
  /\ pc = "fork" /\ todo = {}
  /\ GenerationHangs(tier, fork, HashesOf(prefix))
  /\ pc' = "hung"
  /\ UNCHANGED <<given, tree, files, history>>

Levels == LevelsOf(tier, fork, HashesOf(prefix))

Encode ==
  /\ pc = "fork" /\ todo = {} /\ ~GenerationHangs(tier, fork, HashesOf(prefix))
  /\ IF \E l \in Levels :
          EncodePanics(config, fork, LevelNodes(tier, fork, HashesOf(prefix), l))
     THEN pc' = "panicked" /\ UNCHANGED history
     ELSE /\ pc' = "append"
          /\ trees' = Append(trees, [l \in Levels |->
                                       Encoded(config, tier, fork, Content(prefix), l)])
          /\ forks' = Append(forks, fork)
  /\ level' = 0
  /\ UNCHANGED <<given, prefix, fork, todo, files>>

\* AppendTreeForPrefix: the levels upwards, and then the root.
NoRows(p) == <<>>
ZeroRows(p) == [i \in 1 .. p |-> 0]

Appended(file, l, start, item) ==
  Put(file, l, Append(IF l \in DOMAIN file THEN file[l] ELSE start, item))

AppendLevel ==
  /\ pc = "append" /\ \E l \in Levels : l >= level
  /\ LET l == Min({m \in Levels : m >= level})
     IN  /\ lengths' = Appended(lengths, l, ZeroRows(prefix), 1)
         /\ blobs' = Appended(blobs, l, <<>>, trees[prefix + 1][l])
         /\ level' = l + 1
  /\ UNCHANGED <<given, pc, prefix, fork, todo, roots, history>>

AppendRoot ==
  /\ pc = "append" /\ \A l \in Levels : l < level
  /\ roots' = Append(roots, IF Levels = {} THEN [level |-> EmptyTreeLevel, id |-> config.nodeOnes]
                            ELSE [level |-> Min(Levels), id |-> 0])
  /\ prefix' = prefix + 1
  /\ pc' = IF prefix + 1 = PrefixCount THEN "done" ELSE "prefix"
  /\ UNCHANGED <<given, fork, todo, level, lengths, blobs, history>>

Next == TakePrefix \/ Fork \/ ForkPanics \/ ForkHangs \/ Encode \/ AppendLevel \/ AppendRoot
Spec == Init /\ [][Next]_vars

(***************************************************************************)
(* ForestRead.Open: the lengths of the files are all it checks.            *)
(***************************************************************************)
RowsOfAnyLength(rows) == TRUE
RowsComplete(rows) == Len(rows) = PrefixCount

Opens == Len(roots) = PrefixCount /\ \A l \in DOMAIN lengths : RowsComplete(lengths[l])

HasBytes(l, p) == l \in DOMAIN lengths /\ p + 1 \in DOMAIN lengths[l] /\ lengths[l][p + 1] = 1
Blob(l, p) == blobs[l][Cardinality({q \in 1 .. p + 1 : lengths[l][q] = 1})]

(***************************************************************************)
(* ForestRead.Lookup. An answer is a local index, NoMatch, or one of these *)
(***************************************************************************)
Panics == -1
Hangs == -2
Going == -3

\* The reassurance bytes against the bytes of the hash that are left, upwards.
LeafBlind(at, leaf, hash) == leaf.pi
Leaf(at, leaf, hash) ==
  LET free == Free(tier, at.examined)
      left == Ascending(free)
      differing == {i \in 1 .. Min({ReassuranceBytes, Len(left)}) : hash[left[i]] # leaf.bytes[i]}
  IN  IF differing # {} THEN NoMatch
      ELSE IF Len(left) < ReassuranceBytes THEN Hangs ELSE leaf.pi

Slots(at, node, hash) ==
  LET id == GetNextNode(config, node, hash[node.byte])
  IN  IF node.byte \notin Free(tier, at.examined) THEN [at EXCEPT !.answer = Panics]
      ELSE IF id = NoMatch THEN [at EXCEPT !.answer = NoMatch]
      ELSE [level |-> at.level + 2, id |-> id,
            examined |-> at.examined \cup {node.byte}, answer |-> Going]

Step(p, hash, at) ==
  IF at.answer # Going THEN at
  ELSE IF ~HasBytes(at.level, p) \/ ~HoldsNode(config, Blob(at.level, p), at.id)
  THEN [at EXCEPT !.answer = Panics]
  ELSE LET node == GetNode(Blob(at.level, p), at.id)
       IN  IF node.kind = "leaf" THEN [at EXCEPT !.answer = Leaf(at, node, hash)]
           ELSE Slots(at, node, hash)

\* A step examines one more byte, or is the last.
Lookup(hash) ==
  LET p == PrefixIndex(hash)
      after[n \in 0 .. HashBytes + 1] ==
        IF n = 0 THEN [level |-> roots[p + 1].level, id |-> roots[p + 1].id,
                       examined |-> {}, answer |-> Going]
        ELSE Step(p, hash, after[n - 1])
  IN  after[HashBytes + 1].answer
================================================================================
