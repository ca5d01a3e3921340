------------------------------- MODULE MCForest --------------------------------
(***************************************************************************)
(* Small forests for TLC: nibbles are bits, hashes have three bytes.       *)
(***************************************************************************)
EXTENDS ForestInvariant

Number(hash) == 16 * hash[1] + 4 * hash[2] + hash[3]
Numbered(hashes) == [h \in hashes |-> Number(h)]

\* A group for every number of slots; all slots nodes medium, or all of them tiny,
\* so that groups are merged; and node ids that end at three.
MCConfigs ==
  {[tinyMax |-> 4, fullMin |-> 5, specs |-> 2, nodeOnes |-> 15],
   [tinyMax |-> 2, fullMin |-> 4, specs |-> 4, nodeOnes |-> 15],
   [tinyMax |-> 1, fullMin |-> 5, specs |-> 2, nodeOnes |-> 15],
   [tinyMax |-> 2, fullMin |-> 4, specs |-> 4, nodeOnes |-> 3]}

Few == {<<0, 0, 0>>, <<0, 0, 1>>, <<1, 0, 0>>, <<1, 1, 1>>, <<1, 2, 1>>, <<2, 1, 2>>,
        <<3, 1, 2>>, <<3, 3, 3>>}

\* Levels with nodes of no, two, three and four slots, for each prefix length.
Uneven ==
  {<<0, 0, 0>>, <<0, 0, 1>>, <<0, 0, 2>>, <<1, 1, 0>>, <<2, 1, 0>>, <<0, 2, 0>>}
Many ==
  {Uneven,
   Uneven \cup {<<0, 3, 0>>, <<1, 3, 1>>, <<2, 3, 2>>, <<3, 3, 3>>},
   {<<0, 0, 0>>, <<0, 0, 1>>, <<0, 0, 2>>, <<0, 1, 1>>, <<0, 1, 2>>, <<0, 2, 0>>},
   {<<0, 0, 0>>, <<0, 1, 1>>, <<1, 0, 1>>, <<1, 2, 2>>, <<2, 0, 3>>, <<2, 3, 3>>, <<3, 1, 0>>,
    <<3, 2, 1>>},
   {<<0, 0, 0>>, <<0, 1, 0>>, <<1, 0, 0>>, <<2, 0, 0>>, <<3, 0, 0>>},
   {<<a, b, c>> : a \in 0 .. 1, b \in 0 .. 1, c \in 0 .. 1}}
MCStoredSets == {Numbered(s) : s \in Many \cup UNION {kSubset(k, Few) : k \in 0 .. 4}}
MCProbes == {<<a, b, c>> : a \in 0 .. 3, b \in 0 .. 3, c \in 0 .. 3}
================================================================================
