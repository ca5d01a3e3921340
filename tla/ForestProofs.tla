------------------------------ MODULE ForestProofs -----------------------------
(*****************************************************************************)
(* What is proved of a forest: its lengths files keep the trees of the        *)
(* prefixes apart, the forests that Open refuses are those in which a later   *)
(* tree lacks a level of an earlier one, and the lookups in a forest that     *)
(* opens find what is stored.                                                 *)
(*****************************************************************************)
EXTENDS TreeProofs

(***************************************************************************)
(* The rows of the lengths files                                           *)
(***************************************************************************)
\* Appending to a sequence of anything.
LEMMA AppendFacts ==
  ASSUME NEW s, IsSequence(s), NEW e
  PROVE  /\ Len(s) \in Nat /\ Len(Append(s, e)) = Len(s) + 1
         /\ \A i \in 1 .. Len(s) : Append(s, e)[i] = s[i]
         /\ Append(s, e)[Len(s) + 1] = e
         /\ IsSequence(Append(s, e))
<1> DEFINE S == Range(s) \cup {e}
           t == Append(s, e)
<1>1. s \in Seq(S)
  BY DEF IsSequence
<1>2. /\ Len(s) \in Nat /\ Len(t) = Len(s) + 1 /\ t \in Seq(S)
      /\ \A i \in 1 .. Len(s) : t[i] = s[i]
      /\ t[Len(s) + 1] = e
  <2>1. e \in S
    OBVIOUS
  <2> HIDE DEF S
  <2>2. Len(s) \in Nat
    BY <1>1, LenProperties
  <2> QED BY <1>1, <2>1, <2>2, AppendProperties
<1>3. t \in Seq(Range(t))
  <2> HIDE DEF t
  <2>1. t \in [1 .. Len(t) -> S] /\ Len(t) \in Nat
    BY <1>2
  <2>2. t \in [1 .. Len(t) -> Range(t)]
    BY <2>1 DEF Range
  <2> QED BY <2>1, <2>2
<1> QED BY <1>2, <1>3 DEF IsSequence

\* Counting ones further.
LEMMA OnesFacts ==
  ASSUME NEW rows, NEW n \in Nat
  PROVE  /\ Ones(rows, n) \in Nat
         /\ Ones(rows, n + 1) = Ones(rows, n) + IF rows[n + 1] = 1 THEN 1 ELSE 0
<1> DEFINE S == {q \in 1 .. n : rows[q] = 1}
<1>1. IsFiniteSet(S) /\ Cardinality(S) \in Nat
  <2>1. IsFiniteSet(1 .. n) /\ S \subseteq 1 .. n
    BY FS_Interval
  <2> HIDE DEF S
  <2> QED BY <2>1, FS_Subset, FS_CardinalityType
<1>2. {q \in 1 .. n + 1 : rows[q] = 1} = S \cup {q \in {n + 1} : rows[q] = 1}
  OBVIOUS
<1>3. CASE rows[n + 1] = 1
  <2>1. {q \in 1 .. n + 1 : rows[q] = 1} = S \cup {n + 1} /\ n + 1 \notin S
    BY <1>2, <1>3
  <2>2. Cardinality(S \cup {n + 1}) = Cardinality(S) + 1
    <3> HIDE DEF S
    <3> QED BY <1>1, <2>1, FS_AddElement
  <2> QED BY <1>1, <1>3, <2>1, <2>2 DEF Ones
<1>4. CASE rows[n + 1] # 1
  <2>1. {q \in 1 .. n + 1 : rows[q] = 1} = S
    BY <1>2, <1>4
  <2>2. Ones(rows, n) = Cardinality(S) /\ Ones(rows, n + 1) = Cardinality(S)
    BY <2>1 DEF Ones
  <2> HIDE DEF S
  <2> QED BY <1>1, <1>4, <2>2
<1> QED BY <1>3, <1>4

\* A row that is one counts itself, and later rows count no less.
LEMMA OnesWithin ==
  ASSUME NEW rows, NEW n \in Nat, NEW p \in 1 .. n, rows[p] = 1
  PROVE  Ones(rows, p) \in 1 .. Ones(rows, n)
<1> DEFINE S == {q \in 1 .. p : rows[q] = 1}
           T == {q \in 1 .. n : rows[q] = 1}
<1>1. IsFiniteSet(T) /\ S \subseteq T /\ p \in S
  <2>1. IsFiniteSet(1 .. n) /\ T \subseteq 1 .. n
    BY FS_Interval
  <2>2. IsFiniteSet(T)
    <3> HIDE DEF T
    <3> QED BY <2>1, FS_Subset
  <2> QED BY <2>2
<1> HIDE DEF S, T
<1>2. IsFiniteSet(S) /\ Cardinality(S) <= Cardinality(T)
  BY <1>1, FS_Subset
<1>3. Cardinality(S) \in Nat /\ Cardinality(T) \in Nat /\ Cardinality(S) # 0
  BY <1>1, <1>2, FS_CardinalityType, FS_EmptySet
<1>4. Cardinality(S) \in 1 .. Cardinality(T)
  BY <1>2, <1>3
<1> QED BY <1>4 DEF Ones, S, T

\* Ones among rows that agree are as many.
LEMMA OnesSame ==
  ASSUME NEW rows, NEW other, NEW n \in Nat, \A q \in 1 .. n : rows[q] = other[q]
  PROVE  Ones(rows, n) = Ones(other, n)
<1>1. {q \in 1 .. n : rows[q] = 1} = {q \in 1 .. n : other[q] = 1}
  OBVIOUS
<1> QED BY <1>1 DEF Ones

\* Rows of zeros count no trees.
LEMMA NoOnes ==
  ASSUME NEW rows, NEW n \in Nat, \A q \in 1 .. n : rows[q] = 0
  PROVE  Ones(rows, n) = 0
<1>1. {q \in 1 .. n : rows[q] = 1} = {}
  OBVIOUS
<1> QED BY <1>1, FS_EmptySet DEF Ones

\* Nothing happens to a level whose trees stay as they are.
LEMMA LevelUntouched ==
  ASSUME NEW l, NEW n \in Nat, NEW made, NEW more, NEW rows, NEW encoded,
         \A p \in 1 .. n : more[p] = made[p], LevelFits(l, n, made, rows, encoded)
  PROVE  LevelFits(l, n, more, rows, encoded)
<1>1. KeptUpTo(l, n, more) <=> KeptUpTo(l, n, made)
  BY DEF KeptUpTo
<1> QED BY <1>1 DEF LevelFits

\* A tree that lacks the level leaves its files behind.
LEMMA LevelSkipped ==
  ASSUME NEW l, NEW n \in Nat, NEW made, NEW rows, NEW encoded,
         LevelFits(l, n, made, rows, encoded), l \notin DOMAIN made[n + 1]
  PROVE  LevelFits(l, n + 1, made, rows, encoded)
<1>1. ~ KeptUpTo(l, n + 1, made)
  <2>1. PICK p \in 1 .. n : l \in DOMAIN made[p]
    BY DEF LevelFits
  <2>2. p \in 1 .. n + 1 /\ n + 1 \in 1 .. n + 1 /\ p < n + 1
    BY <2>1
  <2> QED BY <2>1, <2>2 DEF KeptUpTo
<1>2. Len(rows) \in Nat /\ Len(rows) <= n + 1 /\ Len(rows) # n + 1
  BY LenProperties DEF LevelFits
<1>3. \E p \in 1 .. n + 1 : l \in DOMAIN made[p]
  BY DEF LevelFits
<1> QED BY <1>1, <1>2, <1>3 DEF LevelFits

\* The files of a level go on.
LEMMA LevelAdded ==
  ASSUME NEW l, NEW n \in Nat, NEW made, NEW rows, NEW encoded,
         LevelFits(l, n, made, rows, encoded), l \in DOMAIN made[n + 1]
  PROVE  LevelFits(l, n + 1, made, Append(rows, 1), Append(encoded, made[n + 1][l]))
<1> DEFINE longer == Append(rows, 1)
           blobs2 == Append(encoded, made[n + 1][l])
<1>1. /\ rows \in Seq({0, 1}) /\ Len(rows) \in Nat /\ Len(rows) <= n
      /\ IsSequence(encoded) /\ Len(encoded) = Ones(rows, Len(rows))
  BY LenProperties DEF LevelFits
<1>2. /\ longer \in Seq({0, 1}) /\ Len(longer) = Len(rows) + 1 /\ longer[Len(rows) + 1] = 1
      /\ \A q \in 1 .. Len(rows) : longer[q] = rows[q]
  <2>1. 1 \in {0, 1}
    OBVIOUS
  <2> QED BY <1>1, <2>1, AppendProperties
<1>3. /\ IsSequence(blobs2) /\ Len(blobs2) = Len(encoded) + 1
      /\ \A i \in 1 .. Len(encoded) : blobs2[i] = encoded[i]
      /\ blobs2[Len(encoded) + 1] = made[n + 1][l] /\ Len(encoded) \in Nat
  BY <1>1, AppendFacts
<1> HIDE DEF longer, blobs2
<1>4. \A p \in 0 .. Len(rows) : Ones(longer, p) = Ones(rows, p)
  <2> TAKE p \in 0 .. Len(rows)
  <2>1. p \in Nat /\ \A q \in 1 .. p : longer[q] = rows[q]
    BY <1>1, <1>2
  <2> QED BY <2>1, OnesSame
<1>5. Ones(longer, Len(rows) + 1) = Len(encoded) + 1
  <2>1. Ones(longer, Len(rows)) = Len(encoded)
    BY <1>1, <1>4
  <2>2. Ones(longer, Len(rows) + 1) = Ones(longer, Len(rows)) + 1
    BY <1>1, <1>2, OnesFacts
  <2> QED BY <2>1, <2>2
<1>6. KeptUpTo(l, n + 1, made) <=> KeptUpTo(l, n, made)
  <2>1. ASSUME KeptUpTo(l, n, made) PROVE KeptUpTo(l, n + 1, made)
    <3> SUFFICES ASSUME NEW p \in 1 .. n + 1, NEW q \in 1 .. n + 1, p < q, l \in DOMAIN made[p]
                 PROVE  l \in DOMAIN made[q]
      BY DEF KeptUpTo
    <3>1. CASE q = n + 1
      BY <3>1
    <3>2. CASE q # n + 1
      <4>1. p \in 1 .. n /\ q \in 1 .. n
        BY <3>2
      <4> QED BY <2>1, <4>1 DEF KeptUpTo
    <3> QED BY <3>1, <3>2
  <2>2. 1 .. n \subseteq 1 .. n + 1
    OBVIOUS
  <2> QED BY <2>1, <2>2 DEF KeptUpTo
<1>7. Len(longer) <= n + 1 /\ (Len(longer) = n + 1 <=> KeptUpTo(l, n + 1, made))
  BY <1>1, <1>2, <1>6 DEF LevelFits
<1>8. ASSUME KeptUpTo(l, n, made), NEW p \in 1 .. n + 1
      PROVE  /\ longer[p] = IF l \in DOMAIN made[p] THEN 1 ELSE 0
             /\ l \in DOMAIN made[p] => blobs2[Ones(longer, p)] = made[p][l]
  <2>1. Len(rows) = n
    BY <1>8 DEF LevelFits
  <2>2. CASE p = n + 1
    BY <1>2, <1>3, <1>5, <2>1, <2>2
  <2>3. CASE p # n + 1
    <3>1. p \in 1 .. n /\ p \in Nat
      BY <2>3
    <3>2. /\ rows[p] = IF l \in DOMAIN made[p] THEN 1 ELSE 0
          /\ l \in DOMAIN made[p] => encoded[Ones(rows, p)] = made[p][l]
      BY <1>8, <3>1 DEF LevelFits
    <3>3. longer[p] = rows[p] /\ Ones(longer, p) = Ones(rows, p)
      BY <1>2, <1>4, <2>1, <3>1
    <3>4. ASSUME l \in DOMAIN made[p] PROVE Ones(rows, p) \in 1 .. Len(encoded)
      <4>1. rows[p] = 1
        BY <3>2, <3>4
      <4> QED BY <4>1, <1>1, <2>1, <3>1, OnesWithin
    <3> QED BY <1>3, <3>2, <3>3, <3>4
  <2> QED BY <2>2, <2>3
<1>9. \E p \in 1 .. n + 1 : l \in DOMAIN made[p]
  BY DEF LevelFits
<1>10. Len(blobs2) = Ones(longer, Len(longer))
  BY <1>2, <1>3, <1>5
<1>11. LevelFits(l, n + 1, made, longer, blobs2)
  BY <1>2, <1>3, <1>6, <1>7, <1>8, <1>9, <1>10 DEF LevelFits
<1> QED BY <1>11 DEF longer, blobs2

\* The first tree that has the level finds no files; those before it get rows of zeros.
LEMMA LevelMade ==
  ASSUME NEW l, NEW n \in Nat, NEW made, NEW zeros \in [1 .. n -> {0}],
         l \in DOMAIN made[n + 1], \A p \in 1 .. n : l \notin DOMAIN made[p]
  PROVE  LevelFits(l, n + 1, made, Append(zeros, 1), Append(<<>>, made[n + 1][l]))
<1> DEFINE rows == Append(zeros, 1)
           encoded == Append(<<>>, made[n + 1][l])
<1>1. /\ rows \in Seq({0, 1}) /\ Len(rows) = n + 1 /\ rows[n + 1] = 1
      /\ \A q \in 1 .. n : rows[q] = 0
  <2>1. zeros \in Seq({0, 1}) /\ Len(zeros) = n /\ 1 \in {0, 1} /\ \A q \in 1 .. n : zeros[q] = 0
    OBVIOUS
  <2> QED BY <2>1, AppendProperties
<1>2. IsSequence(encoded) /\ Len(encoded) = 1 /\ encoded[1] = made[n + 1][l]
  <2>1. IsSequence(<<>>) /\ Len(<<>>) = 0
    BY DEF IsSequence
  <2>2. /\ Len(encoded) = Len(<<>>) + 1 /\ encoded[Len(<<>>) + 1] = made[n + 1][l]
        /\ IsSequence(encoded)
    BY <2>1, AppendFacts
  <2> HIDE DEF encoded
  <2> QED BY <2>1, <2>2
<1> HIDE DEF rows, encoded
<1>3. Ones(rows, n) = 0 /\ Ones(rows, n + 1) = 1
  <2>1. Ones(rows, n) = 0
    BY <1>1, NoOnes
  <2>2. Ones(rows, n + 1) = Ones(rows, n) + 1
    BY <1>1, OnesFacts
  <2> QED BY <2>1, <2>2
<1>4. KeptUpTo(l, n + 1, made)
  <2> SUFFICES ASSUME NEW p \in 1 .. n + 1, NEW q \in 1 .. n + 1, p < q, l \in DOMAIN made[p]
               PROVE  l \in DOMAIN made[q]
    BY DEF KeptUpTo
  <2>1. p \in 1 .. n
    OBVIOUS
  <2> QED BY <2>1
<1>5. ASSUME NEW p \in 1 .. n + 1
      PROVE  /\ rows[p] = IF l \in DOMAIN made[p] THEN 1 ELSE 0
             /\ l \in DOMAIN made[p] => encoded[Ones(rows, p)] = made[p][l]
  <2>1. CASE p = n + 1
    BY <1>1, <1>2, <1>3, <2>1
  <2>2. CASE p # n + 1
    <3>1. p \in 1 .. n
      BY <2>2
    <3> QED BY <1>1, <3>1
  <2> QED BY <2>1, <2>2
<1>6. n + 1 \in 1 .. n + 1
  OBVIOUS
<1>7. LevelFits(l, n + 1, made, rows, encoded)
  BY <1>1, <1>2, <1>3, <1>4, <1>5, <1>6 DEF LevelFits
<1> QED BY <1>7 DEF rows, encoded

\* The levels of the tree in the making do not change once it is made.
LEMMA LevelsSame ==
  ASSUME UNCHANGED <<given, prefix, fork>>
  PROVE  Levels' = Levels
BY DEF Levels, LevelsOf, Level, Above, Nodes, given, HashesOf, PrefixIndex

\* They are natural numbers.
LEMMA LevelsNatural ==
  ASSUME ControlFits
  PROVE  Levels \subseteq Nat
<1>1. ASSUME NEW node PROVE Level(tier, fork, node) \in Nat
  <2>1. IsFiniteSet(DOMAIN fork) /\ Above(fork, node) \subseteq DOMAIN fork
    BY DEF ControlFits, Above
  <2>2. Cardinality(Above(fork, node)) \in Nat
    BY <2>1, FS_Subset, FS_CardinalityType
  <2>3. tier \in Nat
    BY ForestAssumption, ShallowTreeAssumption DEF ControlFits
  <2> QED BY <2>2, <2>3 DEF Level
<1> QED BY <1>1 DEF Levels, LevelsOf

\* The forest begins with empty files.
LEMMA InitAccounted == Init => RowsAccounted
<1> SUFFICES ASSUME Init PROVE RowsAccounted
  OBVIOUS
<1>1. Len(<<>>) = 0 /\ IsSequence(<<>>) /\ DOMAIN <<>> = {} /\ IsFiniteSet({})
  BY FS_EmptySet DEF IsSequence
<1>2. ControlFits
  BY <1>1 DEF Init, ControlFits
<1>3. RowsFit
  BY <1>1 DEF Init, RowsFit
<1> QED BY <1>2, <1>3 DEF RowsAccounted

\* Steps that append to no level leave the rows as they are.
LEMMA RowsUntouched ==
  ASSUME ControlFits, RowsFit, UNCHANGED <<lengths, blobs, trees, prefix>>,
         pc # "append", pc' # "append"
  PROVE  RowsFit'
<1>1. \A l \in Nat : TreesAppended(l) = prefix /\ TreesAppended(l)' = prefix
  BY DEF TreesAppended, ControlFits
<1>2. DOMAIN lengths \subseteq Nat /\ \A p \in 1 .. Len(trees) : DOMAIN trees[p] \subseteq Nat
  BY DEF RowsFit, ControlFits
<1> QED BY <1>1, <1>2 DEF RowsFit

\* Before a tree is encoded.
LEMMA GenerationAccounted ==
  ASSUME RowsAccounted, TakePrefix \/ Fork \/ ForkPanics \/ ForkHangs
  PROVE  RowsAccounted'
<1> USE DEF RowsAccounted
<1>1. UNCHANGED <<given, prefix, files, trees, level>> /\ pc # "append" /\ pc' # "append"
  BY DEF TakePrefix, Fork, ForkPanics, ForkHangs, tree, history
<1>2. RowsFit'
  BY <1>1, RowsUntouched DEF files
<1>3. IsFiniteSet(DOMAIN fork')
  <2>1. CASE TakePrefix
    <3>1. DOMAIN fork' = {}
      BY <2>1 DEF TakePrefix
    <3> QED BY <3>1, FS_EmptySet
  <2>2. CASE Fork
    <3>1. PICK node \in todo : \E b : fork' = Put(fork, node, b)
      BY <2>2 DEF Fork
    <3>2. DOMAIN fork' = DOMAIN fork \cup {node}
      BY <3>1 DEF Put
    <3>3. IsFiniteSet(DOMAIN fork)
      BY DEF ControlFits
    <3> QED BY <3>2, <3>3, FS_AddElement
  <2>3. CASE ForkPanics \/ ForkHangs
    BY <2>3 DEF ForkPanics, ForkHangs, tree, ControlFits
  <2> QED BY <2>1, <2>2, <2>3
<1>4. /\ pc' \in {"fork", "panicked", "hung"} /\ prefix < PrefixCount
  <2>1. CASE TakePrefix
    BY <2>1 DEF TakePrefix
  <2>2. CASE Fork \/ ForkPanics \/ ForkHangs
    BY <2>2 DEF Fork, ForkPanics, ForkHangs, ControlFits
  <2> QED BY <2>1, <2>2
<1>5. PrefixCount' = PrefixCount
  BY <1>1 DEF PrefixCount, given
<1>6. ControlFits'
  BY <1>1, <1>3, <1>4, <1>5 DEF ControlFits, given, files
<1> QED BY <1>2, <1>6

\* Encoding a tree adds it to the trees, before any of its levels is appended.
LEMMA EncodeAccounted ==
  ASSUME RowsAccounted, Encode
  PROVE  RowsAccounted'
<1> USE DEF RowsAccounted
<1>1. /\ pc = "fork" /\ level' = 0 /\ UNCHANGED <<given, prefix, fork, files>>
      /\ ControlFits /\ RowsFit /\ PrefixCount' = PrefixCount /\ Levels' = Levels
  <2>1. pc = "fork" /\ level' = 0 /\ UNCHANGED <<given, prefix, fork, files>>
    BY DEF Encode
  <2>2. PrefixCount' = PrefixCount
    BY <2>1 DEF PrefixCount, given
  <2> QED BY <2>1, <2>2, LevelsSame
<1>2. CASE pc' = "panicked" /\ UNCHANGED trees
  <2>1. RowsFit'
    BY <1>1, <1>2, RowsUntouched DEF files
  <2>2. ControlFits'
    BY <1>1, <1>2 DEF ControlFits, given, files
  <2> QED BY <2>1, <2>2
<1>3. CASE pc' = "append" /\ \E made : DOMAIN made = Levels /\ trees' = Append(trees, made)
  <2>1. PICK made : DOMAIN made = Levels /\ trees' = Append(trees, made)
    BY <1>3
  <2>2. Levels \subseteq Nat
    BY <1>1, LevelsNatural
  <2>3. prefix \in Nat /\ IsSequence(trees) /\ Len(trees) = prefix
    BY <1>1 DEF ControlFits
  <2>4. /\ IsSequence(trees') /\ Len(trees') = prefix + 1
        /\ \A p \in 1 .. prefix : trees'[p] = trees[p]
        /\ trees'[prefix + 1] = made
    BY <2>1, <2>3, AppendFacts
  <2>5. \A p \in 1 .. prefix + 1 : DOMAIN trees'[p] \subseteq Nat
    <3> TAKE p \in 1 .. prefix + 1
    <3>1. p \in 1 .. prefix \/ p = prefix + 1
      BY <2>3
    <3> QED BY <1>1, <2>1, <2>2, <2>3, <2>4, <3>1 DEF ControlFits
  <2>6. ControlFits'
    BY <1>1, <1>3, <2>1, <2>3, <2>4, <2>5 DEF ControlFits, given, files
  <2>7. \A l \in Nat : TreesAppended(l) = prefix /\ TreesAppended(l)' = prefix
    BY <1>1, <1>3, <2>3 DEF TreesAppended
  <2>8. \A l \in DOMAIN lengths : LevelFits(l, prefix, trees', lengths[l], blobs[l])
    <3> TAKE l \in DOMAIN lengths
    <3>1. LevelFits(l, prefix, trees, lengths[l], blobs[l])
      BY <1>1, <2>7 DEF RowsFit
    <3> QED BY <2>3, <2>4, <3>1, LevelUntouched
  <2>9. ASSUME NEW p \in 1 .. prefix + 1, NEW l \in DOMAIN trees'[p], p <= TreesAppended(l)'
        PROVE  l \in DOMAIN lengths
    <3>1. l \in Nat
      BY <2>5
    <3>2. p \in 1 .. prefix
      BY <2>3, <2>7, <2>9, <3>1
    <3>3. l \in DOMAIN trees[p] /\ p <= TreesAppended(l)
      BY <2>3, <2>4, <2>7, <3>1, <3>2
    <3> QED BY <1>1, <2>3, <3>2, <3>3 DEF RowsFit
  <2>10. RowsFit'
    BY <1>1, <2>4, <2>7, <2>8, <2>9 DEF RowsFit, files
  <2> QED BY <2>6, <2>10
<1>4. \/ pc' = "panicked" /\ UNCHANGED trees
      \/ /\ pc' = "append"
         /\ trees' = Append(trees, [l \in Levels |->
                                      Encoded(config, tier, fork, Content(prefix), l)])
  BY DEF Encode, history
<1> QED BY <1>2, <1>3, <1>4

\* A level that the present tree lacks is skipped: either nothing has happened to its
\* files, or they are behind now.
LEMMA SkippedLevel ==
  ASSUME RowsAccounted, pc = "append", NEW l \in Nat \ Levels
  PROVE  /\ l \in DOMAIN lengths =>
              LevelFits(l, prefix + 1, trees, lengths[l], blobs[l])
         /\ \A p \in 1 .. prefix + 1 : l \in DOMAIN trees[p] => l \in DOMAIN lengths
<1> DEFINE n == TreesAppended(l)
<1>1. /\ prefix \in Nat /\ Len(trees) = prefix + 1 /\ l \notin DOMAIN trees[prefix + 1]
      /\ n = prefix \/ n = prefix + 1
  BY DEF RowsAccounted, ControlFits, TreesAppended
<1>2. l \in DOMAIN lengths => LevelFits(l, n, trees, lengths[l], blobs[l])
  BY DEF RowsAccounted, RowsFit
<1>3. ASSUME NEW p \in 1 .. prefix + 1, l \in DOMAIN trees[p]
      PROVE  l \in DOMAIN lengths
  <2>1. p # prefix + 1
    BY <1>1, <1>3
  <2>2. p <= n
    BY <1>1, <2>1
  <2> QED BY <1>1, <1>3, <2>2 DEF RowsAccounted, RowsFit
<1> HIDE DEF n
<1> QED BY <1>1, <1>2, <1>3, LevelSkipped

\* AppendTreeForPrefix appends the next level of the present tree.
LEMMA AppendLevelAccounted ==
  ASSUME RowsAccounted, AppendLevel
  PROVE  RowsAccounted'
<1> DEFINE left == {m \in Levels : m >= level}
           at == Min(left)
           n == prefix + 1
<1>1. /\ pc = "append" /\ left # {} /\ level' = at + 1 /\ pc' = pc
      /\ UNCHANGED <<given, prefix, fork, roots, trees>>
      /\ lengths' = Appended(lengths, at, ZeroRows(prefix), 1)
      /\ blobs' = Appended(blobs, at, <<>>, trees[n][at])
  BY DEF AppendLevel, history
<1>2. /\ prefix \in Nat /\ level \in Nat /\ Len(trees) = n /\ DOMAIN trees[n] = Levels
      /\ Levels \subseteq Nat /\ ControlFits /\ RowsFit
      /\ \A p \in 1 .. n : DOMAIN trees[p] \subseteq Nat
  BY <1>1, LevelsNatural DEF RowsAccounted, ControlFits
<1>3. /\ at \in Levels /\ at \in Nat /\ level <= at
      /\ \A m \in Levels : m < at => m < level
  <2>1. left \subseteq Nat
    BY <1>2
  <2>2. at \in left /\ \A m \in left : at <= m
    <3> HIDE DEF left
    <3> QED BY <1>1, <2>1, MinFacts
  <2>3. ASSUME NEW m \in Levels, m < at PROVE m < level
    <3>1. m \in Nat /\ at \in Nat /\ m \notin left
      BY <1>2, <2>1, <2>2, <2>3
    <3> QED BY <1>2, <3>1
  <2> HIDE DEF at
  <2> QED BY <1>2, <2>2, <2>3
<1> HIDE DEF left, at
<1>4. /\ DOMAIN lengths' = DOMAIN lengths \cup {at} /\ DOMAIN blobs' = DOMAIN lengths'
      /\ lengths'[at] = Append(IF at \in DOMAIN lengths THEN lengths[at] ELSE ZeroRows(prefix), 1)
      /\ blobs'[at] = Append(IF at \in DOMAIN lengths THEN blobs[at] ELSE <<>>, trees[n][at])
      /\ \A m \in DOMAIN lengths \ {at} : lengths'[m] = lengths[m] /\ blobs'[m] = blobs[m]
  <2>1. DOMAIN blobs = DOMAIN lengths
    BY <1>2 DEF RowsFit
  <2> QED BY <1>1, <2>1 DEF Appended, Put
<1>5. ControlFits'
  <2>1. Levels' = Levels /\ PrefixCount' = PrefixCount
    BY <1>1, LevelsSame DEF PrefixCount, given
  <2> QED BY <1>1, <1>2, <1>3, <2>1 DEF ControlFits, given
<1>6. \A m \in Nat : /\ TreesAppended(m) = IF m < level THEN n ELSE prefix
                     /\ TreesAppended(m)' = IF m <= at THEN n ELSE prefix
  <2>1. \A m \in Nat : m < at + 1 <=> m <= at
    BY <1>3
  <2> QED BY <1>1, <1>2, <2>1 DEF TreesAppended
<1>7. ASSUME NEW m \in DOMAIN lengths'
      PROVE  LevelFits(m, TreesAppended(m)', trees, lengths'[m], blobs'[m])
  <2>1. m \in Nat /\ (m \in DOMAIN lengths => LevelFits(m, TreesAppended(m), trees, lengths[m], blobs[m]))
    BY <1>2, <1>3, <1>4 DEF RowsFit
  <2>2. CASE m = at /\ m \in DOMAIN lengths
    <3>1. LevelFits(at, prefix, trees, lengths[at], blobs[at])
      BY <1>2, <1>3, <1>6, <2>1, <2>2
    <3>2. LevelFits(at, n, trees, Append(lengths[at], 1), Append(blobs[at], trees[n][at]))
      BY <1>2, <1>3, <3>1, LevelAdded
    <3>3. lengths'[at] = Append(lengths[at], 1) /\ blobs'[at] = Append(blobs[at], trees[n][at])
      BY <1>4, <2>2
    <3>4. TreesAppended(m)' = n
      BY <1>3, <1>6, <2>2
    <3> QED BY <2>2, <3>2, <3>3, <3>4
  <2>3. CASE m = at /\ m \notin DOMAIN lengths
    <3>1. \A p \in 1 .. prefix : at \notin DOMAIN trees[p]
      <4> TAKE p \in 1 .. prefix
      <4>1. p \in 1 .. Len(trees) /\ p <= TreesAppended(at)
        BY <1>2, <1>3, <1>6
      <4> QED BY <1>2, <2>3, <4>1 DEF RowsFit
    <3>2. ZeroRows(prefix) \in [1 .. prefix -> {0}]
      BY DEF ZeroRows
    <3>3. LevelFits(at, n, trees, Append(ZeroRows(prefix), 1), Append(<<>>, trees[n][at]))
      BY <1>2, <1>3, <3>1, <3>2, LevelMade
    <3>4. /\ lengths'[at] = Append(ZeroRows(prefix), 1)
          /\ blobs'[at] = Append(<<>>, trees[n][at])
      BY <1>4, <2>3
    <3>5. TreesAppended(m)' = n
      BY <1>3, <1>6, <2>3
    <3> QED BY <2>3, <3>3, <3>4, <3>5
  <2>4. CASE m # at
    <3>1. m \in DOMAIN lengths /\ lengths'[m] = lengths[m] /\ blobs'[m] = blobs[m]
      BY <1>4, <2>4
    <3>2. CASE m < at /\ ~ (m < level)
      <4>1. m \in Nat \ Levels
        BY <1>3, <2>1, <3>2
      <4>2. LevelFits(m, n, trees, lengths[m], blobs[m])
        BY <1>1, <3>1, <4>1, SkippedLevel
      <4>3. TreesAppended(m)' = n
        BY <1>3, <1>6, <2>1, <3>2
      <4> QED BY <3>1, <4>2, <4>3
    <3>3. CASE ~ (m < at /\ ~ (m < level))
      <4>1. TreesAppended(m)' = TreesAppended(m)
        BY <1>2, <1>3, <1>6, <2>1, <2>4, <3>3
      <4> QED BY <2>1, <3>1, <4>1
    <3> QED BY <3>2, <3>3
  <2> QED BY <2>2, <2>3, <2>4
<1>8. ASSUME NEW p \in 1 .. n, NEW m \in DOMAIN trees[p], p <= TreesAppended(m)'
      PROVE  m \in DOMAIN lengths'
  <2>1. m \in Nat
    BY <1>2
  <2>2. CASE m = at
    BY <1>4, <2>2
  <2>3. CASE m \in Nat \ Levels
    BY <1>1, <1>4, <2>3, SkippedLevel
  <2>4. CASE m # at /\ m \in Levels
    <3>1. p <= TreesAppended(m)
      BY <1>2, <1>3, <1>6, <1>8, <2>1, <2>4
    <3> QED BY <1>2, <1>4, <3>1 DEF RowsFit
  <2> QED BY <2>1, <2>2, <2>3, <2>4
<1>9. DOMAIN lengths' \subseteq Nat
  BY <1>2, <1>3, <1>4 DEF RowsFit
<1>10. RowsFit'
  BY <1>1, <1>2, <1>4, <1>7, <1>8, <1>9 DEF RowsFit
<1> QED BY <1>5, <1>10 DEF RowsAccounted

\* The root comes last, and with it the levels that the tree lacks are behind.
LEMMA AppendRootAccounted ==
  ASSUME RowsAccounted, AppendRoot
  PROVE  RowsAccounted'
<1> DEFINE n == prefix + 1
<1>1. /\ pc = "append" /\ \A l \in Levels : l < level
      /\ prefix' = n /\ UNCHANGED <<given, fork, level, lengths, blobs, trees>>
      /\ pc' = IF n = PrefixCount THEN "done" ELSE "prefix"
      /\ \E root : roots' = Append(roots, root)
  BY DEF AppendRoot, history
<1>2. /\ prefix \in Nat /\ level \in Nat /\ Len(trees) = n /\ Levels \subseteq Nat
      /\ ControlFits /\ RowsFit /\ \A p \in 1 .. n : DOMAIN trees[p] \subseteq Nat
  BY <1>1, LevelsNatural DEF RowsAccounted, ControlFits
<1>3. ControlFits'
  <2>1. PrefixCount' = PrefixCount
    BY <1>1 DEF PrefixCount, given
  <2>2. IsSequence(roots') /\ Len(roots') = n
    BY <1>1, <1>2, AppendFacts DEF ControlFits
  <2>3. pc' \in {"done", "prefix"} /\ (pc' = "done" => n = PrefixCount)
    BY <1>1
  <2> QED BY <1>1, <1>2, <2>1, <2>2, <2>3 DEF ControlFits, given
<1>4. \A l \in Nat : /\ TreesAppended(l) = IF l < level THEN n ELSE prefix
                     /\ TreesAppended(l)' = n
  <2>1. pc' # "append"
    BY <1>1
  <2> QED BY <1>1, <1>2, <2>1 DEF TreesAppended
<1>5. ASSUME NEW l \in DOMAIN lengths
      PROVE  LevelFits(l, n, trees, lengths[l], blobs[l])
  <2>1. l \in Nat /\ LevelFits(l, TreesAppended(l), trees, lengths[l], blobs[l])
    BY <1>2 DEF RowsFit
  <2>2. CASE l \in Levels
    <3>1. TreesAppended(l) = n
      BY <1>1, <1>4, <2>1, <2>2
    <3> QED BY <2>1, <3>1
  <2>3. CASE l \in Nat \ Levels
    BY <1>1, <2>3, SkippedLevel
  <2> QED BY <2>1, <2>2, <2>3
<1>6. ASSUME NEW p \in 1 .. n, NEW l \in DOMAIN trees[p]
      PROVE  l \in DOMAIN lengths
  <2>1. l \in Nat
    BY <1>2
  <2>2. CASE l \in Levels
    <3>1. p <= TreesAppended(l)
      BY <1>1, <1>2, <1>4, <2>1, <2>2
    <3> QED BY <1>2, <3>1 DEF RowsFit
  <2>3. CASE l \in Nat \ Levels
    BY <1>1, <2>3, SkippedLevel
  <2> QED BY <2>1, <2>2, <2>3
<1>7. RowsFit'
  <2>1. DOMAIN lengths \subseteq Nat /\ DOMAIN blobs = DOMAIN lengths
    BY <1>2 DEF RowsFit
  <2> QED BY <1>1, <1>2, <1>4, <1>5, <1>6, <2>1 DEF RowsFit
<1> QED BY <1>3, <1>7 DEF RowsAccounted

\* No step leaves a row without its tree: RowsAccounted is inductive, for every size of
\* hash and prefix, every donut and every tree that the entropies may choose.
THEOREM RowsAreAccounted == Spec => []RowsAccounted
<1>1. Init => RowsAccounted
  BY InitAccounted
<1>2. RowsAccounted /\ [Next]_vars => RowsAccounted'
  <2> SUFFICES ASSUME RowsAccounted, [Next]_vars PROVE RowsAccounted'
    OBVIOUS
  <2>1. CASE UNCHANGED vars
    <3>1. UNCHANGED <<given, pc, prefix, fork, level, files, trees>>
      BY <2>1 DEF vars, tree, history
    <3>2. Levels' = Levels /\ PrefixCount' = PrefixCount
      BY <3>1, LevelsSame DEF PrefixCount, given
    <3>3. \A l : TreesAppended(l)' = TreesAppended(l)
      BY <3>1 DEF TreesAppended
    <3>4. ControlFits'
      BY <3>1, <3>2 DEF RowsAccounted, ControlFits, given, files
    <3>5. RowsFit'
      BY <3>1, <3>3 DEF RowsAccounted, RowsFit, files
    <3> QED BY <3>4, <3>5 DEF RowsAccounted
  <2>2. CASE Next
    BY <2>2, GenerationAccounted, EncodeAccounted, AppendLevelAccounted, AppendRootAccounted
       DEF Next
  <2> QED BY <2>1, <2>2
<1> QED BY <1>1, <1>2, PTL DEF Spec

\* Of a forest that opens, every level has a row for every tree.
LEMMA OpenedRows ==
  ASSUME RowsAccounted, Opens
  PROVE  /\ prefix \in Nat /\ prefix = PrefixCount
         /\ \A p \in 1 .. prefix : \A l \in DOMAIN trees[p] : l \in DOMAIN lengths
         /\ \A l \in DOMAIN lengths :
              /\ LevelFits(l, prefix, trees, lengths[l], blobs[l])
              /\ Len(lengths[l]) = prefix /\ KeptUpTo(l, prefix, trees)
<1>1. /\ ControlFits /\ RowsFit /\ prefix \in Nat /\ prefix = PrefixCount /\ pc # "append"
      /\ \A l \in DOMAIN lengths : Len(lengths[l]) = prefix
  BY DEF RowsAccounted, ControlFits, Opens, RowsComplete
<1>2. Len(trees) = prefix /\ \A l : TreesAppended(l) = prefix
  BY <1>1 DEF ControlFits, TreesAppended
<1>3. ASSUME NEW l \in DOMAIN lengths
      PROVE  LevelFits(l, prefix, trees, lengths[l], blobs[l]) /\ KeptUpTo(l, prefix, trees)
  <2>1. LevelFits(l, prefix, trees, lengths[l], blobs[l])
    BY <1>1, <1>2 DEF RowsFit
  <2> QED BY <1>1, <2>1 DEF LevelFits
<1>4. ASSUME NEW p \in 1 .. prefix, NEW l \in DOMAIN trees[p]
      PROVE  l \in DOMAIN lengths
  <2>1. p <= TreesAppended(l)
    BY <1>1, <1>2
  <2> QED BY <1>1, <1>2, <2>1 DEF RowsFit
<1> QED BY <1>1, <1>3, <1>4

\* A forest that ForestRead.Open accepts reads back, tree by tree, what was encoded:
\* no lookup is led into another prefix's tree (forestwrite.go:21-22,
\* forestread.go:53-126).
THEOREM OpenedReadsBack == Spec => []OpenReadsBack
<1>1. ASSUME RowsAccounted, Opens, NEW p \in 0 .. PrefixCount - 1
      PROVE  /\ {l \in DOMAIN lengths : HasBytes(l, p)} = DOMAIN trees[p + 1]
             /\ \A l \in DOMAIN trees[p + 1] : Blob(l, p) = trees[p + 1][l]
  <2>1. prefix \in Nat /\ p \in Nat /\ p + 1 \in 1 .. prefix
    BY <1>1, OpenedRows
  <2>2. ASSUME NEW l \in DOMAIN lengths
        PROVE  /\ DOMAIN lengths[l] = 1 .. prefix
               /\ lengths[l][p + 1] = IF l \in DOMAIN trees[p + 1] THEN 1 ELSE 0
               /\ l \in DOMAIN trees[p + 1] => Blob(l, p) = trees[p + 1][l]
    <3>1. /\ LevelFits(l, prefix, trees, lengths[l], blobs[l])
          /\ Len(lengths[l]) = prefix /\ KeptUpTo(l, prefix, trees)
      BY <1>1, OpenedRows
    <3>2. DOMAIN lengths[l] = 1 .. prefix
      BY <3>1, LenProperties DEF LevelFits
    <3>3. Blob(l, p) = blobs[l][Ones(lengths[l], p + 1)]
      BY DEF Blob, Ones
    <3> QED BY <2>1, <3>1, <3>2, <3>3 DEF LevelFits
  <2>3. \A l \in DOMAIN trees[p + 1] : l \in DOMAIN lengths
    BY <1>1, <2>1, OpenedRows
  <2> QED BY <2>1, <2>2, <2>3 DEF HasBytes
<1>2. RowsAccounted => OpenReadsBack
  BY <1>1 DEF OpenReadsBack
<1> QED BY <1>2, RowsAreAccounted, PTL

\* Open refuses exactly the forests in which a later tree lacks a level of an earlier
\* one (forestwrite.go:87-105, forestread.go:106).
THEOREM OpensExactlyIf == Spec => []OpensIff
<1>1. ASSUME RowsAccounted, Done, Opens, NEW p \in 1 .. PrefixCount, NEW q \in 1 .. PrefixCount,
             p < q, NEW l \in DOMAIN trees[p]
      PROVE  l \in DOMAIN trees[q]
  <2>1. prefix = PrefixCount /\ l \in DOMAIN lengths
    BY <1>1, OpenedRows
  <2>2. KeptUpTo(l, prefix, trees)
    BY <1>1, <2>1, OpenedRows
  <2> QED BY <1>1, <2>1, <2>2 DEF KeptUpTo
<1>2. ASSUME RowsAccounted, Done,
             \A p, q \in 1 .. PrefixCount : p < q => DOMAIN trees[p] \subseteq DOMAIN trees[q]
      PROVE  Opens
  <2>1. /\ ControlFits /\ RowsFit /\ prefix = PrefixCount /\ Len(roots) = prefix
        /\ \A l : TreesAppended(l) = prefix
    <3>1. prefix \in Nat /\ pc # "append"
      BY <1>2 DEF RowsAccounted, ControlFits, Done
    <3> QED BY <1>2, <3>1 DEF RowsAccounted, ControlFits, Done, TreesAppended
  <2>2. ASSUME NEW l \in DOMAIN lengths PROVE Len(lengths[l]) = PrefixCount
    <3>1. KeptUpTo(l, prefix, trees)
      BY <1>2, <2>1 DEF KeptUpTo
    <3>2. LevelFits(l, prefix, trees, lengths[l], blobs[l])
      BY <2>1 DEF RowsFit
    <3> QED BY <2>1, <3>1, <3>2 DEF LevelFits
  <2> QED BY <2>1, <2>2 DEF Opens, RowsComplete
<1>3. RowsAccounted => OpensIff
  BY <1>1, <1>2 DEF OpensIff
<1> QED BY <1>3, RowsAreAccounted, PTL

(***************************************************************************)
(* A lookup, step by step                                                  *)
(***************************************************************************)
\* What is in the files for a prefix with hashes is the tree f, and no level of it has more
\* nodes than two bytes can name.
Readable(p, f) ==
  LET H == HashesOf(p)
      stores == Content(p)
  IN  /\ IsConfig(config) /\ Sound(tier, f, H) /\ H # {} /\ Crowds(f, H) \subseteq DOMAIN f
      /\ \A l : Cardinality(AtLevel(tier, f, H, l)) <= config.nodeOnes
      /\ roots[p + 1] = [level |-> tier, id |-> 0]
      /\ \A X \in Nodes(f, H) :
           LET l == Level(tier, f, X)
           IN  HasBytes(l, p) /\ Blob(l, p) = Encoded(config, tier, f, stores, l)
      /\ DOMAIN stores = H /\ \A g \in H : stores[g] = stored[g] /\ stored[g] \in Nat
      /\ \A g, h \in H : stored[g] = stored[h] => g = h

NumberOf(p, f, X) == Number(config, tier, f, HashesOf(p), Level(tier, f, X), X)
NodeOf(p, f, X) == WrittenNode(config, tier, f, Content(p), Level(tier, f, X), X)
Standing(p, f, X) ==
  [level |-> Level(tier, f, X), id |-> NumberOf(p, f, X), examined |-> Examined(f, X), answer |-> Going]
Values(f, X) == {g[f[X]] : g \in X}
IsPadded(node) == \E j \in DOMAIN node.pairs : j > 1 /\ node.pairs[j][1] = 0

\* A lookup reaches the nodes whose hashes agree with it in the bytes on the way, among
\* them those that hold the hash.
Reaches(p, f, h, X) ==
  /\ X \in Nodes(f, HashesOf(p)) /\ \A b \in Examined(f, X) : \A g \in X : g[b] = h[b]
  /\ h \in HashesOf(p) => h \in X

\* What a lookup reads of a node is what was written for it.
LEMMA ReadNode ==
  ASSUME NEW p, NEW f, Readable(p, f), NEW X \in Nodes(f, HashesOf(p)), NEW h
  PROVE  /\ NumberOf(p, f, X) \in Nat /\ NumberOf(p, f, X) # NoMatch
         /\ Cardinality(AtLevel(tier, f, HashesOf(p), Level(tier, f, X))) = 1 => NumberOf(p, f, X) = 0
         /\ LET at == Standing(p, f, X)
            IN  Step(p, h, at) = IF NodeOf(p, f, X).kind = "leaf"
                                 THEN [at EXCEPT !.answer = Leaf(at, NodeOf(p, f, X), h)]
                                 ELSE Slots(at, NodeOf(p, f, X), h)
<1> DEFINE H == HashesOf(p)
           l == Level(tier, f, X)
           S == AtLevel(tier, f, H, l)
           enc == Encoded(config, tier, f, Content(p), l)
           id == NumberOf(p, f, X)
           at == Standing(p, f, X)
<1>1. /\ IsConfig(config) /\ Sound(tier, f, H) /\ Cardinality(S) <= config.nodeOnes
      /\ DOMAIN Content(p) = H /\ HasBytes(l, p) /\ Blob(l, p) = enc
  BY DEF Readable
<1>2. LevelIs(config, tier, f, Content(p), l, enc)
  BY <1>1, EncodedLevel
<1>3. X \in S
  BY DEF AtLevel
<1>4. IsListOf(LevelNodes(tier, f, H, l), S)
  BY <1>1, LevelNodesFacts DEF Sound
<1>5. Cardinality(S) \in Nat /\ config.nodeOnes \in Nat /\ config.nodeOnes < NoMatch /\ NoMatch \in Int
  BY <1>1, <1>4, ConfigFacts DEF IsListOf
<1>6. id \in 0 .. Cardinality(S) - 1 /\ HoldsNode(config, enc, id) /\ GetNode(enc, id) = NodeOf(p, f, X)
  BY <1>1, <1>2, <1>3 DEF LevelIs, NumberOf, NodeOf
<1> HIDE DEF l, S, enc, id
<1>7. at.level = l /\ at.id = id /\ at.answer = Going
  BY DEF Standing, l, id
<1>8. Step(p, h, at) = IF NodeOf(p, f, X).kind = "leaf"
                       THEN [at EXCEPT !.answer = Leaf(at, NodeOf(p, f, X), h)]
                       ELSE Slots(at, NodeOf(p, f, X), h)
  <2> HIDE DEF at
  <2> QED BY <1>1, <1>6, <1>7 DEF Step
<1>9. id \in Nat /\ id # NoMatch /\ (Cardinality(S) = 1 => id = 0)
  BY <1>1, <1>5, <1>6
<1> QED BY <1>8, <1>9 DEF id, at, S, l

\* A step from a node leads to the slot of the hash's value, if there is one.
LEMMA StepOn ==
  ASSUME NEW p, NEW f, Readable(p, f), NEW h, NEW X \in DOMAIN f, Reaches(p, f, h, X),
         h[f[X]] \in Values(f, X)
  PROVE  LET P == WithByte(X, f[X], h[f[X]])
         IN  /\ Reaches(p, f, h, P) /\ Cardinality(Above(f, P)) = Cardinality(Above(f, X)) + 1
             /\ Step(p, h, Standing(p, f, X)) = Standing(p, f, P)
<1> DEFINE H == HashesOf(p)
           l == Level(tier, f, X)
           v == h[f[X]]
           P == WithByte(X, f[X], v)
           at == Standing(p, f, X)
           node == NodeOf(p, f, X)
<1>1. /\ IsConfig(config) /\ Sound(tier, f, H) /\ DOMAIN Content(p) = H /\ X \in Nodes(f, H)
      /\ \A k : Cardinality(AtLevel(tier, f, H, k)) <= config.nodeOnes
  BY DEF Readable, Reaches
<1>2. /\ P \in Nodes(f, H) /\ P \in Split(X, f[X]) /\ Level(tier, f, P) = l + 2
      /\ Cardinality(Above(f, P)) = Cardinality(Above(f, X)) + 1
      /\ Examined(f, P) = Examined(f, X) \cup {f[X]}
  BY <1>1, ChildFacts DEF Values
<1>3. P \subseteq X /\ \A g \in P : g[f[X]] = v
  BY DEF WithByte
<1>4. Reaches(p, f, h, P)
  <2>1. \A b \in Examined(f, P) : \A g \in P : g[b] = h[b]
    BY <1>2, <1>3 DEF Reaches
  <2>2. h \in H => h \in P
    BY DEF Reaches, WithByte
  <2> QED BY <1>2, <2>1, <2>2 DEF Reaches
<1>5. LeadsOn(config, tier, f, Content(p), l, X)
  <2>1. X \in AtLevel(tier, f, H, l)
    BY <1>1 DEF AtLevel
  <2> QED BY <1>1, <2>1, NextFacts
<1>6. /\ node.kind = "slots" /\ node.byte = f[X]
      /\ GetNextNode(config, node, v) = Number(config, tier, f, H, l + 2, P)
  BY <1>1, <1>5 DEF LeadsOn, NodeOf, Values
<1>7. GetNextNode(config, node, v) = NumberOf(p, f, P)
  BY <1>2, <1>6 DEF NumberOf
<1>8. NumberOf(p, f, P) # NoMatch
  BY <1>2, ReadNode
<1>9. Step(p, h, at) = Slots(at, node, h)
  BY <1>1, <1>6, ReadNode
<1>10. f[X] \in Free(tier, Examined(f, X))
  BY <1>1 DEF Sound, IsTree
<1>11. at.level = l /\ at.examined = Examined(f, X)
  BY DEF Standing
<1>12. Slots(at, node, h) = [level |-> l + 2, id |-> NumberOf(p, f, P),
                             examined |-> Examined(f, X) \cup {f[X]}, answer |-> Going]
  <2> HIDE DEF at, node, P, l
  <2> QED BY <1>6, <1>7, <1>8, <1>10, <1>11 DEF Slots
<1>13. Slots(at, node, h) = Standing(p, f, P)
  BY <1>2, <1>12 DEF Standing
<1> QED BY <1>2, <1>4, <1>9, <1>13

\* Otherwise nowhere, unless it is the value of the padding.
LEMMA StepOff ==
  ASSUME NEW p, NEW f, Readable(p, f), NEW h, NEW X \in DOMAIN f, Reaches(p, f, h, X),
         h[f[X]] \notin Values(f, X)
  PROVE  \/ Step(p, h, Standing(p, f, X)) = [Standing(p, f, X) EXCEPT !.answer = NoMatch]
         \/ h[f[X]] = 0 /\ IsPadded(NodeOf(p, f, X)) /\ NodeOf(p, f, X).kind = "slots"
<1> DEFINE H == HashesOf(p)
           l == Level(tier, f, X)
           v == h[f[X]]
           at == Standing(p, f, X)
           node == NodeOf(p, f, X)
<1>1. /\ IsConfig(config) /\ Sound(tier, f, H) /\ DOMAIN Content(p) = H /\ X \in Nodes(f, H)
      /\ \A k : Cardinality(AtLevel(tier, f, H, k)) <= config.nodeOnes
  BY DEF Readable, Reaches
<1>2. LeadsOn(config, tier, f, Content(p), l, X)
  <2>1. X \in AtLevel(tier, f, H, l)
    BY <1>1 DEF AtLevel
  <2> QED BY <1>1, <2>1, NextFacts
<1>3. /\ node.kind = "slots" /\ node.byte = f[X]
      /\ (GetNextNode(config, node, v) = NoMatch) \/ (v = 0 /\ IsPadded(node))
  BY <1>2 DEF LeadsOn, NodeOf, Values, IsPadded
<1>4. Step(p, h, at) = Slots(at, node, h)
  BY <1>1, <1>3, ReadNode
<1>5. f[X] \in Free(tier, Examined(f, X))
  BY <1>1 DEF Sound, IsTree
<1>6. at.examined = Examined(f, X)
  BY DEF Standing
<1>7. CASE GetNextNode(config, node, v) = NoMatch
  <2>1. Slots(at, node, h) = [at EXCEPT !.answer = NoMatch]
    <3> HIDE DEF at, node
    <3> QED BY <1>3, <1>5, <1>6, <1>7 DEF Slots
  <2> QED BY <1>4, <2>1
<1> QED BY <1>3, <1>7

\* At a leaf it ends.
LEMMA StepLeaf ==
  ASSUME NEW p, NEW f, Readable(p, f), NEW h, NEW X \in Nodes(f, HashesOf(p)), X \notin DOMAIN f
  PROVE  Step(p, h, Standing(p, f, X))
           = [Standing(p, f, X) EXCEPT !.answer = Leaf(Standing(p, f, X), NodeOf(p, f, X), h)]
<1>1. NodeOf(p, f, X).kind = "leaf"
  BY DEF NodeOf, WrittenNode, LeafNode
<1> QED BY <1>1, ReadNode

\* A leaf has one hash, whose index it answers with, if it answers an index.
LEMMA LeafIs ==
  ASSUME NEW p, NEW f, Readable(p, f), NEW X \in Nodes(f, HashesOf(p)), X \notin DOMAIN f
  PROVE  \E g : /\ X = {g} /\ g \in HashesOf(p) /\ g \in Hash /\ stored[g] \in Nat
                /\ NodeOf(p, f, X) =
                     [kind |-> "leaf", pi |-> stored[g],
                      bytes |-> PaddedTo(ReassuranceHashBytes(tier, f, X), ReassuranceBytes, 0)]
<1> DEFINE H == HashesOf(p)
<1>1. /\ IsTree(tier, f, H) /\ IsFiniteSet(H) /\ H \subseteq Hash /\ Crowds(f, H) \subseteq DOMAIN f
      /\ DOMAIN Content(p) = H
      /\ \A g \in H : Content(p)[g] = stored[g] /\ stored[g] \in Nat
  BY DEF Readable, Sound
<1>2. X \subseteq H /\ X # {}
  BY <1>1, NodeFacts
<1>3. IsFiniteSet(X)
  BY <1>1, <1>2, FS_Subset
<1>4. ~ (Cardinality(X) > 1)
  BY <1>1 DEF Crowds
<1>5. Cardinality(X) \in Nat /\ (Cardinality(X) = 0 <=> X = {})
  BY <1>3, FS_CardinalityType, FS_EmptySet
<1>6. Cardinality(X) = 1
  BY <1>2, <1>4, <1>5
<1>7. PICK g : X = {g}
  BY <1>3, <1>6, FS_Singleton
<1>8. g \in H /\ (CHOOSE e \in X : TRUE) = g
  BY <1>2, <1>7
<1>9. NodeOf(p, f, X) = [kind |-> "leaf", pi |-> stored[g],
                         bytes |-> PaddedTo(ReassuranceHashBytes(tier, f, X), ReassuranceBytes, 0)]
  BY <1>1, <1>8 DEF NodeOf, WrittenNode, LeafNode
<1> QED BY <1>1, <1>7, <1>8, <1>9

\* How a lookup ends at a node: at a leaf with what the leaf says, at another node because
\* there is no slot for the value, unless it is the value of the padding.
EndsAt(p, f, h, X, answer) ==
  IF X \in DOMAIN f
  THEN /\ h[f[X]] \notin Values(f, X)
       /\ \/ answer = NoMatch
          \/ h[f[X]] = 0 /\ IsPadded(NodeOf(p, f, X)) /\ NodeOf(p, f, X).kind = "slots"
  ELSE answer = Leaf(Standing(p, f, X), NodeOf(p, f, X), h)
Outcome(p, f, h, answer) == \E X : Reaches(p, f, h, X) /\ EndsAt(p, f, h, X, answer)

\* A leaf answers: its answer is not to go on.
LEMMA LeafAnswers ==
  ASSUME NEW p, NEW f, Readable(p, f), NEW X \in Nodes(f, HashesOf(p)), X \notin DOMAIN f, NEW h
  PROVE  Leaf(Standing(p, f, X), NodeOf(p, f, X), h) # Going
<1>1. PICK g : stored[g] \in Nat /\ NodeOf(p, f, X).pi = stored[g]
  BY LeafIs
<1>2. NoMatch # Going
  BY ConfigFacts DEF Readable, Going
<1>3. stored[g] # Going /\ Hangs # Going
  BY <1>1 DEF Going, Hangs
<1> QED BY <1>1, <1>2, <1>3 DEF Leaf

\* Every lookup ends at a node that it reaches.
FirstAt(p) == [level |-> roots[p + 1].level, id |-> roots[p + 1].id, examined |-> {}, answer |-> Going]
Ended(at, answer) == [at EXCEPT !.answer = answer]
Endings(p, f, h) ==
  {Ended(Standing(p, f, X), NoMatch) : X \in Nodes(f, HashesOf(p))}
    \cup {Ended(Standing(p, f, X), Leaf(Standing(p, f, X), NodeOf(p, f, X), h)) : X \in Nodes(f, HashesOf(p))}
Ends(p, f, h) == {z \in Endings(p, f, h) : z.answer # Going /\ Outcome(p, f, h, z.answer)}
Passing(p, f, h, n) ==
  {Standing(p, f, X) : X \in {Z \in Nodes(f, HashesOf(p)) : Reaches(p, f, h, Z) /\ Cardinality(Above(f, Z)) = n}}
Strays(p, f, h) ==
  \E X \in DOMAIN f : /\ Reaches(p, f, h, X) /\ h[f[X]] \notin Values(f, X)
                      /\ h[f[X]] = 0 /\ IsPadded(NodeOf(p, f, X)) /\ NodeOf(p, f, X).kind = "slots"

\* A step of a lookup that does not stray into the padding goes one node down, or ends.
LEMMA StepFacts ==
  ASSUME NEW p, NEW f, Readable(p, f), NEW h, ~ Strays(p, f, h), NEW n \in Nat,
         NEW at, at \in Passing(p, f, h, n) \cup Ends(p, f, h)
  PROVE  Step(p, h, at) \in Passing(p, f, h, n + 1) \cup Ends(p, f, h)
<1>1. CASE at \in Ends(p, f, h)
  <2>1. Step(p, h, at) = at
    BY <1>1 DEF Ends, Step
  <2> QED BY <1>1, <2>1
<1>2. CASE at \in Passing(p, f, h, n)
  <2>1. PICK X \in Nodes(f, HashesOf(p)) :
          Reaches(p, f, h, X) /\ Cardinality(Above(f, X)) = n /\ at = Standing(p, f, X)
    BY <1>2 DEF Passing
  <2>2. CASE X \notin DOMAIN f
    <3> DEFINE a == Leaf(Standing(p, f, X), NodeOf(p, f, X), h)
    <3>1. Step(p, h, at) = Ended(Standing(p, f, X), a)
      BY <2>1, <2>2, StepLeaf DEF Ended
    <3>2. a # Going
      BY <2>2, LeafAnswers
    <3>3. Outcome(p, f, h, a)
      BY <2>1, <2>2 DEF Outcome, EndsAt
    <3>4. Step(p, h, at) \in Endings(p, f, h)
      BY <3>1 DEF Endings
    <3>5. Step(p, h, at).answer = a
      <4> HIDE DEF a
      <4> QED BY <3>1 DEF Ended, Standing
    <3> QED BY <3>2, <3>3, <3>4, <3>5 DEF Ends
  <2>3. CASE X \in DOMAIN f /\ h[f[X]] \in Values(f, X)
    <3> DEFINE P == WithByte(X, f[X], h[f[X]])
    <3>1. /\ Reaches(p, f, h, P) /\ Cardinality(Above(f, P)) = n + 1
          /\ Step(p, h, at) = Standing(p, f, P)
      BY <2>1, <2>3, StepOn
    <3>2. P \in Nodes(f, HashesOf(p))
      BY <3>1 DEF Reaches
    <3> HIDE DEF P
    <3> QED BY <3>1, <3>2 DEF Passing
  <2>4. CASE X \in DOMAIN f /\ h[f[X]] \notin Values(f, X)
    <3>1. Step(p, h, at) = Ended(Standing(p, f, X), NoMatch)
      BY <2>1, <2>4, StepOff DEF Strays, Ended
    <3>2. NoMatch # Going
      BY ConfigFacts DEF Readable, Going
    <3>3. Outcome(p, f, h, NoMatch)
      BY <2>1, <2>4 DEF Outcome, EndsAt
    <3>4. Step(p, h, at) \in Endings(p, f, h)
      BY <3>1 DEF Endings
    <3>5. Step(p, h, at).answer = NoMatch
      BY <3>1 DEF Ended, Standing
    <3> QED BY <3>2, <3>3, <3>4, <3>5 DEF Ends
  <2> QED BY <2>2, <2>3, <2>4
<1> QED BY <1>1, <1>2

\* A lookup starts at the root of the tree.
LEMMA StartFacts ==
  ASSUME NEW p, NEW f, Readable(p, f), NEW h
  PROVE  FirstAt(p) \in Passing(p, f, h, 0)
<1> DEFINE H == HashesOf(p)
<1>1. /\ IsTree(tier, f, H) /\ H # {} /\ tier \in Nat /\ roots[p + 1] = [level |-> tier, id |-> 0]
  BY DEF Readable, Sound
<1>2. /\ H \in Nodes(f, H) /\ Above(f, H) = {}
      /\ \A n \in Nodes(f, H) : n = H \/ H \in Above(f, n)
  BY <1>1, RootFacts
<1>3. Cardinality({}) = 0
  BY FS_EmptySet
<1>4. Level(tier, f, H) = tier /\ Examined(f, H) = {}
  BY <1>1, <1>2, <1>3 DEF Level, Examined
<1>5. \A n \in Nodes(f, H) : n # H => Level(tier, f, n) # tier
  <2> SUFFICES ASSUME NEW n \in Nodes(f, H), n # H PROVE Level(tier, f, n) # tier
    OBVIOUS
  <2>1. IsFiniteSet(Above(f, n)) /\ Cardinality(Above(f, n)) \in Nat /\ Above(f, n) # {}
    BY <1>1, <1>2, ExaminedFacts
  <2>2. Cardinality(Above(f, n)) # 0
    BY <2>1, FS_EmptySet
  <2> DEFINE k == Cardinality(Above(f, n))
  <2>3. k \in Nat /\ k # 0
    BY <2>1, <2>2
  <2> HIDE DEF k
  <2>4. tier + 2 * k # tier
    BY <1>1, <2>3
  <2> QED BY <2>4 DEF Level, k
<1>6. AtLevel(tier, f, H, Level(tier, f, H)) = {H}
  BY <1>2, <1>4, <1>5 DEF AtLevel
<1>7. NumberOf(p, f, H) = 0
  BY <1>2, <1>6, ReadNode, FS_Singleton
<1>8. FirstAt(p) = Standing(p, f, H)
  BY <1>1, <1>4, <1>7 DEF FirstAt, Standing
<1>9. Reaches(p, f, h, H)
  BY <1>2, <1>4 DEF Reaches
<1>10. Cardinality(Above(f, H)) = 0
  BY <1>2, <1>3
<1> QED BY <1>2, <1>8, <1>9, <1>10 DEF Passing

\* By induction over its steps, every lookup ends at a node that it reaches, as EndsAt says.
LEMMA LookupEnds ==
  ASSUME NEW h, NEW f, Readable(PrefixIndex(h), f)
  PROVE  Outcome(PrefixIndex(h), f, h, Lookup(h))
<1> DEFINE p == PrefixIndex(h)
           len == HashBytes + 1
           start == FirstAt(p)
           once(at) == Step(p, h, at)
           States(n) == Passing(p, f, h, n) \cup Ends(p, f, h)
           Y == UNION {States(n) : n \in 0 .. len}
           X == [i \in 0 .. len |-> States(i)]
           next == [q \in ((1 .. len) \X Y) |-> once(q[2])]
<1>1. CASE Strays(p, f, h)
  BY <1>1 DEF Strays, Outcome, EndsAt
<1>2. CASE ~ Strays(p, f, h)
  <2>0. len \in Nat
    BY ShallowTreeAssumption
  <2>1. start \in States(0)
    <3> HIDE DEF p
    <3>1. start \in Passing(p, f, h, 0)
      BY StartFacts DEF p
    <3> QED BY <3>1
  <2>2. ASSUME NEW n \in 0 .. len, NEW at \in States(n) PROVE once(at) \in States(n + 1)
    <3>1. n \in Nat
      BY <2>0
    <3> QED BY <1>2, <3>1, StepFacts
  <2>3. \A i \in 0 .. len : States(i) \subseteq Y
    <3> HIDE DEF States
    <3> QED OBVIOUS
  <2>4. \A i \in 1 .. len : \A at \in Y : next[<<i, at>>] = once(at)
    <3> HIDE DEF Y, len, once
    <3> QED OBVIOUS
  <2>5. \A i \in 1 .. len : i - 1 \in 0 .. len /\ (i - 1) + 1 = i /\ i \in 0 .. len
    BY <2>0
  <2>6. 0 \in 0 .. len /\ len \in 0 .. len
    BY <2>0
  <2>7. \A i \in 0 .. len : X[i] = States(i)
    <3> HIDE DEF States, len
    <3> QED OBVIOUS
  <2> HIDE DEF p, len, start, once, States, Y, X, next
  <2>8. \A i \in 1 .. len : \A at \in States(i - 1) : once(at) \in States(i)
    <3> SUFFICES ASSUME NEW i \in 1 .. len, NEW at \in States(i - 1) PROVE once(at) \in States(i)
      OBVIOUS
    <3> QED BY <2>2, <2>5
  <2>9. PICK g : Follows(g, len, Y, X, start, next)
    <3>1. \A i \in 1 .. len : \A at \in X[i - 1] : next[<<i, at>>] \in X[i]
      <4> SUFFICES ASSUME NEW i \in 1 .. len, NEW at \in X[i - 1] PROVE next[<<i, at>>] \in X[i]
        OBVIOUS
      <4>1. at \in States(i - 1) /\ at \in Y
        BY <2>3, <2>5, <2>7
      <4> QED BY <2>4, <2>5, <2>7, <2>8, <4>1
    <3>2. Leads(len, Y, X, start, next)
      BY <2>1, <2>3, <2>6, <2>7, <3>1 DEF Leads
    <3> QED BY <2>0, <3>2, Recursion
  <2>10. g = [i \in 0 .. len |-> g[i]] /\ g[0] = start /\ \A i \in 1 .. len : g[i] = once(g[i - 1])
    <3>1. /\ g \in [0 .. len -> Y] /\ g[0] = start
          /\ \A i \in 1 .. len : g[i] = next[<<i, g[i - 1]>>]
      BY <2>9 DEF Follows
    <3>2. \A i \in 1 .. len : g[i - 1] \in Y
      BY <2>5, <3>1
    <3> QED BY <2>4, <3>1, <3>2
  <2>11. g = [i \in 0 .. len |-> IF i = 0 THEN start ELSE once(g[i - 1])]
    <3>1. \A i \in 0 .. len : i # 0 => i \in 1 .. len
      BY <2>0
    <3>2. \A i \in 0 .. len : g[i] = IF i = 0 THEN start ELSE once(g[i - 1])
      BY <2>10, <3>1
    <3> QED BY <2>10, <3>2, Zenon
  <2>12. PICK e : e = (CHOOSE after : after = [i \in 0 .. len |-> IF i = 0 THEN start ELSE once(after[i - 1])])
    OBVIOUS
  <2>13. e = [i \in 0 .. len |-> IF i = 0 THEN start ELSE once(e[i - 1])]
    BY <2>11, <2>12
  <2>14. Lookup(h) = e[len].answer
    BY <2>12 DEF Lookup, FirstAt, p, len, start, once
  <2>15. e[len] \in States(len)
    <3> DEFINE S == {i \in 0 .. len : e[i] \in States(i)}
    <3>1. 0 \in S
      BY <2>1, <2>6, <2>13
    <3>2. ASSUME NEW m \in 0 .. len - 1, m \in S PROVE m + 1 \in S
      <4>1. m + 1 \in 0 .. len /\ m + 1 # 0 /\ (m + 1) - 1 = m /\ m \in 0 .. len
        BY <2>0
      <4>2. e[m + 1] = once(e[m])
        BY <2>13, <4>1
      <4>3. e[m] \in States(m)
        BY <3>2
      <4> QED BY <2>2, <4>1, <4>2, <4>3
    <3>3. 0 .. len \subseteq S
      <4> HIDE DEF S
      <4> QED BY <2>0, <3>1, <3>2, InductionUpTo
    <3> QED BY <2>6, <3>3
  <2>16. Passing(p, f, h, len) = {}
    <3>1. \A Z \in Nodes(f, HashesOf(p)) : Cardinality(Above(f, Z)) \in 0 .. HashBytes
      BY ExaminedFacts DEF Readable, Sound, p
    <3>2. \A Z \in Nodes(f, HashesOf(p)) : Cardinality(Above(f, Z)) # HashBytes + 1
      BY <3>1, ShallowTreeAssumption
    <3> QED BY <3>2 DEF Passing, len
  <2>17. e[len] \in Ends(p, f, h)
    BY <2>15, <2>16 DEF States
  <2> QED BY <2>14, <2>17 DEF Ends, p
<1> QED BY <1>1, <1>2

\* A forest that is done and opens is readable, where no level is too crowded.
LEMMA PrefixIndexFacts ==
  ASSUME tier \in Tiers, NEW h \in Hash
  PROVE  PrefixIndex(h) \in 0 .. PrefixCount - 1
<1>1. tier \in Nat /\ tier \in 0 .. 2 * HashBytes
  BY ForestAssumption, ShallowTreeAssumption
<1>2. PrefixOf(h, tier) \in [1 .. tier -> 0 .. NibbleBase - 1]
  BY <1>1, PrefixType
<1> QED BY <1>1, <1>2, IndexBelow DEF PrefixIndex, PrefixCount

\* What is given is in order: the configuration, the tier, and the hashes of a prefix.
LEMMA GivenFacts ==
  ASSUME ControlFits, config \in Configs, stored \in StoredSets, NEW p
  PROVE  /\ IsConfig(config) /\ tier \in Nat /\ tier \in 0 .. 2 * HashBytes /\ tier \in Tiers
         /\ IsFiniteSet(HashesOf(p)) /\ HashesOf(p) \subseteq Hash /\ DOMAIN stored \subseteq Hash
         /\ DOMAIN Content(p) = HashesOf(p)
         /\ \A g \in HashesOf(p) : Content(p)[g] = stored[g] /\ stored[g] \in Nat
         /\ \A g, h \in DOMAIN stored : stored[g] = stored[h] => g = h
<1>1. HashesOf(p) \subseteq DOMAIN stored /\ IsFiniteSet(DOMAIN stored) /\ DOMAIN stored \subseteq Hash
  BY ForestAssumption DEF HashesOf
<1>2. IsFiniteSet(HashesOf(p))
  BY <1>1, FS_Subset
<1>3. tier \in Tiers /\ tier \in Nat /\ tier \in 0 .. 2 * HashBytes
  BY ForestAssumption, ShallowTreeAssumption DEF ControlFits
<1>4. \A g, h \in DOMAIN stored : stored[g] \in Nat /\ (stored[g] = stored[h] => g = h)
  BY ForestAssumption
<1>5. DOMAIN Content(p) = HashesOf(p) /\ \A g \in HashesOf(p) : Content(p)[g] = stored[g]
  BY DEF Content, Restrict
<1>6. IsConfig(config)
  BY ForestAssumption
<1> QED BY <1>1, <1>2, <1>3, <1>4, <1>5, <1>6

\* A forest that has been made and opens is readable, at each prefix whose tree fits.
LEMMA ReadableWhenDone ==
  ASSUME RowsAccounted, TreesFit, OpenReadsBack, Done, Opens,
         NEW p \in 0 .. PrefixCount - 1, HashesOf(p) # {}, ~ Crowded(p)
  PROVE  Readable(p, forks[p + 1]) /\ trees[p + 1] = EncodedFrom(forks[p + 1], p)
<1> DEFINE f == forks[p + 1]
           H == HashesOf(p)
<1>1. /\ IsConfig(config) /\ tier \in Nat /\ IsFiniteSet(H) /\ H \subseteq Hash /\ DOMAIN Content(p) = H
      /\ \A g \in H : Content(p)[g] = stored[g] /\ stored[g] \in Nat
      /\ \A g, h \in DOMAIN stored : stored[g] = stored[h] => g = h
  BY GivenFacts DEF RowsAccounted, TreesFit
<1>2. p + 1 \in 1 .. Len(trees) /\ p + 1 <= Len(roots) /\ (p + 1) - 1 = p
  <2>1. PrefixCount = Len(roots) /\ Len(roots) = prefix /\ prefix \in Nat /\ Len(trees) = prefix
    BY DEF RowsAccounted, ControlFits, Opens, Done
  <2> QED BY <2>1
<1>3. /\ IsTree(tier, f, H) /\ Crowds(f, H) \subseteq DOMAIN f
      /\ trees[p + 1] = EncodedFrom(f, p) /\ roots[p + 1] = RootOf(H)
  <2>1. TreesFinished
    BY DEF TreesFit
  <2> QED BY <1>2, <2>1 DEF TreesFinished
<1>4. Sound(tier, f, H)
  BY <1>1, <1>3 DEF Sound
<1>5. roots[p + 1] = [level |-> tier, id |-> 0]
  BY <1>3 DEF RootOf
<1>6. ASSUME NEW l PROVE Cardinality(AtLevel(tier, f, H, l)) <= config.nodeOnes
  <2>1. config.nodeOnes \in Nat
    BY <1>1, ConfigFacts
  <2>2. CASE l \in LevelsOf(tier, f, H)
    <3>1. Cardinality(AtLevel(tier, f, H, l)) \in Nat
      BY <1>1, <1>3, LevelNodesFacts DEF IsListOf
    <3>2. ~ (Cardinality(AtLevel(tier, f, H, l)) > config.nodeOnes)
      BY <2>2 DEF Crowded, TooMany
    <3> QED BY <2>1, <3>1, <3>2
  <2>3. CASE l \notin LevelsOf(tier, f, H)
    <3>1. AtLevel(tier, f, H, l) = {}
      BY <2>3 DEF LevelsOf, AtLevel
    <3> QED BY <2>1, <3>1, FS_EmptySet
  <2> QED BY <2>2, <2>3
<1>7. ASSUME NEW X \in Nodes(f, H)
      PROVE  HasBytes(Level(tier, f, X), p)
             /\ Blob(Level(tier, f, X), p) = Encoded(config, tier, f, Content(p), Level(tier, f, X))
  <2> DEFINE l == Level(tier, f, X)
  <2>1. l \in LevelsOf(tier, f, H)
    BY DEF LevelsOf
  <2> HIDE DEF l
  <2>2. l \in DOMAIN trees[p + 1] /\ trees[p + 1][l] = Encoded(config, tier, f, Content(p), l)
    BY <1>3, <2>1 DEF EncodedFrom
  <2>3. HasBytes(l, p) /\ Blob(l, p) = trees[p + 1][l]
    BY <2>2 DEF OpenReadsBack
  <2> QED BY <2>2, <2>3 DEF l
<1>8. H \subseteq DOMAIN stored
  BY DEF HashesOf
<1> QED BY <1>1, <1>3, <1>4, <1>5, <1>6, <1>7, <1>8 DEF Readable

\* What a leaf compares of a hash: the first of the bytes that are left, with what was
\* kept of the hash that is stored.
LEMMA FirstFreeFacts ==
  ASSUME NEW t, NEW examined
  PROVE  LET free == Free(t, examined)
             left == Ascending(free)
             k == Min({ReassuranceBytes, Len(left)})
         IN  /\ IsFiniteSet(free) /\ Cardinality(free) \in Nat /\ Len(left) = Cardinality(free)
             /\ Len(left) \in Nat
             /\ left \in [1 .. Len(left) -> free]
             /\ \A i, j \in 1 .. Len(left) : left[i] = left[j] => i = j
             /\ k \in 0 .. Len(left) /\ k <= ReassuranceBytes
             /\ (Len(left) >= ReassuranceBytes => k = ReassuranceBytes)
             /\ DOMAIN FirstFree(free) = 1 .. k /\ Len(FirstFree(free)) = k
             /\ \A i \in 1 .. k : FirstFree(free)[i] = left[i]
<1> DEFINE free == Free(t, examined)
           left == Ascending(free)
           n == Cardinality(free)
           k == Min({ReassuranceBytes, n})
<1>1. free \subseteq Bytes
  BY DEF Free
<1>2. IsFiniteSet(Bytes) /\ Bytes \subseteq Nat
  BY FS_Interval, ShallowTreeAssumption DEF Bytes
<1>3. IsFiniteSet(free) /\ free \subseteq Nat
  BY <1>1, <1>2, FS_Subset
<1> HIDE DEF free
<1>4. /\ n \in Nat /\ Len(left) = n /\ left \in [1 .. n -> free] /\ left \in Seq(free)
      /\ \A i, j \in 1 .. n : left[i] = left[j] => i = j
  BY <1>3, AscendingFacts
<1> HIDE DEF n, left
<1>5. ReassuranceBytes \in Nat
  BY ShallowTreeAssumption
<1>6. k \in {ReassuranceBytes, n} /\ k <= ReassuranceBytes /\ k <= n
  BY <1>4, <1>5, MinFacts
<1> HIDE DEF k
<1>7. k \in 0 .. n /\ (n >= ReassuranceBytes => k = ReassuranceBytes)
  BY <1>4, <1>5, <1>6
<1>8. FirstFree(free) = SubSeq(left, 1, k)
  BY DEF FirstFree, left, k, n
<1>9. /\ DOMAIN SubSeq(left, 1, k) = 1 .. k /\ Len(SubSeq(left, 1, k)) = k
      /\ \A i \in 1 .. k : SubSeq(left, 1, k)[i] = left[i]
  BY <1>4, <1>7
<1> QED BY <1>3, <1>4, <1>6, <1>7, <1>8, <1>9 DEF free, left, k, n

Kept(f, left) == IF f = <<>> THEN FirstBytes ELSE left
IsCompared(f, X, h, g, answer) ==
  LET left == Ascending(Free(tier, Examined(f, X)))
      k == Min({ReassuranceBytes, Len(left)})
  IN  IF \E i \in 1 .. k : h[left[i]] # g[Kept(f, left)[i]] THEN answer = NoMatch
      ELSE IF Len(left) < ReassuranceBytes THEN answer = Hangs ELSE answer = stored[g]
\* What a leaf answers depends on a comparison with the bytes it keeps.
LEMMA LeafCompares ==
  ASSUME NEW p, NEW f, Readable(p, f), NEW X \in Nodes(f, HashesOf(p)), X \notin DOMAIN f, NEW h
  PROVE  \E g : /\ X = {g} /\ g \in HashesOf(p)
                /\ IsCompared(f, X, h, g, Leaf(Standing(p, f, X), NodeOf(p, f, X), h))
<1> DEFINE free == Free(tier, Examined(f, X))
           left == Ascending(free)
           k == Min({ReassuranceBytes, Len(left)})
           kept == ReassuranceIndices(tier, f, X)
           bytes == PaddedTo(ReassuranceHashBytes(tier, f, X), ReassuranceBytes, 0)
<1>1. PICK g : /\ X = {g} /\ g \in HashesOf(p)
               /\ NodeOf(p, f, X) = [kind |-> "leaf", pi |-> stored[g], bytes |-> bytes]
  BY LeafIs
<1>2. /\ k \in 0 .. Len(left) /\ k <= ReassuranceBytes
      /\ DOMAIN FirstFree(free) = 1 .. k /\ Len(FirstFree(free)) = k
      /\ \A i \in 1 .. k : FirstFree(free)[i] = left[i]
  BY FirstFreeFacts
<1>3. ReassuranceBytes \in Nat
  BY ShallowTreeAssumption
<1>5. ReassuranceHashBytes(tier, f, X) = [i \in 1 .. Len(kept) |-> g[kept[i]]]
  <2> DEFINE hash == CHOOSE e \in X : TRUE
  <2>1. hash = g
    BY <1>1
  <2>2. ReassuranceHashBytes(tier, f, X) = [i \in 1 .. Len(kept) |-> hash[kept[i]]]
    BY DEF ReassuranceHashBytes
  <2> HIDE DEF hash, kept
  <2> QED BY <2>1, <2>2
<1>6. Len(kept) \in Nat /\ k <= Len(kept) /\ \A i \in 1 .. k : kept[i] = Kept(f, left)[i]
  <2> HIDE DEF left, k
  <2>1. CASE f = <<>>
    <3>1. kept = FirstBytes /\ Kept(f, left) = FirstBytes
      BY <2>1 DEF ReassuranceIndices, Kept
    <3>2. Len(FirstBytes) = ReassuranceBytes
      BY <1>3 DEF FirstBytes
    <3> HIDE DEF kept
    <3> QED BY <1>2, <1>3, <3>1, <3>2
  <2>2. CASE f # <<>>
    <3>1. kept = FirstFree(free) /\ Kept(f, left) = left
      BY <2>2 DEF ReassuranceIndices, Kept
    <3>2. k \in Nat
      BY <1>2, FirstFreeFacts DEF left
    <3> HIDE DEF kept, free
    <3> QED BY <1>2, <3>1, <3>2
  <2> QED BY <2>1, <2>2
<1>7. \A i \in 1 .. k : bytes[i] = g[Kept(f, left)[i]]
  <2> SUFFICES ASSUME NEW i \in 1 .. k PROVE bytes[i] = g[Kept(f, left)[i]]
    OBVIOUS
  <2>0. k \in Nat
    <3>1. Len(left) \in Nat
      BY FirstFreeFacts
    <3> HIDE DEF left, k
    <3> QED BY <1>2, <3>1
  <2> HIDE DEF kept, left, k
  <2>1. i \in 1 .. ReassuranceBytes /\ i \in 1 .. Len(kept)
    BY <1>2, <1>3, <1>6, <2>0
  <2> DEFINE r == [j \in 1 .. Len(kept) |-> g[kept[j]]]
  <2>2. Len(r) = Len(kept) /\ r[i] = g[kept[i]]
    BY <1>6, <2>1
  <2>3. i <= Len(kept)
    BY <1>6, <2>1
  <2> HIDE DEF r
  <2>4. bytes = PaddedTo(r, ReassuranceBytes, 0)
    BY <1>5 DEF r
  <2>5. bytes[i] = r[i]
    BY <2>1, <2>2, <2>3, <2>4 DEF PaddedTo
  <2> QED BY <1>6, <2>2, <2>5
<1>8. Standing(p, f, X).examined = Examined(f, X)
  BY DEF Standing
<1>9. NodeOf(p, f, X).bytes = bytes /\ NodeOf(p, f, X).pi = stored[g]
  BY <1>1
<1> DEFINE at == Standing(p, f, X)
           leaf == NodeOf(p, f, X)
<1>10. IF \E i \in 1 .. k : h[left[i]] # g[Kept(f, left)[i]] THEN Leaf(at, leaf, h) = NoMatch
       ELSE IF Len(left) < ReassuranceBytes THEN Leaf(at, leaf, h) = Hangs
       ELSE Leaf(at, leaf, h) = stored[g]
  <2> HIDE DEF bytes, at, leaf
  <2>1. Leaf(at, leaf, h) = IF {i \in 1 .. k : h[left[i]] # bytes[i]} # {} THEN NoMatch
                            ELSE IF Len(left) < ReassuranceBytes THEN Hangs ELSE stored[g]
    BY <1>8, <1>9 DEF Leaf, at, leaf
  <2> HIDE DEF left, k
  <2> QED BY <1>7, <2>1
<1>11. IsCompared(f, X, h, g, Leaf(at, leaf, h))
  <2> HIDE DEF bytes, at, leaf
  <2> QED BY <1>10 DEF IsCompared
<1> QED BY <1>1, <1>11

\* The bytes left at a node are those after the prefix but the ones examined, of which there
\* are as many as the node is deep.
LEMMA DepthFacts ==
  ASSUME NEW f, NEW H, tier \in Nat, IsTree(tier, f, H), NEW X \in Nodes(f, H)
  PROVE  LET l == Level(tier, f, X)
         IN  /\ Depth(l) = Cardinality(Examined(f, X)) /\ Depth(l) \in Nat
             /\ Exhausted(l) <=> Cardinality(Free(tier, Examined(f, X))) < ReassuranceBytes
<1> DEFINE l == Level(tier, f, X)
           E == Examined(f, X)
           F == Free(tier, {})
           a == Cardinality(Above(f, X))
<1>1. a \in Nat /\ IsFiniteSet(E) /\ Cardinality(E) = a /\ E \subseteq F
  BY ExaminedFacts
<1>2. Depth(l) = a
  <2>1. l = tier + 2 * a
    BY DEF Level
  <2> HIDE DEF a, l
  <2>2. (l - tier) = 2 * a
    BY <1>1, <2>1
  <2>3. (2 * a) \div 2 = a
    BY <1>1
  <2> QED BY <2>2, <2>3 DEF Depth
<1>3. Free(tier, E) = F \ E
  BY DEF Free
<1>4. IsFiniteSet(F) /\ Cardinality(F) \in Nat
  BY FirstFreeFacts
<1>5. Cardinality(F \ E) = Cardinality(F) - Cardinality(F \cap E) /\ F \cap E = E
  BY <1>1, <1>4, FS_Difference
<1> HIDE DEF E, F, l, a
<1>6. Exhausted(l) <=> Cardinality(F \ E) < ReassuranceBytes
  BY <1>1, <1>2, <1>4, <1>5 DEF Exhausted, F
<1> QED BY <1>1, <1>2, <1>3, <1>6 DEF E, F, l

\* The tree of a prefix has no slots nodes exactly if it is that of a lone hash.
LEMMA LoneFacts ==
  ASSUME NEW p, NEW f, Readable(p, f), NEW X \in Nodes(f, HashesOf(p)), X \notin DOMAIN f
  PROVE  (f = <<>>) <=> Lone(p)
<1> DEFINE H == HashesOf(p)
<1>1. IsTree(tier, f, H)
  BY DEF Readable, Sound
<1>2. PICK g : X = {g} /\ g \in H
  BY LeafIs
<1>3. CASE f = <<>>
  <2>1. DOMAIN f = {}
    BY <1>3
  <2>2. Nodes(f, H) \subseteq {H}
    BY <2>1 DEF Nodes
  <2>3. H = {g}
    BY <1>2, <2>2
  <2> QED BY <1>3, <2>3, FS_Singleton DEF Lone
<1>4. CASE f # <<>>
  <2>1. DOMAIN f # {}
    <3>1. f = [n \in DOMAIN f |-> f[n]]
      BY <1>1 DEF IsTree
    <3>2. <<>> = [n \in {} |-> f[n]]
      BY DEF IsTree
    <3> QED BY <1>4, <3>1, <3>2
  <2>2. PICK n \in DOMAIN f : TRUE
    BY <2>1
  <2>3. n \subseteq H /\ \E a, b \in n : a # b
    BY <1>1, NodeFacts DEF IsTree
  <2>4. ~ \E a : H = {a}
    BY <2>3
  <2>5. IsFiniteSet(H)
    BY DEF Readable, Sound
  <2> QED BY <1>4, <2>4, <2>5, FS_Singleton DEF Lone
<1> QED BY <1>3, <1>4

\* What runs short, in what was encoded of the tree.
LEMMA ShortFacts ==
  ASSUME NEW p, NEW f, Readable(p, f), trees[p + 1] = EncodedFrom(f, p),
         NEW X \in Nodes(f, HashesOf(p)),
         Cardinality(Free(tier, Examined(f, X))) < ReassuranceBytes
  PROVE  RunsShort(p)
<1>1. IsTree(tier, f, HashesOf(p)) /\ tier \in Nat
  BY DEF Readable, Sound
<1>2. Exhausted(Level(tier, f, X))
  BY <1>1, DepthFacts
<1>3. DOMAIN trees[p + 1] = LevelsOf(tier, f, HashesOf(p))
  BY DEF EncodedFrom
<1> QED BY <1>2, <1>3 DEF RunsShort, LevelsOf

\* A stored hash is found.
LEMMA FoundIn ==
  ASSUME NEW h, NEW f, Readable(PrefixIndex(h), f), h \in DOMAIN stored,
         trees[PrefixIndex(h) + 1] = EncodedFrom(f, PrefixIndex(h))
  PROVE  \/ Lookup(h) = IF ~ (Lone(PrefixIndex(h)) /\ Misread(h)) THEN stored[h] ELSE NoMatch
         \/ RunsShort(PrefixIndex(h))
<1> DEFINE p == PrefixIndex(h)
<1>1. Outcome(p, f, h, Lookup(h))
  BY LookupEnds
<1> HIDE DEF p
<1>2. h \in HashesOf(p) /\ Readable(p, f) /\ trees[p + 1] = EncodedFrom(f, p)
  BY DEF HashesOf, p
<1>3. PICK X : Reaches(p, f, h, X) /\ EndsAt(p, f, h, X, Lookup(h))
  BY <1>1 DEF Outcome
<1>4. X \in Nodes(f, HashesOf(p)) /\ h \in X
  BY <1>2, <1>3 DEF Reaches
<1>5. X \notin DOMAIN f
  <2> SUFFICES ASSUME X \in DOMAIN f PROVE FALSE
    OBVIOUS
  <2> QED BY <1>3, <1>4 DEF EndsAt, Values
<1>6. Lookup(h) = Leaf(Standing(p, f, X), NodeOf(p, f, X), h)
  BY <1>3, <1>5 DEF EndsAt
<1> DEFINE free == Free(tier, Examined(f, X))
           left == Ascending(free)
           k == Min({ReassuranceBytes, Len(left)})
<1>7. PICK g : /\ X = {g} /\ g \in HashesOf(p)
               /\ IF \E i \in 1 .. k : h[left[i]] # g[Kept(f, left)[i]] THEN Lookup(h) = NoMatch
                  ELSE IF Len(left) < ReassuranceBytes THEN Lookup(h) = Hangs
                  ELSE Lookup(h) = stored[g]
  <2>1. PICK g : X = {g} /\ g \in HashesOf(p) /\ IsCompared(f, X, h, g, Lookup(h))
    BY <1>2, <1>4, <1>5, <1>6, LeafCompares
  <2>2. IF \E i \in 1 .. k : h[left[i]] # g[Kept(f, left)[i]] THEN Lookup(h) = NoMatch
        ELSE IF Len(left) < ReassuranceBytes THEN Lookup(h) = Hangs
        ELSE Lookup(h) = stored[g]
    BY <2>1 DEF IsCompared
  <2> HIDE DEF left, k
  <2> QED BY <2>1, <2>2
<1>8. g = h
  BY <1>4, <1>7
<1>9. Len(left) = Cardinality(free) /\ DOMAIN FirstFree(free) = 1 .. k
      /\ \A i \in 1 .. k : FirstFree(free)[i] = left[i]
  BY FirstFreeFacts
<1>10. CASE Len(left) < ReassuranceBytes
  <2>1. Cardinality(Free(tier, Examined(f, X))) < ReassuranceBytes
    BY <1>9, <1>10
  <2> HIDE DEF left, k
  <2>2. RunsShort(p)
    BY <1>2, <1>4, <2>1, ShortFacts
  <2> QED BY <2>2 DEF p
<1>11. CASE ~ (Len(left) < ReassuranceBytes) /\ f = <<>>
  <2>1. Lone(p)
    BY <1>2, <1>4, <1>5, <1>11, LoneFacts
  <2>2. Examined(f, X) = {}
    <3>1. DOMAIN f = {}
      BY <1>11
    <3> QED BY <3>1 DEF Examined, Above
  <2>3. Misread(h) <=> \E i \in 1 .. k : h[left[i]] # h[Kept(f, left)[i]]
    <3>1. free = Free(tier, {})
      BY <2>2
    <3>2. Kept(f, left) = FirstBytes
      BY <1>11 DEF Kept
    <3> HIDE DEF left, k, free
    <3>3. Misread(h) <=> \E i \in 1 .. k : h[FirstBytes[i]] # h[left[i]]
      BY <1>9, <3>1 DEF Misread
    <3> QED BY <3>2, <3>3
  <2> HIDE DEF left, k
  <2>4. Lookup(h) = IF ~ (Lone(p) /\ Misread(h)) THEN stored[h] ELSE NoMatch
    BY <1>7, <1>8, <1>11, <2>1, <2>3
  <2> QED BY <2>4 DEF p
<1>12. CASE ~ (Len(left) < ReassuranceBytes) /\ f # <<>>
  <2>1. ~ Lone(p)
    BY <1>2, <1>4, <1>5, <1>12, LoneFacts
  <2>2. Kept(f, left) = left
    BY <1>12 DEF Kept
  <2> HIDE DEF left, k
  <2>3. Lookup(h) = IF ~ (Lone(p) /\ Misread(h)) THEN stored[h] ELSE NoMatch
    BY <1>7, <1>8, <1>12, <2>1, <2>2
  <2> QED BY <2>3 DEF p
<1> QED BY <1>10, <1>11, <1>12

\* What was encoded of a level are its nodes, and nothing else.
LEMMA WrittenFacts ==
  ASSUME NEW p, NEW f, Readable(p, f), trees[p + 1] = EncodedFrom(f, p)
  PROVE  /\ \A X \in Nodes(f, HashesOf(p)) :
              LET l == Level(tier, f, X)
              IN  /\ l \in DOMAIN trees[p + 1]
                  /\ \E i \in DOMAIN trees[p + 1][l].nodes : trees[p + 1][l].nodes[i] = NodeOf(p, f, X)
         /\ \A l \in DOMAIN trees[p + 1] : \A i \in DOMAIN trees[p + 1][l].nodes :
              \E X \in Nodes(f, HashesOf(p)) :
                Level(tier, f, X) = l /\ trees[p + 1][l].nodes[i] = NodeOf(p, f, X)
<1> DEFINE H == HashesOf(p)
<1>1. /\ IsConfig(config) /\ Sound(tier, f, H) /\ DOMAIN Content(p) = H
      /\ \A l : Cardinality(AtLevel(tier, f, H, l)) <= config.nodeOnes
  BY DEF Readable
<1>2. DOMAIN trees[p + 1] = LevelsOf(tier, f, H)
      /\ \A l \in LevelsOf(tier, f, H) : trees[p + 1][l] = Encoded(config, tier, f, Content(p), l)
  BY DEF EncodedFrom
<1>3. \A l : LevelIs(config, tier, f, Content(p), l, Encoded(config, tier, f, Content(p), l))
  BY <1>1, EncodedLevel
<1>4. ASSUME NEW X \in Nodes(f, H)
      PROVE  LET l == Level(tier, f, X)
             IN  /\ l \in DOMAIN trees[p + 1]
                 /\ \E i \in DOMAIN trees[p + 1][l].nodes : trees[p + 1][l].nodes[i] = NodeOf(p, f, X)
  <2> DEFINE l == Level(tier, f, X)
             enc == Encoded(config, tier, f, Content(p), l)
  <2>1. l \in LevelsOf(tier, f, H) /\ X \in AtLevel(tier, f, H, l)
    BY DEF LevelsOf, AtLevel
  <2>2. LevelIs(config, tier, f, Content(p), l, enc)
    BY <1>3
  <2>3. NodeOf(p, f, X) = WrittenNode(config, tier, f, Content(p), l, X)
    BY DEF NodeOf
  <2> HIDE DEF l, enc
  <2>4. \E i \in DOMAIN enc.nodes : enc.nodes[i] = NodeOf(p, f, X)
    BY <1>1, <2>1, <2>2, <2>3 DEF LevelIs, GetNode
  <2>5. l \in DOMAIN trees[p + 1] /\ trees[p + 1][l] = enc
    BY <1>2, <2>1 DEF enc
  <2> QED BY <2>4, <2>5 DEF l
<1>5. ASSUME NEW l \in DOMAIN trees[p + 1], NEW i \in DOMAIN trees[p + 1][l].nodes
      PROVE  \E X \in Nodes(f, H) : Level(tier, f, X) = l /\ trees[p + 1][l].nodes[i] = NodeOf(p, f, X)
  <2> DEFINE enc == Encoded(config, tier, f, Content(p), l)
  <2>1. LevelIs(config, tier, f, Content(p), l, enc) /\ trees[p + 1][l] = enc
    BY <1>2, <1>3
  <2> HIDE DEF enc
  <2>2. PICK X \in AtLevel(tier, f, H, l) :
          trees[p + 1][l].nodes[i] = WrittenNode(config, tier, f, Content(p), l, X)
    BY <1>1, <2>1 DEF LevelIs
  <2> QED BY <2>2 DEF AtLevel, NodeOf
<1> QED BY <1>4, <1>5

\* A padded node in the tree of a prefix is one in what was encoded.
LEMMA PaddedFacts ==
  ASSUME NEW p, NEW f, Readable(p, f), trees[p + 1] = EncodedFrom(f, p), NEW X \in Nodes(f, HashesOf(p)),
         IsPadded(NodeOf(p, f, X)), NodeOf(p, f, X).kind = "slots"
  PROVE  Padded(p)
<1> DEFINE l == Level(tier, f, X)
<1>0. l \in DOMAIN trees[p + 1]
  BY WrittenFacts
<1>1. PICK i \in DOMAIN trees[p + 1][l].nodes : trees[p + 1][l].nodes[i] = NodeOf(p, f, X)
  BY WrittenFacts
<1> HIDE DEF l
<1> DEFINE node == trees[p + 1][l].nodes[i]
<1>2. node.kind = "slots" /\ \E j \in DOMAIN node.pairs : j > 1 /\ node.pairs[j][1] = 0
  BY <1>1 DEF IsPadded
<1> QED BY <1>0, <1>2 DEF Padded

\* The leaf of a hash is at one level only.
LEMMA LeafLevelFacts ==
  ASSUME NEW p, NEW f, Readable(p, f), trees[p + 1] = EncodedFrom(f, p),
         NEW X \in Nodes(f, HashesOf(p)), X \notin DOMAIN f, NEW g, X = {g}
  PROVE  LeafLevel(p, g) = Level(tier, f, X)
<1> DEFINE Has(l, i) == LET node == trees[p + 1][l].nodes[i] IN node.kind = "leaf" /\ node.pi = stored[g]
<1>1. ASSUME NEW Y \in Nodes(f, HashesOf(p)) \ DOMAIN f
      PROVE  \E e : Y = {e} /\ e \in HashesOf(p) /\ NodeOf(p, f, Y).kind = "leaf" /\ NodeOf(p, f, Y).pi = stored[e]
  <2>1. PICK e : /\ Y = {e} /\ e \in HashesOf(p)
                 /\ NodeOf(p, f, Y) =
                     [kind |-> "leaf", pi |-> stored[e],
                      bytes |-> PaddedTo(ReassuranceHashBytes(tier, f, Y), ReassuranceBytes, 0)]
    BY LeafIs
  <2> QED BY <2>1
<1>2. g \in HashesOf(p) /\ NodeOf(p, f, X).kind = "leaf" /\ NodeOf(p, f, X).pi = stored[g]
  BY <1>1
<1> DEFINE l == Level(tier, f, X)
<1>3. l \in DOMAIN trees[p + 1]
      /\ \E i \in DOMAIN trees[p + 1][l].nodes : trees[p + 1][l].nodes[i] = NodeOf(p, f, X)
  BY WrittenFacts
<1>4. \E i \in DOMAIN trees[p + 1][l].nodes : Has(l, i)
  BY <1>2, <1>3
<1>5. ASSUME NEW m \in DOMAIN trees[p + 1], NEW j \in DOMAIN trees[p + 1][m].nodes, Has(m, j)
      PROVE  m = Level(tier, f, X)
  <2>1. PICK Y \in Nodes(f, HashesOf(p)) : Level(tier, f, Y) = m /\ trees[p + 1][m].nodes[j] = NodeOf(p, f, Y)
    BY WrittenFacts
  <2>2. NodeOf(p, f, Y).kind = "leaf" /\ NodeOf(p, f, Y).pi = stored[g]
    BY <1>5, <2>1
  <2>3. Y \notin DOMAIN f
    <3> SUFFICES ASSUME Y \in DOMAIN f PROVE FALSE
      OBVIOUS
    <3>1. NodeOf(p, f, Y).kind = "slots"
      BY DEF NodeOf, WrittenNode, SlotsNode
    <3> QED BY <2>2, <3>1
  <2>4. PICK e : Y = {e} /\ e \in HashesOf(p) /\ NodeOf(p, f, Y).pi = stored[e]
    BY <1>1, <2>3
  <2>5. e = g
    BY <1>2, <2>2, <2>4 DEF Readable
  <2> QED BY <2>1, <2>4, <2>5
<1> HIDE DEF Has
<1>6. LeafLevel(p, g) = CHOOSE m \in DOMAIN trees[p + 1] : \E j \in DOMAIN trees[p + 1][m].nodes : Has(m, j)
  BY DEF LeafLevel, Has
<1> QED BY <1>3, <1>4, <1>5, <1>6

\* With no prefix, the bytes of a hash are left in their order.
LEMMA AllBytesInOrder ==
  ASSUME NEW i \in 1 .. HashBytes
  PROVE  Free(0, {}) = Bytes /\ Len(Ascending(Bytes)) = HashBytes /\ Ascending(Bytes)[i] = i
<1> DEFINE left == Ascending(Bytes)
<1>1. HashBytes \in Nat
  BY ShallowTreeAssumption
<1>2. Free(0, {}) = Bytes
  BY <1>1 DEF Free, Bytes
<1>3. IsFiniteSet(Bytes) /\ Bytes \subseteq Nat /\ Cardinality(Bytes) = HashBytes
  BY <1>1, FS_Interval DEF Bytes
<1>4. /\ Len(left) = HashBytes /\ left \in [1 .. HashBytes -> Bytes]
      /\ \A j \in 1 .. HashBytes : Cardinality({m \in Bytes : m < left[j]}) = j - 1
  BY <1>3, AscendingFacts
<1>5. PICK b : b = left[i]
  OBVIOUS
<1>6. b \in 1 .. HashBytes /\ Cardinality({m \in Bytes : m < b}) = i - 1
  BY <1>4, <1>5 DEF Bytes
<1>7. {m \in Bytes : m < b} = 1 .. b - 1
  BY <1>1, <1>6 DEF Bytes
<1>8. 1 \in Int /\ b - 1 \in Int
  BY <1>6
<1>9. Cardinality(1 .. b - 1) = b - 1
  BY <1>6, <1>8, FS_Interval
<1>10. b - 1 = i - 1
  BY <1>6, <1>7, <1>9
<1>11. b = i
  BY <1>6, <1>10
<1> QED BY <1>2, <1>4, <1>5, <1>11

\* A hash that passes a leaf's comparison has as many bytes in common with the one stored
\* there as were examined, and the reassurance bytes.
LEMMA CommonBytesFacts ==
  ASSUME NEW examined, NEW g, NEW h,
         examined \subseteq Free(tier, {}), \A b \in examined : g[b] = h[b],
         ReassuranceBytes <= Len(Ascending(Free(tier, examined))),
         \A i \in 1 .. ReassuranceBytes :
           h[Ascending(Free(tier, examined))[i]] = g[Ascending(Free(tier, examined))[i]]
  PROVE  Cardinality({b \in Free(tier, {}) : g[b] = h[b]}) >= Cardinality(examined) + ReassuranceBytes
<1> DEFINE F == Free(tier, {})
           free == Free(tier, examined)
           left == Ascending(free)
           first == {left[i] : i \in 1 .. ReassuranceBytes}
           common == {b \in F : g[b] = h[b]}
           place == [i \in 1 .. ReassuranceBytes |-> left[i]]
<1>1. free = F \ examined
  BY DEF Free
<1>2. IsFiniteSet(F)
  BY FirstFreeFacts
<1>3. left \in [1 .. Len(left) -> free] /\ Len(left) \in Nat
      /\ \A i, j \in 1 .. Len(left) : left[i] = left[j] => i = j
  BY FirstFreeFacts
<1>4. ReassuranceBytes \in Nat
  BY ShallowTreeAssumption
<1> HIDE DEF left, F, free
<1>5. \A i \in 1 .. ReassuranceBytes : i \in 1 .. Len(left)
  BY <1>3, <1>4 DEF left, free
<1>6. \A b \in first : b \in free /\ g[b] = h[b]
  BY <1>3, <1>5 DEF left, free
<1>7. IsFiniteSet(first) /\ Cardinality(first) = ReassuranceBytes
  <2> DEFINE T == 1 .. ReassuranceBytes
  <2>1. IsFiniteSet(T) /\ Cardinality(T) = ReassuranceBytes
    <3>1. 1 \in Int /\ ReassuranceBytes \in Int
      BY <1>4
    <3> QED BY <1>4, <3>1, FS_Interval
  <2>2. \A i \in T : i \in 1 .. Len(left)
    BY <1>5
  <2> HIDE DEF T
  <2> DEFINE to == [i \in T |-> left[i]]
             found == {left[i] : i \in T}
  <2>3. to \in [T -> found]
    OBVIOUS
  <2>4. \A i, j \in T : to[i] = to[j] => i = j
    BY <1>3, <2>2
  <2>5. \A b \in found : \E i \in T : to[i] = b
    OBVIOUS
  <2> HIDE DEF to, found
  <2>6. IsFiniteSet(found) /\ Cardinality(found) = Cardinality(T)
    BY <2>1, <2>3, <2>4, <2>5, SameSize
  <2> QED BY <2>1, <2>6 DEF found, T
<1>8. IsFiniteSet(examined) /\ IsFiniteSet(common)
  BY <1>2, FS_Subset DEF F
<1>9. examined \cap first = {}
  BY <1>1, <1>6
<1>10. examined \cup first \subseteq common
  BY <1>1, <1>6 DEF F
<1> HIDE DEF first, common
<1>11. /\ Cardinality(examined \cup first) = Cardinality(examined) + Cardinality(first) - Cardinality(examined \cap first)
       /\ Cardinality(examined) \in Nat /\ Cardinality(common) \in Nat
       /\ IsFiniteSet(examined \cup first)
  BY <1>7, <1>8, FS_Union, FS_CardinalityType
<1>12. Cardinality(examined \cup first) <= Cardinality(common)
  BY <1>8, <1>10, FS_Subset
<1>13. Cardinality(examined \cap first) = 0
  BY <1>9, FS_EmptySet
<1>14. Cardinality(common) >= Cardinality(examined) + ReassuranceBytes
  BY <1>4, <1>7, <1>11, <1>12, <1>13
<1> QED BY <1>14 DEF common, F

\* A hash that is not stored is answered a candidate at most.
CommonBytes(g, h) == {b \in Free(tier, {}) : g[b] = h[b]}
\* The way of h leads to n, none of whose hashes has the byte that h has there.
Leaves(f, h, n) == \A g \in n : g[f[n]] # h[f[n]] /\ \A b \in Examined(f, n) : g[b] = h[b]
\* It is not stored: what a lookup answers agrees with it in the bytes on the way and at the
\* leaf, unless the leaf is a lone one, which keeps other bytes.
LEMMA CandidateIn ==
  ASSUME NEW h, NEW f, Readable(PrefixIndex(h), f),
         trees[PrefixIndex(h) + 1] = EncodedFrom(f, PrefixIndex(h))
  PROVE  LET p == PrefixIndex(h)
         IN  \/ Lookup(h) = NoMatch
             \/ \E g \in HashesOf(p) :
                  /\ Lookup(h) = stored[g]
                  /\ \/ Cardinality(CommonBytes(g, h)) >= Depth(LeafLevel(p, g)) + ReassuranceBytes
                     \/ Lone(p) /\ tier > 0
             \/ RunsShort(p)
             \/ Padded(p) /\ \E n \in DOMAIN f : Leaves(f, h, n) /\ h[f[n]] = 0
<1> DEFINE p == PrefixIndex(h)
<1>1. Outcome(p, f, h, Lookup(h))
  BY LookupEnds
<1>2. Readable(p, f) /\ trees[p + 1] = EncodedFrom(f, p)
  OBVIOUS
<1> HIDE DEF p
<1>3. PICK X : Reaches(p, f, h, X) /\ EndsAt(p, f, h, X, Lookup(h))
  BY <1>1 DEF Outcome
<1>4. /\ X \in Nodes(f, HashesOf(p)) /\ tier \in Nat /\ IsTree(tier, f, HashesOf(p))
      /\ \A b \in Examined(f, X) : \A e \in X : e[b] = h[b]
  BY <1>2, <1>3 DEF Reaches, Readable, Sound
<1>5. CASE X \in DOMAIN f
  <2>1. CASE Lookup(h) = NoMatch
    BY <2>1 DEF p
  <2>2. CASE Lookup(h) # NoMatch
    <3>1. /\ h[f[X]] \notin Values(f, X) /\ h[f[X]] = 0
          /\ IsPadded(NodeOf(p, f, X)) /\ NodeOf(p, f, X).kind = "slots"
      BY <1>3, <1>5, <2>2 DEF EndsAt
    <3>2. Padded(p)
      BY <1>2, <1>4, <3>1, PaddedFacts
    <3>3. Leaves(f, h, X)
      BY <1>4, <3>1 DEF Leaves, Values
    <3> QED BY <1>5, <3>1, <3>2, <3>3 DEF p
  <2> QED BY <2>1, <2>2
<1>6. CASE X \notin DOMAIN f
  <2> DEFINE free == Free(tier, Examined(f, X))
             left == Ascending(free)
             k == Min({ReassuranceBytes, Len(left)})
  <2>1. Lookup(h) = Leaf(Standing(p, f, X), NodeOf(p, f, X), h)
    BY <1>3, <1>6 DEF EndsAt
  <2>2. PICK g : X = {g} /\ g \in HashesOf(p) /\ IsCompared(f, X, h, g, Lookup(h))
    BY <1>2, <1>4, <1>6, <2>1, LeafCompares
  <2>3. IF \E i \in 1 .. k : h[left[i]] # g[Kept(f, left)[i]] THEN Lookup(h) = NoMatch
        ELSE IF Len(left) < ReassuranceBytes THEN Lookup(h) = Hangs
        ELSE Lookup(h) = stored[g]
    BY <2>2 DEF IsCompared
  <2>4. /\ Len(left) = Cardinality(free) /\ Len(left) \in Nat /\ k <= ReassuranceBytes
        /\ (Len(left) >= ReassuranceBytes => k = ReassuranceBytes)
    BY FirstFreeFacts
  <2>5. ReassuranceBytes \in Nat
    BY ShallowTreeAssumption
  <2>6. CASE Len(left) < ReassuranceBytes
    <3>1. Cardinality(Free(tier, Examined(f, X))) < ReassuranceBytes
      BY <2>4, <2>6
    <3> HIDE DEF left, k
    <3>2. RunsShort(p)
      BY <1>2, <1>4, <3>1, ShortFacts
    <3> QED BY <3>2 DEF p
  <2>7. CASE ~ (Len(left) < ReassuranceBytes) /\ Lone(p) /\ tier > 0
    <3> HIDE DEF left, k
    <3>1. Lookup(h) = NoMatch \/ Lookup(h) = stored[g]
      BY <2>3, <2>7
    <3> QED BY <2>2, <2>7, <3>1 DEF p
  <2>8. CASE \E i \in 1 .. k : h[left[i]] # g[Kept(f, left)[i]]
    BY <2>3, <2>8 DEF p
  <2>9. CASE /\ ~ (Len(left) < ReassuranceBytes) /\ ~ (Lone(p) /\ tier > 0)
             /\ ~ \E i \in 1 .. k : h[left[i]] # g[Kept(f, left)[i]]
    <3>1. Lookup(h) = stored[g] /\ k = ReassuranceBytes /\ ReassuranceBytes <= Len(left)
      <4> HIDE DEF left, k
      <4> QED BY <2>3, <2>4, <2>5, <2>9
    <3>2. \A i \in 1 .. ReassuranceBytes : h[left[i]] = g[left[i]]
      <4>1. CASE f # <<>>
        <5>1. Kept(f, left) = left
          BY <4>1 DEF Kept
        <5> HIDE DEF left, k
        <5> QED BY <2>9, <3>1, <5>1
      <4>2. CASE f = <<>>
        <5>1. Lone(p)
          BY <1>2, <1>4, <1>6, <4>2, LoneFacts
        <5>2. tier = 0
          BY <1>4, <2>9, <5>1
        <5>3. free = Free(0, {})
          <6>1. DOMAIN f = {}
            BY <4>2
          <6>2. Examined(f, X) = {}
            BY <6>1 DEF Examined, Above
          <6> QED BY <5>2, <6>2
        <5>4. Kept(f, left) = FirstBytes
          BY <4>2 DEF Kept
        <5> SUFFICES ASSUME NEW i \in 1 .. ReassuranceBytes PROVE h[left[i]] = g[left[i]]
          OBVIOUS
        <5>5. i \in 1 .. HashBytes
          BY ShallowTreeAssumption
        <5>6. left[i] = i
          BY <5>3, <5>5, AllBytesInOrder
        <5>7. Kept(f, left)[i] = i
          BY <5>4 DEF FirstBytes
        <5> HIDE DEF left, k
        <5> QED BY <2>9, <3>1, <5>6, <5>7
      <4> QED BY <4>1, <4>2
    <3>3. Examined(f, X) \subseteq Free(tier, {})
      BY <1>4, ExaminedFacts
    <3>4. \A b \in Examined(f, X) : g[b] = h[b]
      BY <1>4, <2>2
    <3>5. Cardinality(CommonBytes(g, h)) >= Cardinality(Examined(f, X)) + ReassuranceBytes
      BY <3>1, <3>2, <3>3, <3>4, CommonBytesFacts DEF CommonBytes
    <3>6. LeafLevel(p, g) = Level(tier, f, X)
      BY <1>2, <1>4, <1>6, <2>2, LeafLevelFacts
    <3>7. Depth(LeafLevel(p, g)) = Cardinality(Examined(f, X))
      BY <1>4, <3>6, DepthFacts
    <3> QED BY <2>2, <3>1, <3>5, <3>7 DEF p
  <2> QED BY <2>6, <2>7, <2>8, <2>9
<1> QED BY <1>5, <1>6

(***************************************************************************)
(* The trees of an icing                                                   *)
(***************************************************************************)
LEMMA LookupsAreRight ==
  ASSUME RowsAccounted, TreesFit, OpenReadsBack
  PROVE  IcedFound /\ CandidateAgrees
<1>0. ControlFits /\ config \in Configs /\ stored \in StoredSets /\ tier \in Tiers
  BY DEF RowsAccounted, TreesFit, ControlFits
<1>1. ASSUME Done, Opens, NEW p \in 0 .. PrefixCount - 1, HashesOf(p) # {}, ~ Crowded(p)
      PROVE  Readable(p, forks[p + 1]) /\ trees[p + 1] = EncodedFrom(forks[p + 1], p)
  BY <1>1, ReadableWhenDone
<1>2. DOMAIN stored \subseteq Hash /\ Probes \subseteq Hash
  BY <1>0, GivenFacts, ForestAssumption
<1>3. ASSUME NEW h \in Hash PROVE PrefixIndex(h) \in 0 .. PrefixCount - 1
  BY <1>0, PrefixIndexFacts
<1>4. IcedFound
  <2> SUFFICES ASSUME Done, Opens, NEW h \in DOMAIN stored, ~ Crowded(PrefixIndex(h))
               PROVE  \/ Lookup(h) = stored[h]
                      \/ RunsShort(PrefixIndex(h)) \/ (Lone(PrefixIndex(h)) /\ Misread(h))
    BY DEF IcedFound
  <2>1. HashesOf(PrefixIndex(h)) # {}
    BY DEF HashesOf
  <2>2. PrefixIndex(h) \in 0 .. PrefixCount - 1
    BY <1>2, <1>3
  <2>3. /\ Readable(PrefixIndex(h), forks[PrefixIndex(h) + 1])
        /\ trees[PrefixIndex(h) + 1] = EncodedFrom(forks[PrefixIndex(h) + 1], PrefixIndex(h))
    BY <1>1, <2>1, <2>2
  <2> QED BY <2>3, FoundIn
<1>5. CandidateAgrees
  <2> DEFINE Allowed(h) ==
        LET p == PrefixIndex(h)
            common(g) == {b \in Free(tier, {}) : g[b] = h[b]}
        IN  \/ Lookup(h) = NoMatch
            \/ \E g \in HashesOf(p) :
                 /\ Lookup(h) = stored[g]
                 /\ \/ Cardinality(common(g)) >= Depth(LeafLevel(p, g)) + ReassuranceBytes
                    \/ Lone(p) /\ tier > 0
            \/ HashesOf(p) = {} \/ Crowded(p) \/ RunsShort(p) \/ MeetsPadding(p, h)
  <2>1. ASSUME Done, Opens, NEW h \in Probes PROVE Allowed(h)
    <3> DEFINE p == PrefixIndex(h)
    <3>1. CASE HashesOf(p) = {} \/ Crowded(p)
      BY <3>1
    <3>2. CASE ~ (HashesOf(p) = {} \/ Crowded(p))
      <4>1. p \in 0 .. PrefixCount - 1
        BY <1>2, <1>3
      <4>2. Readable(p, forks[p + 1]) /\ trees[p + 1] = EncodedFrom(forks[p + 1], p)
        BY <1>1, <2>1, <3>2, <4>1
      <4>3. /\ \A g : CommonBytes(g, h) = {b \in Free(tier, {}) : g[b] = h[b]}
            /\ \A n : Leaves(forks[p + 1], h, n) <=> StepsOff(p, h, n)
        BY DEF CommonBytes, Leaves, StepsOff
      <4>4. \/ Lookup(h) = NoMatch
            \/ \E g \in HashesOf(p) :
                 /\ Lookup(h) = stored[g]
                 /\ \/ Cardinality(CommonBytes(g, h)) >= Depth(LeafLevel(p, g)) + ReassuranceBytes
                    \/ Lone(p) /\ tier > 0
            \/ RunsShort(p)
            \/ Padded(p) /\ \E n \in DOMAIN forks[p + 1] :
                 Leaves(forks[p + 1], h, n) /\ h[forks[p + 1][n]] = 0
        BY <4>2, CandidateIn
      <4>5. MeetsPadding(p, h) <=> Padded(p) /\ \E n \in DOMAIN forks[p + 1] :
                 Leaves(forks[p + 1], h, n) /\ h[forks[p + 1][n]] = 0
        BY <4>3 DEF MeetsPadding
      <4> HIDE DEF p
      <4>6. CASE MeetsPadding(p, h) \/ RunsShort(p) \/ Lookup(h) = NoMatch
        BY <4>6 DEF p
      <4>7. CASE \E g \in HashesOf(p) :
                   /\ Lookup(h) = stored[g]
                   /\ \/ Cardinality(CommonBytes(g, h)) >= Depth(LeafLevel(p, g)) + ReassuranceBytes
                      \/ Lone(p) /\ tier > 0
        BY <4>7 DEF CommonBytes, p
      <4> QED BY <4>4, <4>5, <4>6, <4>7
    <3> QED BY <3>1, <3>2
  <2> QED BY <2>1 DEF CandidateAgrees
<1> QED BY <1>4, <1>5

\* What depends only on what is given.
LEMMA GivenSame ==
  ASSUME UNCHANGED given
  PROVE  /\ config' = config /\ tier' = tier /\ stored' = stored
         /\ \A p : HashesOf(p)' = HashesOf(p)
         /\ \A f, p : EncodedFrom(f, p)' = EncodedFrom(f, p)
         /\ \A H : RootOf(H)' = RootOf(H)
         /\ \A f, H : TooMany(f, H)' = TooMany(f, H)
         /\ \A l : Exhausted(l)' = Exhausted(l)
<1>1. config' = config /\ tier' = tier /\ stored' = stored
  BY DEF given
<1>2. \A p : HashesOf(p)' = HashesOf(p)
  BY <1>1 DEF HashesOf, PrefixIndex
<1>3. \A p : Content(p)' = Content(p)
  BY <1>1, <1>2 DEF Content
<1>4. \A f, p : EncodedFrom(f, p)' = EncodedFrom(f, p)
  BY <1>1, <1>2, <1>3 DEF EncodedFrom
<1>5. \A H : RootOf(H)' = RootOf(H)
  BY <1>1 DEF RootOf
<1>6. \A f, H : TooMany(f, H)' = TooMany(f, H)
  BY <1>1 DEF TooMany
<1>7. \A l : Exhausted(l)' = Exhausted(l)
  BY <1>1 DEF Exhausted, Depth
<1> QED BY <1>1, <1>2, <1>4, <1>5, <1>6, <1>7

\* What was finished stays.
LEMMA FinishedUntouched ==
  ASSUME TreesFinished, UNCHANGED <<given, roots, history>>,
         pc' = "append" => pc = "append" /\ UNCHANGED <<prefix, fork>>
  PROVE  TreesFinished'
<1>1. UNCHANGED given /\ roots' = roots /\ trees' = trees /\ forks' = forks
  BY DEF history
<1>2. /\ tier' = tier /\ \A p : HashesOf(p)' = HashesOf(p) /\ \A f : EncodedFrom(f, p)' = EncodedFrom(f, p)
      /\ \A H : RootOf(H)' = RootOf(H)
  BY <1>1, GivenSame
<1>3. ASSUME NEW p \in 1 .. Len(trees)'
      PROVE  /\ IsTree(tier, forks[p], HashesOf(p - 1))'
             /\ (Crowds(forks[p], HashesOf(p - 1)) \subseteq DOMAIN forks[p])'
             /\ (trees[p] = EncodedFrom(forks[p], p - 1))'
             /\ (p <= Len(roots) => roots[p] = RootOf(HashesOf(p - 1)))'
  BY <1>1, <1>2, <1>3 DEF TreesFinished
<1> QED BY <1>1, <1>3 DEF TreesFinished

\* A step that leaves the tree in hand alone keeps what TreeGrows says of it.
LEMMA GrownUntouched ==
  ASSUME TreeGrows, UNCHANGED <<given, prefix, fork, todo>>,
         pc \in {"fork", "panicked", "hung", "append"}
  PROVE  TreeGrows'
<1>1. tier' = tier /\ HashesOf(prefix)' = HashesOf(prefix)
  <2>1. UNCHANGED given
    OBVIOUS
  <2> QED BY <2>1, GivenSame DEF HashesOf, PrefixIndex
<1> QED BY <1>1 DEF TreeGrows

\* At first there is no tree.
LEMMA InitTrees == Init => TreesFit
<1> SUFFICES ASSUME Init PROVE TreesFit
  OBVIOUS
<1>1. Len(<<>>) = 0 /\ IsSequence(<<>>)
  BY DEF IsSequence, Range
<1>2. TreesFinished
  BY <1>1 DEF Init, TreesFinished
<1>3. TreeGrows /\ PanicsOnlyIf
  BY DEF Init, TreeGrows, PanicsOnlyIf
<1> QED BY <1>2, <1>3 DEF Init, TreesFit

\* A tree begins with the node of all its hashes.
LEMMA TakePrefixTrees ==
  ASSUME RowsAccounted, TreesFit, TakePrefix
  PROVE  TreesFit'
<1>1. /\ UNCHANGED given /\ UNCHANGED <<given, roots, history>> /\ prefix' = prefix
      /\ pc' = "fork" /\ fork' = <<>> /\ todo' = {n \in {HashesOf(prefix)} : Cardinality(n) > 1}
  BY DEF TakePrefix, files
<1>2. tier' = tier /\ config' = config /\ stored' = stored /\ HashesOf(prefix)' = HashesOf(prefix)
  BY <1>1, GivenSame DEF HashesOf, PrefixIndex
<1>3. TreesFinished'
  BY <1>1, FinishedUntouched DEF TreesFit
<1>4. /\ IsTree(tier, <<>>, HashesOf(prefix))
      /\ Crowds(<<>>, HashesOf(prefix)) \ DOMAIN <<>> = todo'
  BY <1>1, BareTree
<1>5. TreeGrows'
  BY <1>1, <1>2, <1>4 DEF TreeGrows
<1>6. PanicsOnlyIf'
  BY <1>1 DEF PanicsOnlyIf
<1> QED BY <1>2, <1>3, <1>5, <1>6 DEF TreesFit

\* The nodes that are still to be forked.
LEMMA TodoFacts ==
  ASSUME RowsAccounted, TreesFit, pc = "fork"
  PROVE  LET H == HashesOf(prefix)
         IN  /\ IsTree(tier, fork, H) /\ Sound(tier, fork, H) /\ todo = Crowds(fork, H) \ DOMAIN fork
             /\ IsConfig(config) /\ tier \in Nat /\ tier \in 0 .. 2 * HashBytes
             /\ H \subseteq Hash /\ IsFiniteSet(H)
             /\ \A X \in todo : /\ X \in Nodes(fork, H) \ DOMAIN fork /\ X \subseteq H
                                /\ IsFiniteSet(X) /\ Cardinality(X) > 1
<1> DEFINE H == HashesOf(prefix)
<1>1. IsTree(tier, fork, H) /\ todo = Crowds(fork, H) \ DOMAIN fork
  BY DEF TreesFit, TreeGrows
<1>2. /\ IsConfig(config) /\ tier \in Nat /\ tier \in 0 .. 2 * HashBytes
      /\ H \subseteq Hash /\ IsFiniteSet(H)
  BY GivenFacts DEF RowsAccounted, TreesFit
<1>3. ASSUME NEW X \in todo
      PROVE  X \in Nodes(fork, H) \ DOMAIN fork /\ X \subseteq H /\ IsFiniteSet(X) /\ Cardinality(X) > 1
  <2>1. X \in Nodes(fork, H) \ DOMAIN fork /\ Cardinality(X) > 1
    BY <1>1 DEF Crowds
  <2>2. X \subseteq H
    BY <1>1, <2>1, NodeFacts
  <2> QED BY <1>2, <2>1, <2>2, FS_Subset
<1> QED BY <1>1, <1>2, <1>3 DEF Sound

\* A fork makes the tree grow by one node, and what is still to be forked are its crowded slots.
LEMMA ForkTrees ==
  ASSUME RowsAccounted, TreesFit, Fork
  PROVE  TreesFit'
<1> DEFINE H == HashesOf(prefix)
<1>0. PICK X \in todo : \E b \in Best(X, Free(tier, Examined(fork, X))) :
        /\ fork' = Put(fork, X, b)
        /\ todo' = (todo \ {X}) \cup {n \in Split(X, b) : Cardinality(n) > 1}
  <2> DEFINE X == CHOOSE n \in todo : TRUE
  <2>1. X \in todo
    BY DEF Fork
  <2>2. \E b \in Best(X, Free(tier, Examined(fork, X))) :
          /\ fork' = Put(fork, X, b)
          /\ todo' = (todo \ {X}) \cup {n \in Split(X, b) : Cardinality(n) > 1}
    BY DEF Fork
  <2> HIDE DEF X
  <2> QED BY <2>1, <2>2
<1>1. PICK b \in Best(X, Free(tier, Examined(fork, X))) :
        /\ fork' = Put(fork, X, b)
        /\ todo' = (todo \ {X}) \cup {n \in Split(X, b) : Cardinality(n) > 1}
  BY <1>0
<1>2. /\ UNCHANGED given /\ UNCHANGED <<given, roots, history>> /\ prefix' = prefix
      /\ pc = "fork" /\ pc' = "fork"
  BY DEF Fork, files
<1>3. tier' = tier /\ config' = config /\ stored' = stored /\ HashesOf(prefix)' = H
  BY <1>2, GivenSame DEF HashesOf, PrefixIndex
<1>4. /\ IsTree(tier, fork, H) /\ todo = Crowds(fork, H) \ DOMAIN fork
      /\ X \in Nodes(fork, H) \ DOMAIN fork /\ IsFiniteSet(X)
  BY <1>2, TodoFacts
<1>5. b \in Free(tier, Examined(fork, X)) /\ \E g, h \in X : g[b] # h[b]
  BY <1>4, BestFacts
<1>6. /\ IsTree(tier, Put(fork, X, b), H)
      /\ DOMAIN Put(fork, X, b) = DOMAIN fork \cup {X}
      /\ Nodes(Put(fork, X, b), H) = Nodes(fork, H) \cup Split(X, b)
      /\ Split(X, b) \cap (DOMAIN fork \cup {X}) = {}
  BY <1>4, <1>5, ForkedTree
<1>7. todo' = Crowds(fork', H) \ DOMAIN fork'
  BY <1>1, <1>4, <1>6 DEF Crowds
<1>8. TreeGrows'
  BY <1>1, <1>2, <1>3, <1>6, <1>7 DEF TreeGrows
<1>9. TreesFinished'
  BY <1>2, FinishedUntouched DEF TreesFit
<1>10. PanicsOnlyIf'
  BY <1>2 DEF PanicsOnlyIf
<1> QED BY <1>3, <1>8, <1>9, <1>10 DEF TreesFit

\* No byte is left that tells the hashes apart: then an odd prefix hides it.
LEMMA ForkPanicsTrees ==
  ASSUME RowsAccounted, TreesFit, ForkPanics
  PROVE  TreesFit'
<1> DEFINE H == HashesOf(prefix)
           F == Free(tier, {})
<1>1. /\ UNCHANGED given /\ UNCHANGED <<given, prefix, fork, todo>> /\ UNCHANGED <<given, roots, history>>
      /\ pc = "fork" /\ pc' = "panicked" /\ prefix' = prefix
  BY DEF ForkPanics, files, tree
<1>2. tier' = tier /\ config' = config /\ stored' = stored /\ HashesOf(prefix)' = H
  BY <1>1, GivenSame DEF HashesOf, PrefixIndex
<1>3. PICK X \in todo : Best(X, Free(tier, Examined(fork, X))) = {}
  BY DEF ForkPanics
<1>4. /\ IsTree(tier, fork, H) /\ H \subseteq Hash /\ tier \in Nat /\ tier \in 0 .. 2 * HashBytes
      /\ X \in Nodes(fork, H) /\ X \subseteq H /\ IsFiniteSet(X) /\ Cardinality(X) > 1
  BY <1>1, TodoFacts
<1>5. PICK g \in X, h \in X : g # h
  <2> SUFFICES ASSUME \A g, h \in X : g = h PROVE FALSE
    OBVIOUS
  <2>1. X = {} \/ \E g : X = {g}
    OBVIOUS
  <2>2. Cardinality(X) = 0 \/ Cardinality(X) = 1
    BY <2>1, FS_EmptySet, FS_Singleton
  <2> QED BY <1>4, <2>2
<1>6. \A b \in F : g[b] = h[b]
  <2>1. \A b \in Free(tier, Examined(fork, X)) : g[b] = h[b]
    BY <1>3, <1>4, BestFacts
  <2>2. \A b \in Examined(fork, X) : g[b] = h[b]
    BY <1>4, ExaminedFacts
  <2> QED BY <2>1, <2>2 DEF Free
<1>7. tier % 2 = 1
  <2> SUFFICES ASSUME tier % 2 = 0 PROVE FALSE
    BY <1>4
  <2>1. g \in Hash /\ h \in Hash /\ PrefixIndex(g) = prefix /\ PrefixIndex(h) = prefix
    BY <1>4 DEF HashesOf
  <2>2. /\ PrefixOf(g, tier) \in [1 .. tier -> 0 .. NibbleBase - 1]
        /\ PrefixOf(h, tier) \in [1 .. tier -> 0 .. NibbleBase - 1]
    BY <1>4, <2>1, PrefixType
  <2>3. PrefixOf(g, tier) = PrefixOf(h, tier)
    BY <1>4, <2>1, <2>2, IndexOneToOne DEF PrefixIndex
  <2> QED BY <1>4, <1>5, <1>6, <2>1, <2>3, FreeTells
<1>8. tier % 2 = 1 /\ \E e, d \in H : e # d /\ \A b \in F : e[b] = d[b]
  BY <1>4, <1>5, <1>6, <1>7
<1>9. PanicsOnlyIf'
  BY <1>1, <1>2, <1>8 DEF PanicsOnlyIf
<1>10. TreeGrows'
  BY <1>1, GrownUntouched DEF TreesFit
<1>11. TreesFinished'
  BY <1>1, FinishedUntouched DEF TreesFit
<1> QED BY <1>2, <1>9, <1>10, <1>11 DEF TreesFit

\* A leaf that runs out of bytes has examined all but the one an odd prefix ends in.
LEMMA ForkHangsTrees ==
  ASSUME RowsAccounted, TreesFit, ForkHangs
  PROVE  TreesFit'
<1> DEFINE H == HashesOf(prefix)
<1>1. /\ UNCHANGED given /\ UNCHANGED <<given, prefix, fork, todo>> /\ UNCHANGED <<given, roots, history>>
      /\ pc = "fork" /\ pc' = "hung" /\ UNCHANGED <<given, prefix, fork>>
  BY DEF ForkHangs, files, tree
<1>2. /\ tier' = tier /\ config' = config /\ stored' = stored /\ Levels' = Levels
      /\ \A l : Exhausted(l)' = Exhausted(l)
  BY <1>1, GivenSame, LevelsSame
<1>3. tier % 2 = 1 /\ \E X \in Nodes(fork, H) : Cardinality(Free(tier, Examined(fork, X))) < ReassuranceBytes
  BY DEF ForkHangs, GenerationHangs, RunsOut
<1>4. IsTree(tier, fork, H) /\ tier \in Nat
  BY <1>1, TodoFacts
<1>5. \E l \in Levels : Exhausted(l)
  BY <1>3, <1>4, DepthFacts DEF Levels, LevelsOf
<1>6. PanicsOnlyIf'
  BY <1>1, <1>2, <1>3, <1>5 DEF PanicsOnlyIf
<1>7. TreeGrows'
  BY <1>1, GrownUntouched DEF TreesFit
<1>8. TreesFinished'
  BY <1>1, FinishedUntouched DEF TreesFit
<1> QED BY <1>2, <1>6, <1>7, <1>8 DEF TreesFit

\* Encoding panics only if a level is too large, and keeps the tree it encoded.
LEMMA EncodeTrees ==
  ASSUME RowsAccounted, TreesFit, Encode
  PROVE  TreesFit'
<1> DEFINE H == HashesOf(prefix)
           panics == \E l \in Levels : EncodePanics(config, fork, LevelNodes(tier, fork, H, l))
<1>1. /\ UNCHANGED given /\ UNCHANGED <<given, prefix, fork, todo>> /\ UNCHANGED <<given, prefix, fork>>
      /\ pc = "fork" /\ todo = {} /\ roots' = roots
  BY DEF Encode, files
<1>2. tier' = tier /\ config' = config /\ stored' = stored /\ HashesOf(prefix)' = H
  BY <1>1, GivenSame DEF HashesOf, PrefixIndex
<1>3. /\ IsTree(tier, fork, H) /\ Sound(tier, fork, H) /\ Crowds(fork, H) \subseteq DOMAIN fork
      /\ IsConfig(config) /\ tier \in Nat /\ IsFiniteSet(H) /\ H \subseteq Hash
  BY <1>1, TodoFacts
<1>4. TreeGrows'
  BY <1>1, GrownUntouched DEF TreesFit
<1>5. CASE panics
  <2>1. pc' = "panicked" /\ UNCHANGED <<given, roots, history>>
    BY <1>1, <1>5 DEF Encode
  <2>2. PICK l \in Levels : EncodePanics(config, fork, LevelNodes(tier, fork, H, l))
    BY <1>5
  <2>3. Cardinality(AtLevel(tier, fork, H, l)) > config.nodeOnes
    <3>1. ~ (Cardinality(AtLevel(tier, fork, H, l)) <= config.nodeOnes)
      BY <1>3, <2>2, EncodeSucceeds
    <3>2. Cardinality(AtLevel(tier, fork, H, l)) \in Nat
      BY <1>3, LevelNodesFacts DEF IsListOf
    <3>3. config.nodeOnes \in Nat
      BY <1>3, ConfigFacts
    <3> QED BY <3>1, <3>2, <3>3
  <2>4. TooMany(fork, H)
    BY <2>3 DEF TooMany, Levels
  <2>5. TooMany(fork, HashesOf(prefix))'
    BY <1>1, <1>2, <2>4 DEF TooMany
  <2>6. PanicsOnlyIf'
    BY <2>1, <2>5 DEF PanicsOnlyIf
  <2>7. TreesFinished'
    BY <2>1, FinishedUntouched DEF TreesFit
  <2> QED BY <1>2, <1>4, <2>6, <2>7 DEF TreesFit
<1>6. CASE ~ panics
  <2> DEFINE tree1 == EncodedFrom(fork, prefix)
  <2>1. /\ pc' = "append" /\ trees' = Append(trees, tree1) /\ forks' = Append(forks, fork)
    BY <1>6 DEF Encode, EncodedFrom, Levels
  <2>2. /\ IsSequence(trees) /\ IsSequence(forks) /\ Len(trees) = prefix /\ Len(forks) = prefix
        /\ Len(roots) = prefix /\ prefix \in Nat
    BY <1>1 DEF RowsAccounted, ControlFits, TreesFit, TreesFinished
  <2>3. /\ IsSequence(forks') /\ Len(forks') = prefix + 1 /\ Len(trees') = prefix + 1
        /\ \A p \in 1 .. prefix : forks'[p] = forks[p] /\ trees'[p] = trees[p]
        /\ forks'[prefix + 1] = fork /\ trees'[prefix + 1] = tree1
    <3> HIDE DEF tree1
    <3>1. /\ Len(Append(trees, tree1)) = Len(trees) + 1
          /\ \A i \in 1 .. Len(trees) : Append(trees, tree1)[i] = trees[i]
          /\ Append(trees, tree1)[Len(trees) + 1] = tree1
      BY <2>2, AppendFacts
    <3>2. /\ Len(Append(forks, fork)) = Len(forks) + 1
          /\ \A i \in 1 .. Len(forks) : Append(forks, fork)[i] = forks[i]
          /\ Append(forks, fork)[Len(forks) + 1] = fork /\ IsSequence(Append(forks, fork))
      BY <2>2, AppendFacts
    <3> QED BY <2>1, <2>2, <3>1, <3>2
  <2>4. /\ \A p : HashesOf(p)' = HashesOf(p) /\ \A f : EncodedFrom(f, p)' = EncodedFrom(f, p)
        /\ \A S : RootOf(S)' = RootOf(S)
    BY <1>1, GivenSame
  <2>5. ASSUME NEW p \in 1 .. prefix + 1
        PROVE  /\ IsTree(tier, forks'[p], HashesOf(p - 1))
               /\ Crowds(forks'[p], HashesOf(p - 1)) \subseteq DOMAIN forks'[p]
               /\ trees'[p] = EncodedFrom(forks'[p], p - 1)
               /\ (p <= Len(roots) => roots[p] = RootOf(HashesOf(p - 1)))
    <3>1. CASE p \in 1 .. prefix
      <4>1. /\ IsTree(tier, forks[p], HashesOf(p - 1))
            /\ Crowds(forks[p], HashesOf(p - 1)) \subseteq DOMAIN forks[p]
            /\ trees[p] = EncodedFrom(forks[p], p - 1)
            /\ (p <= Len(roots) => roots[p] = RootOf(HashesOf(p - 1)))
        BY <2>2, <3>1 DEF TreesFit, TreesFinished
      <4> QED BY <2>3, <3>1, <4>1
    <3>2. CASE p = prefix + 1
      <4>1. p - 1 = prefix /\ ~ (p <= Len(roots))
        BY <2>2, <3>2
      <4> QED BY <1>3, <2>3, <3>2, <4>1
    <3> QED BY <2>2, <3>1, <3>2
  <2>6. (forks[prefix + 1] = fork)'
    BY <1>1, <2>3
  <2>7. ASSUME NEW p \in 1 .. Len(trees)'
        PROVE  /\ IsTree(tier, forks[p], HashesOf(p - 1))'
               /\ (Crowds(forks[p], HashesOf(p - 1)) \subseteq DOMAIN forks[p])'
               /\ (trees[p] = EncodedFrom(forks[p], p - 1))'
               /\ (p <= Len(roots) => roots[p] = RootOf(HashesOf(p - 1)))'
    <3>1. p \in 1 .. prefix + 1
      BY <2>3
    <3> QED BY <1>1, <1>2, <2>4, <2>5, <3>1
  <2>8. TreesFinished'
    BY <2>3, <2>6, <2>7 DEF TreesFinished
  <2>9. PanicsOnlyIf'
    BY <2>1 DEF PanicsOnlyIf
  <2> QED BY <1>2, <1>4, <2>8, <2>9 DEF TreesFit
<1> QED BY <1>5, <1>6

\* Appending a level leaves the trees alone.
LEMMA AppendLevelTrees ==
  ASSUME RowsAccounted, TreesFit, AppendLevel
  PROVE  TreesFit'
<1>1. /\ UNCHANGED given /\ UNCHANGED <<given, prefix, fork, todo>> /\ UNCHANGED <<given, roots, history>>
      /\ pc = "append" /\ pc' = "append" /\ UNCHANGED <<prefix, fork>>
  BY DEF AppendLevel
<1>2. tier' = tier /\ config' = config /\ stored' = stored
  BY <1>1, GivenSame
<1>3. TreeGrows'
  BY <1>1, GrownUntouched DEF TreesFit
<1>4. TreesFinished'
  BY <1>1, FinishedUntouched DEF TreesFit
<1>5. PanicsOnlyIf'
  BY <1>1 DEF PanicsOnlyIf
<1> QED BY <1>2, <1>3, <1>4, <1>5 DEF TreesFit

\* The root of a tree is at its lowest level.
LEMMA RootLevel ==
  ASSUME RowsAccounted, TreesFit, pc = "append"
  PROVE  LET H == HashesOf(prefix)
         IN  /\ H = {} => Levels = {}
             /\ H # {} => Levels # {} /\ Min(Levels) = tier
<1> DEFINE H == HashesOf(prefix)
<1>1. IsTree(tier, fork, H) /\ tier \in Nat /\ Levels \subseteq Nat
  BY GivenFacts, LevelsNatural DEF RowsAccounted, TreesFit, TreeGrows
<1>2. CASE H = {}
  <2>1. Nodes(fork, H) = {}
    BY <1>1, <1>2, NoNodes
  <2> QED BY <1>2, <2>1 DEF Levels, LevelsOf
<1>3. CASE H # {}
  <2>1. H \in Nodes(fork, H) /\ Above(fork, H) = {}
    BY <1>1, <1>3, RootFacts
  <2>2. Level(tier, fork, H) = tier
    BY <1>1, <2>1, FS_EmptySet DEF Level
  <2>3. tier \in Levels
    BY <2>1, <2>2 DEF Levels, LevelsOf
  <2>4. ASSUME NEW l \in Levels PROVE l >= tier
    <3>1. PICK X \in Nodes(fork, H) : l = Level(tier, fork, X)
      BY DEF Levels, LevelsOf
    <3>2. Cardinality(Above(fork, X)) \in Nat
      BY <1>1, ExaminedFacts
    <3> QED BY <1>1, <3>1, <3>2 DEF Level
  <2>5. Min(Levels) \in Levels /\ \A l \in Levels : Min(Levels) <= l
    BY <1>1, <2>3, MinFacts
  <2>6. Min(Levels) = tier
    <3>1. PICK m : m = Min(Levels)
      OBVIOUS
    <3>2. m \in Levels /\ m \in Nat /\ m <= tier /\ m >= tier
      BY <1>1, <2>3, <2>4, <2>5, <3>1
    <3>3. m = tier
      BY <1>1, <3>2
    <3> QED BY <3>1, <3>3
  <2> QED BY <1>3, <2>3, <2>6
<1> QED BY <1>2, <1>3

\* The root that is appended is that of the tree.
LEMMA AppendRootTrees ==
  ASSUME RowsAccounted, TreesFit, AppendRoot
  PROVE  TreesFit'
<1> DEFINE H == HashesOf(prefix)
           root == RootOf(H)
<1>1. /\ UNCHANGED given /\ UNCHANGED history /\ pc = "append" /\ pc' \in {"done", "prefix"}
  BY DEF AppendRoot
<1>2. roots' = Append(roots, root)
  <2>1. roots' = Append(roots, IF Levels = {} THEN [level |-> EmptyTreeLevel, id |-> config.nodeOnes]
                               ELSE [level |-> Min(Levels), id |-> 0])
    BY DEF AppendRoot
  <2>2. (H = {} => Levels = {}) /\ (H # {} => Levels # {} /\ Min(Levels) = tier)
    BY <1>1, RootLevel
  <2>3. CASE H = {}
    BY <2>1, <2>2, <2>3 DEF RootOf
  <2>4. CASE H # {}
    BY <2>1, <2>2, <2>4 DEF RootOf
  <2> QED BY <2>3, <2>4
<1>3. /\ tier' = tier /\ config' = config /\ stored' = stored /\ trees' = trees /\ forks' = forks
      /\ \A p : HashesOf(p)' = HashesOf(p) /\ \A f : EncodedFrom(f, p)' = EncodedFrom(f, p)
      /\ \A S : RootOf(S)' = RootOf(S)
  BY <1>1, GivenSame DEF history
<1>4. IsSequence(roots) /\ Len(roots) = prefix /\ prefix \in Nat /\ Len(trees) = prefix + 1
  BY <1>1 DEF RowsAccounted, ControlFits
<1>5. /\ Len(roots') = prefix + 1 /\ roots'[prefix + 1] = root
      /\ \A p \in 1 .. prefix : roots'[p] = roots[p]
  <2> HIDE DEF root
  <2>1. /\ Len(Append(roots, root)) = Len(roots) + 1
        /\ \A i \in 1 .. Len(roots) : Append(roots, root)[i] = roots[i]
        /\ Append(roots, root)[Len(roots) + 1] = root
    BY <1>4, AppendFacts
  <2> QED BY <1>2, <1>4, <2>1
<1>6. ASSUME NEW p \in 1 .. Len(trees)
      PROVE  /\ IsTree(tier, forks[p], HashesOf(p - 1))
             /\ Crowds(forks[p], HashesOf(p - 1)) \subseteq DOMAIN forks[p]
             /\ trees[p] = EncodedFrom(forks[p], p - 1)
             /\ roots'[p] = RootOf(HashesOf(p - 1))
  <2>1. /\ IsTree(tier, forks[p], HashesOf(p - 1))
        /\ Crowds(forks[p], HashesOf(p - 1)) \subseteq DOMAIN forks[p]
        /\ trees[p] = EncodedFrom(forks[p], p - 1)
        /\ (p <= Len(roots) => roots[p] = RootOf(HashesOf(p - 1)))
    BY DEF TreesFit, TreesFinished
  <2>2. CASE p <= prefix
    BY <1>4, <1>5, <2>1, <2>2
  <2>3. CASE ~ (p <= prefix)
    <3>1. p = prefix + 1 /\ p - 1 = prefix
      BY <1>4, <2>3
    <3> QED BY <1>5, <2>1, <3>1
  <2> QED BY <2>2, <2>3
<1>7. ASSUME NEW p \in 1 .. Len(trees)'
      PROVE  /\ IsTree(tier, forks[p], HashesOf(p - 1))'
             /\ (Crowds(forks[p], HashesOf(p - 1)) \subseteq DOMAIN forks[p])'
             /\ (trees[p] = EncodedFrom(forks[p], p - 1))'
             /\ (p <= Len(roots) => roots[p] = RootOf(HashesOf(p - 1)))'
  <2>1. p \in 1 .. Len(trees)
    BY <1>3
  <2> QED BY <1>3, <1>6, <2>1
<1>8. IsSequence(forks)' /\ Len(forks)' = Len(trees)'
  BY <1>3 DEF TreesFit, TreesFinished
<1>9. TreesFinished'
  BY <1>1, <1>7, <1>8 DEF TreesFinished
<1>10. TreeGrows' /\ PanicsOnlyIf'
  BY <1>1 DEF TreeGrows, PanicsOnlyIf
<1> QED BY <1>3, <1>9, <1>10 DEF TreesFit

\* The trees of an icing are as they should be: every node forks on a free byte that tells
\* its hashes apart, what is encoded is a tree in which every hash has a leaf, and its root
\* is where the lookup starts. The icing fails only for the reasons there are.
THEOREM TreesAreFit == Spec => []TreesFit
<1>1. Init => TreesFit
  BY InitTrees
<1>2. RowsAccounted /\ TreesFit /\ [Next]_vars => TreesFit'
  <2> SUFFICES ASSUME RowsAccounted, TreesFit, [Next]_vars PROVE TreesFit'
    OBVIOUS
  <2>1. CASE UNCHANGED vars
    <3>1. /\ UNCHANGED given /\ UNCHANGED <<given, prefix, fork, todo>> /\ UNCHANGED <<given, roots, history>>
          /\ pc' = pc /\ UNCHANGED <<prefix, fork>> /\ UNCHANGED <<given, prefix, fork>>
      BY <2>1 DEF vars, tree, files
    <3>2. tier' = tier /\ config' = config /\ stored' = stored /\ HashesOf(prefix)' = HashesOf(prefix)
          /\ Levels' = Levels /\ \A l : Exhausted(l)' = Exhausted(l)
      BY <3>1, GivenSame, LevelsSame DEF HashesOf, PrefixIndex
    <3>3. TreesFinished'
      BY <3>1, FinishedUntouched DEF TreesFit
    <3>4. TreeGrows'
      BY <3>1, <3>2 DEF TreesFit, TreeGrows
    <3>5. TooMany(fork, HashesOf(prefix))' = TooMany(fork, HashesOf(prefix))
      BY <3>1, <3>2 DEF TooMany
    <3>6. PanicsOnlyIf'
      BY <3>1, <3>2, <3>5 DEF TreesFit, PanicsOnlyIf
    <3> QED BY <3>2, <3>3, <3>4, <3>6 DEF TreesFit
  <2>2. CASE Next
    BY <2>2, TakePrefixTrees, ForkTrees, ForkPanicsTrees, ForkHangsTrees, EncodeTrees,
       AppendLevelTrees, AppendRootTrees DEF Next
  <2> QED BY <2>1, <2>2
<1> QED BY <1>1, <1>2, RowsAreAccounted, PTL DEF Spec

\* The icing fails only if two hashes cannot be told apart, a leaf has too few bytes left, or
\* a level has too many nodes.
THEOREM IcingPanicsOnlyIf == Spec => []PanicsOnlyIf
<1>1. TreesFit => PanicsOnlyIf
  BY DEF TreesFit
<1> QED BY <1>1, TreesAreFit, PTL

\* Every stored hash is found, with the exceptions that IcedFound names: too many nodes or
\* too few bytes at a level, and a lone hash that begins with other bytes than are compared.
THEOREM StoredIsFound == Spec => []IcedFound
<1>1. RowsAccounted /\ TreesFit /\ OpenReadsBack => IcedFound
  BY LookupsAreRight
<1> QED BY <1>1, RowsAreAccounted, TreesAreFit, OpenedReadsBack, PTL

\* What is answered of a hash that is not stored is a hash that agrees with it in as many
\* bytes as CandidateAgrees says, with the exceptions that it names: a lone hash, a prefix
\* without hashes, too many nodes or too few bytes at a level, and padding.
THEOREM CandidatesAgree == Spec => []CandidateAgrees
<1>1. RowsAccounted /\ TreesFit /\ OpenReadsBack => CandidateAgrees
  BY LookupsAreRight
<1> QED BY <1>1, RowsAreAccounted, TreesAreFit, OpenedReadsBack, PTL

================================================================================
