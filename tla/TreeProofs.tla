------------------------------- MODULE TreeProofs ------------------------------
(*****************************************************************************)
(* What is proved of a tree and of its encoding: how its nodes lie apart, in  *)
(* which order they are visited, in which groups they are written, and that   *)
(* each is found by its number.                                               *)
(*****************************************************************************)
EXTENDS ForestInvariant, FiniteSetTheorems, SequenceTheorems, WellFoundedInduction, TLAPS

(***************************************************************************)
(* Numbers, finite sets, and sequences that are defined step by step       *)
(***************************************************************************)

\* A nonempty set of natural numbers has a least element, and Min is it.
LEMMA MinFacts ==
  ASSUME NEW T, T \subseteq Nat, T # {}
  PROVE  Min(T) \in T /\ \A y \in T : Min(T) <= y
<1> DEFINE less == OpToRel(<, Nat)
<1>1. IsWellFoundedOn(less, Nat)
  BY NatLessThanWellFounded
<1>2. \A x, y \in Nat : <<y, x>> \in less <=> y < x
  BY DEF OpToRel
<1> HIDE DEF less
<1>3. PICK x \in T : \A y \in T : ~ (<<y, x>> \in less)
  BY <1>1, WFMin
<1>4. \A y \in T : x <= y
  <2> TAKE y \in T
  <2>1. x \in Nat /\ y \in Nat /\ ~ (y < x)
    BY <1>2, <1>3
  <2> QED BY <2>1
<1> QED BY <1>4 DEF Min

\* Induction, stated with a set of numbers.
LEMMA Induction ==
  ASSUME NEW S, 0 \in S, \A n \in Nat : n \in S => n + 1 \in S
  PROVE  Nat \subseteq S
<1> DEFINE T == Nat \ S
<1> SUFFICES ASSUME T # {} PROVE FALSE
  OBVIOUS
<1>1. PICK x \in T : \A y \in T : x <= y
  <2> HIDE DEF T
  <2>1. T \subseteq Nat
    BY DEF T
  <2> QED BY <2>1, MinFacts
<1>2. x \in Nat /\ x # 0
  BY <1>1
<1>3. x - 1 \in Nat /\ ~ (x <= x - 1) /\ (x - 1) + 1 = x
  BY <1>2
<1>4. x - 1 \in S
  BY <1>1, <1>3
<1> QED BY <1>1, <1>3, <1>4

\* Induction up to a number.
LEMMA InductionUpTo ==
  ASSUME NEW n \in Nat, NEW S, 0 \in S, \A m \in 0 .. n - 1 : m \in S => m + 1 \in S
  PROVE  0 .. n \subseteq S
<1> DEFINE T == {m \in Nat : m <= n => m \in S}
<1>1. 0 \in T /\ \A m \in Nat : m \in T => m + 1 \in T
  OBVIOUS
<1>2. Nat \subseteq T
  <2> HIDE DEF T
  <2> QED BY <1>1, Induction
<1> QED BY <1>2

\* A function that is defined step by step exists, and each of its values lies in the set
\* that the step leads to.
Leads(n, Y, X, a, next) ==
  /\ a \in X[0] /\ \A i \in 0 .. n : X[i] \subseteq Y
  /\ \A i \in 1 .. n : \A x \in X[i - 1] : next[<<i, x>>] \in X[i]
Follows(f, n, Y, X, a, next) ==
  /\ f \in [0 .. n -> Y] /\ f[0] = a
  /\ \A i \in 1 .. n : f[i] = next[<<i, f[i - 1]>>]
  /\ \A i \in 0 .. n : f[i] \in X[i]
\* Such a function exists.
LEMMA Recursion ==
  ASSUME NEW n \in Nat, NEW Y, NEW X, NEW a, NEW next, Leads(n, Y, X, a, next)
  PROVE  \E f : Follows(f, n, Y, X, a, next)
<1> USE DEF Leads, Follows
<1> DEFINE Made(m, f) == /\ f = [i \in 0 .. m |-> IF i = 0 THEN a ELSE next[<<i, f[i - 1]>>]]
                         /\ \A i \in 0 .. m : f[i] \in X[i]
           S == {m \in Nat : m <= n => \E f : Made(m, f)}
<1>1. 0 \in S
  <2>1. Made(0, [i \in 0 .. 0 |-> a])
    BY Zenon, SMT
  <2> QED BY <2>1
<1>2. ASSUME NEW m \in Nat, m \in S PROVE m + 1 \in S
  <2> SUFFICES ASSUME m + 1 <= n PROVE \E f : Made(m + 1, f)
    BY <1>2
  <2>1. PICK f : Made(m, f)
    BY <1>2
  <2> DEFINE g == [i \in 0 .. m + 1 |-> IF i = m + 1 THEN next[<<m + 1, f[m]>>] ELSE f[i]]
  <2>2. \A i \in 0 .. m : g[i] = f[i]
    OBVIOUS
  <2>3. g[m + 1] = next[<<m + 1, f[m]>>]
    OBVIOUS
  <2>4. \A i \in 0 .. m : f[i] = IF i = 0 THEN a ELSE next[<<i, f[i - 1]>>]
    BY <2>1
  <2>5. ASSUME NEW i \in 0 .. m + 1
        PROVE  g[i] = (IF i = 0 THEN a ELSE next[<<i, g[i - 1]>>]) /\ g[i] \in X[i]
    <3>1. CASE i = m + 1
      <4>1. i - 1 = m /\ i # 0 /\ g[m] = f[m] /\ f[m] \in X[m] /\ i \in 1 .. n
        BY <2>1, <2>2, <3>1
      <4>2. g[i] = next[<<i, g[i - 1]>>]
        BY <2>3, <3>1, <4>1
      <4>3. next[<<i, f[i - 1]>>] \in X[i]
        BY <4>1
      <4> QED BY <4>1, <4>2, <4>3
    <3>2. CASE i # m + 1
      <4>1. i \in 0 .. m /\ g[i] = f[i] /\ f[i] \in X[i]
        BY <2>1, <2>2, <3>2
      <4>2. i # 0 => g[i - 1] = f[i - 1]
        BY <2>2, <4>1
      <4> QED BY <2>4, <4>1, <4>2
    <3> QED BY <3>1, <3>2
  <2>6. g = [i \in 0 .. m + 1 |-> IF i = 0 THEN a ELSE next[<<i, g[i - 1]>>]]
    <3>1. DOMAIN g = 0 .. m + 1 /\ g = [i \in 0 .. m + 1 |-> g[i]]
      OBVIOUS
    <3> HIDE DEF g
    <3> QED BY <2>5, <3>1
  <2> HIDE DEF g
  <2>7. Made(m + 1, g)
    BY <2>5, <2>6
  <2> QED BY <2>7
<1>3. n \in S
  <2> HIDE DEF S
  <2> QED BY <1>1, <1>2, Induction
<1>4. PICK f : Made(n, f)
  BY <1>3
<1>5. f = [i \in 0 .. n |-> IF i = 0 THEN a ELSE next[<<i, f[i - 1]>>]]
  BY <1>4
<1>6. f[0] = a /\ \A i \in 1 .. n : f[i] = next[<<i, f[i - 1]>>]
  BY <1>5
<1>7. DOMAIN f = 0 .. n /\ \A i \in 0 .. n : f[i] \in X[i]
  BY <1>4
<1>8. f \in [0 .. n -> Y]
  BY <1>5, <1>7
<1> QED BY <1>6, <1>7, <1>8

\* A map that leads from different elements to different ones.
LEMMA Embedded ==
  ASSUME NEW S, NEW T, IsFiniteSet(T), NEW f \in [S -> T], \A x, y \in S : f[x] = f[y] => x = y
  PROVE  /\ IsFiniteSet(S) /\ Cardinality(S) <= Cardinality(T)
         /\ Cardinality(S) = Cardinality(T) => \A t \in T : \E s \in S : f[s] = t
<1>1. f \in Injection(S, T)
  BY DEF Injection, IsInjective
<1> QED BY <1>1, FS_Injection DEF Surjection

\* A map that also reaches every element.
LEMMA SameSize ==
  ASSUME NEW S, IsFiniteSet(S), NEW T, NEW f \in [S -> T], \A x, y \in S : f[x] = f[y] => x = y,
         \A t \in T : \E s \in S : f[s] = t
  PROVE  IsFiniteSet(T) /\ Cardinality(T) = Cardinality(S)
<1>1. f \in Injection(S, T) /\ f \in Surjection(S, T)
  BY DEF Injection, IsInjective, Surjection
<1> QED BY <1>1, FS_Surjection

(***************************************************************************)
(* Sets in an order                                                        *)
(***************************************************************************)
Orders(set, before) ==
  /\ IsFiniteSet(set)
  /\ \A x \in set : before[x] \subseteq set /\ x \notin before[x]
  /\ \A x, y \in set : x = y \/ x \in before[y] \/ y \in before[x]
  /\ \A x, y \in set : x \in before[y] => before[x] \subseteq before[y]

\* In an order, every element has one place, behind as many as are before it.
LEMMA OrderedFacts ==
  ASSUME NEW set, NEW before, Orders(set, before)
  PROVE  LET s == InOrder(set, before)
         IN  /\ Cardinality(set) \in Nat
             /\ s \in [1 .. Cardinality(set) -> set]
             /\ \A x \in set : \E i \in 1 .. Cardinality(set) : s[i] = x
             /\ \A i \in 1 .. Cardinality(set) : Cardinality(before[s[i]]) = i - 1
             /\ \A i, j \in 1 .. Cardinality(set) : s[i] = s[j] => i = j
             /\ \A i, j \in 1 .. Cardinality(set) : i < j <=> s[i] \in before[s[j]]
<1> DEFINE n == Cardinality(set)
           rank(x) == Cardinality(before[x])
           ranks == {<<x, rank(x)>> : x \in set}
           s == InOrder(set, before)
<1>1. n \in Nat /\ IsFiniteSet(set)
  BY FS_CardinalityType DEF Orders
<1>2. ASSUME NEW x \in set
      PROVE  IsFiniteSet(before[x]) /\ rank(x) \in 0 .. n - 1
  <2>1. before[x] \subseteq set \ {x}
    BY DEF Orders
  <2>2. IsFiniteSet(set \ {x}) /\ Cardinality(set \ {x}) = n - 1
    BY <1>1, FS_RemoveElement
  <2>3. IsFiniteSet(before[x]) /\ rank(x) <= n - 1
    BY <2>1, <2>2, FS_Subset
  <2>4. rank(x) \in Nat
    BY <2>3, FS_CardinalityType
  <2> QED BY <1>1, <2>3, <2>4
<1>3. ASSUME NEW x \in set, NEW y \in set, x \in before[y]
      PROVE  rank(x) < rank(y)
  <2>1. before[x] \cup {x} \subseteq before[y] /\ x \notin before[x]
    BY <1>3 DEF Orders
  <2>2. Cardinality(before[x] \cup {x}) = rank(x) + 1
    BY <1>2, <2>1, FS_AddElement
  <2>3. Cardinality(before[x] \cup {x}) <= rank(y)
    BY <1>2, <2>1, FS_Subset
  <2>4. rank(x) \in Nat /\ rank(y) \in Nat
    BY <1>2
  <2> QED BY <2>2, <2>3, <2>4
<1>4. ASSUME NEW x \in set, NEW y \in set, rank(x) = rank(y)
      PROVE  x = y
  <2>1. x = y \/ x \in before[y] \/ y \in before[x]
    BY DEF Orders
  <2>2. rank(x) \in Nat /\ rank(y) \in Nat
    BY <1>2
  <2> QED BY <1>3, <1>4, <2>1, <2>2
<1>5. \A r \in 0 .. n - 1 : \E x \in set : rank(x) = r
  <2> DEFINE f == [x \in set |-> rank(x)]
  <2>1. IsFiniteSet(0 .. n - 1) /\ Cardinality(0 .. n - 1) = n
    <3>1. 0 \in Int /\ n - 1 \in Int
      BY <1>1
    <3> HIDE DEF n
    <3> QED BY <1>1, <3>1, FS_Interval
  <2>2. f \in [set -> 0 .. n - 1]
    BY <1>2
  <2>3. \A x, y \in set : f[x] = f[y] => x = y
    BY <1>4
  <2>4. \A r \in 0 .. n - 1 : \E x \in set : f[x] = r
    <3> DEFINE T == 0 .. n - 1
    <3>1. IsFiniteSet(T) /\ Cardinality(set) = Cardinality(T) /\ f \in [set -> T]
      BY <2>1, <2>2
    <3> HIDE DEF f, T
    <3>2. Cardinality(set) = Cardinality(T) => \A r \in T : \E x \in set : f[x] = r
      BY <2>3, <3>1, Embedded
    <3> QED BY <3>1, <3>2 DEF T
  <2> QED BY <2>4
<1>6. s = [i \in 1 .. n |-> CHOOSE x \in set : <<x, i - 1>> \in ranks]
  BY DEF InOrder
<1>7. ASSUME NEW i \in 1 .. n PROVE s[i] \in set /\ rank(s[i]) = i - 1
  <2>1. i - 1 \in 0 .. n - 1
    BY <1>1
  <2>2. PICK x \in set : rank(x) = i - 1
    BY <1>5, <2>1
  <2>3. <<x, i - 1>> \in ranks
    BY <2>2
  <2>4. s[i] = CHOOSE y \in set : <<y, i - 1>> \in ranks
    BY <1>6
  <2>5. s[i] \in set /\ <<s[i], i - 1>> \in ranks
    <3> HIDE DEF s, ranks, rank
    <3> QED BY <2>3, <2>4
  <2> QED BY <2>5
<1>8. s \in [1 .. n -> set]
  BY <1>6, <1>7
<1> HIDE DEF s, n
<1>9. ASSUME NEW x \in set PROVE \E i \in 1 .. n : s[i] = x
  <2>1. rank(x) + 1 \in 1 .. n /\ (rank(x) + 1) - 1 = rank(x)
    BY <1>1, <1>2
  <2>2. s[rank(x) + 1] \in set /\ rank(s[rank(x) + 1]) = rank(x)
    BY <1>7, <2>1
  <2> QED BY <1>4, <2>1, <2>2
<1>10. ASSUME NEW i \in 1 .. n, NEW j \in 1 .. n, s[i] = s[j] PROVE i = j
  <2>1. rank(s[i]) = i - 1 /\ rank(s[j]) = j - 1
    BY <1>7
  <2> QED BY <1>10, <2>1
<1>11. ASSUME NEW i \in 1 .. n, NEW j \in 1 .. n PROVE i < j <=> s[i] \in before[s[j]]
  <2>1. /\ s[i] \in set /\ s[j] \in set /\ rank(s[i]) = i - 1 /\ rank(s[j]) = j - 1
    BY <1>7
  <2>2. s[i] = s[j] \/ s[i] \in before[s[j]] \/ s[j] \in before[s[i]]
    BY <2>1 DEF Orders
  <2>3. s[i] \in before[s[j]] => i < j
    BY <1>3, <2>1
  <2>4. s[j] \in before[s[i]] => j < i
    BY <1>3, <2>1
  <2>5. s[i] = s[j] => i = j
    BY <1>10
  <2> QED BY <2>2, <2>3, <2>4, <2>5
<1> QED BY <1>1, <1>7, <1>8, <1>9, <1>10, <1>11 DEF s, n

\* Numbers in ascending order.
LEMMA AscendingFacts ==
  ASSUME NEW set, set \subseteq Nat, IsFiniteSet(set)
  PROVE  LET s == Ascending(set)
         IN  /\ Cardinality(set) \in Nat
             /\ s \in [1 .. Cardinality(set) -> set] /\ Len(s) = Cardinality(set)
             /\ DOMAIN s = 1 .. Cardinality(set) /\ s \in Seq(set)
             /\ \A x \in set : \E i \in 1 .. Cardinality(set) : s[i] = x
             /\ \A i \in 1 .. Cardinality(set) : Cardinality({m \in set : m < s[i]}) = i - 1
             /\ \A i, j \in 1 .. Cardinality(set) : s[i] = s[j] => i = j
             /\ \A i, j \in 1 .. Cardinality(set) : i < j <=> s[i] < s[j]
<1> DEFINE before == [x \in set |-> {m \in set : m < x}]
           s == InOrder(set, before)
           n == Cardinality(set)
<1>1. Orders(set, before)
  <2>1. \A x \in set : before[x] = {m \in set : m < x}
    OBVIOUS
  <2>2. \A x \in set : before[x] \subseteq set /\ x \notin before[x]
    BY <2>1
  <2>3. \A x, y \in set : x = y \/ x < y \/ y < x
    OBVIOUS
  <2>4. \A x, y \in set : x = y \/ x \in before[y] \/ y \in before[x]
    BY <2>1, <2>3
  <2>5. ASSUME NEW x \in set, NEW y \in set, x \in before[y], NEW m \in before[x] PROVE m \in before[y]
    <3>1. m \in set /\ m < x /\ x < y
      BY <2>1, <2>5
    <3>2. m < y
      BY <3>1
    <3> QED BY <2>1, <3>1, <3>2
  <2> HIDE DEF before
  <2> QED BY <2>2, <2>4, <2>5 DEF Orders
<1>2. \A x \in set : before[x] = {m \in set : m < x}
  OBVIOUS
<1>3. Ascending(set) = s
  BY DEF Ascending
<1> HIDE DEF before
<1>4. /\ n \in Nat
      /\ s \in [1 .. n -> set]
      /\ \A x \in set : \E i \in 1 .. n : s[i] = x
      /\ \A i \in 1 .. n : Cardinality(before[s[i]]) = i - 1
      /\ \A i, j \in 1 .. n : s[i] = s[j] => i = j
      /\ \A i, j \in 1 .. n : i < j <=> s[i] \in before[s[j]]
  BY <1>1, OrderedFacts
<1> HIDE DEF s, n
<1>5. \A i \in 1 .. n : Cardinality({m \in set : m < s[i]}) = i - 1
  BY <1>2, <1>4
<1>6. \A i, j \in 1 .. n : i < j <=> s[i] < s[j]
  BY <1>2, <1>4
<1>7. s \in Seq(set) /\ Len(s) = n /\ DOMAIN s = 1 .. n
  BY <1>4
<1>8. /\ n \in Nat
      /\ s \in [1 .. n -> set] /\ Len(s) = n
      /\ DOMAIN s = 1 .. n /\ s \in Seq(set)
      /\ \A x \in set : \E i \in 1 .. n : s[i] = x
      /\ \A i \in 1 .. n : Cardinality({m \in set : m < s[i]}) = i - 1
      /\ \A i, j \in 1 .. n : s[i] = s[j] => i = j
      /\ \A i, j \in 1 .. n : i < j <=> s[i] < s[j]
  BY <1>4, <1>5, <1>6, <1>7
<1> QED BY <1>3, <1>8 DEF n

(***************************************************************************)
(* Trees                                                                   *)
(***************************************************************************)

\* The slots of a node are parts of it, and every hash is in one of them.
LEMMA SplitFacts ==
  ASSUME NEW X, NEW b
  PROVE  /\ \A P \in Split(X, b) : P # {} /\ P \subseteq X /\ \A h \in P : P = WithByte(X, b, h[b])
         /\ \A h \in X : WithByte(X, b, h[b]) \in Split(X, b) /\ h \in WithByte(X, b, h[b])
         /\ \A P, Q \in Split(X, b) : P = Q \/ P \cap Q = {}
         /\ (\E g, h \in X : g[b] # h[b]) => X \notin Split(X, b)
<1>1. ASSUME NEW P \in Split(X, b)
      PROVE  P # {} /\ P \subseteq X /\ \A h \in P : P = WithByte(X, b, h[b])
  BY DEF Split, WithByte
<1>2. \A h \in X : WithByte(X, b, h[b]) \in Split(X, b) /\ h \in WithByte(X, b, h[b])
  BY DEF Split, WithByte
<1>3. ASSUME NEW P \in Split(X, b), NEW Q \in Split(X, b), P \cap Q # {}
      PROVE  P = Q
  BY <1>1, <1>3
<1>4. ASSUME NEW g \in X, NEW h \in X, g[b] # h[b], X \in Split(X, b)
      PROVE  FALSE
  <2>1. X = WithByte(X, b, h[b])
    BY <1>1, <1>4
  <2> QED BY <1>4, <2>1 DEF WithByte
<1> QED BY <1>1, <1>2, <1>3, <1>4

\* A node has hashes, and the slots of a node that forks are nodes.
LEMMA NodeFacts ==
  ASSUME NEW t, NEW f, NEW H, IsTree(t, f, H)
  PROVE  /\ \A n \in Nodes(f, H) : n \subseteq H /\ n # {}
         /\ \A n \in DOMAIN f : /\ n \in Nodes(f, H) /\ Split(n, f[n]) \subseteq Nodes(f, H)
                               /\ n \notin Split(n, f[n])
         /\ H # {} => H \in Nodes(f, H)
<1>1. ASSUME NEW n \in Nodes(f, H) PROVE n # {}
  BY SplitFacts DEF Nodes
<1>2. ASSUME NEW n \in DOMAIN f PROVE n \notin Split(n, f[n])
  BY SplitFacts DEF IsTree
<1>3. DOMAIN f \subseteq Nodes(f, H) /\ Nodes(f, H) \subseteq SUBSET H
  BY DEF IsTree
<1>4. ASSUME NEW n \in DOMAIN f PROVE Split(n, f[n]) \subseteq Nodes(f, H)
  BY DEF Nodes
<1>5. H # {} => H \in Nodes(f, H)
  BY DEF Nodes
<1> QED BY <1>1, <1>2, <1>3, <1>4, <1>5

\* Of two nodes that have a hash in common, one is in a slot of the other.
LEMMA ApartFacts ==
  ASSUME NEW t, NEW f, NEW H, IsTree(t, f, H), NEW m \in Nodes(f, H), NEW n \in Nodes(f, H)
  PROVE  /\ n \subseteq m /\ n # m <=> Below(f, n, m)
         /\ m \cap n # {} => m \subseteq n \/ n \subseteq m
         /\ m \subseteq n => m \cap n # {}
         /\ m \in Above(f, n) <=> Below(f, n, m)
<1>1. ASSUME NEW x \in Nodes(f, H), NEW y \in Nodes(f, H), Below(f, x, y)
      PROVE  x \subseteq y /\ x # y /\ y \in DOMAIN f
  <2>1. PICK P \in Split(y, f[y]) : x \subseteq P
    BY <1>1 DEF Below
  <2>2. y \in DOMAIN f /\ P \subseteq y /\ P # y
    BY <1>1, <2>1, SplitFacts, NodeFacts DEF Below
  <2> QED BY <2>1, <2>2
<1>2. m # {} /\ n # {}
  BY NodeFacts
<1>3. m = n \/ m \cap n = {} \/ Below(f, n, m) \/ Below(f, m, n)
  BY DEF IsTree
<1>4. m \in Above(f, n) <=> Below(f, n, m)
  <2>1. m \in Above(f, n) <=> m \in DOMAIN f /\ n \subseteq m /\ n # m
    BY DEF Above
  <2> QED BY <1>1, <1>2, <1>3, <2>1
<1> QED BY <1>1, <1>2, <1>3, <1>4

\* Above a slot of a node is the node, and what is above it.
LEMMA SlotFacts ==
  ASSUME NEW t, NEW f, NEW H, IsTree(t, f, H), NEW X \in DOMAIN f, NEW P \in Split(X, f[X])
  PROVE  /\ P \in Nodes(f, H) /\ X \in Nodes(f, H)
         /\ Above(f, P) = Above(f, X) \cup {X} /\ X \notin Above(f, X)
         /\ Examined(f, P) = Examined(f, X) \cup {f[X]}
<1>1. P \in Nodes(f, H) /\ X \in Nodes(f, H) /\ P \subseteq X /\ P # X /\ P # {}
  BY NodeFacts, SplitFacts
<1>2. X \in Above(f, P)
  BY <1>1 DEF Above
<1>3. ASSUME NEW m \in Above(f, X) PROVE m \in Above(f, P)
  BY <1>1, <1>3 DEF Above
<1>4. ASSUME NEW m \in Above(f, P), m # X PROVE m \in Above(f, X)
  <2>1. m \in DOMAIN f /\ m \in Nodes(f, H) /\ P \subseteq m /\ P # m
    BY NodeFacts DEF Above
  <2>2. m \cap X # {}
    BY <1>1, <2>1
  <2>3. CASE X \subseteq m
    BY <1>4, <2>1, <2>3 DEF Above
  <2>4. CASE m \subseteq X
    <3>1. Below(f, m, X)
      BY <1>1, <1>4, <2>1, <2>4, ApartFacts
    <3>2. PICK Q \in Split(X, f[X]) : m \subseteq Q
      BY <3>1 DEF Below
    <3>3. Q = P
      BY <1>1, <2>1, <3>2, SplitFacts
    <3> QED BY <2>1, <3>2, <3>3
  <2> QED BY <1>1, <2>1, <2>2, <2>3, <2>4, ApartFacts
<1>5. Above(f, P) = Above(f, X) \cup {X} /\ X \notin Above(f, X)
  BY <1>2, <1>3, <1>4 DEF Above
<1>6. Examined(f, P) = Examined(f, X) \cup {f[X]}
  BY <1>5 DEF Examined
<1> QED BY <1>1, <1>5, <1>6

\* A node has examined as many bytes as there are nodes above it, all of them free before;
\* its hashes agree in them.
LEMMA ExaminedFacts ==
  ASSUME NEW t, NEW f, NEW H, IsTree(t, f, H), NEW n \in Nodes(f, H)
  PROVE  /\ IsFiniteSet(Above(f, n)) /\ Cardinality(Above(f, n)) \in 0 .. HashBytes
         /\ IsFiniteSet(Examined(f, n)) /\ Cardinality(Examined(f, n)) = Cardinality(Above(f, n))
         /\ Examined(f, n) \subseteq Free(t, {}) /\ Free(t, {}) \subseteq Bytes
         /\ \A g, h \in n : \A b \in Examined(f, n) : g[b] = h[b]
<1> DEFINE above == Above(f, n)
           F == [m \in above |-> f[m]]
<1>1. IsFiniteSet(above)
  BY FS_Subset DEF Above, IsTree
<1>2. IsFiniteSet(Bytes) /\ Cardinality(Bytes) = HashBytes /\ HashBytes \in Nat
  BY ShallowTreeAssumption, FS_Interval DEF Bytes
<1>3. Free(t, {}) \subseteq Bytes
  BY DEF Free
<1>4. ASSUME NEW m \in above PROVE m \in DOMAIN f /\ m \in Nodes(f, H) /\ n \subseteq m /\ f[m] \in Free(t, {})
  BY NodeFacts DEF IsTree, Above, Free
<1>5. ASSUME NEW x \in above, NEW y \in above, y \in Above(f, x) PROVE f[x] # f[y]
  <2>1. f[y] \in Examined(f, x)
    BY <1>5 DEF Examined
  <2>2. f[x] \notin Examined(f, x)
    BY <1>4 DEF IsTree, Free
  <2> QED BY <2>1, <2>2
<1>6. ASSUME NEW x \in above, NEW y \in above, f[x] = f[y] PROVE x = y
  <2>1. n # {} /\ x \cap y # {}
    BY <1>4, NodeFacts
  <2>2. x = y \/ Below(f, x, y) \/ Below(f, y, x)
    BY <1>4, <2>1, ApartFacts
  <2>3. x = y \/ y \in Above(f, x) \/ x \in Above(f, y)
    BY <1>4, <2>2, ApartFacts
  <2> QED BY <1>5, <1>6, <2>3
<1>7. Cardinality(above) <= HashBytes /\ Cardinality(above) \in Nat
  <2>1. F \in [above -> Bytes] /\ \A x, y \in above : F[x] = F[y] => x = y
    BY <1>3, <1>4, <1>6
  <2> HIDE DEF F, above
  <2> QED BY <1>1, <1>2, <2>1, Embedded, FS_CardinalityType
<1>8. IsFiniteSet(Examined(f, n)) /\ Cardinality(Examined(f, n)) = Cardinality(above)
  <2>1. /\ F \in [above -> Examined(f, n)] /\ \A x, y \in above : F[x] = F[y] => x = y
        /\ \A b \in Examined(f, n) : \E x \in above : F[x] = b
    BY <1>6 DEF Examined
  <2> HIDE DEF F, above
  <2> QED BY <1>1, <2>1, SameSize
<1>9. Examined(f, n) \subseteq Free(t, {})
  BY <1>4 DEF Examined
<1>10. ASSUME NEW g \in n, NEW h \in n, NEW b \in Examined(f, n) PROVE g[b] = h[b]
  <2>1. PICK m \in above : b = f[m]
    BY DEF Examined
  <2>2. Below(f, n, m)
    BY <1>4, ApartFacts
  <2>3. PICK P \in Split(m, f[m]) : n \subseteq P
    BY <2>2 DEF Below
  <2>4. P = WithByte(m, b, g[b]) /\ h \in P
    BY <2>1, <2>3, SplitFacts
  <2> QED BY <2>4 DEF WithByte
<1> QED BY <1>1, <1>3, <1>7, <1>8, <1>9, <1>10

\* The hashes of the prefix are the root, and every other node is below it.
LEMMA RootFacts ==
  ASSUME NEW t, NEW f, NEW H, IsTree(t, f, H), H # {}
  PROVE  /\ H \in Nodes(f, H) /\ Above(f, H) = {}
         /\ \A n \in Nodes(f, H) : n = H \/ H \in Above(f, n)
<1>1. H \in Nodes(f, H)
  BY NodeFacts
<1>2. ASSUME NEW n \in Above(f, H) PROVE FALSE
  <2>1. n \in DOMAIN f /\ H \subseteq n /\ H # n
    BY DEF Above
  <2> QED BY <2>1, NodeFacts
<1>3. ASSUME NEW n \in Nodes(f, H), n # H PROVE H \in Above(f, n)
  <2>1. n \subseteq H
    BY NodeFacts
  <2> QED BY <1>1, <1>3, <2>1, ApartFacts
<1> QED BY <1>1, <1>2, <1>3

\* Nothing to make a tree of.
LEMMA NoNodes ==
  ASSUME NEW t, NEW f, NEW H, IsTree(t, f, H), H = {}
  PROVE  Nodes(f, H) = {}
BY NodeFacts

\* Before anything forks.
LEMMA BareTree ==
  ASSUME NEW t, NEW H
  PROVE  /\ IsTree(t, <<>>, H)
         /\ Crowds(<<>>, H) \ DOMAIN <<>> = {n \in {H} : Cardinality(n) > 1}
<1>1. DOMAIN <<>> = {} /\ <<>> \in [{} -> Bytes]
  OBVIOUS
<1>2. Nodes(<<>>, H) = IF H = {} THEN {} ELSE {H}
  BY <1>1 DEF Nodes
<1>3. IsTree(t, <<>>, H)
  BY <1>1, <1>2, FS_EmptySet DEF IsTree
<1>4. Cardinality({}) = 0
  BY FS_EmptySet
<1>5. Crowds(<<>>, H) = {n \in {H} : Cardinality(n) > 1}
  <2>1. CASE H = {}
    <3>1. ~ (Cardinality(H) > 1)
      BY <1>4, <2>1
    <3> QED BY <1>2, <2>1, <3>1 DEF Crowds
  <2>2. CASE H # {}
    BY <1>2, <2>2 DEF Crowds
  <2> QED BY <2>1, <2>2
<1> QED BY <1>1, <1>3, <1>5

\* A tree stays one when a node forks on a free byte in which its hashes differ.
LEMMA ForkedTree ==
  ASSUME NEW t, NEW f, NEW H, IsTree(t, f, H), NEW X \in Nodes(f, H) \ DOMAIN f,
         NEW b \in Free(t, Examined(f, X)), \E g, h \in X : g[b] # h[b]
  PROVE  /\ IsTree(t, Put(f, X, b), H)
         /\ DOMAIN Put(f, X, b) = DOMAIN f \cup {X}
         /\ Nodes(Put(f, X, b), H) = Nodes(f, H) \cup Split(X, b)
         /\ Split(X, b) \cap (DOMAIN f \cup {X}) = {}
<1> DEFINE f2 == Put(f, X, b)
           N == Nodes(f, H)
           N2 == Nodes(f2, H)
<1>1. /\ DOMAIN f2 = DOMAIN f \cup {X} /\ f2[X] = b
      /\ \A n \in DOMAIN f : f2[n] = f[n]
      /\ f2 = [n \in DOMAIN f \cup {X} |-> f2[n]]
  BY DEF Put
<1> HIDE DEF f2
<1>2. N2 = N \cup Split(X, b)
  BY <1>1 DEF Nodes
<1>3. X \in N /\ X \subseteq H /\ X # {} /\ X \notin Split(X, b)
      /\ \A P \in Split(X, b) : P # {} /\ P \subseteq X
  BY NodeFacts, SplitFacts
<1>4. ASSUME NEW n \in N, n \subseteq X PROVE n = X
  <2>1. X \cap n # {} /\ n # {}
    BY <1>4, NodeFacts
  <2>2. n = X \/ Below(f, X, n) \/ Below(f, n, X)
    BY <1>3, <2>1 DEF IsTree
  <2>3. Below(f, X, n) => X \subseteq n
    BY <1>3, ApartFacts
  <2> QED BY <1>4, <2>2, <2>3 DEF Below
<1>5. Split(X, b) \cap (DOMAIN f \cup {X}) = {}
  <2>1. ASSUME NEW P \in Split(X, b), P \in DOMAIN f \cup {X} PROVE FALSE
    <3>1. P \in N /\ P \subseteq X
      BY <1>3, <2>1, NodeFacts
    <3> QED BY <1>3, <1>4, <3>1
  <2> QED BY <2>1
<1>6. \A m, n \in N : Below(f, n, m) => Below(f2, n, m)
  BY <1>1 DEF Below
<1>7. ASSUME NEW P \in Split(X, b), NEW n \in N
      PROVE  P \cap n = {} \/ Below(f2, P, n)
  <2>1. P \subseteq X
    BY <1>3
  <2>2. CASE n = X
    <3>1. Below(f2, P, X)
      BY <1>1 DEF Below
    <3> QED BY <2>2, <3>1
  <2>3. CASE n # X /\ n \cap X # {}
    <3>1. Below(f, X, n)
      <4>1. X = n \/ X \cap n = {} \/ Below(f, n, X) \/ Below(f, X, n)
        BY <1>3 DEF IsTree
      <4> QED BY <2>3, <4>1 DEF Below
    <3>2. PICK part \in Split(n, f[n]) : X \subseteq part
      BY <3>1 DEF Below
    <3>3. Below(f2, P, n)
      BY <1>1, <2>1, <3>1, <3>2 DEF Below
    <3> QED BY <3>3
  <2> QED BY <2>1, <2>2, <2>3
<1>8. ASSUME NEW m \in N2, NEW n \in N2
      PROVE  m = n \/ m \cap n = {} \/ Below(f2, n, m) \/ Below(f2, m, n)
  <2>1. CASE m \in N /\ n \in N
    BY <1>6, <2>1 DEF IsTree
  <2>2. CASE m \in Split(X, b) /\ n \in N
    BY <1>7, <2>2
  <2>3. CASE m \in N /\ n \in Split(X, b)
    BY <1>7, <2>3
  <2>4. CASE m \in Split(X, b) /\ n \in Split(X, b)
    BY <2>4, SplitFacts
  <2> QED BY <1>2, <2>1, <2>2, <2>3, <2>4
<1>9. ASSUME NEW n \in N PROVE Above(f2, n) = Above(f, n) /\ Examined(f2, n) = Examined(f, n)
  <2>1. X \notin Above(f2, n)
    BY <1>4 DEF Above
  <2>2. Above(f2, n) = Above(f, n)
    BY <1>1, <2>1 DEF Above
  <2>3. \A m \in Above(f, n) : f2[m] = f[m]
    BY <1>1 DEF Above
  <2> QED BY <2>2, <2>3 DEF Examined
<1>10. ASSUME NEW n \in DOMAIN f2
       PROVE  f2[n] \in Free(t, Examined(f2, n)) /\ \E g, h \in n : g[f2[n]] # h[f2[n]]
  <2>1. n \in N
    BY <1>1, <1>3, NodeFacts
  <2>2. CASE n = X
    BY <1>1, <1>9, <2>1, <2>2
  <2>3. CASE n \in DOMAIN f
    BY <1>1, <1>9, <2>1, <2>3 DEF IsTree
  <2> QED BY <1>1, <2>2, <2>3
<1>11. IsFiniteSet(DOMAIN f2) /\ f2 \in [DOMAIN f2 -> Bytes]
  <2>1. IsFiniteSet(DOMAIN f2)
    BY <1>1, FS_AddElement DEF IsTree
  <2>2. b \in Bytes
    BY DEF Free
  <2> QED BY <1>1, <2>1, <2>2 DEF IsTree
<1>12. DOMAIN f2 \subseteq N2 /\ N2 \subseteq SUBSET H
  <2>1. DOMAIN f2 \subseteq N2
    BY <1>1, <1>2, <1>3, NodeFacts
  <2>2. N \subseteq SUBSET H
    BY DEF IsTree
  <2> QED BY <1>2, <1>3, <2>1, <2>2
<1>13. IsTree(t, f2, H)
  BY <1>8, <1>10, <1>11, <1>12 DEF IsTree
<1> QED BY <1>1, <1>2, <1>5, <1>13 DEF f2

(***************************************************************************)
(* Prefixes, and the bytes after them                                      *)
(***************************************************************************)

\* Powers are natural numbers.
LEMMA PowerFacts ==
  ASSUME NEW a \in Nat, NEW n \in Nat
  PROVE  \E f : /\ f = [i \in 0 .. n |-> IF i = 0 THEN 1 ELSE a * f[i - 1]]
                /\ \A i \in 0 .. n : f[i] \in Nat
                /\ Power(a, n) = f[n]
<1> DEFINE X == [i \in 0 .. n |-> Nat]
           next == [p \in ((1 .. n) \X Nat) |-> a * p[2]]
<1>1. \A i \in 1 .. n : \A x \in Nat : next[<<i, x>>] = a * x /\ a * x \in Nat
  OBVIOUS
<1>2. PICK f : Follows(f, n, Nat, X, 1, next)
  <2>1. \A i \in 0 .. n : X[i] = Nat
    OBVIOUS
  <2>2. Leads(n, Nat, X, 1, next)
    <3> HIDE DEF X, next
    <3> QED BY <1>1, <2>1 DEF Leads
  <2> HIDE DEF X, next
  <2> QED BY <2>2, Recursion
<1>3. f = [i \in 0 .. n |-> f[i]] /\ \A i \in 0 .. n : f[i] \in Nat
  BY <1>2 DEF Follows
<1>4. f = [i \in 0 .. n |-> IF i = 0 THEN 1 ELSE a * f[i - 1]]
  <2>1. \A i \in 0 .. n : i # 0 => i \in 1 .. n /\ i - 1 \in 0 .. n
    OBVIOUS
  <2>2. \A i \in 0 .. n : f[i] = IF i = 0 THEN 1 ELSE a * f[i - 1]
    <3> HIDE DEF next
    <3> QED BY <1>1, <1>2, <1>3, <2>1 DEF Follows
  <2> QED BY <1>3, <2>2, Zenon
<1>5. PICK g : g = (CHOOSE power : power = [i \in 0 .. n |-> IF i = 0 THEN 1 ELSE a * power[i - 1]])
  OBVIOUS
<1>6. g = [i \in 0 .. n |-> IF i = 0 THEN 1 ELSE a * g[i - 1]]
  BY <1>4, <1>5
<1>7. Power(a, n) = g[n]
  BY <1>5 DEF Power
<1>8. \A i \in 0 .. n : g[i] \in Nat
  <2> DEFINE S == {i \in 0 .. n : g[i] \in Nat}
  <2>1. 0 \in S
    BY <1>6
  <2>2. ASSUME NEW m \in 0 .. n - 1, m \in S PROVE m + 1 \in S
    <3>1. g[m] \in Nat /\ g[m + 1] = a * g[m]
      BY <1>6, <2>2
    <3> QED BY <3>1
  <2>3. 0 .. n \subseteq S
    <3> HIDE DEF S
    <3> QED BY <2>1, <2>2, InductionUpTo
  <2> QED BY <2>3
<1> QED BY <1>6, <1>7, <1>8

\* A power is a natural number.
LEMMA PowerNatural ==
  ASSUME NEW a \in Nat, NEW n \in Nat
  PROVE  Power(a, n) \in Nat
<1>1. PICK f : (\A i \in 0 .. n : f[i] \in Nat) /\ Power(a, n) = f[n]
  BY PowerFacts
<1>2. n \in 0 .. n
  OBVIOUS
<1> QED BY <1>1, <1>2

\* Quotients and remainders.
LEMMA DividedBack ==
  ASSUME NEW b \in Nat \ {0}, NEW a \in Nat, NEW r \in 0 .. b - 1
  PROVE  (b * a + r) \div b = a /\ (b * a + r) % b = r
OBVIOUS

\* What division gives.
LEMMA Divided ==
  ASSUME NEW b \in Nat \ {0}, NEW a \in Nat
  PROVE  a = b * (a \div b) + (a % b) /\ a % b \in 0 .. b - 1 /\ a \div b \in Nat
OBVIOUS

LEMMA DividedLess ==
  ASSUME NEW b \in Nat \ {0}, NEW c \in Nat, NEW a \in Nat, a < b * c
  PROVE  a \div b < c
OBVIOUS

LEMMA MultipleIsNatural ==
  ASSUME NEW b \in Nat, NEW a \in Nat, NEW r \in 0 .. b - 1
  PROVE  b * a + r \in Nat
OBVIOUS

LEMMA BelowProduct ==
  ASSUME NEW b \in Nat \ {0}, NEW c \in Nat, NEW a \in Nat, NEW r \in 0 .. b - 1, a < c
  PROVE  b * a + r \in Nat /\ b * a + r < b * c
<1>1. a + 1 <= c
  OBVIOUS
<1>2. b * (a + 1) <= b * c
  BY <1>1
<1>3. b * (a + 1) = b * a + b
  OBVIOUS
<1> QED BY <1>2, <1>3

\* The index of nibbles is made up step by step.
LEMMA IndexFacts ==
  ASSUME NEW n \in Nat, NEW s \in [1 .. n -> 0 .. NibbleBase - 1]
  PROVE  \E f : /\ f[0] = 0 /\ \A i \in 1 .. n : f[i] = NibbleBase * f[i - 1] + s[i]
                /\ \A i \in 0 .. n : f[i] \in Nat
                /\ IndexOfNibbles(s) = f[n]
<1> DEFINE X == [i \in 0 .. n |-> Nat]
           next == [p \in ((1 .. n) \X Nat) |-> NibbleBase * p[2] + s[p[1]]]
<1>0. NibbleBase \in Nat /\ Len(s) = n
  BY ShallowTreeAssumption
<1>1. \A i \in 1 .. n : \A x \in Nat : next[<<i, x>>] = NibbleBase * x + s[i]
                                     /\ NibbleBase * x + s[i] \in Nat
  BY <1>0
<1>2. PICK f : Follows(f, n, Nat, X, 0, next)
  <2>1. \A i \in 0 .. n : X[i] = Nat
    OBVIOUS
  <2>2. Leads(n, Nat, X, 0, next)
    <3> HIDE DEF X, next
    <3> QED BY <1>1, <2>1 DEF Leads
  <2> HIDE DEF X, next
  <2> QED BY <2>2, Recursion
<1>3. f = [i \in 0 .. n |-> f[i]] /\ \A i \in 0 .. n : f[i] \in Nat
  BY <1>2 DEF Follows
<1>4. f = [i \in 0 .. n |-> IF i = 0 THEN 0 ELSE NibbleBase * f[i - 1] + s[i]]
  <2>1. \A i \in 0 .. n : i # 0 => i \in 1 .. n /\ i - 1 \in 0 .. n
    OBVIOUS
  <2>2. \A i \in 0 .. n : f[i] = IF i = 0 THEN 0 ELSE NibbleBase * f[i - 1] + s[i]
    <3> HIDE DEF next
    <3> QED BY <1>1, <1>2, <1>3, <2>1 DEF Follows
  <2> QED BY <1>3, <2>2, Zenon
<1>5. PICK g : g = (CHOOSE index : index = [i \in 0 .. n |->
                      IF i = 0 THEN 0 ELSE NibbleBase * index[i - 1] + s[i]])
  OBVIOUS
<1>6. g = [i \in 0 .. n |-> IF i = 0 THEN 0 ELSE NibbleBase * g[i - 1] + s[i]]
  BY <1>4, <1>5
<1>7. IndexOfNibbles(s) = g[n]
  BY <1>0, <1>5 DEF IndexOfNibbles
<1>8. \A i \in 0 .. n : g[i] \in Nat
  <2> DEFINE S == {i \in 0 .. n : g[i] \in Nat}
  <2>1. 0 \in S
    BY <1>6
  <2>2. ASSUME NEW m \in 0 .. n - 1, m \in S PROVE m + 1 \in S
    <3>1. g[m] \in Nat /\ g[m + 1] = NibbleBase * g[m] + s[m + 1]
      BY <1>6, <2>2
    <3>2. m + 1 \in 1 .. n /\ s[m + 1] \in 0 .. NibbleBase - 1
      OBVIOUS
    <3>3. NibbleBase * g[m] + s[m + 1] \in Nat
      BY <1>0, <3>1, <3>2, MultipleIsNatural
    <3> QED BY <3>1, <3>3
  <2>3. 0 .. n \subseteq S
    <3> HIDE DEF S
    <3> QED BY <2>1, <2>2, InductionUpTo
  <2> QED BY <2>3
<1>9. g[0] = 0 /\ \A i \in 1 .. n : g[i] = NibbleBase * g[i - 1] + s[i]
  BY <1>6
<1> QED BY <1>7, <1>8, <1>9

\* There is a prefix for every string of nibbles.
LEMMA IndexBelow ==
  ASSUME NEW n \in Nat, NEW s \in [1 .. n -> 0 .. NibbleBase - 1]
  PROVE  IndexOfNibbles(s) \in 0 .. Power(NibbleBase, n) - 1 /\ Power(NibbleBase, n) \in Nat
<1>0. NibbleBase \in Nat \ {0}
  BY ShallowTreeAssumption
<1>1. PICK f : /\ f[0] = 0 /\ \A i \in 1 .. n : f[i] = NibbleBase * f[i - 1] + s[i]
               /\ \A i \in 0 .. n : f[i] \in Nat
               /\ IndexOfNibbles(s) = f[n]
  BY IndexFacts
<1>2. PICK power : /\ power = [i \in 0 .. n |-> IF i = 0 THEN 1 ELSE NibbleBase * power[i - 1]]
                   /\ \A i \in 0 .. n : power[i] \in Nat
                   /\ Power(NibbleBase, n) = power[n]
  BY <1>0, PowerFacts
<1>3. power[0] = 1 /\ \A i \in 1 .. n : power[i] = NibbleBase * power[i - 1]
  BY <1>2
<1> DEFINE S == {i \in 0 .. n : f[i] < power[i]}
<1>4. 0 \in S
  BY <1>1, <1>3
<1>5. ASSUME NEW m \in 0 .. n - 1, m \in S PROVE m + 1 \in S
  <2>1. /\ m + 1 \in 1 .. n /\ m \in 0 .. n /\ (m + 1) - 1 = m
        /\ s[m + 1] \in 0 .. NibbleBase - 1
    OBVIOUS
  <2>2. /\ f[m + 1] = NibbleBase * f[m] + s[m + 1] /\ power[m + 1] = NibbleBase * power[m]
        /\ f[m] \in Nat /\ power[m] \in Nat /\ f[m] < power[m]
    BY <1>1, <1>2, <1>3, <1>5, <2>1
  <2>3. NibbleBase * f[m] + s[m + 1] < NibbleBase * power[m]
    BY <1>0, <2>1, <2>2, BelowProduct
  <2> QED BY <2>1, <2>2, <2>3
<1>6. 0 .. n \subseteq S
  <2> HIDE DEF S
  <2> QED BY <1>4, <1>5, InductionUpTo
<1> QED BY <1>1, <1>2, <1>6

\* Different strings of nibbles have different indices.
LEMMA IndexOneToOne ==
  ASSUME NEW n \in Nat, NEW s \in [1 .. n -> 0 .. NibbleBase - 1],
         NEW r \in [1 .. n -> 0 .. NibbleBase - 1], IndexOfNibbles(s) = IndexOfNibbles(r)
  PROVE  s = r
<1>0. NibbleBase \in Nat \ {0}
  BY ShallowTreeAssumption
<1>1. PICK f : /\ f[0] = 0 /\ \A i \in 1 .. n : f[i] = NibbleBase * f[i - 1] + s[i]
               /\ \A i \in 0 .. n : f[i] \in Nat
               /\ IndexOfNibbles(s) = f[n]
  BY IndexFacts
<1>2. PICK g : /\ g[0] = 0 /\ \A i \in 1 .. n : g[i] = NibbleBase * g[i - 1] + r[i]
               /\ \A i \in 0 .. n : g[i] \in Nat
               /\ IndexOfNibbles(r) = g[n]
  BY IndexFacts
<1>3. ASSUME NEW i \in 1 .. n, f[i] = g[i] PROVE f[i - 1] = g[i - 1] /\ s[i] = r[i]
  <2>1. /\ f[i - 1] \in Nat /\ g[i - 1] \in Nat
        /\ s[i] \in 0 .. NibbleBase - 1 /\ r[i] \in 0 .. NibbleBase - 1
        /\ f[i] = NibbleBase * f[i - 1] + s[i] /\ g[i] = NibbleBase * g[i - 1] + r[i]
    BY <1>1, <1>2
  <2> DEFINE a == f[i - 1]
             c == g[i - 1]
             u == s[i]
             v == r[i]
  <2>2. /\ a \in Nat /\ c \in Nat /\ u \in 0 .. NibbleBase - 1 /\ v \in 0 .. NibbleBase - 1
        /\ NibbleBase * a + u = NibbleBase * c + v
    BY <1>3, <2>1
  <2> HIDE DEF a, c, u, v
  <2>3. (NibbleBase * a + u) \div NibbleBase = a /\ (NibbleBase * a + u) % NibbleBase = u
    BY <1>0, <2>2, DividedBack
  <2>4. (NibbleBase * c + v) \div NibbleBase = c /\ (NibbleBase * c + v) % NibbleBase = v
    BY <1>0, <2>2, DividedBack
  <2>5. a = c /\ u = v
    BY <2>2, <2>3, <2>4
  <2> QED BY <2>5 DEF a, c, u, v
<1> DEFINE S == {k \in 0 .. n : f[n - k] = g[n - k]}
<1>4. 0 \in S
  <2>1. n - 0 = n /\ 0 \in 0 .. n
    OBVIOUS
  <2> QED BY <1>1, <1>2, <2>1
<1>5. ASSUME NEW m \in 0 .. n - 1, m \in S PROVE m + 1 \in S
  <2>1. n - m \in 1 .. n /\ n - (m + 1) = (n - m) - 1 /\ f[n - m] = g[n - m]
    BY <1>5
  <2> QED BY <1>3, <2>1
<1>6. 0 .. n \subseteq S
  <2> HIDE DEF S
  <2> QED BY <1>4, <1>5, InductionUpTo
<1>7. ASSUME NEW i \in 1 .. n PROVE s[i] = r[i]
  <2>1. n - i \in 0 .. n /\ n - (n - i) = i
    OBVIOUS
  <2>2. f[i] = g[i]
    BY <1>6, <2>1
  <2> QED BY <1>3, <2>2
<1> QED BY <1>7

\* The prefixes of hashes, and which bytes two hashes of one prefix agree in.
LEMMA PrefixType ==
  ASSUME NEW h \in Hash, NEW t \in 0 .. 2 * HashBytes
  PROVE  PrefixOf(h, t) \in [1 .. t -> 0 .. NibbleBase - 1]
<1>1. ASSUME NEW i \in 1 .. t PROVE Nibble(h, i) \in 0 .. NibbleBase - 1
  <2>0. NibbleBase \in Nat \ {0} /\ HashBytes \in Nat
    BY ShallowTreeAssumption
  <2>1. (i + 1) \div 2 \in Bytes
    BY <2>0 DEF Bytes
  <2>2. h[(i + 1) \div 2] \in 0 .. NibbleBase * NibbleBase - 1
    BY <2>1 DEF Hash, ByteValues, ByteCount
  <2> DEFINE byte == h[(i + 1) \div 2]
  <2>3. byte \in Nat /\ byte < NibbleBase * NibbleBase
    <3>1. NibbleBase * NibbleBase \in Nat
      BY <2>0
    <3> QED BY <2>2, <3>1
  <2> HIDE DEF byte
  <2>4. byte \div NibbleBase \in Nat /\ byte \div NibbleBase < NibbleBase /\ byte % NibbleBase \in 0 .. NibbleBase - 1
    BY <2>0, <2>3, Divided, DividedLess
  <2>5. byte \div NibbleBase \in 0 .. NibbleBase - 1
    BY <2>0, <2>4
  <2> QED BY <2>4, <2>5 DEF Nibble, byte
<1> QED BY <1>1 DEF PrefixOf

\* With an even prefix, a byte is in the prefix or free.
LEMMA FreeTells ==
  ASSUME NEW g \in Hash, NEW h \in Hash, NEW t \in 0 .. 2 * HashBytes, t % 2 = 0,
         PrefixOf(g, t) = PrefixOf(h, t), \A b \in Free(t, {}) : g[b] = h[b]
  PROVE  g = h
<1>0. NibbleBase \in Nat \ {0} /\ HashBytes \in Nat
  BY ShallowTreeAssumption
<1>1. ASSUME NEW b \in Bytes, b \notin Free(t, {}) PROVE g[b] = h[b]
  <2>1. b \in 1 .. HashBytes /\ 2 * b <= t
    <3>1. b \in 1 .. HashBytes /\ ~ (2 * (b - 1) >= t)
      BY <1>1 DEF Bytes, Free
    <3> QED BY <1>0, <3>1
  <2>2. 2 * b \in 1 .. t /\ 2 * b - 1 \in 1 .. t
    BY <1>0, <2>1
  <2>3. (2 * b + 1) \div 2 = b /\ (2 * b) % 2 # 1 /\ ((2 * b - 1) + 1) \div 2 = b /\ (2 * b - 1) % 2 = 1
    BY <2>1
  <2>4. \A x \in {g, h} : /\ PrefixOf(x, t)[2 * b] = x[b] % NibbleBase
                          /\ PrefixOf(x, t)[2 * b - 1] = x[b] \div NibbleBase
    BY <2>2, <2>3 DEF PrefixOf, Nibble
  <2>5. g[b] % NibbleBase = h[b] % NibbleBase /\ g[b] \div NibbleBase = h[b] \div NibbleBase
    BY <2>4
  <2>6. g[b] \in Nat /\ h[b] \in Nat
    <3>1. ByteValues \subseteq Nat
      BY <1>0 DEF ByteValues, ByteCount
    <3> QED BY <3>1 DEF Hash
  <2>7. /\ g[b] = NibbleBase * (g[b] \div NibbleBase) + (g[b] % NibbleBase)
        /\ h[b] = NibbleBase * (h[b] \div NibbleBase) + (h[b] % NibbleBase)
    BY <1>0, <2>6, Divided
  <2> QED BY <2>5, <2>7
<1>2. \A b \in Bytes : g[b] = h[b]
  BY <1>1
<1> QED BY <1>2 DEF Hash

(***************************************************************************)
(* Which byte a node forks on                                              *)
(***************************************************************************)

\* The slots of a node are finitely many, and more than one if its hashes differ.
LEMMA SplitSize ==
  ASSUME NEW node, NEW b, IsFiniteSet(node)
  PROVE  /\ IsFiniteSet(Split(node, b)) /\ Cardinality(Split(node, b)) \in Nat
         /\ Cardinality(Split(node, b)) > 1 <=> \E g, h \in node : g[b] # h[b]
<1>1. IsFiniteSet(Split(node, b)) /\ Cardinality(Split(node, b)) \in Nat
  <2>1. IsFiniteSet(SUBSET node) /\ Split(node, b) \subseteq SUBSET node
    BY FS_SUBSET, SplitFacts
  <2>2. IsFiniteSet(Split(node, b))
    BY <2>1, FS_Subset
  <2> QED BY <2>2, FS_CardinalityType
<1>2. ASSUME NEW g \in node, NEW h \in node, g[b] # h[b]
      PROVE  Cardinality(Split(node, b)) > 1
  <2> DEFINE P == WithByte(node, b, g[b])
             Q == WithByte(node, b, h[b])
  <2>1. P \in Split(node, b) /\ Q \in Split(node, b) /\ g \in P
    BY SplitFacts
  <2>2. P # Q
    BY <1>2, <2>1 DEF WithByte
  <2> HIDE DEF P, Q
  <2>3. IsFiniteSet({P}) /\ Cardinality({P}) = 1
    BY FS_Singleton
  <2>4. Cardinality({P} \cup {Q}) = 2
    BY <2>2, <2>3, FS_AddElement
  <2>5. Cardinality({P} \cup {Q}) <= Cardinality(Split(node, b))
    <3>1. {P} \cup {Q} \subseteq Split(node, b)
      BY <2>1
    <3> QED BY <1>1, <3>1, FS_Subset
  <2> QED BY <1>1, <2>4, <2>5
<1>3. ASSUME \A g, h \in node : g[b] = h[b]
      PROVE  ~ (Cardinality(Split(node, b)) > 1)
  <2>1. Split(node, b) \subseteq {node}
    <3>1. \A h \in node : WithByte(node, b, h[b]) = node
      BY <1>3 DEF WithByte
    <3> QED BY <3>1 DEF Split
  <2>2. IsFiniteSet({node}) /\ Cardinality({node}) = 1
    BY FS_Singleton
  <2>3. Cardinality(Split(node, b)) <= 1
    BY <2>1, <2>2, FS_Subset
  <2> QED BY <1>1, <2>3
<1> QED BY <1>1, <1>2, <1>3

\* The parts of a finite node are finite.
LEMMA PartSize ==
  ASSUME NEW node, NEW b, NEW v, IsFiniteSet(node)
  PROVE  Cardinality(WithByte(node, b, v)) \in Nat
<1>1. WithByte(node, b, v) \subseteq node
  BY DEF WithByte
<1> QED BY <1>1, FS_Subset, FS_CardinalityType

\* The unevenness of a byte is a natural number.
LEMMA UnevennessNatural ==
  ASSUME NEW node, NEW b, IsFiniteSet(node)
  PROVE  Unevenness(node, b) \in Nat
<1> DEFINE n == ByteCount
           factor(i) == Power(Cardinality(WithByte(node, b, i - 1)), Cardinality(WithByte(node, b, i - 1)))
           X == [i \in 0 .. n |-> Nat]
           next == [p \in ((1 .. n) \X Nat) |-> factor(p[1]) * p[2]]
<1>0. n \in Nat
  <2>1. NibbleBase \in Nat
    BY ShallowTreeAssumption
  <2> QED BY <2>1 DEF ByteCount
<1> HIDE DEF n
<1>1. ASSUME NEW i \in Nat PROVE factor(i) \in Nat
  <2>1. PICK c : c = Cardinality(WithByte(node, b, i - 1))
    OBVIOUS
  <2>2. c \in Nat
    BY <2>1, PartSize
  <2>3. Power(c, c) \in Nat
    BY <2>2, PowerNatural
  <2> QED BY <2>1, <2>3
<1> HIDE DEF factor
<1>2. \A i \in 1 .. n : \A x \in Nat : next[<<i, x>>] = factor(i) * x /\ factor(i) * x \in Nat
  <2> SUFFICES ASSUME NEW i \in 1 .. n, NEW x \in Nat
               PROVE  next[<<i, x>>] = factor(i) * x /\ factor(i) * x \in Nat
    OBVIOUS
  <2>1. factor(i) \in Nat
    BY <1>1
  <2> QED BY <2>1
<1>3. PICK f : Follows(f, n, Nat, X, 1, next)
  <2>1. \A i \in 0 .. n : X[i] = Nat
    OBVIOUS
  <2>2. Leads(n, Nat, X, 1, next)
    <3> HIDE DEF X, next
    <3> QED BY <1>0, <1>2, <2>1 DEF Leads
  <2> HIDE DEF X, next
  <2> QED BY <1>0, <2>2, Recursion
<1>4. f = [i \in 0 .. n |-> f[i]] /\ \A i \in 0 .. n : f[i] \in Nat
  BY <1>3 DEF Follows
<1>5. f = [i \in 0 .. n |-> IF i = 0 THEN 1 ELSE factor(i) * f[i - 1]]
  <2>1. \A i \in 0 .. n : i # 0 => i \in 1 .. n /\ i - 1 \in 0 .. n
    BY <1>0
  <2>2. \A i \in 0 .. n : f[i] = IF i = 0 THEN 1 ELSE factor(i) * f[i - 1]
    <3> HIDE DEF next
    <3> QED BY <1>2, <1>3, <1>4, <2>1 DEF Follows
  <2> QED BY <1>4, <2>2, Zenon
<1>6. PICK g : g = (CHOOSE upTo : upTo = [i \in 0 .. n |-> IF i = 0 THEN 1 ELSE factor(i) * upTo[i - 1]])
  OBVIOUS
<1>7. g = [i \in 0 .. n |-> IF i = 0 THEN 1 ELSE factor(i) * g[i - 1]]
  BY <1>5, <1>6
<1>8. Unevenness(node, b) = g[n]
  BY <1>6 DEF Unevenness, factor, n
<1>9. \A i \in 0 .. n : g[i] \in Nat
  <2> DEFINE S == {i \in 0 .. n : g[i] \in Nat}
  <2>1. 0 \in S
    BY <1>0, <1>7
  <2>2. ASSUME NEW m \in 0 .. n - 1, m \in S PROVE m + 1 \in S
    <3>1. m + 1 \in 0 .. n /\ m + 1 # 0 /\ (m + 1) - 1 = m /\ m + 1 \in Nat
      BY <1>0
    <3>2. g[m] \in Nat /\ g[m + 1] = factor(m + 1) * g[m] /\ factor(m + 1) \in Nat
      BY <1>1, <1>7, <2>2, <3>1
    <3>3. factor(m + 1) * g[m] \in Nat
      BY <3>2
    <3> QED BY <3>1, <3>2, <3>3
  <2>3. 0 .. n \subseteq S
    <3> HIDE DEF S
    <3> QED BY <1>0, <2>1, <2>2, InductionUpTo
  <2> QED BY <2>3
<1> QED BY <1>0, <1>8, <1>9

\* A best byte is a free one in which hashes differ, and there is one if there is such a byte.
LEMMA BestFacts ==
  ASSUME NEW node, IsFiniteSet(node), NEW free
  PROVE  /\ \A b \in Best(node, free) : b \in free /\ \E g, h \in node : g[b] # h[b]
         /\ Best(node, free) = {} => \A b \in free : \A g, h \in node : g[b] = h[b]
<1> DEFINE splitting == {b \in free : Cardinality(Split(node, b)) > 1}
           costs == {Unevenness(node, b) : b \in splitting}
<1>1. \A b \in Best(node, free) : b \in free /\ \E g, h \in node : g[b] # h[b]
  BY SplitSize DEF Best
<1>2. ASSUME splitting # {} PROVE Best(node, free) # {}
  <2>1. costs \subseteq Nat /\ costs # {}
    BY <1>2, UnevennessNatural
  <2>2. PICK x \in costs : \A y \in costs : x <= y
    <3> HIDE DEF costs
    <3> QED BY <2>1, MinFacts
  <2>3. PICK b \in splitting : x = Unevenness(node, b)
    BY <2>2
  <2>4. \A c \in splitting : Unevenness(node, b) <= Unevenness(node, c)
    BY <2>2, <2>3
  <2>5. b \in Best(node, free)
    BY <2>4 DEF Best
  <2> QED BY <2>5
<1>3. ASSUME splitting = {}, NEW b \in free, NEW g \in node, NEW h \in node PROVE g[b] = h[b]
  <2>1. ~ (Cardinality(Split(node, b)) > 1)
    BY <1>3
  <2> QED BY <2>1, SplitSize
<1> QED BY <1>1, <1>2, <1>3

(***************************************************************************)
(* The order of the visit                                                  *)
(***************************************************************************)
IsCommon(f, m, n, c) ==
  m \cup n \subseteq c /\ \A d \in DOMAIN f : m \cup n \subseteq d => c \subseteq d
Common(f, m, n) == CHOOSE c \in DOMAIN f : IsCommon(f, m, n, c)
ValueAt(f, n, c) == (CHOOSE h \in n : TRUE)[f[c]]

\* A node below another is in the slot of one value.
LEMMA SlotValue ==
  ASSUME NEW t, NEW f, NEW H, IsTree(t, f, H), NEW n \in Nodes(f, H), NEW c \in DOMAIN f,
         n \subseteq c, n # c
  PROVE  /\ WithByte(c, f[c], ValueAt(f, n, c)) \in Split(c, f[c])
         /\ n \subseteq WithByte(c, f[c], ValueAt(f, n, c))
         /\ \A m : m \subseteq n /\ m # {} => ValueAt(f, m, c) = ValueAt(f, n, c)
<1>1. Below(f, n, c)
  BY ApartFacts, NodeFacts
<1>2. PICK P \in Split(c, f[c]) : n \subseteq P
  BY <1>1 DEF Below
<1>3. \A h \in P : P = WithByte(c, f[c], h[f[c]])
  BY SplitFacts
<1>4. n # {}
  BY NodeFacts
<1>5. ASSUME NEW m, m \subseteq n, m # {} PROVE P = WithByte(c, f[c], ValueAt(f, m, c))
                                               /\ \A h \in P : h[f[c]] = ValueAt(f, m, c)
  <2>1. (CHOOSE h \in m : TRUE) \in P
    BY <1>2, <1>5
  <2>2. P = WithByte(c, f[c], ValueAt(f, m, c))
    BY <1>3, <2>1 DEF ValueAt
  <2> QED BY <2>2 DEF WithByte
<1>6. P = WithByte(c, f[c], ValueAt(f, n, c))
  BY <1>4, <1>5
<1>7. ASSUME NEW m, m \subseteq n, m # {} PROVE ValueAt(f, m, c) = ValueAt(f, n, c)
  BY <1>2, <1>4, <1>5, <1>7
<1> QED BY <1>2, <1>6, <1>7

\* Two nodes that have no hash in common are in different slots of the smallest node that
\* holds both.
LEMMA CommonFacts ==
  ASSUME NEW t, NEW f, NEW H, IsTree(t, f, H), IsFiniteSet(H),
         NEW m \in Nodes(f, H), NEW n \in Nodes(f, H), m \cap n = {}
  PROVE  LET c == Common(f, m, n)
         IN  /\ c \in DOMAIN f /\ m \cup n \subseteq c /\ m # c /\ n # c
             /\ \A d \in DOMAIN f : m \cup n \subseteq d => c \subseteq d
             /\ ValueAt(f, m, c) # ValueAt(f, n, c)
<1> DEFINE C == {d \in DOMAIN f : m \cup n \subseteq d}
           sizes == {Cardinality(d) : d \in C}
<1>1. m # {} /\ n # {} /\ m \subseteq H /\ n \subseteq H
  BY NodeFacts
<1>2. H \in C
  <2>1. m # H \/ n # H
    BY <1>1
  <2>2. H \in Above(f, m) \/ H \in Above(f, n)
    BY <1>1, <2>1, RootFacts
  <2> QED BY <1>1, <2>2 DEF Above
<1>3. ASSUME NEW d \in C PROVE /\ d \in Nodes(f, H) /\ d \in DOMAIN f /\ m \cup n \subseteq d
                               /\ IsFiniteSet(d) /\ Cardinality(d) \in Nat
  <2>1. d \in Nodes(f, H) /\ d \in DOMAIN f /\ m \cup n \subseteq d /\ d \subseteq H
    BY NodeFacts
  <2>2. IsFiniteSet(d)
    BY <2>1, FS_Subset
  <2> QED BY <2>1, <2>2, FS_CardinalityType
<1>4. sizes \subseteq Nat /\ sizes # {}
  BY <1>2, <1>3
<1>5. PICK least \in sizes : \A s \in sizes : least <= s
  <2> HIDE DEF sizes
  <2> QED BY <1>4, MinFacts
<1>6. PICK c \in C : least = Cardinality(c)
  BY <1>5
<1>7. ASSUME NEW d \in C PROVE c \subseteq d
  <2>1. Cardinality(c) <= Cardinality(d) /\ Cardinality(c) \in Nat /\ Cardinality(d) \in Nat
    BY <1>3, <1>5, <1>6
  <2>2. c \subseteq d \/ d \subseteq c
    <3>1. c \cap d # {}
      BY <1>1, <1>3
    <3> QED BY <1>3, <3>1, ApartFacts
  <2>3. CASE d \subseteq c
    <3>1. Cardinality(d) <= Cardinality(c) /\ (Cardinality(c) = Cardinality(d) => c = d)
      <4> HIDE DEF C
      <4> QED BY <1>3, <2>3, FS_Subset
    <3> QED BY <2>1, <3>1
  <2> QED BY <2>2, <2>3
<1>8. c \in DOMAIN f /\ IsCommon(f, m, n, c)
  BY <1>3, <1>7 DEF IsCommon
<1>9. PICK e : e = Common(f, m, n)
  OBVIOUS
<1>10. e \in DOMAIN f /\ IsCommon(f, m, n, e)
  BY <1>8, <1>9 DEF Common
<1>11. e \in Nodes(f, H) /\ m \cup n \subseteq e /\ m # e /\ n # e
  BY <1>1, <1>10, NodeFacts DEF IsCommon
<1>12. ASSUME ValueAt(f, m, e) = ValueAt(f, n, e) PROVE FALSE
  <2> DEFINE P == WithByte(e, f[e], ValueAt(f, m, e))
  <2>1. P \in Split(e, f[e]) /\ m \subseteq P /\ n \subseteq P
    BY <1>10, <1>11, <1>12, SlotValue
  <2> HIDE DEF P
  <2>2. P \in Nodes(f, H) /\ P \subseteq e /\ P # e
    BY <1>10, <2>1, NodeFacts, SplitFacts
  <2>3. m # P
    BY <1>1, <2>1
  <2>4. P \in DOMAIN f
    BY <2>1, <2>2, <2>3, ApartFacts DEF Below
  <2> QED BY <1>10, <2>1, <2>2, <2>4 DEF IsCommon
<1> QED BY <1>9, <1>10, <1>11, <1>12 DEF IsCommon

\* It is the one node in which they are in different slots.
LEMMA CommonIs ==
  ASSUME NEW t, NEW f, NEW H, IsTree(t, f, H), IsFiniteSet(H),
         NEW m \in Nodes(f, H), NEW n \in Nodes(f, H), m \cap n = {},
         NEW c \in DOMAIN f, m \cup n \subseteq c, ValueAt(f, m, c) # ValueAt(f, n, c)
  PROVE  Common(f, m, n) = c
<1>1. PICK e : e = Common(f, m, n)
  OBVIOUS
<1>2. e \in DOMAIN f /\ m \cup n \subseteq e /\ e \subseteq c
  BY <1>1, CommonFacts
<1>3. m # {} /\ n # {} /\ e \in Nodes(f, H)
  BY <1>2, NodeFacts
<1>4. ASSUME e # c PROVE FALSE
  <2>1. ValueAt(f, m, c) = ValueAt(f, e, c) /\ ValueAt(f, n, c) = ValueAt(f, e, c)
    BY <1>2, <1>3, <1>4, SlotValue
  <2> QED BY <2>1
<1> QED BY <1>1, <1>4

Precedes(f, m, n) == ValueAt(f, m, Common(f, m, n)) > ValueAt(f, n, Common(f, m, n))
Preceding(f, S) == [n \in S |-> {m \in S \ {n} : Precedes(f, m, n)}]

\* The visit orders nodes that have no hash in common.
LEMMA VisitOrders ==
  ASSUME NEW t, NEW f, NEW H, IsTree(t, f, H), IsFiniteSet(H), H \subseteq Hash,
         NEW S, S \subseteq Nodes(f, H), \A m, n \in S : m = n \/ m \cap n = {}
  PROVE  Orders(S, Preceding(f, S))
<1>1. IsFiniteSet(S)
  <2>1. S \subseteq SUBSET H
    BY NodeFacts
  <2> QED BY <2>1, FS_SUBSET, FS_Subset
<1>2. ASSUME NEW n \in S, NEW c \in DOMAIN f PROVE ValueAt(f, n, c) \in Nat
  <2>a. n # {} /\ n \subseteq H
    BY NodeFacts
  <2>b. f[c] \in Bytes
    BY DEF IsTree
  <2>1. n # {} /\ n \subseteq Hash /\ f[c] \in Bytes
    BY <2>a, <2>b
  <2>2. (CHOOSE h \in n : TRUE) \in Hash
    BY <2>1
  <2>3. ByteValues \subseteq Nat
    BY ShallowTreeAssumption DEF ByteValues, ByteCount
  <2> QED BY <2>1, <2>2, <2>3 DEF ValueAt, Hash
<1> DEFINE before == Preceding(f, S)
<1>3. \A n \in S : before[n] = {m \in S \ {n} : Precedes(f, m, n)}
  BY DEF Preceding
<1> HIDE DEF before
<1>4. ASSUME NEW m \in S, NEW n \in S, m # n
      PROVE  /\ Common(f, m, n) \in DOMAIN f /\ m \cup n \subseteq Common(f, m, n)
             /\ m # Common(f, m, n) /\ n # Common(f, m, n)
             /\ ValueAt(f, m, Common(f, m, n)) # ValueAt(f, n, Common(f, m, n))
             /\ m \cap n = {} /\ m \in Nodes(f, H) /\ n \in Nodes(f, H)
  <2>1. m \cap n = {} /\ m \in Nodes(f, H) /\ n \in Nodes(f, H)
    BY <1>4
  <2> QED BY <2>1, CommonFacts
<1>5. \A m, n : Common(f, m, n) = Common(f, n, m)
  <2>1. \A m, n : m \cup n = n \cup m
    OBVIOUS
  <2>2. \A m, n, c : IsCommon(f, m, n, c) <=> IsCommon(f, n, m, c)
    BY <2>1 DEF IsCommon
  <2> QED BY <2>2 DEF Common
<1>6. ASSUME NEW m \in S, NEW n \in S, m # n PROVE m \in before[n] \/ n \in before[m]
  <2>1. PICK c : c = Common(f, m, n)
    OBVIOUS
  <2>2. /\ c = Common(f, n, m) /\ ValueAt(f, m, c) # ValueAt(f, n, c)
        /\ ValueAt(f, m, c) \in Nat /\ ValueAt(f, n, c) \in Nat
    BY <1>2, <1>4, <1>5, <1>6, <2>1
  <2>3. ValueAt(f, m, c) > ValueAt(f, n, c) \/ ValueAt(f, n, c) > ValueAt(f, m, c)
    BY <2>2
  <2>4. Precedes(f, m, n) \/ Precedes(f, n, m)
    BY <2>1, <2>2, <2>3 DEF Precedes
  <2> QED BY <1>3, <1>6, <2>4
<1>7. ASSUME NEW k \in S, NEW m \in S, NEW n \in S, k \in before[m], m \in before[n]
      PROVE  k \in before[n]
  <2>1. PICK c1 : c1 = Common(f, k, m)
    OBVIOUS
  <2>2. PICK c2 : c2 = Common(f, m, n)
    OBVIOUS
  <2>3. /\ k # m /\ m # n /\ c1 \in DOMAIN f /\ c2 \in DOMAIN f
        /\ k \cup m \subseteq c1 /\ m \cup n \subseteq c2
        /\ ValueAt(f, k, c1) > ValueAt(f, m, c1) /\ ValueAt(f, m, c2) > ValueAt(f, n, c2)
    BY <1>3, <1>4, <1>7, <2>1, <2>2 DEF Precedes
  <2>4. /\ \A x \in {k, m, n} : \A c \in {c1, c2} : ValueAt(f, x, c) \in Nat
        /\ c1 \in Nodes(f, H) /\ c2 \in Nodes(f, H)
        /\ k # {} /\ m # {} /\ n # {} /\ k \in Nodes(f, H) /\ m \in Nodes(f, H) /\ n \in Nodes(f, H)
    BY <1>2, <2>3, NodeFacts
  <2>5. ASSUME NEW c \in DOMAIN f, k \cup n \subseteq c, ValueAt(f, k, c) \in Nat, ValueAt(f, n, c) \in Nat,
               ValueAt(f, k, c) > ValueAt(f, n, c)
        PROVE  k \in before[n]
    <3>1. ValueAt(f, k, c) # ValueAt(f, n, c)
      BY <2>5
    <3>2. k # n
      BY <3>1
    <3>3. k \cap n = {}
      BY <3>2
    <3>4. Common(f, k, n) = c
      BY <2>4, <2>5, <3>1, <3>3, CommonIs
    <3> QED BY <1>3, <2>5, <3>2, <3>4 DEF Precedes
  <2>6. CASE c1 = c2
    <3>1. ValueAt(f, k, c1) > ValueAt(f, n, c1)
      BY <2>3, <2>4, <2>6
    <3> QED BY <2>3, <2>4, <2>5, <2>6, <3>1
  <2>7. CASE c1 # c2 /\ c1 \subseteq c2
    <3>1. ValueAt(f, k, c2) = ValueAt(f, c1, c2) /\ ValueAt(f, m, c2) = ValueAt(f, c1, c2)
      BY <2>3, <2>4, <2>7, SlotValue
    <3>2. ValueAt(f, k, c2) > ValueAt(f, n, c2) /\ k \cup n \subseteq c2
      BY <2>3, <2>7, <3>1
    <3> QED BY <2>3, <2>4, <2>5, <3>2
  <2>8. CASE c1 # c2 /\ c2 \subseteq c1
    <3>1. ValueAt(f, n, c1) = ValueAt(f, c2, c1) /\ ValueAt(f, m, c1) = ValueAt(f, c2, c1)
      BY <2>3, <2>4, <2>8, SlotValue
    <3>2. ValueAt(f, k, c1) > ValueAt(f, n, c1) /\ k \cup n \subseteq c1
      BY <2>3, <2>8, <3>1
    <3> QED BY <2>3, <2>4, <2>5, <3>2
  <2>9. c1 \cap c2 # {}
    BY <2>3, <2>4
  <2> QED BY <2>4, <2>6, <2>7, <2>8, <2>9, ApartFacts
<1>8. \A n \in S : before[n] \subseteq S /\ n \notin before[n]
  BY <1>3
<1>9. \A m, n \in S : m \in before[n] => before[m] \subseteq before[n]
  BY <1>7, <1>8
<1>10. Orders(S, before)
  BY <1>1, <1>6, <1>8, <1>9 DEF Orders
<1> QED BY <1>10 DEF before

(***************************************************************************)
(* The nodes of a level                                                    *)
(***************************************************************************)
\* Two nodes of one level have no hash in common.
LEMMA SameLevelApart ==
  ASSUME NEW t \in Nat, NEW f, NEW H, IsTree(t, f, H), NEW m \in Nodes(f, H), NEW n \in Nodes(f, H),
         Level(t, f, m) = Level(t, f, n)
  PROVE  m = n \/ m \cap n = {}
<1>1. ASSUME NEW x \in Nodes(f, H), NEW y \in Nodes(f, H), Below(f, x, y)
      PROVE  Level(t, f, y) < Level(t, f, x)
  <2>1. y \in Above(f, x) /\ x \subseteq y /\ x # y
    BY <1>1, ApartFacts
  <2>2. Above(f, y) \subseteq Above(f, x) /\ y \notin Above(f, y)
    BY <2>1 DEF Above
  <2>3. /\ IsFiniteSet(Above(f, x)) /\ Cardinality(Above(f, x)) \in Nat
        /\ IsFiniteSet(Above(f, y)) /\ Cardinality(Above(f, y)) \in Nat
    <3>1. 0 .. HashBytes \subseteq Nat
      BY ShallowTreeAssumption
    <3> QED BY <3>1, ExaminedFacts
  <2>4. Cardinality(Above(f, y)) <= Cardinality(Above(f, x)) /\ Cardinality(Above(f, y)) # Cardinality(Above(f, x))
    BY <2>1, <2>2, <2>3, FS_Subset
  <2>5. Cardinality(Above(f, y)) < Cardinality(Above(f, x))
    BY <2>3, <2>4
  <2> QED BY <2>3, <2>5 DEF Level
<1>2. \A x \in Nodes(f, H) : Level(t, f, x) \in Nat
  <2>1. 0 .. HashBytes \subseteq Nat
    BY ShallowTreeAssumption
  <2>2. \A x \in Nodes(f, H) : Cardinality(Above(f, x)) \in Nat
    BY <2>1, ExaminedFacts
  <2> QED BY <2>2 DEF Level
<1>3. IsTree(t, f, H) => m = n \/ m \cap n = {} \/ Below(f, n, m) \/ Below(f, m, n)
  BY DEF IsTree
<1>4. Level(t, f, m) \in Nat /\ Level(t, f, n) \in Nat
  BY <1>2
<1>5. ~ Below(f, n, m) /\ ~ Below(f, m, n)
  BY <1>1, <1>4
<1> QED BY <1>3, <1>5

\* The visit of a level takes each of its nodes once.
IsListOf(list, S) ==
  /\ IsFiniteSet(S) /\ Cardinality(S) \in Nat
  /\ list \in [1 .. Cardinality(S) -> S] /\ Len(list) = Cardinality(S)
  /\ DOMAIN list = 1 .. Cardinality(S) /\ list \in Seq(S)
  /\ \A x \in S : \E i \in DOMAIN list : list[i] = x
  /\ \A i, j \in DOMAIN list : list[i] = list[j] => i = j

\* The nodes of a level are listed once each.
LEMMA LevelNodesFacts ==
  ASSUME NEW t \in Nat, NEW f, NEW H, IsTree(t, f, H), IsFiniteSet(H), H \subseteq Hash, NEW l
  PROVE  IsListOf(LevelNodes(t, f, H, l), AtLevel(t, f, H, l))
<1> DEFINE S == AtLevel(t, f, H, l)
           list == LevelNodes(t, f, H, l)
<1>1. S \subseteq Nodes(f, H) /\ \A m, n \in S : m = n \/ m \cap n = {}
  BY SameLevelApart DEF AtLevel
<1>2. list = InOrder(S, Preceding(f, S))
  BY DEF LevelNodes, AtLevel, Visited, Preceding, Precedes, ValueAt, Common, IsCommon
<1> HIDE DEF S, list
<1>3. Orders(S, Preceding(f, S)) /\ IsFiniteSet(S)
  BY <1>1, VisitOrders DEF Orders
<1>4. /\ Cardinality(S) \in Nat /\ list \in [1 .. Cardinality(S) -> S]
      /\ \A x \in S : \E i \in 1 .. Cardinality(S) : list[i] = x
      /\ \A i, j \in 1 .. Cardinality(S) : list[i] = list[j] => i = j
  BY <1>2, <1>3, OrderedFacts
<1>5. Len(list) = Cardinality(S) /\ DOMAIN list = 1 .. Cardinality(S) /\ list \in Seq(S)
  BY <1>4
<1>6. IsListOf(list, S)
  BY <1>3, <1>4, <1>5 DEF IsListOf
<1> QED BY <1>6 DEF S, list

\* The number of slots of a node.
SlotCounts == (0 .. ByteCount) \ {1}

\* A node has no slots, or at least two and at most one for each byte value.
LEMMA SlotCountFacts ==
  ASSUME NEW t, NEW f, NEW H, IsTree(t, f, H), IsFiniteSet(H), H \subseteq Hash, NEW n \in Nodes(f, H)
  PROVE  /\ ActiveSlotsCount(f, n) \in SlotCounts /\ (ActiveSlotsCount(f, n) = 0 <=> n \notin DOMAIN f)
         /\ n \in DOMAIN f =>
              LET values == {h[f[n]] : h \in n}
              IN  values \subseteq ByteValues /\ IsFiniteSet(values) /\ values \subseteq Nat
                  /\ Cardinality(values) = ActiveSlotsCount(f, n)
<1>0. ByteCount \in Nat /\ ByteValues = 0 .. ByteCount - 1 /\ ByteValues \subseteq Nat /\ 0 \in SlotCounts
  BY ShallowTreeAssumption DEF ByteValues, ByteCount, SlotCounts
<1>1. CASE n \notin DOMAIN f
  BY <1>0, <1>1 DEF ActiveSlotsCount
<1>2. CASE n \in DOMAIN f
  <2> DEFINE b == f[n]
             values == {h[b] : h \in n}
             parts == Split(n, b)
  <2>1. n \subseteq H /\ n # {} /\ b \in Bytes /\ IsFiniteSet(n)
    <3>1. n \subseteq H /\ n # {}
      BY NodeFacts
    <3> QED BY <1>2, <3>1, FS_Subset DEF IsTree
  <2>2. values \subseteq ByteValues
    BY <2>1 DEF Hash
  <2>3. ActiveSlotsCount(f, n) = Cardinality(parts)
    BY <1>2 DEF ActiveSlotsCount
  <2>4. IsFiniteSet(parts) /\ Cardinality(parts) \in Nat /\ Cardinality(parts) > 1
    <3>1. \E g, h \in n : g[b] # h[b]
      BY <1>2 DEF IsTree
    <3> HIDE DEF b
    <3> QED BY <2>1, <3>1, SplitSize
  <2>5. parts = {WithByte(n, b, v) : v \in values}
    BY DEF Split
  <2>6. \A v \in values : WithByte(n, b, v) \in parts
    BY <2>5
  <2>7. \A v, w \in values : WithByte(n, b, v) = WithByte(n, b, w) => v = w
    BY DEF WithByte
  <2>8. \A P \in parts : \E v \in values : WithByte(n, b, v) = P
    BY <2>5
  <2> DEFINE part == [v \in values |-> WithByte(n, b, v)]
  <2>9. part \in [values -> parts] /\ \A v \in values : part[v] = WithByte(n, b, v)
    BY <2>6
  <2>10. IsFiniteSet(values) /\ Cardinality(values) <= ByteCount /\ Cardinality(values) \in Nat
    <3>1. IsFiniteSet(0 .. ByteCount - 1) /\ Cardinality(0 .. ByteCount - 1) = ByteCount
      BY <1>0, FS_Interval
    <3> HIDE DEF values
    <3> QED BY <1>0, <2>2, <3>1, FS_Subset, FS_CardinalityType
  <2>11. Cardinality(values) = Cardinality(parts)
    <3> HIDE DEF part, values, parts
    <3>1. \A v, w \in values : part[v] = part[w] => v = w
      BY <2>7, <2>9
    <3>2. \A P \in parts : \E v \in values : part[v] = P
      BY <2>8, <2>9
    <3> QED BY <2>9, <2>10, <3>1, <3>2, SameSize
  <2>12. Cardinality(parts) \in SlotCounts /\ Cardinality(parts) # 0
    <3> HIDE DEF parts, values
    <3> QED BY <1>0, <2>4, <2>10, <2>11 DEF SlotCounts
  <2>13. ActiveSlotsCount(f, n) \in SlotCounts /\ ActiveSlotsCount(f, n) # 0 /\ values \subseteq Nat
    BY <1>0, <2>2, <2>3, <2>12
  <2> QED BY <1>2, <2>2, <2>3, <2>10, <2>11, <2>13
<1> QED BY <1>1, <1>2

(***************************************************************************)
(* The groups of a level                                                   *)
(***************************************************************************)
SlotsOf(f, nodes) == [k \in DOMAIN nodes |-> ActiveSlotsCount(f, nodes[k])]
Holding(slots, from, to) == {k \in DOMAIN slots : slots[k] \in from .. to}

FormatNames == {"leaf", "tiny", "medium", "full"}
GroupSet(c) ==
  [start : SlotCounts, end : SlotCounts, count : 1 .. c.nodeOnes, format : FormatNames, capacity : Nat]

\* A group counts the nodes with its numbers of slots, and has one format for all.
GroupFits(c, slots, g) ==
  /\ g \in GroupSet(c) /\ g.start <= g.end
  /\ g.count = Cardinality(Holding(slots, g.start, g.end))
  /\ g.format = Format(c, g.start) /\ g.format = Format(c, g.end)
  /\ g.format = "tiny" => g.capacity = g.end
GroupsFit(c, slots, groups) ==
  /\ groups \in Seq(GroupSet(c))
  /\ \A i \in 1 .. Len(groups) : GroupFits(c, slots, groups[i])
  /\ \A k \in DOMAIN slots : \E i \in 1 .. Len(groups) : slots[k] \in groups[i].start .. groups[i].end
InRow(groups) == \A i, j \in 1 .. Len(groups) : i < j => groups[i].end < groups[j].start
AreApart(groups) ==
  \A i, j \in 1 .. Len(groups) :
    i = j \/ groups[i].end < groups[j].start \/ groups[j].end < groups[i].start

\* The numbers of a configuration.
LEMMA ConfigFacts ==
  ASSUME NEW c, IsConfig(c)
  PROVE  /\ c.tinyMax \in Nat /\ c.fullMin \in Nat /\ c.nodeOnes \in Nat /\ c.specs \in Nat
         /\ Words \in Nat /\ c.nodeOnes < Words - 1 /\ NoMatch = Words - 1 /\ ByteCount \in Nat
  BY ForestAssumption, ShallowTreeAssumption DEF IsConfig, NoMatch, ByteCount

\* Numbers of slots of one format are neighbours.
LEMMA FormatFacts ==
  ASSUME NEW c, IsConfig(c), NEW s \in Nat
  PROVE  /\ Format(c, s) \in FormatNames
         /\ \A a, b \in Nat : a <= s /\ s <= b /\ Format(c, a) = Format(c, b)
                              => Format(c, s) = Format(c, a)
<1>1. c.tinyMax \in Nat /\ c.fullMin \in Nat
  BY ConfigFacts
<1> QED BY <1>1 DEF Format, FormatNames

\* How many nodes have such numbers of slots.
LEMMA HoldingFacts ==
  ASSUME NEW n \in Nat, NEW slots \in [1 .. n -> SlotCounts]
  PROVE  /\ \A from, to : /\ IsFiniteSet(Holding(slots, from, to))
                          /\ Cardinality(Holding(slots, from, to)) \in 0 .. n
                          /\ Holding(slots, from, to) \subseteq 1 .. n
         /\ \A from, to, k : k \in Holding(slots, from, to)
                             => Cardinality(Holding(slots, from, to)) > 0
<1>1. ASSUME NEW from, NEW to
      PROVE  /\ IsFiniteSet(Holding(slots, from, to))
             /\ Cardinality(Holding(slots, from, to)) \in 0 .. n
             /\ Holding(slots, from, to) \subseteq 1 .. n
             /\ \A k : k \in Holding(slots, from, to) => Cardinality(Holding(slots, from, to)) > 0
  <2> DEFINE X == Holding(slots, from, to)
  <2>1. X \subseteq 1 .. n
    BY DEF Holding
  <2>2. IsFiniteSet(1 .. n) /\ Cardinality(1 .. n) = n
    BY FS_Interval
  <2> DEFINE Y == 1 .. n
  <2> HIDE DEF X, Y
  <2>a. X \subseteq Y /\ IsFiniteSet(Y) /\ Cardinality(Y) = n
    BY <2>1, <2>2 DEF Y
  <2>3. IsFiniteSet(X) /\ Cardinality(X) <= n /\ Cardinality(X) \in Nat
    BY <2>a, FS_Subset, FS_CardinalityType
  <2>4. \A k : k \in X => Cardinality(X) > 0
    BY <2>3, FS_EmptySet
  <2>5. Cardinality(X) \in 0 .. n
    BY <2>3
  <2> QED BY <2>1, <2>3, <2>4, <2>5 DEF X
<1> QED BY <1>1

\* The histogram's groups, if there are no more nodes than a group can count.
LEMMA ProposedFits ==
  ASSUME NEW c, IsConfig(c), NEW f, NEW nodes, NEW n \in Nat,
         SlotsOf(f, nodes) \in [1 .. n -> SlotCounts], n <= c.nodeOnes
  PROVE  LET groups == Proposed(c, Histogram(c, f, nodes))
         IN  GroupsFit(c, SlotsOf(f, nodes), groups) /\ InRow(groups)
<1> DEFINE slots == SlotsOf(f, nodes)
           histogram == Histogram(c, f, nodes)
           D == {s \in DOMAIN histogram : histogram[s] > 0}
           present == Ascending(D)
           groups == Proposed(c, histogram)
<1>0. /\ c.nodeOnes \in Nat /\ ByteCount \in Nat /\ slots \in [1 .. n -> SlotCounts]
      /\ SlotCounts \subseteq 0 .. ByteCount /\ 0 .. ByteCount \subseteq Nat /\ SlotCounts \subseteq Nat
  BY ConfigFacts DEF SlotCounts
<1>1. \A s \in 0 .. ByteCount : {i \in DOMAIN nodes : ActiveSlotsCount(f, nodes[i]) = s} = Holding(slots, s, s)
  BY <1>0 DEF SlotsOf, Holding
<1>2. DOMAIN histogram = 0 .. ByteCount
  BY DEF Histogram
<1>3. ASSUME NEW s \in 0 .. ByteCount
      PROVE  histogram[s] = Cardinality(Holding(slots, s, s))
  <2>1. Cardinality(Holding(slots, s, s)) \in 0 .. n
    BY <1>0, HoldingFacts
  <2>2. histogram[s] = Cardinality(Holding(slots, s, s)) % (c.nodeOnes + 1)
    BY <1>1 DEF Histogram
  <2> QED BY <1>0, <2>1, <2>2
<1>4. ASSUME NEW s \in D
      PROVE  s \in SlotCounts /\ histogram[s] \in 1 .. c.nodeOnes /\ s \in 0 .. ByteCount
             /\ histogram[s] = Cardinality(Holding(slots, s, s))
  <2>1. s \in 0 .. ByteCount /\ histogram[s] > 0 /\ histogram[s] = Cardinality(Holding(slots, s, s))
    BY <1>2, <1>3
  <2>2. Cardinality(Holding(slots, s, s)) \in 0 .. n /\ Holding(slots, s, s) # {}
    <3>1. IsFiniteSet(Holding(slots, s, s)) /\ Cardinality(Holding(slots, s, s)) \in 0 .. n
      BY <1>0, HoldingFacts
    <3>2. Cardinality(Holding(slots, s, s)) > 0
      <4> HIDE DEF histogram, slots
      <4> QED BY <2>1
    <3>3. Cardinality({}) = 0
      BY FS_EmptySet
    <3>4. Holding(slots, s, s) # {}
      <4> DEFINE X == Holding(slots, s, s)
      <4> HIDE DEF X
      <4>1. Cardinality(X) # 0
        BY <3>2 DEF X
      <4>2. X # {}
        BY <3>3, <4>1
      <4> QED BY <4>2 DEF X
    <3> QED BY <3>1, <3>4
  <2>3. s \in SlotCounts
    BY <1>0, <2>1, <2>2 DEF Holding
  <2> QED BY <1>0, <2>1, <2>2, <2>3
<1>5. /\ D \subseteq Nat /\ IsFiniteSet(D)
  <2>1. D \subseteq 0 .. ByteCount
    BY <1>2
  <2>2. IsFiniteSet(0 .. ByteCount)
    BY <1>0, FS_Interval
  <2> QED BY <1>0, <2>1, <2>2, FS_Subset
<1>6. /\ present \in Seq(D) /\ DOMAIN present = 1 .. Len(present) /\ Len(present) \in Nat
      /\ \A x \in D : \E i \in 1 .. Len(present) : present[i] = x
      /\ \A i, j \in 1 .. Len(present) : i < j <=> present[i] < present[j]
      /\ \A i \in 1 .. Len(present) : present[i] \in D
  <2> HIDE DEF D
  <2> QED BY <1>5, AscendingFacts
<1> DEFINE group(s) == [start |-> s, end |-> s, count |-> histogram[s], format |-> Format(c, s),
                        capacity |-> IF Format(c, s) = "full" THEN ByteCount ELSE s]
<1>7. groups = [i \in 1 .. Len(present) |-> group(present[i])]
  BY <1>6 DEF Proposed
<1>8. ASSUME NEW s \in D PROVE GroupFits(c, slots, group(s))
  <2>1. s \in SlotCounts /\ histogram[s] \in 1 .. c.nodeOnes /\ s \in 0 .. ByteCount
        /\ histogram[s] = Cardinality(Holding(slots, s, s)) /\ s \in Nat
    BY <1>0, <1>4
  <2>2. Format(c, s) \in FormatNames
    BY <2>1, FormatFacts
  <2> HIDE DEF histogram, D, slots
  <2> QED BY <1>0, <2>1, <2>2 DEF GroupFits, GroupSet
<1>a. \A s : group(s).start = s /\ group(s).end = s
  OBVIOUS
<1> HIDE DEF histogram, D, present, slots
<1>9. /\ Len(groups) = Len(present) /\ \A i \in 1 .. Len(groups) : groups[i] = group(present[i])
      /\ groups \in Seq(GroupSet(c))
  <2>1. \A i \in 1 .. Len(present) : group(present[i]) \in GroupSet(c)
    BY <1>6, <1>8 DEF GroupFits
  <2> HIDE DEF group, groups
  <2> QED BY <1>6, <1>7, <2>1
<1>10. \A i \in 1 .. Len(groups) : GroupFits(c, slots, groups[i])
  <2> HIDE DEF group, groups
  <2> QED BY <1>6, <1>8, <1>9
<1>11. ASSUME NEW k \in DOMAIN slots
       PROVE  \E i \in 1 .. Len(groups) : slots[k] \in groups[i].start .. groups[i].end
  <2>1. slots[k] \in 0 .. ByteCount /\ slots[k] \in Nat /\ k \in Holding(slots, slots[k], slots[k])
    <3>1. slots[k] \in SlotCounts
      BY <1>0
    <3>2. slots[k] \in 0 .. ByteCount /\ slots[k] \in Nat
      BY <1>0, <3>1
    <3>3. slots[k] \in slots[k] .. slots[k]
      BY <3>2
    <3> QED BY <3>2, <3>3 DEF Holding
  <2>2. slots[k] \in D
    <3>1. Cardinality(Holding(slots, slots[k], slots[k])) > 0
      BY <1>0, <2>1, HoldingFacts
    <3> QED BY <1>2, <1>3, <2>1, <3>1 DEF D
  <2>3. PICK i \in 1 .. Len(present) : present[i] = slots[k]
    BY <1>6, <2>2
  <2>4. groups[i].start = slots[k] /\ groups[i].end = slots[k] /\ i \in 1 .. Len(groups)
    <3> HIDE DEF groups, group
    <3> QED BY <1>9, <1>a, <2>3
  <2> QED BY <2>1, <2>4
<1>12. InRow(groups)
  <2>1. \A i \in 1 .. Len(groups) : groups[i].start = present[i] /\ groups[i].end = present[i]
    <3> HIDE DEF groups, group
    <3> QED BY <1>9, <1>a
  <2> HIDE DEF groups, group
  <2> QED BY <1>6, <1>9, <2>1 DEF InRow
<1>13. GroupsFit(c, slots, groups)
  <2> HIDE DEF groups, group
  <2> QED BY <1>9, <1>10, <1>11 DEF GroupsFit
<1> QED BY <1>12, <1>13 DEF slots, histogram

\* A node's size is a number, and a group's.
LEMMA ByteSizeNatural ==
  ASSUME NEW format \in FormatNames, NEW capacity \in Nat
  PROVE  ByteSize(format, capacity) \in Nat
<1>1. ByteCount \in Nat /\ ReassuranceBytes \in Nat
  BY ShallowTreeAssumption DEF ByteCount
<1> QED BY <1>1 DEF FormatNames, ByteSize

\* The bytes of a group are a natural number.
LEMMA GroupBytesNatural ==
  ASSUME NEW c, IsConfig(c), NEW g \in GroupSet(c)
  PROVE  GroupBytes(g) \in Nat
<1>1. ByteSize(g.format, g.capacity) \in Nat /\ g.count \in Nat
  <2>1. g.format \in FormatNames /\ g.capacity \in Nat /\ g.count \in 1 .. c.nodeOnes /\ c.nodeOnes \in Nat
    BY ConfigFacts DEF GroupSet
  <2> QED BY <2>1, ByteSizeNatural
<1>2. \A a, b \in Nat : a * b \in Nat
  OBVIOUS
<1> QED BY <1>1, <1>2 DEF GroupBytes

\* If there are more groups than formats, two neighbours have the same one.
LEMMA SomeMergeable ==
  ASSUME NEW c, IsConfig(c), NEW slots, NEW groups, GroupsFit(c, slots, groups), InRow(groups),
         Len(groups) > c.specs
  PROVE  \E i \in 1 .. Len(groups) - 1 : groups[i].format = groups[i + 1].format
<1> DEFINE formats == {Format(c, s) : s \in SlotCounts}
           n == Len(groups)
           format == [i \in 1 .. n |-> groups[i].format]
<1>0. /\ SlotCounts \subseteq Nat /\ n \in Nat /\ c.specs \in Nat /\ ByteCount \in Nat
      /\ SlotCounts = (0 .. ByteCount) \ {1}
  BY ConfigFacts DEF SlotCounts, GroupsFit
<1>1. ASSUME NEW i \in 1 .. n
      PROVE  /\ groups[i].start \in Nat /\ groups[i].end \in Nat /\ groups[i].start <= groups[i].end
             /\ groups[i].format = Format(c, groups[i].start) /\ groups[i].format \in formats
  BY <1>0 DEF GroupsFit, GroupFits, GroupSet
<1>2. IsFiniteSet(formats) /\ Cardinality(formats) \in Nat /\ Cardinality(formats) <= c.specs
  <2>1. formats \subseteq FormatNames
    BY <1>0, FormatFacts
  <2>2. IsFiniteSet(FormatNames)
    <3>1. IsFiniteSet({"leaf"}) /\ IsFiniteSet({"tiny"}) /\ IsFiniteSet({"medium"}) /\ IsFiniteSet({"full"})
      BY FS_Singleton
    <3>2. FormatNames = ({"leaf"} \cup {"tiny"}) \cup ({"medium"} \cup {"full"})
      BY DEF FormatNames
    <3>3. IsFiniteSet({"leaf"} \cup {"tiny"}) /\ IsFiniteSet({"medium"} \cup {"full"})
      BY <3>1, FS_Union
    <3> QED BY <3>2, <3>3, FS_Union
  <2>3. Cardinality(formats) <= c.specs
    BY <1>0 DEF IsConfig
  <2> HIDE DEF formats
  <2> QED BY <2>1, <2>2, <2>3, FS_Subset, FS_CardinalityType
<1>3. ASSUME NEW i \in 1 .. n, NEW j \in 1 .. n, i < j, groups[i].format = groups[j].format
      PROVE  i \in 1 .. n - 1 /\ groups[i].format = groups[i + 1].format
  <2>1. i + 1 \in 1 .. n /\ i \in 1 .. n - 1
    BY <1>0, <1>3
  <2>2. groups[i].start <= groups[i + 1].start /\ groups[i + 1].start <= groups[j].start
    <3>1. groups[i].end < groups[i + 1].start
      BY <2>1 DEF InRow
    <3>2. i + 1 = j \/ groups[i + 1].end < groups[j].start
      BY <1>3, <2>1 DEF InRow
    <3>3. /\ groups[i].start \in Nat /\ groups[i].end \in Nat /\ groups[i].start <= groups[i].end
          /\ groups[i + 1].start \in Nat /\ groups[i + 1].end \in Nat
          /\ groups[i + 1].start <= groups[i + 1].end /\ groups[j].start \in Nat
      BY <1>1, <2>1
    <3>4. groups[i].start <= groups[i + 1].start
      BY <3>1, <3>3
    <3>5. groups[i + 1].start <= groups[j].start
      BY <3>2, <3>3
    <3> QED BY <3>4, <3>5
  <2>3. Format(c, groups[i].start) = Format(c, groups[j].start)
    BY <1>1, <1>3
  <2>4. Format(c, groups[i + 1].start) = Format(c, groups[i].start)
    BY <1>1, <2>1, <2>2, <2>3, FormatFacts
  <2> QED BY <1>1, <2>1, <2>4
<1>4. ASSUME \A i, j \in 1 .. n : format[i] = format[j] => i = j PROVE FALSE
  <2>1. format \in [1 .. n -> formats]
    BY <1>1
  <2> DEFINE places == 1 .. n
  <2>2. IsFiniteSet(places) /\ Cardinality(places) = n
    <3>1. n \in Nat
      BY <1>0
    <3> HIDE DEF n
    <3>2. IsFiniteSet(1 .. n) /\ Cardinality(1 .. n) = n
      BY <3>1, FS_Interval
    <3> QED BY <3>2
  <2>3. Cardinality(places) <= Cardinality(formats)
    <3> HIDE DEF formats, format
    <3>1. format \in [places -> formats] /\ \A i, j \in places : format[i] = format[j] => i = j
      BY <1>4, <2>1
    <3> HIDE DEF places
    <3> QED BY <1>2, <3>1, Embedded
  <2> HIDE DEF places, formats
  <2> QED BY <1>0, <1>2, <2>2, <2>3
<1>5. PICK i \in 1 .. n, j \in 1 .. n : format[i] = format[j] /\ i # j
  BY <1>4
<1>6. groups[i].format = groups[j].format /\ (i < j \/ j < i)
  BY <1>0, <1>5
<1> QED BY <1>3, <1>5, <1>6

\* The cheapest merge is one of neighbours with the same format.
LEMMA CheapestFacts ==
  ASSUME NEW c, IsConfig(c), NEW groups \in Seq(GroupSet(c)),
         \E i \in 1 .. Len(groups) - 1 : groups[i].format = groups[i + 1].format
  PROVE  /\ Cheapest(c, groups) \in 1 .. Len(groups) - 1
         /\ groups[Cheapest(c, groups)].format = groups[Cheapest(c, groups) + 1].format
<1> DEFINE M == {i \in 1 .. Len(groups) - 1 : groups[i].format = groups[i + 1].format}
           costs == {MergeCost(c, groups, i) : i \in M}
           best(i) == \A j \in M : \/ MergeCost(c, groups, i) < MergeCost(c, groups, j)
                                   \/ MergeCost(c, groups, i) = MergeCost(c, groups, j) /\ i <= j
<1>0. M # {} /\ M \subseteq Nat
  <2>1. 1 .. Len(groups) - 1 \subseteq Nat
    OBVIOUS
  <2> HIDE DEF best, costs
  <2> QED BY <2>1
<1>1. ASSUME NEW i \in M PROVE MergeCost(c, groups, i) \in Nat
  <2>1. i \in 1 .. Len(groups) /\ i + 1 \in 1 .. Len(groups)
    OBVIOUS
  <2>2. groups[i] \in GroupSet(c) /\ groups[i + 1] \in GroupSet(c)
    BY <2>1
  <2>3. c.nodeOnes \in Nat /\ Words \in Nat /\ Words > 0
    BY ConfigFacts
  <2>4. GroupBytes(groups[i]) \in Nat /\ GroupBytes(groups[i + 1]) \in Nat
    BY <2>2, GroupBytesNatural
  <2>5. GroupBytes(Merged(c, groups[i], groups[i + 1])) \in Nat
    <3> DEFINE g == Merged(c, groups[i], groups[i + 1])
    <3>1. /\ g.format \in FormatNames /\ g.capacity \in Nat /\ g.count \in Nat
      <4>1. groups[i].count \in Nat /\ groups[i + 1].count \in Nat
        <5>1. 1 .. c.nodeOnes \subseteq Nat
          BY <2>3
        <5> HIDE DEF g
        <5> QED BY <2>2, <5>1 DEF GroupSet
      <4>2. (groups[i].count + groups[i + 1].count) % (c.nodeOnes + 1) \in Nat
        BY <2>3, <4>1
      <4>3. g.count = (groups[i].count + groups[i + 1].count) % (c.nodeOnes + 1)
            /\ g.format = groups[i].format /\ g.capacity = groups[i + 1].capacity
        BY <2>2 DEF GroupSet, Merged
      <4> HIDE DEF g
      <4> QED BY <2>2, <4>2, <4>3 DEF GroupSet
    <3> HIDE DEF g
    <3>3. ByteSize(g.format, g.capacity) \in Nat
      BY <3>1, ByteSizeNatural
    <3>4. \A a, b \in Nat : a * b \in Nat
      OBVIOUS
    <3>5. GroupBytes(g) \in Nat
      BY <3>1, <3>3, <3>4 DEF GroupBytes
    <3> QED BY <3>5 DEF g
  <2>6. \A a, b, d \in Nat : (a - b - d) % Words \in Nat
    BY <2>3
  <2> QED BY <2>4, <2>5, <2>6 DEF MergeCost
<1>2. costs \subseteq Nat /\ costs # {}
  BY <1>0, <1>1
<1> HIDE DEF M
<1>3. PICK least \in costs : \A x \in costs : least <= x
  <2> HIDE DEF costs
  <2> QED BY <1>2, MinFacts
<1> DEFINE L == {i \in M : MergeCost(c, groups, i) = least}
<1>4. L \subseteq Nat /\ L # {}
  BY <1>0, <1>3
<1>5. PICK i \in L : \A j \in L : i <= j
  <2> HIDE DEF L
  <2> QED BY <1>4, MinFacts
<1>6. i \in M /\ MergeCost(c, groups, i) = least
  BY <1>5
<1>7. ASSUME NEW j \in M
      PROVE  \/ MergeCost(c, groups, i) < MergeCost(c, groups, j)
             \/ MergeCost(c, groups, i) = MergeCost(c, groups, j) /\ i <= j
  <2>1. least <= MergeCost(c, groups, j) /\ MergeCost(c, groups, j) \in Nat /\ least \in Nat
    BY <1>1, <1>2, <1>3
  <2>2. CASE MergeCost(c, groups, j) = least
    BY <1>5, <1>6, <2>2
  <2>3. CASE MergeCost(c, groups, j) # least
    BY <1>6, <2>1, <2>3
  <2> QED BY <2>2, <2>3
<1>8. Cheapest(c, groups) = CHOOSE k \in M : best(k)
  BY DEF Cheapest, M
<1>9. i \in M /\ best(i)
  BY <1>6, <1>7
<1>10. Cheapest(c, groups) \in M
  <2> HIDE DEF best
  <2> QED BY <1>8, <1>9
<1> QED BY <1>10 DEF M

LEMMA SmallRemainder ==
  ASSUME NEW n \in Nat, NEW x \in 0 .. n
  PROVE  x % (n + 1) = x
OBVIOUS

LEMMA ItsOwnRemainder ==
  ASSUME NEW n \in Nat, NEW x \in 0 .. n - 1
  PROVE  x % n = x
OBVIOUS

\* The merge of two neighbours counts the nodes of both.
LEMMA MergedFits ==
  ASSUME NEW c, IsConfig(c), NEW n \in Nat, NEW slots \in [1 .. n -> SlotCounts], n <= c.nodeOnes,
         NEW groups, GroupsFit(c, slots, groups), InRow(groups),
         NEW i \in 1 .. Len(groups) - 1, groups[i].format = groups[i + 1].format
  PROVE  LET merged == Merged(c, groups[i], groups[i + 1])
         IN  /\ GroupFits(c, slots, merged)
             /\ merged.start = groups[i].start /\ merged.end = groups[i + 1].end
<1> DEFINE left == groups[i]
           right == groups[i + 1]
           merged == Merged(c, left, right)
           A == Holding(slots, left.start, left.end)
           B == Holding(slots, right.start, right.end)
           U == Holding(slots, left.start, right.end)
<1>0. /\ c.nodeOnes \in Nat /\ SlotCounts \subseteq Nat /\ Len(groups) \in Nat
      /\ i \in 1 .. Len(groups) /\ i + 1 \in 1 .. Len(groups)
  BY ConfigFacts DEF GroupsFit, SlotCounts
<1>1. GroupFits(c, slots, left) /\ GroupFits(c, slots, right) /\ left.end < right.start
  BY <1>0 DEF GroupsFit, InRow
<1>2. /\ left \in GroupSet(c) /\ right \in GroupSet(c)
      /\ left.start \in Nat /\ left.end \in Nat /\ right.start \in Nat /\ right.end \in Nat
      /\ left.start <= left.end /\ right.start <= right.end /\ left.end < right.start
      /\ left.count \in 1 .. c.nodeOnes /\ right.count \in 1 .. c.nodeOnes
  BY <1>0, <1>1 DEF GroupFits, GroupSet
<1> HIDE DEF left, right
<1>3. \A k \in DOMAIN slots : slots[k] \in Nat
  BY <1>0
<1>4. U = A \cup B /\ A \cap B = {}
  <2>1. A \subseteq U /\ B \subseteq U /\ A \cap B = {}
    BY <1>2, <1>3 DEF Holding
  <2>2. ASSUME NEW k \in U PROVE k \in A \cup B
    <3>1. k \in DOMAIN slots /\ slots[k] \in Nat /\ left.start <= slots[k] /\ slots[k] <= right.end
      BY <1>2, <1>3 DEF Holding
    <3>2. PICK x \in 1 .. Len(groups) : slots[k] \in groups[x].start .. groups[x].end
      BY <3>1 DEF GroupsFit
    <3>3. groups[x].start \in Nat /\ groups[x].end \in Nat /\ groups[x].start <= groups[x].end
      BY <1>0 DEF GroupsFit, GroupFits, GroupSet
    <3>4. CASE x < i
      <4>1. groups[x].end < left.start
        BY <1>0, <3>4 DEF InRow, left
      <4> QED BY <1>2, <3>1, <3>2, <3>3, <4>1
    <3>5. CASE x > i + 1
      <4>1. right.end < groups[x].start
        BY <1>0, <3>5 DEF InRow, right
      <4> QED BY <1>2, <3>1, <3>2, <3>3, <4>1
    <3>6. CASE x = i
      BY <3>1, <3>2, <3>6 DEF Holding, left
    <3>7. CASE x = i + 1
      BY <3>1, <3>2, <3>7 DEF Holding, right
    <3> QED BY <1>0, <3>4, <3>5, <3>6, <3>7
  <2> QED BY <2>1, <2>2
<1>5. /\ IsFiniteSet(A) /\ IsFiniteSet(B) /\ Cardinality(A) = left.count /\ Cardinality(B) = right.count
      /\ Cardinality(U) \in 0 .. n
  <2>1. \A from, to : IsFiniteSet(Holding(slots, from, to)) /\ Cardinality(Holding(slots, from, to)) \in 0 .. n
    BY HoldingFacts
  <2> QED BY <1>1, <2>1 DEF GroupFits
<1>6. Cardinality(U) = left.count + right.count
  <2> HIDE DEF A, B, U
  <2>1. Cardinality(A \cup B) = Cardinality(A) + Cardinality(B) - Cardinality(A \cap B)
    BY <1>5, FS_Union
  <2>2. Cardinality(A \cap B) = 0
    BY <1>4, FS_EmptySet
  <2> QED BY <1>2, <1>4, <1>5, <2>1, <2>2
<1>7. (left.count + right.count) % (c.nodeOnes + 1) = left.count + right.count
      /\ left.count + right.count \in 1 .. c.nodeOnes
  <2> HIDE DEF U, A, B
  <2>1. left.count + right.count \in 0 .. n /\ left.count \in 1 .. c.nodeOnes /\ right.count \in 1 .. c.nodeOnes
    BY <1>2, <1>5, <1>6
  <2>2. left.count + right.count \in 1 .. c.nodeOnes
    BY <1>0, <2>1
  <2>3. left.count + right.count \in 0 .. c.nodeOnes
    BY <1>0, <2>2
  <2>4. (left.count + right.count) % (c.nodeOnes + 1) = left.count + right.count
    BY <1>0, <2>3, SmallRemainder
  <2> QED BY <2>2, <2>4
<1>8. /\ merged.start = left.start /\ merged.end = right.end /\ merged.capacity = right.capacity
      /\ merged.count = left.count + right.count /\ merged.format = left.format
      /\ merged \in [start : {left.start}, end : {right.end}, count : {left.count + right.count},
                     format : {left.format}, capacity : {right.capacity}]
  BY <1>2, <1>7 DEF Merged, GroupSet
<1> HIDE DEF merged
<1>9. merged \in GroupSet(c)
  BY <1>2, <1>7, <1>8 DEF GroupSet
<1>10. left.format = right.format
  BY DEF left, right
<1>11. merged.start <= merged.end
  BY <1>2, <1>8
<1>12. GroupFits(c, slots, merged)
  <2> HIDE DEF U, A, B
  <2>1. merged.count = Cardinality(Holding(slots, merged.start, merged.end))
    BY <1>6, <1>8 DEF U
  <2> QED BY <1>1, <1>8, <1>9, <1>10, <1>11, <2>1 DEF GroupFits
<1> QED BY <1>8, <1>12 DEF merged, left, right

\* One merge.
LEMMA RefinedOnceFits ==
  ASSUME NEW c, IsConfig(c), NEW n \in Nat, NEW slots \in [1 .. n -> SlotCounts], n <= c.nodeOnes,
         NEW groups, GroupsFit(c, slots, groups), InRow(groups), Len(groups) > c.specs
  PROVE  GroupsFit(c, slots, RefinedOnce(c, groups)) /\ InRow(RefinedOnce(c, groups))
<1>1. PICK i : i = Cheapest(c, groups)
  OBVIOUS
<1>2. i \in 1 .. Len(groups) - 1 /\ groups[i].format = groups[i + 1].format
  <2>1. groups \in Seq(GroupSet(c))
    BY DEF GroupsFit
  <2> QED BY <1>1, <2>1, SomeMergeable, CheapestFacts
<1>3. PICK merged : merged = Merged(c, groups[i], groups[i + 1])
  OBVIOUS
<1>4. /\ GroupFits(c, slots, merged)
      /\ merged.start = groups[i].start /\ merged.end = groups[i + 1].end
  BY <1>2, <1>3, MergedFits
<1> DEFINE r == RefinedOnce(c, groups)
           lo(j) == IF j <= i THEN j ELSE j + 1
           hi(j) == IF j < i THEN j ELSE j + 1
<1>5. r = [j \in 1 .. Len(groups) - 1 |->
             IF j < i THEN groups[j] ELSE IF j = i THEN merged ELSE groups[j + 1]]
  BY <1>1, <1>3 DEF RefinedOnce
<1>6. Len(groups) \in Nat /\ Len(groups) - 1 \in Nat /\ groups \in Seq(GroupSet(c))
      /\ SlotCounts \subseteq Nat
  BY <1>2 DEF GroupsFit, SlotCounts
<1> HIDE DEF r
<1>7. Len(r) = Len(groups) - 1
  BY <1>5, <1>6
<1>8. ASSUME NEW j \in 1 .. Len(r)
      PROVE  /\ GroupFits(c, slots, r[j])
             /\ lo(j) \in 1 .. Len(groups) /\ r[j].start = groups[lo(j)].start
             /\ hi(j) \in 1 .. Len(groups) /\ r[j].end = groups[hi(j)].end
  <2>0. j \in 1 .. Len(groups) - 1 /\ j \in 1 .. Len(groups) /\ j + 1 \in 1 .. Len(groups)
    BY <1>6, <1>7
  <2>1. CASE j < i
    BY <1>2, <1>5, <2>0, <2>1 DEF GroupsFit
  <2>2. CASE j = i
    <3>1. r[j] = merged /\ lo(j) = i /\ hi(j) = i + 1
      BY <1>2, <1>5, <2>0, <2>2
    <3> QED BY <1>4, <2>0, <2>2, <3>1
  <2>3. CASE j > i
    <3>1. r[j] = groups[j + 1] /\ lo(j) = j + 1 /\ hi(j) = j + 1
      BY <1>2, <1>5, <2>0, <2>3
    <3> QED BY <2>0, <3>1 DEF GroupsFit
  <2> QED BY <1>2, <2>0, <2>1, <2>2, <2>3
<1>9. r \in Seq(GroupSet(c))
  <2>1. \A j \in 1 .. Len(groups) - 1 : r[j] \in GroupSet(c)
    BY <1>7, <1>8 DEF GroupFits
  <2>2. r \in [1 .. Len(groups) - 1 -> GroupSet(c)]
    BY <1>5, <2>1
  <2> QED BY <1>6, <2>2
<1>10. ASSUME NEW k \in DOMAIN slots
       PROVE  \E j \in 1 .. Len(r) : slots[k] \in r[j].start .. r[j].end
  <2>1. PICK x \in 1 .. Len(groups) : slots[k] \in groups[x].start .. groups[x].end
    BY DEF GroupsFit
  <2>2. slots[k] \in Nat
    BY <1>6
  <2>3. CASE x < i
    <3>1. x \in 1 .. Len(r) /\ r[x] = groups[x]
      BY <1>2, <1>5, <1>6, <1>7, <2>3
    <3> QED BY <2>1, <3>1
  <2>4. CASE x > i + 1
    <3>1. x - 1 \in 1 .. Len(r) /\ r[x - 1] = groups[x]
      BY <1>2, <1>5, <1>6, <1>7, <2>4
    <3> QED BY <2>1, <3>1
  <2>5. CASE x = i \/ x = i + 1
    <3>1. i \in 1 .. Len(r) /\ r[i] = merged
      BY <1>2, <1>5, <1>6, <1>7
    <3>2. /\ groups[i].start \in Nat /\ groups[i].end \in Nat /\ groups[i].start <= groups[i].end
          /\ groups[i + 1].start \in Nat /\ groups[i + 1].end \in Nat
          /\ groups[i + 1].start <= groups[i + 1].end /\ groups[i].end < groups[i + 1].start
      <4>1. i \in 1 .. Len(groups) /\ i + 1 \in 1 .. Len(groups) /\ i < i + 1
        BY <1>2, <1>6
      <4>2. GroupFits(c, slots, groups[i]) /\ GroupFits(c, slots, groups[i + 1])
            /\ groups[i].end < groups[i + 1].start
        BY <4>1 DEF GroupsFit, InRow
      <4> QED BY <1>6, <4>2 DEF GroupFits, GroupSet
    <3>3. slots[k] \in groups[i].start .. groups[i + 1].end
      BY <2>1, <2>2, <2>5, <3>2
    <3> QED BY <1>4, <3>1, <3>3
  <2> QED BY <1>2, <1>6, <2>3, <2>4, <2>5
<1>11. ASSUME NEW a \in 1 .. Len(r), NEW b \in 1 .. Len(r), a < b PROVE r[a].end < r[b].start
  <2>1. hi(a) < lo(b)
    BY <1>2, <1>6, <1>7, <1>11
  <2> HIDE DEF hi, lo
  <2>2. groups[hi(a)].end < groups[lo(b)].start
    BY <1>8, <2>1 DEF InRow
  <2> QED BY <1>8, <2>2
<1>12. GroupsFit(c, slots, r) /\ InRow(r)
  BY <1>8, <1>9, <1>10, <1>11 DEF GroupsFit, InRow
<1> QED BY <1>12 DEF r

\* As many merges as are needed.
LEMMA RefinedFits ==
  ASSUME NEW c, IsConfig(c), NEW n \in Nat, NEW slots \in [1 .. n -> SlotCounts], n <= c.nodeOnes,
         NEW groups, GroupsFit(c, slots, groups), InRow(groups)
  PROVE  GroupsFit(c, slots, Refined(c, groups)) /\ InRow(Refined(c, groups))
<1> DEFINE len == Len(groups)
           Y == {g \in Seq(GroupSet(c)) : GroupsFit(c, slots, g) /\ InRow(g)}
           X == [i \in 0 .. len |-> Y]
           once(g) == IF Len(g) <= c.specs THEN g ELSE RefinedOnce(c, g)
           next == [p \in ((1 .. len) \X Y) |-> once(p[2])]
<1>0. len \in Nat /\ c.specs \in Nat
  BY ConfigFacts DEF GroupsFit
<1>1. ASSUME NEW g \in Y PROVE once(g) \in Y
  <2>1. CASE Len(g) <= c.specs
    BY <2>1
  <2>2. CASE ~ (Len(g) <= c.specs)
    <3>1. Len(g) > c.specs
      BY <1>0, <2>2
    <3>2. GroupsFit(c, slots, RefinedOnce(c, g)) /\ InRow(RefinedOnce(c, g))
      BY <3>1, RefinedOnceFits
    <3>3. RefinedOnce(c, g) \in Seq(GroupSet(c))
      BY <3>2 DEF GroupsFit
    <3> QED BY <2>2, <3>2, <3>3
  <2> QED BY <2>1, <2>2
<1>2. groups \in Y
  BY DEF GroupsFit
<1>3. \A i \in 1 .. len : \A g \in Y : next[<<i, g>>] = once(g)
  <2> HIDE DEF Y, len, once
  <2> QED OBVIOUS
<1> HIDE DEF Y, len
<1>4. PICK f : Follows(f, len, Y, X, groups, next)
  <2>1. \A i \in 0 .. len : X[i] = Y
    OBVIOUS
  <2>2. Leads(len, Y, X, groups, next)
    <3>1. \A i \in 1 .. len : i - 1 \in 0 .. len /\ i \in 0 .. len
      BY <1>0
    <3>2. 0 \in 0 .. len
      BY <1>0
    <3> HIDE DEF X, next, once
    <3> QED BY <1>1, <1>2, <1>3, <2>1, <3>1, <3>2 DEF Leads
  <2> HIDE DEF X, next
  <2> QED BY <1>0, <2>2, Recursion
<1>5. f = [i \in 0 .. len |-> f[i]] /\ f[0] = groups
      /\ \A i \in 1 .. len : f[i] = once(f[i - 1])
  <2>1. f \in [0 .. len -> Y] /\ f[0] = groups /\ \A i \in 1 .. len : f[i] = next[<<i, f[i - 1]>>]
    BY <1>4 DEF Follows
  <2>2. \A i \in 1 .. len : f[i - 1] \in Y
    <3>1. \A i \in 1 .. len : i - 1 \in 0 .. len
      BY <1>0
    <3> QED BY <2>1, <3>1
  <2> HIDE DEF next, once
  <2> QED BY <1>3, <2>1, <2>2
<1>6. f = [i \in 0 .. len |-> IF i = 0 THEN groups
                              ELSE IF Len(f[i - 1]) <= c.specs THEN f[i - 1] ELSE RefinedOnce(c, f[i - 1])]
  <2>1. \A i \in 0 .. len : i # 0 => i \in 1 .. len
    BY <1>0
  <2>2. \A i \in 0 .. len : f[i] = IF i = 0 THEN groups
            ELSE IF Len(f[i - 1]) <= c.specs THEN f[i - 1] ELSE RefinedOnce(c, f[i - 1])
    BY <1>5, <2>1
  <2> QED BY <1>5, <2>2, Zenon
<1>7. PICK g : g = (CHOOSE after : after =
                      [i \in 0 .. len |-> IF i = 0 THEN groups
                          ELSE IF Len(after[i - 1]) <= c.specs THEN after[i - 1]
                          ELSE RefinedOnce(c, after[i - 1])])
  OBVIOUS
<1>8. g = [i \in 0 .. len |-> IF i = 0 THEN groups
             ELSE IF Len(g[i - 1]) <= c.specs THEN g[i - 1] ELSE RefinedOnce(c, g[i - 1])]
  BY <1>6, <1>7
<1>9. Refined(c, groups) = g[len]
  BY <1>7 DEF Refined, len
<1>10. g[len] \in Y
  <2> DEFINE S == {i \in 0 .. len : g[i] \in Y}
  <2>1. 0 \in S
    BY <1>0, <1>2, <1>8
  <2>2. ASSUME NEW m \in 0 .. len - 1, m \in S PROVE m + 1 \in S
    <3>1. m + 1 \in 0 .. len /\ m + 1 # 0 /\ (m + 1) - 1 = m
      BY <1>0
    <3>2. \A i \in 0 .. len : i # 0 => g[i] = once(g[i - 1])
      BY <1>8
    <3>3. g[m + 1] = once(g[m])
      <4> HIDE DEF once
      <4> QED BY <3>1, <3>2
    <3> HIDE DEF once
    <3> QED BY <1>1, <2>2, <3>1, <3>3
  <2>3. 0 .. len \subseteq S
    <3> HIDE DEF S
    <3> QED BY <1>0, <2>1, <2>2, InductionUpTo
  <2>4. len \in 0 .. len
    BY <1>0
  <2> QED BY <2>3, <2>4
<1> QED BY <1>9, <1>10 DEF Y

\* The order in which they are written.
LEMMA SortedFits ==
  ASSUME NEW c, IsConfig(c), NEW slots, NEW groups, GroupsFit(c, slots, groups), InRow(groups)
  PROVE  GroupsFit(c, slots, Sorted(groups)) /\ AreApart(Sorted(groups))
<1> DEFINE n == Len(groups)
           places == DOMAIN groups
           tiny(i) == groups[i].format = "tiny"
           ahead(i, j) == IF tiny(i) # tiny(j) THEN tiny(j)
                          ELSE \/ groups[i].count > groups[j].count
                               \/ groups[i].count = groups[j].count /\ i < j
           before == [j \in places |-> {i \in places : ahead(i, j)}]
           order == InOrder(places, before)
           s == Sorted(groups)
<1>0. n \in Nat /\ places = 1 .. n /\ groups \in Seq(GroupSet(c)) /\ SlotCounts \subseteq Nat
  BY DEF GroupsFit, SlotCounts
<1>1. \A i \in places : groups[i] \in GroupSet(c) /\ groups[i].count \in Nat
  <2>1. 1 .. c.nodeOnes \subseteq Nat
    BY ConfigFacts
  <2>2. \A i \in places : groups[i] \in GroupSet(c)
    <3> HIDE DEF before, order, s
    <3> QED BY <1>0
  <2>3. \A g \in GroupSet(c) : g.count \in Nat
    BY <2>1 DEF GroupSet
  <2> QED BY <2>2, <2>3
<1>2. Orders(places, before)
  <2>1. IsFiniteSet(places)
    BY <1>0, FS_Interval
  <2>2. \A j \in places : \A i : i \in before[j] <=> i \in places /\ ahead(i, j)
    OBVIOUS
  <2>3. \A i \in places : ~ ahead(i, i)
    BY <1>0, <1>1
  <2> DEFINE more(i, j) == \/ groups[i].count > groups[j].count
                           \/ groups[i].count = groups[j].count /\ i < j
  <2>a. \A i, j \in places : i = j \/ more(i, j) \/ more(j, i)
    BY <1>0, <1>1
  <2>b. \A i, j, k \in places : more(i, j) /\ more(j, k) => more(i, k)
    BY <1>0, <1>1
  <2>c. \A i, j : ahead(i, j) <=> (tiny(j) /\ ~ tiny(i)) \/ ((tiny(i) <=> tiny(j)) /\ more(i, j))
    OBVIOUS
  <2> HIDE DEF more, ahead, tiny
  <2>4. \A i, j \in places : i = j \/ ahead(i, j) \/ ahead(j, i)
    BY <2>a, <2>c
  <2>5. \A i, j, k \in places : ahead(i, j) /\ ahead(j, k) => ahead(i, k)
    BY <2>b, <2>c
  <2> HIDE DEF places, before, ahead
  <2>6. \A x \in places : before[x] \subseteq places /\ x \notin before[x]
    BY <2>2, <2>3
  <2>7. \A x, y \in places : x = y \/ x \in before[y] \/ y \in before[x]
    BY <2>2, <2>4
  <2>8. \A x, y \in places : x \in before[y] => before[x] \subseteq before[y]
    BY <2>2, <2>5
  <2> QED BY <2>1, <2>6, <2>7, <2>8 DEF Orders
<1>3. Cardinality(places) = n
  <2>1. n \in Nat
    BY <1>0
  <2> HIDE DEF n
  <2>2. Cardinality(1 .. n) = n
    BY <2>1, FS_Interval
  <2> QED BY <1>0, <2>2
<1>4. /\ order \in [1 .. n -> 1 .. n]
      /\ \A x \in 1 .. n : \E i \in 1 .. n : order[i] = x
      /\ \A i, j \in 1 .. n : order[i] = order[j] => i = j
  <2> HIDE DEF before, places, order, n
  <2>1. order = InOrder(places, before)
    BY DEF order
  <2>2. /\ order \in [1 .. Cardinality(places) -> places]
        /\ \A x \in places : \E i \in 1 .. Cardinality(places) : order[i] = x
        /\ \A i, j \in 1 .. Cardinality(places) : order[i] = order[j] => i = j
    BY <1>2, <2>1, OrderedFacts
  <2>3. places = 1 .. n
    BY <1>0
  <2> QED BY <1>3, <2>2, <2>3
<1>5. s = [i \in 1 .. n |-> groups[order[i]]]
  BY <1>0 DEF Sorted
<1> HIDE DEF order, s
<1>6. s \in Seq(GroupSet(c)) /\ Len(s) = n /\ \A i \in 1 .. n : s[i] = groups[order[i]] /\ order[i] \in 1 .. n
  <2>1. \A i \in 1 .. n : order[i] \in 1 .. n /\ groups[order[i]] \in GroupSet(c)
    BY <1>0, <1>1, <1>4
  <2>2. s \in [1 .. n -> GroupSet(c)]
    BY <1>5, <2>1
  <2> QED BY <1>0, <1>5, <2>1, <2>2
<1>7. \A i \in 1 .. Len(s) : GroupFits(c, slots, s[i])
  BY <1>6 DEF GroupsFit
<1>8. \A k \in DOMAIN slots : \E i \in 1 .. Len(s) : slots[k] \in s[i].start .. s[i].end
  <2>1. ASSUME NEW k \in DOMAIN slots PROVE \E i \in 1 .. Len(s) : slots[k] \in s[i].start .. s[i].end
    <3>1. PICK x \in 1 .. n : slots[k] \in groups[x].start .. groups[x].end
      BY DEF GroupsFit
    <3>2. PICK i \in 1 .. n : order[i] = x
      BY <1>4
    <3> QED BY <1>6, <3>1, <3>2
  <2> QED BY <2>1
<1>9. AreApart(s)
  <2>1. ASSUME NEW i \in 1 .. n, NEW j \in 1 .. n, i # j
        PROVE  s[i].end < s[j].start \/ s[j].end < s[i].start
    <3>1. order[i] # order[j] /\ order[i] \in 1 .. n /\ order[j] \in 1 .. n
      BY <1>4, <1>6, <2>1
    <3>2. order[i] < order[j] \/ order[j] < order[i]
      BY <1>0, <3>1
    <3>3. groups[order[i]].end < groups[order[j]].start \/ groups[order[j]].end < groups[order[i]].start
      BY <3>1, <3>2 DEF InRow
    <3> QED BY <1>6, <3>3
  <2> QED BY <1>6, <2>1 DEF AreApart
<1>10. GroupsFit(c, slots, s)
  BY <1>6, <1>7, <1>8 DEF GroupsFit
<1> QED BY <1>9, <1>10 DEF s

(***************************************************************************)
(* Counting on over the groups                                             *)
(***************************************************************************)
Sums(e, n, lens) ==
  e \in [0 .. n -> Nat] /\ e[0] = 0 /\ \A g \in 1 .. n : e[g] = e[g - 1] + lens[g]

\* Such sums exist.
LEMMA SumsExist ==
  ASSUME NEW n \in Nat, NEW lens \in [1 .. n -> Nat]
  PROVE  \E e : Sums(e, n, lens)
<1> DEFINE X == [i \in 0 .. n |-> Nat]
           next == [p \in ((1 .. n) \X Nat) |-> p[2] + lens[p[1]]]
<1>1. \A i \in 1 .. n : \A x \in Nat : next[<<i, x>>] = x + lens[i] /\ x + lens[i] \in Nat
  OBVIOUS
<1>2. PICK f : Follows(f, n, Nat, X, 0, next)
  <2>1. \A i \in 0 .. n : X[i] = Nat
    OBVIOUS
  <2>2. Leads(n, Nat, X, 0, next)
    <3> HIDE DEF X, next
    <3> QED BY <1>1, <2>1 DEF Leads
  <2> HIDE DEF X, next
  <2> QED BY <2>2, Recursion
<1>3. \A i \in 1 .. n : f[i] = f[i - 1] + lens[i]
  <2>1. \A i \in 1 .. n : f[i - 1] \in Nat
    BY <1>2 DEF Follows
  <2> HIDE DEF next
  <2> QED BY <1>1, <1>2, <2>1 DEF Follows
<1> QED BY <1>2, <1>3 DEF Follows, Sums

\* There is only one such sequence of sums.
LEMMA SumsOne ==
  ASSUME NEW n \in Nat, NEW lens, NEW e, Sums(e, n, lens),
         NEW d, d[0] = 0, \A g \in 1 .. n : d[g] = d[g - 1] + lens[g]
  PROVE  \A i \in 0 .. n : d[i] = e[i]
<1> DEFINE S == {i \in 0 .. n : d[i] = e[i]}
<1>1. 0 \in S
  BY DEF Sums
<1>2. ASSUME NEW m \in 0 .. n - 1, m \in S PROVE m + 1 \in S
  <2>1. m + 1 \in 1 .. n /\ (m + 1) - 1 = m
    OBVIOUS
  <2>2. d[m + 1] = d[m] + lens[m + 1] /\ e[m + 1] = e[m] + lens[m + 1]
    BY <2>1 DEF Sums
  <2> QED BY <1>2, <2>1, <2>2
<1>3. 0 .. n \subseteq S
  <2> HIDE DEF S
  <2> QED BY <1>1, <1>2, InductionUpTo
<1> QED BY <1>3

\* The sums ascend, and every number below the last falls between two of them.
Ascends(e, n, lens) ==
  /\ \A i, j \in 0 .. n : i <= j => e[i] <= e[j]
  /\ \A x \in 0 .. e[n] - 1 : \E g \in 1 .. n : e[g - 1] <= x /\ x < e[g]
  /\ \A g \in 1 .. n : lens[g] <= e[n]
  /\ \A g, h \in 1 .. n : lens[g] = e[n] /\ lens[h] > 0 => g = h
\* Sums of natural numbers ascend.
LEMMA SumsAscend ==
  ASSUME NEW n \in Nat, NEW lens \in [1 .. n -> Nat], NEW e, Sums(e, n, lens)
  PROVE  Ascends(e, n, lens)
<1>0. \A i \in 0 .. n : e[i] \in Nat
  BY DEF Sums
<1>1. ASSUME NEW i \in 0 .. n PROVE \A j \in 0 .. n : i <= j => e[i] <= e[j]
  <2> DEFINE S == {j \in 0 .. n : i <= j => e[i] <= e[j]}
  <2>1. 0 \in S
    BY <1>0
  <2>2. ASSUME NEW m \in 0 .. n - 1, m \in S PROVE m + 1 \in S
    <3>1. m + 1 \in 1 .. n /\ (m + 1) - 1 = m /\ m + 1 \in 0 .. n /\ m \in 0 .. n
      OBVIOUS
    <3>2. e[m + 1] = e[m] + lens[m + 1] /\ lens[m + 1] \in Nat
      BY <3>1 DEF Sums
    <3>3. i <= m + 1 => i <= m \/ i = m + 1
      OBVIOUS
    <3>4. e[i] \in Nat /\ e[m] \in Nat /\ e[m + 1] \in Nat /\ e[m] <= e[m + 1]
      BY <1>0, <3>1, <3>2
    <3> QED BY <2>2, <3>1, <3>3, <3>4
  <2>3. 0 .. n \subseteq S
    <3> HIDE DEF S
    <3> QED BY <2>1, <2>2, InductionUpTo
  <2> QED BY <2>3
<1>2. ASSUME NEW x \in 0 .. e[n] - 1 PROVE \E g \in 1 .. n : e[g - 1] <= x /\ x < e[g]
  <2> DEFINE T == {g \in 0 .. n : x < e[g]}
  <2>1. T \subseteq Nat /\ n \in T
    BY <1>0
  <2>2. PICK g \in T : \A h \in T : g <= h
    <3> HIDE DEF T
    <3> QED BY <2>1, MinFacts
  <2>3. g # 0
    BY <1>2 DEF Sums
  <2>4. g \in 1 .. n /\ g - 1 \in 0 .. n /\ g - 1 \notin T
    BY <2>2, <2>3
  <2>5. e[g - 1] <= x
    BY <1>0, <2>4
  <2> QED BY <2>2, <2>4, <2>5
<1>3. ASSUME NEW g \in 1 .. n
      PROVE  e[g - 1] \in Nat /\ e[g] = e[g - 1] + lens[g] /\ e[g] <= e[n] /\ lens[g] \in Nat /\ e[g] \in Nat
  BY <1>0, <1>1 DEF Sums
<1>4. \A g \in 1 .. n : lens[g] <= e[n]
  BY <1>0, <1>3
<1>5. ASSUME NEW g \in 1 .. n, NEW h \in 1 .. n, lens[g] = e[n], lens[h] > 0, g < h PROVE FALSE
  <2>1. e[g] <= e[h - 1] /\ e[h - 1] \in Nat /\ e[n] \in Nat
    BY <1>0, <1>1, <1>5
  <2>2. e[h] = e[h - 1] + lens[h] /\ e[h] <= e[n] /\ e[g] = e[g - 1] + lens[g] /\ e[g - 1] \in Nat
        /\ lens[h] \in Nat /\ lens[g] \in Nat
    BY <1>3
  <2> QED BY <1>5, <2>1, <2>2
<1>6. ASSUME NEW g \in 1 .. n, NEW h \in 1 .. n, lens[g] = e[n], lens[h] > 0, h < g PROVE FALSE
  <2>1. e[h] <= e[g - 1] /\ e[n] \in Nat
    BY <1>0, <1>1, <1>6
  <2>2. e[h] = e[h - 1] + lens[h] /\ e[h - 1] \in Nat /\ e[g] <= e[n] /\ e[g] = e[g - 1] + lens[g]
        /\ e[g - 1] \in Nat /\ lens[h] \in Nat /\ lens[g] \in Nat
    BY <1>3
  <2> QED BY <1>6, <2>1, <2>2
<1>7. \A g, h \in 1 .. n : lens[g] = e[n] /\ lens[h] > 0 => g = h
  <2>1. \A g, h \in 1 .. n : g = h \/ g < h \/ h < g
    OBVIOUS
  <2> QED BY <1>5, <1>6, <2>1
<1> QED BY <1>1, <1>2, <1>4, <1>7 DEF Ascends

\* The first id of a group.
LEMMA FirstIdFacts ==
  ASSUME NEW groups, Len(groups) \in Nat, NEW lens \in [1 .. Len(groups) -> Nat],
         \A g \in 1 .. Len(groups) : lens[g] = groups[g].count,
         NEW e, Sums(e, Len(groups), lens)
  PROVE  \A g \in 1 .. Len(groups) : FirstId(groups, g) = e[g - 1]
<1> DEFINE n == Len(groups)
<1>0. n \in Nat
  OBVIOUS
<1>1. \A g \in 1 .. n : e[g] = e[g - 1] + groups[g].count
  BY DEF Sums
<1>2. e = [i \in 0 .. n |-> IF i = 0 THEN 0 ELSE e[i - 1] + groups[i].count]
  <2>1. e = [i \in 0 .. n |-> e[i]]
    BY DEF Sums
  <2>2. \A i \in 0 .. n : i # 0 => i \in 1 .. n
    OBVIOUS
  <2>3. \A i \in 0 .. n : e[i] = IF i = 0 THEN 0 ELSE e[i - 1] + groups[i].count
    BY <1>1, <2>2 DEF Sums
  <2> QED BY <2>1, <2>3, Zenon
<1>3. PICK d : d = (CHOOSE first : first =
                      [i \in 0 .. n |-> IF i = 0 THEN 0 ELSE first[i - 1] + groups[i].count])
  OBVIOUS
<1>4. d = [i \in 0 .. n |-> IF i = 0 THEN 0 ELSE d[i - 1] + groups[i].count]
  BY <1>2, <1>3
<1>5. d[0] = 0 /\ \A g \in 1 .. n : d[g] = d[g - 1] + lens[g]
  BY <1>4
<1>6. \A i \in 0 .. n : d[i] = e[i]
  <2>1. Sums(e, n, lens)
    OBVIOUS
  <2> HIDE DEF n
  <2> QED BY <1>0, <1>5, <2>1, SumsOne
<1>7. \A g : FirstId(groups, g) = d[g - 1]
  BY <1>3 DEF FirstId
<1> QED BY <1>6, <1>7

\* The search for the group of an id ends at one.
LEMMA HoldsFacts ==
  ASSUME NEW c, IsConfig(c), NEW encoded, NEW n \in Nat, Len(encoded.counts) = n,
         DOMAIN encoded.counts = 1 .. n, encoded.counts \in [1 .. n -> 1 .. c.nodeOnes],
         NEW e, Sums(e, n, encoded.counts), e[n] <= c.nodeOnes,
         NEW id \in 0 .. e[n] - 1, id < Len(encoded.nodes)
  PROVE  HoldsNode(c, encoded, id)
<1> DEFINE counts == encoded.counts
           after(d, g) == (d[g - 1] + ReadID16(c, counts[g])) % Words
<1>0. /\ c.nodeOnes \in Nat /\ Words \in Nat /\ c.nodeOnes < Words - 1 /\ NoMatch = Words - 1
      /\ e[0] = 0 /\ \A i \in 0 .. n : e[i] \in Nat
      /\ counts \in [1 .. n -> Nat] /\ \A g \in 1 .. n : counts[g] \in 1 .. c.nodeOnes
  <2>1. c.nodeOnes \in Nat
    BY ConfigFacts
  <2>2. 1 .. c.nodeOnes \subseteq Nat
    BY <2>1
  <2> QED BY <2>1, <2>2, ConfigFacts DEF Sums
<1>1. /\ \A x \in 0 .. e[n] - 1 : \E g \in 1 .. n : e[g - 1] <= x /\ x < e[g]
      /\ \A i, j \in 0 .. n : i <= j => e[i] <= e[j]
      /\ \A g \in 1 .. n : counts[g] <= e[n]
      /\ \A g, h \in 1 .. n : counts[g] = e[n] /\ counts[h] > 0 => g = h
  <2>1. PICK lens : lens = counts
    OBVIOUS
  <2>2. Sums(e, n, lens) /\ lens \in [1 .. n -> Nat]
    BY <1>0, <2>1
  <2>3. Ascends(e, n, lens)
    BY <2>2, SumsAscend
  <2> QED BY <2>1, <2>3 DEF Ascends
<1>2. PICK g \in 1 .. n : e[g - 1] <= id /\ id < e[g]
  BY <1>1
<1> HIDE DEF after
<1>3. ASSUME NEW d, d = [i \in 0 .. n |-> IF i = 0 THEN 0 ELSE after(d, i)],
             \A end : end = [i \in 0 .. n |-> IF i = 0 THEN 0 ELSE after(end, i)] => end[g] > id
      PROVE  HoldsNode(c, encoded, id)
  <2>1. PICK end : end = (CHOOSE z : z = [i \in 0 .. n |-> IF i = 0 THEN 0 ELSE after(z, i)])
    OBVIOUS
  <2>2. end = [i \in 0 .. n |-> IF i = 0 THEN 0 ELSE after(end, i)]
    BY <1>3, <2>1
  <2>3. end[g] > id
    BY <1>3, <2>2
  <2> QED BY <2>1, <2>3 DEF HoldsNode, after
<1>4. CASE \A h \in 1 .. n : counts[h] # c.nodeOnes
  <2>1. \A h \in 1 .. n : ReadID16(c, counts[h]) = counts[h]
    BY <1>4 DEF ReadID16
  <2>2. ASSUME NEW h \in 1 .. n PROVE (e[h - 1] + counts[h]) % Words = e[h] /\ e[h] = e[h - 1] + counts[h]
    <3>1. e[h] = e[h - 1] + counts[h]
      BY DEF Sums
    <3>2. e[h] \in Nat /\ e[h] <= e[n] /\ e[n] \in Nat
      BY <1>0, <1>1
    <3>3. e[h] \in 0 .. Words - 1
      BY <1>0, <3>2
    <3>4. e[h] % Words = e[h]
      BY <1>0, <3>3, ItsOwnRemainder
    <3> QED BY <3>1, <3>4
  <2>3. e = [i \in 0 .. n |-> IF i = 0 THEN 0 ELSE after(e, i)]
    <3>1. e = [i \in 0 .. n |-> e[i]]
      BY DEF Sums
    <3>2. \A i \in 0 .. n : i # 0 => i \in 1 .. n
      OBVIOUS
    <3>3. \A i \in 1 .. n : after(e, i) = e[i]
      BY <2>1, <2>2 DEF after
    <3>4. \A i \in 0 .. n : e[i] = IF i = 0 THEN 0 ELSE after(e, i)
      BY <1>0, <3>2, <3>3
    <3> QED BY <3>1, <3>4, Zenon
  <2>4. ASSUME NEW end, end = [i \in 0 .. n |-> IF i = 0 THEN 0 ELSE after(end, i)]
        PROVE  end[g] > id
    <3> DEFINE S == {i \in 0 .. n : end[i] = e[i]}
    <3>1. 0 \in S
      BY <1>0, <2>4
    <3>2. ASSUME NEW m \in 0 .. n - 1, m \in S PROVE m + 1 \in S
      <4>1. m + 1 \in 1 .. n /\ (m + 1) - 1 = m /\ m + 1 \in 0 .. n /\ m + 1 # 0
        OBVIOUS
      <4>2. end[m + 1] = after(end, m + 1)
        BY <2>4, <4>1
      <4>3. after(end, m + 1) = (e[m] + counts[m + 1]) % Words
        BY <2>1, <3>2, <4>1 DEF after
      <4> QED BY <2>2, <4>1, <4>2, <4>3
    <3>3. 0 .. n \subseteq S
      <4> HIDE DEF S
      <4> QED BY <3>1, <3>2, InductionUpTo
    <3>4. end[g] = e[g] /\ e[g] \in Nat
      BY <1>0, <3>3
    <3> QED BY <1>2, <3>4
  <2> QED BY <1>3, <2>3, <2>4
<1>5. CASE \E h \in 1 .. n : counts[h] = c.nodeOnes
  <2>1. PICK h \in 1 .. n : counts[h] = c.nodeOnes
    BY <1>5
  <2>2. counts[h] = e[n]
    <3>1. counts[h] <= e[n] /\ e[n] \in Nat
      BY <1>0, <1>1
    <3> QED BY <1>0, <2>1, <3>1
  <2>3. \A k \in 1 .. n : k = h
    <3>1. \A k \in 1 .. n : counts[k] > 0
      BY <1>0
    <3> QED BY <1>1, <2>2, <3>1
  <2>4. n = 1 /\ h = 1 /\ g = 1
    <3>1. 1 \in 1 .. n /\ n \in 1 .. n
      OBVIOUS
    <3> QED BY <2>3, <3>1
  <2>5. ReadID16(c, counts[1]) = Words - 1
    BY <1>0, <2>1, <2>4 DEF ReadID16
  <2>6. \A end : end[0] = 0 => after(end, 1) = Words - 1
    <3>2. Words - 1 \in 0 .. Words - 1 /\ 0 + (Words - 1) = Words - 1
      BY <1>0
    <3>1. (0 + (Words - 1)) % Words = Words - 1
      BY <1>0, <3>2, ItsOwnRemainder
    <3> QED BY <2>5, <3>1 DEF after
  <2> DEFINE d == [i \in 0 .. 1 |-> IF i = 0 THEN 0 ELSE Words - 1]
  <2>7. d = [i \in 0 .. n |-> IF i = 0 THEN 0 ELSE after(d, i)]
    <3>1. d[0] = 0 /\ d[1] = Words - 1 /\ d = [i \in 0 .. 1 |-> d[i]]
      OBVIOUS
    <3>2. \A i \in 0 .. 1 : d[i] = IF i = 0 THEN 0 ELSE after(d, i)
      <4>1. \A i \in 0 .. 1 : i = 0 \/ i = 1
        OBVIOUS
      <4> HIDE DEF d
      <4> QED BY <2>6, <3>1, <4>1
    <3> HIDE DEF d
    <3> QED BY <2>4, <3>1, <3>2, Zenon
  <2>8. ASSUME NEW end, end = [i \in 0 .. n |-> IF i = 0 THEN 0 ELSE after(end, i)]
        PROVE  end[g] > id
    <3>1. end[0] = 0 /\ end[1] = after(end, 1)
      BY <2>4, <2>8
    <3>2. end[g] = Words - 1 /\ e[n] \in Nat
      BY <1>0, <2>4, <2>6, <3>1
    <3> QED BY <1>0, <3>2
  <2> HIDE DEF d
  <2> QED BY <1>3, <2>7, <2>8
<1> QED BY <1>4, <1>5

(***************************************************************************)
(* Sequences end to end                                                    *)
(***************************************************************************)
FlatUpTo(s, m, S, seqs, e) ==
  /\ s \in Seq(S) /\ Len(s) = e[m]
  /\ \A g \in 1 .. m : \A i \in 1 .. Len(seqs[g]) : s[e[g - 1] + i] = seqs[g][i]

IsJoined(S, s, r, both) ==
  /\ both \in Seq(S) /\ Len(both) = Len(s) + Len(r) /\ Len(s) \in Nat /\ Len(r) \in Nat
  /\ \A i \in 1 .. Len(s) : both[i] = s[i]
  /\ \A i \in 1 .. Len(r) : both[Len(s) + i] = r[i]
\* Sequences are joined by the operator for it.
LEMMA JoinedFacts ==
  ASSUME NEW S, NEW s \in Seq(S), NEW r \in Seq(S)
  PROVE  IsJoined(S, s, r, s \o r)
BY DEF IsJoined

\* One more sequence joined.
LEMMA FlatStep ==
  ASSUME NEW n \in Nat, NEW S, NEW seqs \in [1 .. n -> Seq(S)],
         NEW lens \in [1 .. n -> Nat], \A g \in 1 .. n : lens[g] = Len(seqs[g]),
         NEW e, Sums(e, n, lens), NEW m \in 0 .. n - 1, NEW s, FlatUpTo(s, m, S, seqs, e)
  PROVE  FlatUpTo(s \o seqs[m + 1], m + 1, S, seqs, e)
<1>1. PICK r : r = seqs[m + 1]
  OBVIOUS
<1>2. m + 1 \in 1 .. n /\ (m + 1) - 1 = m /\ m \in 0 .. n
  OBVIOUS
<1>3. r \in Seq(S) /\ s \in Seq(S) /\ Len(s) = e[m] /\ e[m + 1] = e[m] + Len(r)
  BY <1>1, <1>2 DEF FlatUpTo, Sums
<1>4. /\ s \o r \in Seq(S) /\ Len(s \o r) = Len(s) + Len(r)
      /\ \A i \in 1 .. Len(s) : (s \o r)[i] = s[i]
      /\ \A i \in 1 .. Len(r) : (s \o r)[Len(s) + i] = r[i]
  <2>1. s \in Seq(S) /\ r \in Seq(S)
    BY <1>3
  <2>2. IsJoined(S, s, r, s \o r)
    BY <2>1, JoinedFacts
  <2> QED BY <2>2 DEF IsJoined
<1>5. ASSUME NEW g \in 1 .. m + 1, NEW i \in 1 .. Len(seqs[g])
      PROVE  (s \o r)[e[g - 1] + i] = seqs[g][i]
  <2>1. CASE g = m + 1
    <3>1. g - 1 = m
      BY <1>2, <2>1
    <3> QED BY <1>1, <1>3, <1>4, <2>1, <3>1
  <2>2. CASE g # m + 1
    <3>1. g \in 1 .. m /\ g \in 1 .. n /\ g - 1 \in 0 .. n /\ g \in 0 .. n /\ g <= m
      BY <1>2, <2>2
    <3>2. e[g] <= e[m] /\ e[g] = e[g - 1] + Len(seqs[g]) /\ e[g - 1] \in Nat /\ e[m] \in Nat /\ e[g] \in Nat
      <4>1. \A a, b \in 0 .. n : a <= b => e[a] <= e[b]
        BY SumsAscend DEF Ascends
      <4> QED BY <1>2, <3>1, <4>1 DEF Sums
    <3>3. seqs[g] \in Seq(S)
      BY <3>1
    <3>4. Len(seqs[g]) \in Nat /\ i \in Nat /\ i >= 1 /\ i <= Len(seqs[g])
      BY <3>3
    <3>5. e[g - 1] + i \in 1 .. Len(s)
      <4>1. \A a, b, d, x \in Nat : b = a + d /\ x >= 1 /\ x <= d => a + x >= 1 /\ a + x <= b /\ a + x \in Nat
        OBVIOUS
      <4>2. e[g - 1] + i >= 1 /\ e[g - 1] + i <= e[g] /\ e[g - 1] + i \in Nat
        BY <3>2, <3>4, <4>1
      <4> QED BY <1>3, <3>2, <4>2
    <3>6. s[e[g - 1] + i] = seqs[g][i]
      BY <3>1 DEF FlatUpTo
    <3> QED BY <1>4, <3>5, <3>6
  <2> QED BY <2>1, <2>2
<1>6. FlatUpTo(s \o r, m + 1, S, seqs, e)
  BY <1>3, <1>4, <1>5 DEF FlatUpTo
<1> QED BY <1>1, <1>6

\* A sequence of sequences is joined in order, and each place of the result is one of a part.
LEMMA FlattenFacts ==
  ASSUME NEW n \in Nat, NEW S, NEW seqs \in [1 .. n -> Seq(S)],
         NEW lens \in [1 .. n -> Nat], \A g \in 1 .. n : lens[g] = Len(seqs[g]),
         NEW e, Sums(e, n, lens)
  PROVE  FlatUpTo(FlattenSeq(seqs), n, S, seqs, e)
<1>1. Len(seqs) = n
  OBVIOUS
<1>2. CASE n = 0
  <2>1. FlattenSeq(seqs) = seqs
    BY <1>1, <1>2 DEF FlattenSeq
  <2>2. seqs \in Seq(S) /\ e[0] = 0
    BY <1>2 DEF Sums
  <2> QED BY <1>1, <1>2, <2>1, <2>2 DEF FlatUpTo
<1>3. CASE n # 0
  <2> DEFINE Y == Seq(S)
             X == [i \in 0 .. n |-> Y]
             next == [p \in ((1 .. n) \X Y) |-> p[2] \o seqs[p[1]]]
  <2>a. \A i \in 1 .. n : \A x \in Y : x \o seqs[i] \in Y
    <3>1. \A i \in 1 .. n : seqs[i] \in Seq(S)
      OBVIOUS
    <3>2. \A x, y \in Seq(S) : x \o y \in Seq(S)
      OBVIOUS
    <3> QED BY <3>1, <3>2
  <2>2. <<>> \in Y
    OBVIOUS
  <2> HIDE DEF Y
  <2>b. \A i \in 1 .. n : \A x \in Y : next[<<i, x>>] = x \o seqs[i]
    OBVIOUS
  <2>1. \A i \in 1 .. n : \A x \in Y : next[<<i, x>>] \in Y
    BY <2>a, <2>b
  <2>3. PICK f : Follows(f, n, Y, X, <<>>, next)
    <3>1. \A i \in 0 .. n : X[i] = Y
      OBVIOUS
    <3>2. Leads(n, Y, X, <<>>, next)
      <4>1. \A i \in 1 .. n : i - 1 \in 0 .. n /\ i \in 0 .. n
        OBVIOUS
      <4>2. 0 \in 0 .. n
        OBVIOUS
      <4> DEFINE a == <<>>
      <4>3. a \in Y
        BY <2>2
      <4> HIDE DEF X, next, a
      <4>4. Leads(n, Y, X, a, next)
        BY <2>1, <3>1, <4>1, <4>2, <4>3 DEF Leads
      <4> QED BY <4>4 DEF a
    <3> HIDE DEF X, next
    <3> QED BY <3>2, Recursion
  <2>4. /\ f[0] = <<>> /\ \A i \in 0 .. n : f[i] \in Y
        /\ \A i \in 1 .. n : f[i] = f[i - 1] \o seqs[i]
    <3>1. /\ f[0] = <<>> /\ \A i \in 0 .. n : f[i] \in Y
          /\ \A i \in 1 .. n : f[i] = next[<<i, f[i - 1]>>]
      BY <2>3 DEF Follows
    <3>2. \A i \in 1 .. n : f[i - 1] \in Y
      BY <3>1
    <3> HIDE DEF next
    <3> QED BY <2>b, <3>1, <3>2
  <2> DEFINE F == [i \in 1 .. n |-> f[i]]
  <2>5. F = [i \in 1 .. n |-> IF i = 1 THEN seqs[i] ELSE F[i - 1] \o seqs[i]]
    <3>1. F[1] = seqs[1]
      <4>1. 1 \in 1 .. n /\ 1 - 1 = 0 /\ seqs[1] \in Seq(S)
        BY <1>3
      <4>2. F[1] = <<>> \o seqs[1]
        BY <2>4, <4>1
      <4>3. \A r \in Seq(S) : <<>> \o r = r
        OBVIOUS
      <4> QED BY <4>1, <4>2, <4>3
    <3>2. \A i \in 1 .. n : i # 1 => F[i] = F[i - 1] \o seqs[i]
      <4>1. \A i \in 1 .. n : i # 1 => i - 1 \in 1 .. n
        OBVIOUS
      <4> QED BY <2>4, <4>1
    <3>3. F = [i \in 1 .. n |-> F[i]]
      OBVIOUS
    <3> HIDE DEF F
    <3>4. \A i \in 1 .. n : F[i] = IF i = 1 THEN seqs[i] ELSE F[i - 1] \o seqs[i]
      BY <3>1, <3>2
    <3> QED BY <3>3, <3>4, Zenon
  <2> HIDE DEF F
  <2>6. PICK g : g = (CHOOSE flatten : flatten =
                        [i \in 1 .. n |-> IF i = 1 THEN seqs[i] ELSE flatten[i - 1] \o seqs[i]])
    OBVIOUS
  <2>7. g = [i \in 1 .. n |-> IF i = 1 THEN seqs[i] ELSE g[i - 1] \o seqs[i]]
    BY <2>5, <2>6
  <2>8. FlattenSeq(seqs) = g[n]
    BY <1>1, <1>3, <2>6 DEF FlattenSeq
  <2> DEFINE Z == {m \in 0 .. n : m = 0 \/ FlatUpTo(g[m], m, S, seqs, e)}
  <2>9. 0 \in Z
    OBVIOUS
  <2>10. FlatUpTo(<<>>, 0, S, seqs, e)
    BY DEF FlatUpTo, Sums
  <2>11. ASSUME NEW m \in 0 .. n - 1, m \in Z PROVE m + 1 \in Z
    <3>1. m + 1 \in 1 .. n /\ (m + 1) - 1 = m /\ m + 1 \in 0 .. n
      OBVIOUS
    <3>2. CASE m = 0
      <4>1. g[m + 1] = <<>> \o seqs[m + 1]
        <5>1. \A r \in Seq(S) : <<>> \o r = r
          OBVIOUS
        <5>2. g[1] = seqs[1]
          BY <2>7, <3>1, <3>2
        <5> QED BY <3>1, <3>2, <5>1, <5>2
      <4>2. FlatUpTo(<<>> \o seqs[m + 1], m + 1, S, seqs, e)
        BY <2>10, <3>2, FlatStep
      <4> QED BY <3>1, <4>1, <4>2
    <3>3. CASE m # 0
      <4>0. m + 1 # 1
        BY <3>3
      <4>1. g[m + 1] = g[m] \o seqs[m + 1]
        <5>1. \A i \in 1 .. n : i # 1 => g[i] = g[i - 1] \o seqs[i]
          BY <2>7
        <5> QED BY <3>1, <4>0, <5>1
      <4>2. FlatUpTo(g[m] \o seqs[m + 1], m + 1, S, seqs, e)
        BY <2>11, <3>3, FlatStep
      <4> QED BY <3>1, <4>1, <4>2
    <3> QED BY <3>2, <3>3
  <2>12. 0 .. n \subseteq Z
    <3> HIDE DEF Z
    <3> QED BY <2>9, <2>11, InductionUpTo
  <2>13. n \in 0 .. n
    OBVIOUS
  <2> QED BY <1>3, <2>8, <2>12, <2>13
<1> QED BY <1>2, <1>3

\* Every place in the whole is a place in one of its parts.
Placed(e, n, lens) ==
  /\ \A g \in 1 .. n : \A i \in 1 .. lens[g] : e[g - 1] + i \in 1 .. e[n] /\ e[g - 1] \in Nat
  /\ \A j \in 1 .. e[n] : \E g \in 1 .. n : \E i \in 1 .. lens[g] : j = e[g - 1] + i
\* It is.
LEMMA PlacedFacts ==
  ASSUME NEW n \in Nat, NEW lens \in [1 .. n -> Nat], NEW e, Sums(e, n, lens)
  PROVE  Placed(e, n, lens)
<1>1. Ascends(e, n, lens)
  BY SumsAscend
<1>2. ASSUME NEW g \in 1 .. n
      PROVE  /\ e[g - 1] \in Nat /\ e[g] \in Nat /\ e[n] \in Nat /\ e[g] <= e[n]
             /\ e[g] = e[g - 1] + lens[g] /\ lens[g] \in Nat
  <2>1. g - 1 \in 0 .. n /\ g \in 0 .. n /\ n \in 0 .. n /\ g <= n
    OBVIOUS
  <2> QED BY <1>1, <2>1 DEF Sums, Ascends
<1>3. ASSUME NEW g \in 1 .. n, NEW i \in 1 .. lens[g]
      PROVE  e[g - 1] + i \in 1 .. e[n] /\ e[g - 1] \in Nat
  <2>1. PICK a, b, d : a = e[g - 1] /\ b = e[g] /\ d = e[n]
    OBVIOUS
  <2>2. a \in Nat /\ b \in Nat /\ d \in Nat /\ b <= d /\ b = a + lens[g] /\ lens[g] \in Nat
    BY <1>2, <2>1
  <2>3. a + i \in 1 .. d
    BY <2>2
  <2> QED BY <2>1, <2>2, <2>3
<1>4. ASSUME NEW j \in 1 .. e[n] PROVE \E g \in 1 .. n : \E i \in 1 .. lens[g] : j = e[g - 1] + i
  <2>0. n \in 0 .. n /\ e[n] \in Nat
    BY DEF Sums
  <2>1. j - 1 \in 0 .. e[n] - 1
    BY <2>0
  <2>2. PICK g \in 1 .. n : e[g - 1] <= j - 1 /\ j - 1 < e[g]
    BY <1>1, <2>1 DEF Ascends
  <2>3. PICK a : a = e[g - 1]
    OBVIOUS
  <2>4. a \in Nat /\ lens[g] \in Nat /\ e[g] = a + lens[g]
    BY <1>2, <2>3
  <2>5. j - a \in 1 .. lens[g] /\ j = a + (j - a)
    BY <2>0, <2>2, <2>3, <2>4
  <2> QED BY <2>3, <2>5
<1> QED BY <1>3, <1>4 DEF Placed

(***************************************************************************)
(* The groups of the nodes                                                 *)
(***************************************************************************)
Sound(t, f, H) == t \in Nat /\ IsTree(t, f, H) /\ IsFiniteSet(H) /\ H \subseteq Hash

\* The groups of a level fit, unless the level has more nodes than two bytes can name.
LEMMA LevelGroupsFit ==
  ASSUME NEW c, IsConfig(c), NEW t, NEW f, NEW H, Sound(t, f, H), NEW l,
         Cardinality(AtLevel(t, f, H, l)) <= c.nodeOnes
  PROVE  LET nodes == LevelNodes(t, f, H, l)
             groups == LevelGroups(c, f, nodes)
         IN  /\ GroupsFit(c, SlotsOf(f, nodes), groups) /\ AreApart(groups)
             /\ SlotsOf(f, nodes) \in [1 .. Cardinality(AtLevel(t, f, H, l)) -> SlotCounts]
<1> DEFINE S == AtLevel(t, f, H, l)
           nodes == LevelNodes(t, f, H, l)
           n == Cardinality(S)
           slots == SlotsOf(f, nodes)
           groups == LevelGroups(c, f, nodes)
<1>1. IsListOf(nodes, S)
  BY LevelNodesFacts DEF Sound
<1>2. S \subseteq Nodes(f, H)
  BY DEF AtLevel
<1> HIDE DEF nodes, S
<1>3. n \in Nat /\ DOMAIN nodes = 1 .. n /\ \A k \in 1 .. n : nodes[k] \in S
  BY <1>1 DEF IsListOf
<1>4. slots \in [1 .. n -> SlotCounts]
  <2>1. \A x \in Nodes(f, H) : ActiveSlotsCount(f, x) \in SlotCounts
    BY SlotCountFacts DEF Sound
  <2> QED BY <1>2, <1>3, <2>1 DEF SlotsOf
<1> HIDE DEF n
<1>5. n <= c.nodeOnes
  BY DEF n, S
<1> DEFINE proposed == Proposed(c, Histogram(c, f, nodes))
<1>6. GroupsFit(c, slots, proposed) /\ InRow(proposed)
  BY <1>3, <1>4, <1>5, ProposedFits
<1>7. groups = Sorted(Refined(c, proposed))
  BY DEF LevelGroups
<1> HIDE DEF proposed, slots, groups
<1>8. GroupsFit(c, slots, Refined(c, proposed)) /\ InRow(Refined(c, proposed))
  BY <1>3, <1>4, <1>5, <1>6, RefinedFits
<1>9. GroupsFit(c, slots, groups) /\ AreApart(groups)
  BY <1>7, <1>8, SortedFits
<1> QED BY <1>4, <1>9 DEF groups, slots, nodes, n, S

\* Every node is in one group.
LEMMA GroupOfFacts ==
  ASSUME NEW c, IsConfig(c), NEW n \in Nat, NEW slots \in [1 .. n -> SlotCounts],
         NEW groups, GroupsFit(c, slots, groups), AreApart(groups)
  PROVE  \A k \in 1 .. n :
           /\ GroupOf(groups, slots[k]) \in 1 .. Len(groups)
           /\ \A g \in 1 .. Len(groups) :
                GroupOf(groups, slots[k]) = g <=> k \in Holding(slots, groups[g].start, groups[g].end)
<1>0. SlotCounts \subseteq Nat /\ Len(groups) \in Nat /\ DOMAIN groups = 1 .. Len(groups)
  BY ConfigFacts DEF SlotCounts, GroupsFit
<1>1. ASSUME NEW k \in 1 .. n
      PROVE  /\ GroupOf(groups, slots[k]) \in 1 .. Len(groups)
             /\ \A g \in 1 .. Len(groups) :
                  GroupOf(groups, slots[k]) = g <=> k \in Holding(slots, groups[g].start, groups[g].end)
  <2> DEFINE holding == {g \in DOMAIN groups : slots[k] \in groups[g].start .. groups[g].end}
             G == GroupOf(groups, slots[k])
  <2>1. holding # {}
    BY <1>0 DEF GroupsFit
  <2>2. G \in holding
    BY <2>1 DEF GroupOf
  <2>3. \A g \in 1 .. Len(groups) : g \in holding <=> k \in Holding(slots, groups[g].start, groups[g].end)
    BY <1>0 DEF Holding
  <2>4. ASSUME NEW g \in holding, NEW h \in holding PROVE g = h
    <3>1. g \in 1 .. Len(groups) /\ h \in 1 .. Len(groups)
          /\ slots[k] \in groups[g].start .. groups[g].end /\ slots[k] \in groups[h].start .. groups[h].end
      BY <1>0
    <3>2. /\ groups[g].start \in Nat /\ groups[g].end \in Nat /\ groups[h].start \in Nat
          /\ groups[h].end \in Nat /\ slots[k] \in Nat
      BY <1>0, <3>1 DEF GroupsFit, GroupFits, GroupSet
    <3>3. ~ (groups[g].end < groups[h].start) /\ ~ (groups[h].end < groups[g].start)
      BY <3>1, <3>2
    <3> QED BY <3>1, <3>3 DEF AreApart
  <2> HIDE DEF holding, G
  <2>5. G \in 1 .. Len(groups)
    BY <1>0, <2>2 DEF holding
  <2>6. \A g \in 1 .. Len(groups) : G = g <=> k \in Holding(slots, groups[g].start, groups[g].end)
    BY <2>2, <2>3, <2>4
  <2> QED BY <2>5, <2>6 DEF G
<1> QED BY <1>1

(***************************************************************************)
(* The numbers of the nodes                                                *)
(***************************************************************************)
\* What a group's members are.
HasMembers(groups, f, nodes, S, g) ==
  LET members == Members(groups, f, nodes, g)
  IN  /\ members \in Seq(S) /\ Len(members) = groups[g].count
      /\ groups[g].count \in Nat /\ DOMAIN members = 1 .. groups[g].count
      /\ \A i \in 1 .. groups[g].count : GroupOf(groups, ActiveSlotsCount(f, members[i])) = g
      /\ \A i, j \in 1 .. groups[g].count : members[i] = members[j] => i = j
      /\ \A X \in S : GroupOf(groups, ActiveSlotsCount(f, X)) = g
                      => \E i \in 1 .. groups[g].count : members[i] = X

\* The members of a group are its nodes in the order of the visit, as many as it counts.
LEMMA MembersFacts ==
  ASSUME NEW c, IsConfig(c), NEW f, NEW S, NEW nodes, IsListOf(nodes, S), NEW groups,
         SlotsOf(f, nodes) \in [1 .. Cardinality(S) -> SlotCounts],
         GroupsFit(c, SlotsOf(f, nodes), groups), AreApart(groups), NEW g \in 1 .. Len(groups)
  PROVE  HasMembers(groups, f, nodes, S, g)
<1> DEFINE n == Cardinality(S)
           slots == SlotsOf(f, nodes)
           P == {i \in DOMAIN nodes : GroupOf(groups, ActiveSlotsCount(f, nodes[i])) = g}
           places == Ascending(P)
           count == groups[g].count
           members == Members(groups, f, nodes, g)
<1>1. /\ n \in Nat /\ DOMAIN nodes = 1 .. n /\ \A k \in 1 .. n : nodes[k] \in S
      /\ \A X \in S : \E k \in 1 .. n : nodes[k] = X
      /\ \A i, j \in 1 .. n : nodes[i] = nodes[j] => i = j
  BY DEF IsListOf
<1>2. \A k \in 1 .. n : slots[k] = ActiveSlotsCount(f, nodes[k])
  BY <1>1 DEF SlotsOf
<1>3. P = Holding(slots, groups[g].start, groups[g].end)
  <2>1. \A k \in 1 .. n : GroupOf(groups, slots[k]) = g
                          <=> k \in Holding(slots, groups[g].start, groups[g].end)
    <3> HIDE DEF n, slots
    <3>1. slots \in [1 .. n -> SlotCounts] /\ GroupsFit(c, slots, groups)
      BY DEF n, slots
    <3> QED BY <1>1, <3>1, GroupOfFacts
  <2>2. Holding(slots, groups[g].start, groups[g].end) \subseteq 1 .. n
    BY <1>1 DEF Holding
  <2> HIDE DEF slots, n
  <2> QED BY <1>1, <1>2, <2>1, <2>2
<1>4. Cardinality(P) = count /\ count \in Nat
  <2>1. GroupFits(c, slots, groups[g])
    BY DEF GroupsFit
  <2>2. 1 .. c.nodeOnes \subseteq Nat
    BY ConfigFacts
  <2> HIDE DEF P, slots
  <2> QED BY <1>3, <2>1, <2>2 DEF GroupFits, GroupSet
<1>5. P \subseteq Nat /\ IsFiniteSet(P) /\ P \subseteq 1 .. n
  <2>1. P \subseteq 1 .. n
    BY <1>1
  <2> DEFINE Y == 1 .. n
  <2> HIDE DEF P, n
  <2>2. IsFiniteSet(Y)
    BY <1>1, FS_Interval
  <2>3. Y \subseteq Nat /\ P \subseteq Y
    BY <2>1
  <2> HIDE DEF Y
  <2>4. IsFiniteSet(P) /\ P \subseteq Nat
    BY <2>2, <2>3, FS_Subset
  <2> QED BY <2>1, <2>4
<1> HIDE DEF n
<1>6. /\ DOMAIN places = 1 .. count /\ \A i \in 1 .. count : places[i] \in P
      /\ \A x \in P : \E i \in 1 .. count : places[i] = x
      /\ \A i, j \in 1 .. count : places[i] = places[j] => i = j
  <2> HIDE DEF P, count
  <2> QED BY <1>4, <1>5, AscendingFacts
<1>7. members = [i \in 1 .. count |-> nodes[places[i]]]
  BY <1>6 DEF Members
<1>8. \A x \in P : x \in 1 .. n /\ GroupOf(groups, ActiveSlotsCount(f, nodes[x])) = g
  BY <1>5
<1>9. \A x \in 1 .. n : GroupOf(groups, ActiveSlotsCount(f, nodes[x])) = g => x \in P
  BY <1>1
<1> HIDE DEF P, places, count, members
<1>10. DOMAIN members = 1 .. count /\ \A i \in 1 .. count : members[i] = nodes[places[i]]
  BY <1>7
<1>11. members \in Seq(S) /\ Len(members) = count
  <2>1. \A i \in 1 .. count : nodes[places[i]] \in S
    BY <1>1, <1>6, <1>8
  <2>2. members \in [1 .. count -> S]
    BY <1>7, <2>1
  <2> QED BY <1>4, <2>2
<1>12. \A i \in 1 .. count : GroupOf(groups, ActiveSlotsCount(f, members[i])) = g
  BY <1>6, <1>8, <1>10
<1>13. \A i, j \in 1 .. count : members[i] = members[j] => i = j
  BY <1>1, <1>6, <1>8, <1>10
<1>14. ASSUME NEW X \in S, GroupOf(groups, ActiveSlotsCount(f, X)) = g
       PROVE  \E i \in 1 .. count : members[i] = X
  <2>1. PICK k \in 1 .. n : nodes[k] = X
    BY <1>1
  <2>2. k \in P
    BY <1>9, <1>14, <2>1
  <2> QED BY <1>6, <1>10, <2>1, <2>2
<1> QED BY <1>4, <1>10, <1>11, <1>12, <1>13, <1>14 DEF HasMembers, members, count

\* The counts of the groups of a level add up to no more than its nodes.
HasEnds(c, groups, n, e) ==
  LET lens == [g \in 1 .. Len(groups) |-> groups[g].count]
  IN  /\ Len(groups) \in Nat /\ lens \in [1 .. Len(groups) -> 1 .. c.nodeOnes]
      /\ Sums(e, Len(groups), lens) /\ e[Len(groups)] <= n
      /\ Placed(e, Len(groups), lens)

\* There are numbers at which the groups of a level end.
LEMMA EndsFacts ==
  ASSUME NEW c, IsConfig(c), NEW f, NEW S, NEW nodes, IsListOf(nodes, S), NEW groups,
         SlotsOf(f, nodes) \in [1 .. Cardinality(S) -> SlotCounts],
         GroupsFit(c, SlotsOf(f, nodes), groups), AreApart(groups)
  PROVE  \E e : HasEnds(c, groups, Cardinality(S), e)
<1> DEFINE m == Len(groups)
           lens == [g \in 1 .. m |-> groups[g].count]
           parts == [g \in 1 .. m |-> Members(groups, f, nodes, g)]
           all == FlattenSeq(parts)
<1>1. m \in Nat /\ \A g \in 1 .. m : groups[g].count \in 1 .. c.nodeOnes
  BY DEF GroupsFit, GroupFits, GroupSet
<1>2. lens \in [1 .. m -> 1 .. c.nodeOnes] /\ lens \in [1 .. m -> Nat]
  <2>1. 1 .. c.nodeOnes \subseteq Nat
    BY ConfigFacts
  <2> QED BY <1>1, <2>1
<1> HIDE DEF m
<1>3. ASSUME NEW g \in 1 .. m PROVE HasMembers(groups, f, nodes, S, g)
  BY <1>3, MembersFacts DEF m
<1>4. /\ parts \in [1 .. m -> Seq(S)] /\ \A g \in 1 .. m : lens[g] = Len(parts[g])
      /\ \A g \in 1 .. m : parts[g] = Members(groups, f, nodes, g) /\ lens[g] = groups[g].count
  BY <1>3 DEF HasMembers
<1> HIDE DEF lens, parts
<1>5. PICK e : Sums(e, m, lens)
  BY <1>1, <1>2, SumsExist
<1>6. Placed(e, m, lens)
  BY <1>1, <1>2, <1>5, PlacedFacts
<1>7. FlatUpTo(all, m, S, parts, e)
  BY <1>1, <1>2, <1>4, <1>5, FlattenFacts
<1> HIDE DEF all
<1>8. all \in Seq(S) /\ Len(all) = e[m] /\ e[m] \in Nat
  BY <1>1, <1>5, <1>7 DEF FlatUpTo, Sums
<1>9. ASSUME NEW j \in 1 .. e[m] PROVE
        \E g \in 1 .. m : \E i \in 1 .. lens[g] :
          /\ j = e[g - 1] + i /\ all[j] = Members(groups, f, nodes, g)[i]
          /\ GroupOf(groups, ActiveSlotsCount(f, all[j])) = g
  <2>1. PICK g \in 1 .. m : \E i \in 1 .. lens[g] : j = e[g - 1] + i
    BY <1>6 DEF Placed
  <2>2. PICK i \in 1 .. lens[g] : j = e[g - 1] + i
    BY <2>1
  <2>3. all[j] = parts[g][i]
    BY <1>4, <1>7, <2>2 DEF FlatUpTo
  <2>4. all[j] = Members(groups, f, nodes, g)[i]
    BY <1>4, <2>3
  <2>5. GroupOf(groups, ActiveSlotsCount(f, all[j])) = g
    BY <1>3, <1>4, <2>4 DEF HasMembers
  <2> QED BY <2>2, <2>4, <2>5
<1>10. ASSUME NEW j \in 1 .. e[m], NEW k \in 1 .. e[m], all[j] = all[k] PROVE j = k
  <2>1. PICK g \in 1 .. m : \E i \in 1 .. lens[g] :
          /\ j = e[g - 1] + i /\ all[j] = Members(groups, f, nodes, g)[i]
          /\ GroupOf(groups, ActiveSlotsCount(f, all[j])) = g
    BY <1>9
  <2>2. PICK h \in 1 .. m : \E i \in 1 .. lens[h] :
          /\ k = e[h - 1] + i /\ all[k] = Members(groups, f, nodes, h)[i]
          /\ GroupOf(groups, ActiveSlotsCount(f, all[k])) = h
    BY <1>9
  <2>3. g = h
    BY <1>10, <2>1, <2>2
  <2>4. PICK i \in 1 .. lens[g] : j = e[g - 1] + i /\ all[j] = Members(groups, f, nodes, g)[i]
    BY <2>1
  <2>5. PICK i2 \in 1 .. lens[g] : k = e[g - 1] + i2 /\ all[k] = Members(groups, f, nodes, g)[i2]
    BY <2>2, <2>3
  <2>6. i = i2
    BY <1>3, <1>4, <1>10, <2>4, <2>5 DEF HasMembers
  <2> QED BY <2>4, <2>5, <2>6
<1>11. e[m] <= Cardinality(S)
  <2> DEFINE D == 1 .. e[m]
  <2>1. IsFiniteSet(D) /\ Cardinality(D) = e[m]
    <3>1. PICK x : x = e[m]
      OBVIOUS
    <3>2. x \in Nat
      BY <1>8, <3>1
    <3>3. IsFiniteSet(1 .. x) /\ Cardinality(1 .. x) = x
      BY <3>2, FS_Interval
    <3> QED BY <3>1, <3>3
  <2>2. all \in [D -> S]
    BY <1>8
  <2>3. \A j, k \in D : all[j] = all[k] => j = k
    BY <1>10
  <2>4. IsFiniteSet(S)
    BY DEF IsListOf
  <2> HIDE DEF D
  <2>5. Cardinality(D) <= Cardinality(S)
    BY <2>2, <2>3, <2>4, Embedded
  <2> QED BY <2>1, <2>5
<1>12. HasEnds(c, groups, Cardinality(S), e)
  <2> HIDE DEF all, parts
  <2> QED BY <1>1, <1>2, <1>5, <1>6, <1>11 DEF HasEnds, lens, m
<1> QED BY <1>12

(***************************************************************************)
(* What is written for a level                                             *)
(***************************************************************************)
LevelGroupsOf(c, t, f, H, l) == LevelGroups(c, f, LevelNodes(t, f, H, l))
Number(c, t, f, H, l, X) == NodeId(LevelGroupsOf(c, t, f, H, l), f, LevelNodes(t, f, H, l), X)
GroupIn(c, t, f, H, l, X) == GroupOf(LevelGroupsOf(c, t, f, H, l), ActiveSlotsCount(f, X))
WrittenNode(c, t, f, stores, l, X) ==
  LET H == DOMAIN stores
      groups == LevelGroupsOf(c, t, f, H, l)
  IN  IF X \in DOMAIN f
      THEN SlotsNode(f, X, groups[GroupIn(c, t, f, H, l, X)],
                     LevelNodes(t, f, H, l + 2), LevelGroupsOf(c, t, f, H, l + 2))
      ELSE LeafNode(t, f, stores, X)

\* A node is found by its number, and nothing else is in the level.
LevelIs(c, t, f, stores, l, encoded) ==
  LET S == AtLevel(t, f, DOMAIN stores, l)
  IN  /\ \A X \in S :
           LET id == Number(c, t, f, DOMAIN stores, l, X)
           IN  /\ id \in 0 .. Cardinality(S) - 1 /\ HoldsNode(c, encoded, id)
               /\ GetNode(encoded, id) = WrittenNode(c, t, f, stores, l, X)
               /\ id + 1 \in DOMAIN encoded.nodes
      /\ \A i \in DOMAIN encoded.nodes :
           \E X \in S : encoded.nodes[i] = WrittenNode(c, t, f, stores, l, X)

\* A level is encoded so that each node is at its number.
LEMMA EncodedLevel ==
  ASSUME NEW c, IsConfig(c), NEW t, NEW f, NEW stores, Sound(t, f, DOMAIN stores), NEW l,
         Cardinality(AtLevel(t, f, DOMAIN stores, l)) <= c.nodeOnes
  PROVE  LevelIs(c, t, f, stores, l, Encoded(c, t, f, stores, l))
<1> DEFINE H == DOMAIN stores
           S == AtLevel(t, f, H, l)
           nodes == LevelNodes(t, f, H, l)
           groups == LevelGroupsOf(c, t, f, H, l)
           below == LevelNodes(t, f, H, l + 2)
           groupsBelow == LevelGroupsOf(c, t, f, H, l + 2)
           n == Cardinality(S)
           slots == SlotsOf(f, nodes)
           m == Len(groups)
           lens == [g \in 1 .. m |-> groups[g].count]
           W(X) == WrittenNode(c, t, f, stores, l, X)
           AllW == {W(X) : X \in S}
           written(g) == LET members == Members(groups, f, nodes, g)
                         IN  [i \in DOMAIN members |->
                                IF members[i] \in DOMAIN f
                                THEN SlotsNode(f, members[i], groups[g], below, groupsBelow)
                                ELSE LeafNode(t, f, stores, members[i])]
           parts == [g \in DOMAIN groups |-> written(g)]
           enc == Encoded(c, t, f, stores, l)
<1>1. IsListOf(nodes, S)
  BY LevelNodesFacts DEF Sound
<1>2. GroupsFit(c, slots, groups) /\ AreApart(groups) /\ slots \in [1 .. n -> SlotCounts]
  BY LevelGroupsFit DEF LevelGroupsOf
<1>3. enc = [counts |-> [g \in DOMAIN groups |-> groups[g].count], nodes |-> FlattenSeq(parts)]
  BY DEF Encoded, LevelGroupsOf
<1>4. /\ enc.counts = [g \in DOMAIN groups |-> groups[g].count] /\ enc.nodes = FlattenSeq(parts)
  BY <1>3
<1>5. \A X : X \in DOMAIN f => W(X) = SlotsNode(f, X, groups[GroupOf(groups, ActiveSlotsCount(f, X))], below, groupsBelow)
  BY DEF WrittenNode, GroupIn
<1>6. \A X : X \notin DOMAIN f => W(X) = LeafNode(t, f, stores, X)
  BY DEF WrittenNode
<1>7. \A X : Number(c, t, f, H, l, X) = NodeId(groups, f, nodes, X)
  BY DEF Number
<1>8. n <= c.nodeOnes /\ n \in Nat
  BY <1>1 DEF IsListOf
<1> HIDE DEF nodes, S, groups, W, enc, below, groupsBelow
<1>9. m \in Nat /\ DOMAIN groups = 1 .. m
  BY <1>2 DEF GroupsFit
<1>10. PICK e : HasEnds(c, groups, n, e)
  BY <1>1, <1>2, EndsFacts
<1>11. /\ lens \in [1 .. m -> 1 .. c.nodeOnes] /\ Sums(e, m, lens) /\ e[m] <= n
       /\ Placed(e, m, lens)
  BY <1>10 DEF HasEnds
<1>12. lens \in [1 .. m -> Nat] /\ c.nodeOnes \in Nat
  <2>1. 1 .. c.nodeOnes \subseteq Nat /\ c.nodeOnes \in Nat
    BY ConfigFacts
  <2> HIDE DEF lens, m
  <2> QED BY <1>11, <2>1
<1>13. ASSUME NEW g \in 1 .. m PROVE HasMembers(groups, f, nodes, S, g)
  BY <1>1, <1>2, <1>13, MembersFacts
<1>14. ASSUME NEW g \in 1 .. m
       PROVE  /\ written(g) \in Seq(AllW) /\ Len(written(g)) = groups[g].count
              /\ \A i \in 1 .. groups[g].count : written(g)[i] = W(Members(groups, f, nodes, g)[i])
  <2> DEFINE members == Members(groups, f, nodes, g)
             count == groups[g].count
  <2>1. /\ DOMAIN members = 1 .. count /\ count \in Nat /\ members \in Seq(S) /\ Len(members) = count
        /\ \A i \in 1 .. count : GroupOf(groups, ActiveSlotsCount(f, members[i])) = g
    BY <1>13 DEF HasMembers
  <2> HIDE DEF members, count
  <2>2. \A i \in 1 .. count : written(g)[i] = W(members[i])
    <3>1. \A i \in 1 .. count :
            written(g)[i] = IF members[i] \in DOMAIN f
                            THEN SlotsNode(f, members[i], groups[g], below, groupsBelow)
                            ELSE LeafNode(t, f, stores, members[i])
      BY <2>1 DEF members
    <3> HIDE DEF written
    <3> QED BY <1>5, <1>6, <2>1, <3>1
  <2>3. \A i \in 1 .. count : members[i] \in S
    BY <2>1
  <2>4. DOMAIN written(g) = 1 .. count /\ written(g) = [i \in 1 .. count |-> written(g)[i]]
    BY <2>1 DEF members
  <2> HIDE DEF written
  <2>5. written(g) \in [1 .. count -> AllW]
    BY <2>2, <2>3, <2>4
  <2> HIDE DEF AllW
  <2>6. written(g) \in Seq(AllW) /\ Len(written(g)) = count
    BY <2>1, <2>5
  <2> QED BY <2>2, <2>6 DEF members, count
<1>15. /\ parts \in [1 .. m -> Seq(AllW)] /\ \A g \in 1 .. m : lens[g] = Len(parts[g]) /\ lens[g] = groups[g].count
       /\ \A g \in 1 .. m : \A i \in 1 .. lens[g] : parts[g][i] = W(Members(groups, f, nodes, g)[i])
  <2>1. \A g \in 1 .. m : parts[g] = written(g) /\ lens[g] = groups[g].count
    BY <1>9
  <2>2. parts = [g \in 1 .. m |-> parts[g]]
    BY <1>9
  <2> HIDE DEF written, parts, lens, AllW
  <2> QED BY <1>14, <2>1, <2>2
<1> HIDE DEF parts
<1>16. FlatUpTo(enc.nodes, m, AllW, parts, e)
  <2> HIDE DEF lens, m, AllW
  <2>1. \A g \in 1 .. m : lens[g] = Len(parts[g])
    BY <1>15
  <2>2. FlatUpTo(FlattenSeq(parts), m, AllW, parts, e)
    BY <1>9, <1>11, <1>12, <1>15, <2>1, FlattenFacts
  <2> QED BY <1>4, <2>2
<1>17. enc.counts = lens /\ Len(enc.counts) = m /\ DOMAIN enc.counts = 1 .. m
  BY <1>4, <1>9
<1> HIDE DEF lens, m, AllW
<1>18. enc.nodes \in Seq(AllW) /\ Len(enc.nodes) = e[m] /\ e[m] \in Nat /\ DOMAIN enc.nodes = 1 .. e[m]
  BY <1>9, <1>11, <1>16 DEF FlatUpTo, Sums
<1>19. ASSUME NEW i \in DOMAIN enc.nodes PROVE \E X \in S : enc.nodes[i] = W(X)
  BY <1>18 DEF AllW
<1>20. ASSUME NEW X \in S
       PROVE  LET id == Number(c, t, f, H, l, X)
              IN  /\ id \in 0 .. n - 1 /\ HoldsNode(c, enc, id)
                  /\ GetNode(enc, id) = W(X) /\ id + 1 \in DOMAIN enc.nodes
  <2> DEFINE g == GroupOf(groups, ActiveSlotsCount(f, X))
             members == Members(groups, f, nodes, g)
             id == Number(c, t, f, H, l, X)
  <2>1. g \in 1 .. m
    <3>1. PICK k \in 1 .. n : nodes[k] = X
      BY <1>1, <1>20 DEF IsListOf
    <3>2. slots[k] = ActiveSlotsCount(f, X)
      BY <1>1, <3>1 DEF SlotsOf, IsListOf
    <3> HIDE DEF slots, n
    <3>3. GroupOf(groups, slots[k]) \in 1 .. Len(groups)
      BY <1>2, <1>8, GroupOfFacts
    <3> QED BY <3>2, <3>3 DEF m
  <2>2. HasMembers(groups, f, nodes, S, g)
    <3> HIDE DEF g
    <3> QED BY <1>13, <2>1
  <2>3. PICK i \in DOMAIN members : members[i] = X
    BY <1>20, <2>2 DEF HasMembers
  <2>4. PICK j : j = CHOOSE k \in DOMAIN members : members[k] = X
    OBVIOUS
  <2>5. j \in DOMAIN members /\ members[j] = X
    BY <2>3, <2>4
  <2>6. id = FirstId(groups, g) + j - 1
    BY <1>7, <2>4 DEF NodeId
  <2> HIDE DEF g, members, id
  <2>7. FirstId(groups, g) = e[g - 1]
    <3>1. \A h \in 1 .. m : lens[h] = groups[h].count
      BY <1>15
    <3>2. \A h \in 1 .. m : FirstId(groups, h) = e[h - 1]
      BY <1>9, <1>11, <1>12, <3>1, FirstIdFacts DEF m
    <3> QED BY <2>1, <3>2
  <2>8. j \in 1 .. lens[g] /\ j \in Nat /\ parts[g][j] = W(X) /\ lens[g] = Len(parts[g])
    <3>1. DOMAIN members = 1 .. groups[g].count
      BY <2>2 DEF HasMembers, members
    <3>2. lens[g] = groups[g].count /\ lens[g] = Len(parts[g]) /\ lens[g] \in Nat
      BY <1>12, <1>15, <2>1
    <3>3. j \in 1 .. lens[g]
      BY <2>5, <3>1, <3>2
    <3> QED BY <1>15, <2>1, <2>5, <3>2, <3>3 DEF members
  <2>9. e[g - 1] + j \in 1 .. e[m] /\ e[g - 1] \in Nat
    BY <1>11, <2>1, <2>8 DEF Placed
  <2>10. enc.nodes[e[g - 1] + j] = W(X)
    BY <1>16, <2>1, <2>8 DEF FlatUpTo
  <2>11. id + 1 = e[g - 1] + j /\ id \in Nat /\ id \in 0 .. e[m] - 1
    <3>1. PICK a : a = e[g - 1]
      OBVIOUS
    <3>2. PICK b : b = e[m]
      OBVIOUS
    <3>3. id = a + j - 1 /\ a \in Nat /\ j \in Nat /\ a + j \in 1 .. b /\ b \in Nat
      BY <1>18, <2>6, <2>7, <2>8, <2>9, <3>1, <3>2
    <3>4. id + 1 = a + j /\ id \in Nat /\ id \in 0 .. b - 1
      BY <3>3
    <3> QED BY <3>1, <3>2, <3>4
  <2>12. HoldsNode(c, enc, id)
    <3>1. id < Len(enc.nodes)
      BY <1>18, <2>11
    <3>2. Sums(e, m, enc.counts) /\ enc.counts \in [1 .. m -> 1 .. c.nodeOnes]
      BY <1>11, <1>17
    <3>3. e[m] <= c.nodeOnes
      <4> HIDE DEF n
      <4> QED BY <1>8, <1>11, <1>12, <1>18
    <3> QED BY <1>9, <1>17, <2>11, <3>1, <3>2, <3>3, HoldsFacts
  <2>13. id \in 0 .. n - 1
    <3> HIDE DEF n
    <3> QED BY <1>8, <1>11, <1>18, <2>11
  <2>14. GetNode(enc, id) = W(X) /\ id + 1 \in DOMAIN enc.nodes
    BY <1>18, <2>9, <2>10, <2>11 DEF GetNode
  <2> QED BY <2>12, <2>13, <2>14 DEF id
<1>21. LevelIs(c, t, f, stores, l, enc)
  <2> HIDE DEF n
  <2>1. Cardinality(AtLevel(t, f, H, l)) = n /\ AtLevel(t, f, H, l) = S /\ \A X : WrittenNode(c, t, f, stores, l, X) = W(X)
    BY DEF n, S, W
  <2> HIDE DEF H
  <2>2. H = DOMAIN stores
    BY DEF H
  <2> QED BY <1>19, <1>20, <2>1, <2>2 DEF LevelIs
<1> QED BY <1>21 DEF enc

\* The encoding of such a level does not fail.
LEMMA EncodeSucceeds ==
  ASSUME NEW c, IsConfig(c), NEW t, NEW f, NEW H, Sound(t, f, H), NEW l,
         Cardinality(AtLevel(t, f, H, l)) <= c.nodeOnes
  PROVE  ~ EncodePanics(c, f, LevelNodes(t, f, H, l))
<1> DEFINE S == AtLevel(t, f, H, l)
           nodes == LevelNodes(t, f, H, l)
           groups == LevelGroups(c, f, nodes)
           slots == SlotsOf(f, nodes)
           n == Cardinality(S)
<1>1. IsListOf(nodes, S)
  BY LevelNodesFacts DEF Sound
<1>2. GroupsFit(c, slots, groups) /\ AreApart(groups) /\ slots \in [1 .. n -> SlotCounts]
  BY LevelGroupsFit
<1>3. n <= c.nodeOnes /\ n \in Nat /\ c.nodeOnes \in Nat /\ Len(nodes) = n /\ DOMAIN nodes = 1 .. n
      /\ nodes \in Seq(S)
  BY <1>1, ConfigFacts DEF IsListOf
<1>4. EncodePanics(c, f, nodes) <=>
        \/ groups = <<>> /\ nodes # <<>>
        \/ \E g \in DOMAIN groups : Len(Members(groups, f, nodes, g)) > groups[g].count
        \/ Len(nodes) > c.nodeOnes + 1
  BY DEF EncodePanics
<1> HIDE DEF nodes, groups, S, n
<1>5. DOMAIN groups = 1 .. Len(groups)
  BY <1>2 DEF GroupsFit
<1>6. \A g \in DOMAIN groups : Len(Members(groups, f, nodes, g)) = groups[g].count /\ groups[g].count \in Nat
  <2>1. ASSUME NEW g \in 1 .. Len(groups) PROVE HasMembers(groups, f, nodes, S, g)
    BY <1>1, <1>2, <2>1, MembersFacts DEF n
  <2> QED BY <1>5, <2>1 DEF HasMembers
<1>7. groups = <<>> => nodes = <<>>
  <2>1. ASSUME groups = <<>>, NEW k \in DOMAIN slots PROVE FALSE
    BY <1>2, <2>1 DEF GroupsFit
  <2>2. groups = <<>> => n = 0
    <3>1. DOMAIN slots = 1 .. n
      BY <1>2
    <3>2. n # 0 => 1 \in 1 .. n
      BY <1>3
    <3> QED BY <2>1, <3>1, <3>2
  <2> QED BY <1>3, <2>2
<1>8. ~ (Len(nodes) > c.nodeOnes + 1)
  BY <1>3
<1>9. \A g \in DOMAIN groups : ~ (Len(Members(groups, f, nodes, g)) > groups[g].count)
  BY <1>6
<1> QED BY <1>4, <1>7, <1>8, <1>9 DEF nodes

(***************************************************************************)
(* From a node to the next                                                 *)
(***************************************************************************)
\* The slots of a node are nodes of the next level.
LEMMA ChildFacts ==
  ASSUME NEW t, NEW f, NEW H, Sound(t, f, H), NEW X \in DOMAIN f, NEW v \in {h[f[X]] : h \in X}
  PROVE  LET P == WithByte(X, f[X], v)
         IN  /\ P \in Nodes(f, H) /\ P \in Split(X, f[X])
             /\ Level(t, f, P) = Level(t, f, X) + 2
             /\ Cardinality(Above(f, P)) = Cardinality(Above(f, X)) + 1
             /\ Examined(f, P) = Examined(f, X) \cup {f[X]}
<1> DEFINE P == WithByte(X, f[X], v)
<1>0. IsTree(t, f, H) /\ t \in Nat
  BY DEF Sound
<1>1. P \in Split(X, f[X])
  BY DEF Split
<1> HIDE DEF P
<1>2. /\ P \in Nodes(f, H) /\ X \in Nodes(f, H)
      /\ Above(f, P) = Above(f, X) \cup {X} /\ X \notin Above(f, X)
      /\ Examined(f, P) = Examined(f, X) \cup {f[X]}
  BY <1>0, <1>1, SlotFacts
<1>3. IsFiniteSet(Above(f, X)) /\ Cardinality(Above(f, X)) \in Nat
  <2>1. 0 .. HashBytes \subseteq Nat
    BY ShallowTreeAssumption
  <2> QED BY <1>0, <1>2, <2>1, ExaminedFacts
<1>4. Cardinality(Above(f, P)) = Cardinality(Above(f, X)) + 1
  BY <1>2, <1>3, FS_AddElement
<1>5. Level(t, f, P) = Level(t, f, X) + 2
  <2>1. \A a, b \in Nat : t + 2 * (a + 1) = (t + 2 * a) + 2
    BY <1>0
  <2> QED BY <1>3, <1>4, <2>1 DEF Level
<1> QED BY <1>1, <1>2, <1>4, <1>5 DEF P

\* A slots node leads from each of its values to the number of the node in that slot, and
\* from other values nowhere, unless it has been padded.
LeadsOn(c, t, f, stores, l, X) ==
  LET node == WrittenNode(c, t, f, stores, l, X)
      values == {h[f[X]] : h \in X}
  IN  /\ node.kind = "slots" /\ node.byte = f[X]
      /\ \A v \in values : GetNextNode(c, node, v)
                           = Number(c, t, f, DOMAIN stores, l + 2, WithByte(X, f[X], v))
      /\ \A v : v \notin values =>
           \/ GetNextNode(c, node, v) = NoMatch
           \/ v = 0 /\ \E j \in DOMAIN node.pairs : j > 1 /\ node.pairs[j][1] = 0

\* A slots node leads on as LeadsOn says.
LEMMA NextFacts ==
  ASSUME NEW c, IsConfig(c), NEW t, NEW f, NEW stores, Sound(t, f, DOMAIN stores), NEW l,
         \A k : Cardinality(AtLevel(t, f, DOMAIN stores, k)) <= c.nodeOnes,
         NEW X \in DOMAIN f, X \in AtLevel(t, f, DOMAIN stores, l)
  PROVE  LeadsOn(c, t, f, stores, l, X)
<1> DEFINE H == DOMAIN stores
           S == AtLevel(t, f, H, l)
           nodes == LevelNodes(t, f, H, l)
           groups == LevelGroupsOf(c, t, f, H, l)
           g == GroupIn(c, t, f, H, l, X)
           group == groups[g]
           node == WrittenNode(c, t, f, stores, l, X)
           values == {h[f[X]] : h \in X}
           list == Ascending(values)
           count == Cardinality(values)
           Id(v) == Number(c, t, f, H, l + 2, WithByte(X, f[X], v))
           pairs == [i \in DOMAIN list |-> <<list[i], Id(list[i])>>]
<1>1. node = [kind |-> "slots", byte |-> f[X],
              pairs |-> IF group.format = "tiny" THEN PaddedTo(pairs, group.capacity, <<0, 0>>) ELSE pairs]
  BY DEF WrittenNode, SlotsNode, Number, LevelGroupsOf
<1>2. node.kind = "slots" /\ node.byte = f[X]
      /\ node.pairs = IF group.format = "tiny" THEN PaddedTo(pairs, group.capacity, <<0, 0>>) ELSE pairs
  BY <1>1
<1>3. /\ values \subseteq Nat /\ IsFiniteSet(values) /\ count = ActiveSlotsCount(f, X) /\ count \in SlotCounts
      /\ count # 0 /\ X \in Nodes(f, H)
  <2>1. IsTree(t, f, H) /\ IsFiniteSet(H) /\ H \subseteq Hash /\ X \in Nodes(f, H)
    BY NodeFacts DEF Sound, AtLevel
  <2> HIDE DEF H
  <2> QED BY <2>1, SlotCountFacts
<1>4. /\ DOMAIN list = 1 .. count
      /\ \A v \in values : \E i \in 1 .. count : list[i] = v
      /\ \A i \in 1 .. count : list[i] \in values
      /\ \A i, j \in 1 .. count : list[i] = list[j] => i = j
  <2> HIDE DEF values
  <2> QED BY <1>3, AscendingFacts
<1>5. count \in Nat /\ count > 1
  BY <1>3, ConfigFacts DEF SlotCounts
<1>6. group.format = "tiny" => group.capacity \in Nat /\ count <= group.capacity
  <2>1. IsListOf(nodes, S) /\ GroupsFit(c, SlotsOf(f, nodes), groups) /\ AreApart(groups)
        /\ SlotsOf(f, nodes) \in [1 .. Cardinality(S) -> SlotCounts]
    BY LevelNodesFacts, LevelGroupsFit DEF Sound, LevelGroupsOf
  <2>2. X \in S /\ g = GroupOf(groups, ActiveSlotsCount(f, X))
    BY DEF GroupIn
  <2> HIDE DEF nodes, S, groups, g
  <2>3. PICK k \in 1 .. Cardinality(S) : nodes[k] = X
    BY <2>1, <2>2 DEF IsListOf
  <2>4. SlotsOf(f, nodes)[k] = ActiveSlotsCount(f, X) /\ Cardinality(S) \in Nat
    BY <2>1, <2>3 DEF SlotsOf, IsListOf
  <2>5. g \in 1 .. Len(groups) /\ k \in Holding(SlotsOf(f, nodes), group.start, group.end)
    <3> DEFINE slots == SlotsOf(f, nodes)
               n == Cardinality(S)
    <3>1. GroupsFit(c, slots, groups) /\ slots \in [1 .. n -> SlotCounts] /\ n \in Nat
      BY <2>1, <2>4
    <3> HIDE DEF slots, n
    <3>2. k \in 1 .. n /\ g = GroupOf(groups, slots[k])
      BY <2>2, <2>4 DEF slots, n
    <3>3. g \in 1 .. Len(groups) /\ k \in Holding(slots, groups[g].start, groups[g].end)
      BY <2>1, <3>1, <3>2, GroupOfFacts
    <3> QED BY <3>3 DEF slots
  <2>6. GroupFits(c, SlotsOf(f, nodes), group)
    BY <2>1, <2>5 DEF GroupsFit
  <2>7. count \in group.start .. group.end
    BY <1>3, <2>4, <2>5 DEF Holding
  <2>8. group.end \in Nat /\ group.start \in Nat
    BY <2>6, ConfigFacts DEF GroupFits, GroupSet, SlotCounts
  <2> HIDE DEF group, count
  <2> QED BY <1>5, <2>6, <2>7, <2>8 DEF GroupFits
<1> HIDE DEF group, node, list, count
<1>7. /\ DOMAIN pairs = 1 .. count /\ Len(pairs) = count
      /\ \A i \in 1 .. count : pairs[i] = <<list[i], Id(list[i])>>
  BY <1>4, <1>5
<1> HIDE DEF pairs, Id
<1>8. \E last \in Nat : /\ count <= last /\ DOMAIN node.pairs = 1 .. last
                        /\ \A i \in 1 .. count : node.pairs[i] = <<list[i], Id(list[i])>>
                        /\ \A i \in 1 .. last : i > count => node.pairs[i] = <<0, 0>>
  <2>1. CASE group.format = "tiny"
    <3> DEFINE last == group.capacity
    <3>1. last \in Nat /\ count <= last
      BY <1>6, <2>1
    <3>2. node.pairs = [i \in 1 .. last |-> IF i <= count THEN pairs[i] ELSE <<0, 0>>]
      BY <1>2, <1>7, <2>1 DEF PaddedTo
    <3> HIDE DEF last
    <3>3. \A i \in 1 .. count : i \in 1 .. last /\ i <= count
      BY <1>5, <3>1
    <3>4. \A i \in 1 .. count : node.pairs[i] = pairs[i]
      BY <3>2, <3>3
    <3>5. \A i \in 1 .. last : i > count => node.pairs[i] = <<0, 0>>
      <4>1. \A i \in 1 .. last : i > count => ~ (i <= count)
        BY <1>5
      <4> QED BY <3>2, <4>1
    <3> QED BY <1>7, <3>1, <3>2, <3>4, <3>5
  <2>2. CASE group.format # "tiny"
    <3>1. node.pairs = pairs
      BY <1>2, <2>2
    <3>2. \A i \in 1 .. count : ~ (i > count)
      BY <1>5
    <3> QED BY <1>5, <1>7, <3>1, <3>2
  <2> QED BY <2>1, <2>2
<1>9. PICK last \in Nat : /\ count <= last /\ DOMAIN node.pairs = 1 .. last
                          /\ \A i \in 1 .. count : node.pairs[i] = <<list[i], Id(list[i])>>
                          /\ \A i \in 1 .. last : i > count => node.pairs[i] = <<0, 0>>
  BY <1>8
<1>10. ASSUME NEW v
       PROVE  LET at == {i \in 1 .. last : node.pairs[i][1] = v}
              IN  GetNextNode(c, node, v) = IF at = {} THEN NoMatch ELSE ReadID16(c, node.pairs[Min(at)][2])
  BY <1>9 DEF GetNextNode
<1>11. \A i \in 1 .. count : i \in 1 .. last /\ node.pairs[i][1] = list[i] /\ node.pairs[i][2] = Id(list[i])
  BY <1>5, <1>9
<1>12. ASSUME NEW v \in values PROVE GetNextNode(c, node, v) = Id(v)
  <2> DEFINE at == {i \in 1 .. last : node.pairs[i][1] = v}
  <2>1. PICK i \in 1 .. count : list[i] = v
    BY <1>4
  <2>2. i \in at /\ at \subseteq Nat
    BY <1>11, <2>1
  <2>3. Min(at) \in at /\ Min(at) <= i
    <3> HIDE DEF at
    <3> QED BY <2>2, MinFacts
  <2>4. Min(at) = i
    <3>1. Min(at) \in 1 .. count
      <4> HIDE DEF at
      <4>1. Min(at) \in 1 .. last
        BY <2>3 DEF at
      <4> QED BY <1>5, <2>1, <2>3, <4>1
    <3>2. list[Min(at)] = v
      BY <1>11, <2>3, <3>1
    <3> HIDE DEF at
    <3> QED BY <1>4, <2>1, <3>1, <3>2
  <2>5. GetNextNode(c, node, v) = ReadID16(c, node.pairs[Min(at)][2])
    BY <1>10, <2>2
  <2>6. GetNextNode(c, node, v) = ReadID16(c, Id(v))
    BY <1>11, <2>1, <2>4, <2>5
  <2>7. Id(v) # c.nodeOnes
    <3> DEFINE P == WithByte(X, f[X], v)
    <3>1. P \in Nodes(f, H) /\ Level(t, f, P) = Level(t, f, X) + 2
      BY ChildFacts
    <3>2. Level(t, f, X) = l
      BY DEF AtLevel
    <3> HIDE DEF P
    <3>3. P \in AtLevel(t, f, H, l + 2)
      BY <3>1, <3>2 DEF AtLevel
    <3>4. Cardinality(AtLevel(t, f, H, l + 2)) <= c.nodeOnes
      OBVIOUS
    <3>5. LevelIs(c, t, f, stores, l + 2, Encoded(c, t, f, stores, l + 2))
      BY <3>4, EncodedLevel
    <3>6. Number(c, t, f, H, l + 2, P) \in 0 .. Cardinality(AtLevel(t, f, H, l + 2)) - 1
      BY <3>3, <3>5 DEF LevelIs
    <3>7. IsListOf(LevelNodes(t, f, H, l + 2), AtLevel(t, f, H, l + 2))
      BY LevelNodesFacts DEF Sound
    <3>8. Cardinality(AtLevel(t, f, H, l + 2)) \in Nat /\ c.nodeOnes \in Nat
      BY <3>7, ConfigFacts DEF IsListOf
    <3>9. Number(c, t, f, H, l + 2, P) # c.nodeOnes
      <4>1. \A a, b \in Nat : a <= b => \A x \in 0 .. a - 1 : x # b
        OBVIOUS
      <4> QED BY <3>4, <3>6, <3>8, <4>1
    <3> QED BY <3>9 DEF Id, P
  <2> QED BY <2>6, <2>7 DEF ReadID16
<1>13. ASSUME NEW v, v \notin values
       PROVE  \/ GetNextNode(c, node, v) = NoMatch
              \/ v = 0 /\ \E j \in DOMAIN node.pairs : j > 1 /\ node.pairs[j][1] = 0
  <2> DEFINE at == {i \in 1 .. last : node.pairs[i][1] = v}
  <2>1. CASE at = {}
    BY <1>10, <2>1
  <2>2. CASE at # {}
    <3>1. PICK i \in 1 .. last : node.pairs[i][1] = v
      BY <2>2
    <3>2. i \notin 1 .. count
      BY <1>4, <1>11, <1>13, <3>1
    <3>3. i > count /\ i > 1
      BY <1>5, <3>2
    <3>4. node.pairs[i] = <<0, 0>>
      BY <1>9, <3>3
    <3>5. v = 0 /\ node.pairs[i][1] = 0
      BY <3>1, <3>4
    <3> QED BY <1>9, <3>3, <3>5
  <2> QED BY <2>1, <2>2
<1>14. \A v \in values : GetNextNode(c, node, v) = Number(c, t, f, H, l + 2, WithByte(X, f[X], v))
  BY <1>12 DEF Id
<1> HIDE DEF values
<1>15. /\ node = WrittenNode(c, t, f, stores, l, X) /\ values = {h[f[X]] : h \in X} /\ H = DOMAIN stores
  BY DEF node, values
<1> HIDE DEF H
<1> QED BY <1>2, <1>13, <1>14, <1>15 DEF LeadsOn

================================================================================
