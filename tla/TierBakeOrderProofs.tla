------------------------- MODULE TierBakeOrderProofs -------------------------
(***************************************************************************)
(* What is proved of a bake: it ends with the donut that would have been   *)
(* made directly, and it breaks off for two reasons only.                  *)
(***************************************************************************)
EXTENDS TierBakeProofs

(***************************************************************************)
(* Prefix indices                                                          *)
(***************************************************************************)
\* The index of the nibbles of a number is the number.
LEMMA IndexOfNibbles ==
  ASSUME NEW n \in Nat, NEW p \in 0 .. Power[n] - 1
  PROVE  PrefixIndex(PrefixNibbles(p, n)) = p
<1> DEFINE s == PrefixNibbles(p, n)
           step(g) == [i \in 0 .. n |-> IF i = 0 THEN 0 ELSE NibbleBase * g[i - 1] + s[i]]
           f == [i \in 0 .. n |-> p \div Power[n - i]]
           g == CHOOSE x : x = step(x)
<1>1. /\ NibbleBase \in Nat \ {0} /\ Power[n] \in Nat \ {0} /\ p \in Nat /\ p < Power[n]
      /\ s \in Strings(n) /\ s \in Seq(Nibble) /\ Len(s) = n
  <2>1. NibbleBase \in Nat \ {0} /\ Power[n] \in Nat \ {0}
    BY TierBakeAssumption, PowerFacts
  <2>2. p \in Nat /\ p < Power[n]
    BY <2>1
  <2>3. s \in Strings(n)
    BY <2>2, PrefixType
  <2> QED BY <2>1, <2>2, <2>3, StringSeq
<1>2. PrefixIndex(s) = g[n]
  <2> HIDE DEF s
  <2>1. Len(s) = n
    BY <1>1
  <2> QED BY <2>1 DEF PrefixIndex
<1>3. f = step(f)
  <2>1. f[0] = 0
    <3>1. p \div Power[n] = 0
      BY <1>1
    <3> QED BY <3>1
  <2>2. ASSUME NEW i \in 1 .. n PROVE f[i] = NibbleBase * f[i - 1] + s[i]
    <3> DEFINE b == Power[n - i]
               a == p \div b
    <3>1. b \in Nat \ {0} /\ Power[n - (i - 1)] = b * NibbleBase
      <4>1. n - i \in Nat /\ n - (i - 1) = (n - i) + 1
        OBVIOUS
      <4>2. Power[n - i] \in Nat \ {0} /\ Power[(n - i) + 1] = NibbleBase * Power[n - i]
        BY <4>1, PowerFacts
      <4> QED BY <1>1, <4>1, <4>2
    <3>2. f[i] = a /\ s[i] = a % NibbleBase
      BY DEF PrefixNibbles
    <3>3. f[i - 1] = p \div (b * NibbleBase)
      <4>1. i - 1 \in 0 .. n
        OBVIOUS
      <4> QED BY <3>1, <4>1
    <3> HIDE DEF b, f, s
    <3>4. p \div (b * NibbleBase) = a \div NibbleBase
      BY <1>1, <3>1, DividedTwice
    <3>5. a \in Nat
      BY <1>1, <3>1, Divided
    <3> HIDE DEF a
    <3>6. a = NibbleBase * (a \div NibbleBase) + (a % NibbleBase)
      BY <1>1, <3>5, Divided
    <3> QED BY <3>2, <3>3, <3>4, <3>6
  <2>3. \A i \in 0 .. n : f[i] = IF i = 0 THEN 0 ELSE NibbleBase * f[i - 1] + s[i]
    <3> HIDE DEF f, s
    <3> QED BY <2>1, <2>2
  <2>4. f = [i \in 0 .. n |-> f[i]]
    OBVIOUS
  <2> HIDE DEF f, s
  <2> QED BY <2>3, <2>4
<1>4. g = step(g)
  <2> HIDE DEF step, f
  <2> QED BY <1>3
<1> DEFINE same == {i \in Nat : i <= n => g[i] = f[i]}
<1>5. Nat \subseteq same
  <2> HIDE DEF g, f, s
  <2>1. 0 \in same
    BY <1>3, <1>4
  <2>2. ASSUME NEW i \in Nat, i \in same PROVE i + 1 \in same
    <3> SUFFICES ASSUME i + 1 <= n PROVE g[i + 1] = f[i + 1]
      OBVIOUS
    <3>1. i + 1 \in 0 .. n /\ i + 1 # 0 /\ (i + 1) - 1 = i /\ g[i] = f[i]
      BY <2>2
    <3>2. g[i + 1] = NibbleBase * g[i] + s[i + 1]
      BY <1>4, <3>1
    <3>3. f[i + 1] = NibbleBase * f[i] + s[i + 1]
      BY <1>3, <3>1
    <3> QED BY <3>1, <3>2, <3>3
  <2> HIDE DEF same
  <2> QED BY <2>1, <2>2, Induction
<1>6. f[n] = p
  <2>1. n \in 0 .. n /\ n - n = 0 /\ Power[0] = 1
    BY PowerFacts
  <2>2. f[n] = p \div 1
    BY <2>1
  <2> QED BY <1>1, <2>2
<1>7. g[n] = f[n]
  <2> HIDE DEF g, f
  <2> QED BY <1>5
<1> QED BY <1>2, <1>6, <1>7

\* The index of a string of nibbles has those nibbles, and grows with each further one.
LEMMA IndexOfString ==
  ASSUME NEW n \in Nat, NEW s \in Strings(n)
  PROVE  /\ PrefixIndex(s) \in 0 .. Power[n] - 1 /\ PrefixIndex(s) \in Nat
         /\ PrefixNibbles(PrefixIndex(s), n) = s
<1>1. PICK p \in 0 .. Power[n] - 1 : s = PrefixNibbles(p, n)
  BY PrefixOnto
<1>2. PrefixIndex(s) = p
  BY <1>1, IndexOfNibbles
<1>3. Power[n] \in Nat
  BY PowerFacts
<1> QED BY <1>1, <1>2, <1>3

LEMMA IndexOfLonger ==
  ASSUME NEW n \in Nat, NEW s \in Strings(n), NEW m \in Nibble
  PROVE  PrefixIndex(Append(s, m)) = NibbleBase * PrefixIndex(s) + m
<1> DEFINE p == PrefixIndex(s)
           v == NibbleBase * p + m
           q == Append(s, m)
<1>1. p \in Nat /\ p < Power[n] /\ PrefixNibbles(p, n) = s /\ Power[n] \in Nat
  BY IndexOfString, PowerFacts
<1>2. NibbleBase \in Nat \ {0} /\ m \in 0 .. NibbleBase - 1
  BY TierBakeAssumption DEF Nibble
<1>3. Power[n + 1] = NibbleBase * Power[n]
  BY PowerFacts
<1> HIDE DEF p
<1>4. v \in Nat /\ v < NibbleBase * Power[n] /\ v \div NibbleBase = p /\ v % NibbleBase = m
  BY <1>1, <1>2, BelowProduct, DividedBack
<1> HIDE DEF v
<1>5. v \in 0 .. Power[n + 1] - 1
  <2>1. NibbleBase * Power[n] \in Nat
    BY <1>1, <1>2
  <2> QED BY <1>3, <1>4, <2>1
<1>6. PrefixNibbles(v, n + 1) = q
  <2>1. /\ PrefixNibbles(v, n + 1) \in Strings(n + 1) /\ PrefixNibbles(v, n + 1)[n + 1] = m
        /\ \A i \in 1 .. n : PrefixNibbles(v, n + 1)[i] = s[i]
    BY <1>1, <1>4, PrefixSplit
  <2>2. q \in Strings(n + 1) /\ q[n + 1] = m /\ \A i \in 1 .. n : q[i] = s[i]
    BY AppendString
  <2> DEFINE r == PrefixNibbles(v, n + 1)
  <2> HIDE DEF r, q
  <2>3. \A i \in 1 .. n + 1 : r[i] = q[i]
    <3> TAKE i \in 1 .. n + 1
    <3>1. i = n + 1 \/ i \in 1 .. n
      OBVIOUS
    <3> QED BY <2>1, <2>2, <3>1 DEF r
  <2>4. r = q
    BY <2>1, <2>2, <2>3 DEF Strings, r
  <2> QED BY <2>4 DEF r
<1>7. PrefixIndex(q) = v
  <2>1. n + 1 \in Nat
    OBVIOUS
  <2> QED BY <1>5, <1>6, <2>1, IndexOfNibbles
<1> QED BY <1>7 DEF v, p

(***************************************************************************)
(* Ascending sequences of indices                                          *)
(***************************************************************************)
Ascends(f, c) == f \in [1 .. c -> Nat] /\ \A i, j \in 1 .. c : i < j => f[i] < f[j]

LEMMA AscendingCount ==
  ASSUME NEW c \in Nat, NEW f, Ascends(f, c), NEW m \in 0 .. c
  PROVE  Cardinality({f[i] : i \in 1 .. m}) = m
<1> DEFINE T == {f[i] : i \in 1 .. m}
           g == [i \in 1 .. m |-> f[i]]
<1>1. f \in [1 .. c -> Nat] /\ \A i, j \in 1 .. c : i < j => f[i] < f[j]
  BY DEF Ascends
<1>2. \A i, j \in 1 .. m : f[i] = f[j] => i = j
  <2> TAKE i, j \in 1 .. m
  <2>1. i \in 1 .. c /\ j \in 1 .. c /\ f[i] \in Nat /\ f[j] \in Nat
    BY <1>1
  <2> QED BY <1>1, <2>1
<1>3. g \in [1 .. m -> T] /\ \A i \in 1 .. m : g[i] = f[i]
  OBVIOUS
<1>4. g \in Bijection(1 .. m, T)
  <2>1. \A i, j \in 1 .. m : g[i] = g[j] => i = j
    BY <1>2
  <2>2. \A y \in T : \E i \in 1 .. m : g[i] = y
    OBVIOUS
  <2> HIDE DEF g, T
  <2> QED BY <1>3, <2>1, <2>2 DEF Bijection, Injection, Surjection, IsInjective
<1>5. ExistsBijection(1 .. m, T)
  BY <1>4 DEF ExistsBijection
<1>6. IsFiniteSet(1 .. m) /\ Cardinality(1 .. m) = m
  BY FS_Interval
<1> HIDE DEF T
<1>7. IsFiniteSet(T) /\ Cardinality(T) = m
  BY <1>5, <1>6, FS_Bijection
<1> QED BY <1>7 DEF T

Places(f, c) == {f[i] : i \in 1 .. c}
UpTo(T, i) == Cardinality({j \in T : j <= i})
Below(T, i) == Cardinality({j \in T : j < i})

\* The number at a place has that many numbers up to it.
LEMMA AscendingRank ==
  ASSUME NEW c \in Nat, NEW f, Ascends(f, c), NEW m \in 1 .. c
  PROVE  UpTo(Places(f, c), f[m]) = m /\ Below(Places(f, c), f[m]) = m - 1
<1> DEFINE T == Places(f, c)
<1>1. f \in [1 .. c -> Nat] /\ \A i, j \in 1 .. c : i < j => f[i] < f[j]
  BY DEF Ascends
<1>2. ASSUME NEW i \in 1 .. c
      PROVE  (f[i] <= f[m] <=> i <= m) /\ (f[i] < f[m] <=> i < m)
  <2>1. f[i] \in Nat /\ f[m] \in Nat /\ (i < m => f[i] < f[m]) /\ (m < i => f[m] < f[i])
    BY <1>1
  <2>2. i < m \/ i = m \/ m < i
    OBVIOUS
  <2> QED BY <2>1, <2>2
<1>3. {j \in T : j <= f[m]} = {f[i] : i \in 1 .. m}
  <2>1. \A i : i \in 1 .. m <=> i \in 1 .. c /\ i <= m
    OBVIOUS
  <2> QED BY <1>2, <2>1 DEF Places
<1>4. {j \in T : j < f[m]} = {f[i] : i \in 1 .. m - 1}
  <2>1. \A i : i \in 1 .. m - 1 <=> i \in 1 .. c /\ i < m
    OBVIOUS
  <2> QED BY <1>2, <2>1 DEF Places
<1>5. m \in 0 .. c /\ m - 1 \in 0 .. c
  OBVIOUS
<1>6. Cardinality({f[i] : i \in 1 .. m}) = m
  BY <1>5, AscendingCount
<1>7. Cardinality({f[i] : i \in 1 .. m - 1}) = m - 1
  BY <1>5, AscendingCount
<1> QED BY <1>3, <1>4, <1>6, <1>7 DEF UpTo, Below

\* WithPrefix is ascending, and there is only one ascending sequence of the same numbers.
LEMMA WithPrefixAscends ==
  ASSUME NEW list, Len(list) \in Nat, NEW p
  PROVE  LET w == WithPrefix(list, p) IN Ascends(w, Len(w))
<1> DEFINE T == Own(list, p)
           upTo(i) == {j \in T : j <= i}
           c == Cardinality(T)
           w == WithPrefix(list, p)
<1>1. T \in SUBSET (1 .. Len(list))
  BY DEF Own
<1> HIDE DEF T
<1>2. c \in Nat /\ \A m \in 1 .. c : \E i \in T : Cardinality(upTo(i)) = m
  BY <1>1, Enumerated
<1>3. w = [n \in 1 .. c |-> CHOOSE i \in T : Cardinality(upTo(i)) = n]
  BY DEF WithPrefix, T
<1> HIDE DEF w
<1>4. \A n \in 1 .. c : w[n] \in T /\ Cardinality(upTo(w[n])) = n
  <2> HIDE DEF c, upTo
  <2> QED BY <1>2, <1>3
<1>5. DOMAIN w = 1 .. c /\ Len(w) = c
  BY <1>2, <1>3
<1>6. T \subseteq Nat
  BY <1>1
<1>7. w \in [1 .. c -> Nat]
  <2> HIDE DEF c, upTo
  <2>1. \A n \in 1 .. c : w[n] \in Nat
    BY <1>4, <1>6
  <2> QED BY <1>3, <2>1
<1>8. ASSUME NEW m \in 1 .. c, NEW n \in 1 .. c, m < n, ~ (w[m] < w[n])
      PROVE  FALSE
  <2>1. w[m] \in Nat /\ w[n] \in Nat /\ w[n] <= w[m]
    BY <1>7, <1>8
  <2>2. upTo(w[n]) \subseteq upTo(w[m])
    <3>1. \A j \in T : j <= w[n] => j <= w[m]
      <4> TAKE j \in T
      <4>1. j \in Nat
        BY <1>6
      <4> QED BY <2>1, <4>1
    <3> QED BY <3>1
  <2>3. IsFiniteSet(1 .. Len(list)) /\ upTo(w[m]) \subseteq 1 .. Len(list)
    <3>1. IsFiniteSet(1 .. Len(list))
      BY FS_Interval
    <3> QED BY <1>1, <3>1
  <2>4. IsFiniteSet(upTo(w[m]))
    BY <2>3, FS_Subset
  <2>5. Cardinality(upTo(w[n])) <= Cardinality(upTo(w[m]))
    <3> HIDE DEF upTo
    <3> QED BY <2>2, <2>4, FS_Subset
  <2>6. Cardinality(upTo(w[n])) = n /\ Cardinality(upTo(w[m])) = m
    BY <1>4
  <2> HIDE DEF upTo
  <2> QED BY <1>2, <1>8, <2>5, <2>6
<1>9. Ascends(w, Len(w))
  BY <1>5, <1>7, <1>8 DEF Ascends
<1> QED BY <1>9 DEF w

LEMMA WithPrefixIs ==
  ASSUME NEW list, Len(list) \in Nat, NEW p, NEW c \in Nat, NEW f, Ascends(f, c),
         Own(list, p) = Places(f, c)
  PROVE  WithPrefix(list, p) = f
<1> DEFINE T == Own(list, p)
           w == WithPrefix(list, p)
<1>1. T \in SUBSET (1 .. Len(list))
  BY DEF Own
<1> HIDE DEF T
<1>2. \A i, k \in T : UpTo(T, i) = UpTo(T, k) => i = k
  BY <1>1, Enumerated DEF UpTo
<1>3. w = [n \in 1 .. Cardinality(T) |-> CHOOSE i \in T : UpTo(T, i) = n]
  BY DEF WithPrefix, UpTo, T
<1>4. Cardinality(T) = c /\ \A n \in 1 .. c : UpTo(T, f[n]) = n /\ f[n] \in T
  <2>1. T = Places(f, c)
    BY DEF T
  <2>2. \A n \in 1 .. c : UpTo(T, f[n]) = n
    BY <2>1, AscendingRank
  <2>3. Cardinality({f[i] : i \in 1 .. c}) = c
    <3>1. c \in 0 .. c
      OBVIOUS
    <3> QED BY <3>1, AscendingCount
  <2> QED BY <2>1, <2>2, <2>3 DEF Places
<1>5. f = [n \in 1 .. c |-> f[n]]
  BY DEF Ascends
<1> HIDE DEF w
<1>6. \A n \in 1 .. c : w[n] = f[n]
  BY <1>2, <1>3, <1>4
<1>7. w = [n \in 1 .. c |-> w[n]]
  BY <1>3, <1>4
<1> QED BY <1>5, <1>6, <1>7 DEF w

(***************************************************************************)
(* The hashes of a donut, and how a bake starts                            *)
(***************************************************************************)
LEMMA OffsetsAre ==
  ASSUME OffsetsFit, NEW k \in 1 .. Donuts
  PROVE  offsets[k] \in Nat /\ NewOffset <= offsets[k]
BY DEF OffsetsFit

\* The spans of the donuts do not overlap.
LEMMA OneSpan ==
  ASSUME OffsetsFit, IndicesFit, NEW k \in 1 .. Donuts, NEW l \in 1 .. Donuts,
         NEW i \in 0 .. DonutSize[tier] - 1, NEW j \in 0 .. DonutSize[tier] - 1,
         i + offsets[k] = j + offsets[l]
  PROVE  k = l /\ i = j
<1> DEFINE size == DonutSize[tier]
<1>1. /\ offsets[k] \in Nat /\ offsets[l] \in Nat /\ size \in Nat
      /\ (k < l => offsets[k] + size <= offsets[l]) /\ (l < k => offsets[l] + size <= offsets[k])
  BY OffsetsAre, StateFacts DEF IndicesFit
<1>2. k < l \/ l < k \/ k = l
  BY StateFacts
<1> HIDE DEF size
<1>3. i \in Nat /\ j \in Nat /\ i < size /\ j < size
  BY <1>1 DEF size
<1> QED BY <1>1, <1>2, <1>3

LEMMA ListingIs ==
  ASSUME OffsetsFit, IndicesFit, NEW k \in 1 .. Donuts
  PROVE  /\ Listing(k) \in Seq(Hash \cup {NoHash}) /\ Len(Listing(k)) = DonutSize[tier]
         /\ NoHash \notin DOMAIN presented
         /\ \A i \in 1 .. DonutSize[tier] :
              /\ Listing(k)[i] # NoHash =>
                   /\ Listing(k)[i] \in DOMAIN presented
                   /\ presented[Listing(k)[i]] = (i - 1) + offsets[k]
              /\ \A h \in DOMAIN presented :
                   presented[h] = (i - 1) + offsets[k] => Listing(k)[i] = h
<1> DEFINE size == DonutSize[tier]
           l == Listing(k)
           here(i) == {h \in DOMAIN presented : presented[h] = offsets[k] + i - 1}
<1>1. size \in Nat /\ offsets[k] \in Nat
  BY OffsetsAre, StateFacts
<1>2. DOMAIN presented \subseteq Hash /\ NoHash \notin Hash
  BY DecksAssumption DEF IndicesFit
<1>3. l = [i \in 1 .. size |-> IF here(i) = {} THEN NoHash ELSE CHOOSE h \in here(i) : TRUE]
  BY DEF Listing
<1> HIDE DEF l, size
<1>4. \A i \in 1 .. size : l[i] = NoHash \/ l[i] \in here(i)
  <2> HIDE DEF here
  <2> QED BY <1>3
<1>5. \A i \in 1 .. size : here(i) # {} => l[i] \in here(i)
  <2> HIDE DEF here
  <2> QED BY <1>3
<1>6. \A i \in 1 .. size : offsets[k] + i - 1 = (i - 1) + offsets[k]
  BY <1>1
<1>7. \A i \in 1 .. size : l[i] \in Hash \cup {NoHash}
  BY <1>2, <1>4
<1>8. l \in [1 .. size -> Hash \cup {NoHash}]
  <2> HIDE DEF here
  <2> QED BY <1>3, <1>7
<1>9. l \in Seq(Hash \cup {NoHash}) /\ Len(l) = size
  BY <1>1, <1>8
<1>10. ASSUME NEW i \in 1 .. size, NEW h \in DOMAIN presented, presented[h] = (i - 1) + offsets[k]
       PROVE  l[i] = h
  <2>1. h \in here(i)
    BY <1>6, <1>10
  <2>2. l[i] \in here(i)
    BY <1>5, <2>1
  <2>3. l[i] \in DOMAIN presented /\ presented[l[i]] = presented[h]
    BY <2>1, <2>2
  <2> QED BY <2>3 DEF IndicesFit
<1>11. \A i \in 1 .. size : l[i] # NoHash =>
         l[i] \in DOMAIN presented /\ presented[l[i]] = (i - 1) + offsets[k]
  BY <1>4, <1>6
<1> QED BY <1>2, <1>9, <1>10, <1>11 DEF l, size

\* What was presented are the hashes of the deck.
LEMMA InitIs ==
  ASSUME Init
  PROVE  \E deck \in Decks, hole \in Holes, after \in 1 .. Donuts - 1 :
           LET size == DonutSize[tier]
               list(k) == ListOf(deck, k, size)
           IN  /\ \A k \in 1 .. Donuts :
                    /\ offsets[k] = TierOffset + (k - 1) * size + IF k > after THEN hole ELSE 0
                    /\ sources[k] = [order |-> OrderOf(list(k), tier), files |-> FilesOf(list(k), tier)]
                    /\ list(k)[1] # NoHash
                    /\ \A i \in 1 .. size : list(k)[i] # NoHash =>
                         /\ list(k)[i] \in DOMAIN presented
                         /\ presented[list(k)[i]] = (i - 1) + offsets[k]
               /\ \A h \in DOMAIN presented : \E k \in 1 .. Donuts : \E i \in 1 .. size :
                    h = list(k)[i] /\ h # NoHash /\ h \in Hash /\ presented[h] = (i - 1) + offsets[k]
<1>1. PICK deck \in Decks, hole \in Holes, after \in 1 .. Donuts - 1 :
       LET size == DonutSize[tier]
           offset(k) == TierOffset + (k - 1) * size + IF k > after THEN hole ELSE 0
       IN  /\ \A k \in 1 .. Donuts : deck[(k - 1) * size + 1] # NoHash
           /\ offsets = [k \in 1 .. Donuts |-> offset(k)]
           /\ sources = [k \in 1 .. Donuts |->
                [order |-> OrderOf(ListOf(deck, k, size), tier),
                 files |-> FilesOf(ListOf(deck, k, size), tier)]]
           /\ presented = [h \in {deck[i] : i \in 1 .. Donuts * size} \ {NoHash} |->
                LET i == CHOOSE j \in 1 .. Donuts * size : deck[j] = h
                    k == (i - 1) \div size + 1
                IN  offset(k) + i - 1 - (k - 1) * size]
  BY DEF Init
<1> DEFINE size == DonutSize[tier]
           list(k) == ListOf(deck, k, size)
<1>2. NothingLost
  BY InitLosesNothing
<1>3. OffsetsFit /\ EntriesPreserved /\ tier \in Tiers /\ tier \in Nat /\ size \in Nat \ {0}
      /\ Donuts \in Nat \ {0}
  BY <1>2, StateFacts DEF NothingLost
<1>4. ASSUME NEW k \in 1 .. Donuts
      PROVE  /\ offsets[k] = TierOffset + (k - 1) * size + IF k > after THEN hole ELSE 0
             /\ sources[k] = [order |-> OrderOf(list(k), tier), files |-> FilesOf(list(k), tier)]
             /\ deck[(k - 1) * size + 1] # NoHash
  <2> HIDE DEF size
  <2> QED BY <1>1 DEF size
<1>5. ASSUME NEW k \in 1 .. Donuts
      PROVE  /\ list(k) \in Seq(Hash \cup {NoHash}) /\ Len(list(k)) = size
             /\ \A i \in 1 .. size : list(k)[i] \in Hash \cup {NoHash}
             /\ \A i \in 1 .. size : list(k)[i] = deck[(k - 1) * size + i]
  <2>1. /\ list(k) \in Seq(Hash \cup {NoHash}) /\ Len(list(k)) = size
        /\ \A i \in 1 .. size : list(k)[i] = deck[(k - 1) * size + i]
    BY <1>3, Dealt
  <2> DEFINE l == list(k)
  <2> HIDE DEF list, size
  <2>2. l \in [1 .. size -> Hash \cup {NoHash}]
    <3> HIDE DEF l
    <3>1. l \in [1 .. Len(l) -> Hash \cup {NoHash}]
      BY <2>1, LenProperties DEF l
    <3> QED BY <2>1, <3>1 DEF l
  <2> QED BY <2>1, <2>2
<1>6. ASSUME NEW k \in 1 .. Donuts
      PROVE  Stored(sources[k], tier, offsets[k]) =
               {<<list(k)[i], i - 1 + offsets[k]>> : i \in {j \in 1 .. size : list(k)[j] # NoHash}}
  <2> DEFINE d == sources[k]
             l == list(k)
  <2>1. d = [order |-> d.order, files |-> d.files] /\ d.files = FilesOf(l, tier)
    <3>1. d = [order |-> OrderOf(l, tier), files |-> FilesOf(l, tier)]
      BY <1>4
    <3> HIDE DEF d, l
    <3> QED BY <3>1
  <2>2. l \in Seq(Hash \cup {NoHash}) /\ Len(l) = size
    BY <1>5
  <2>3. offsets[k] \in Int /\ Len(l) <= DonutSize[tier]
    BY <1>3, <2>2, OffsetsAre
  <2> HIDE DEF d, l
  <2>4. Stored(d, tier, offsets[k]) =
          {<<l[i], i - 1 + offsets[k]>> : i \in {j \in 1 .. Len(l) : l[j] # NoHash}}
    BY <1>3, <2>1, <2>2, <2>3, StoredMade
  <2> QED BY <2>2, <2>4 DEF d, l
<1>7. Stored(new, tier + 1, NewOffset) = {}
  <2>1. new = NewDonut /\ tier + 1 \in Nat
    BY <1>3 DEF Init
  <2> QED BY <2>1, NewDonutStores
<1>8. (UNION {Stored(sources[k], tier, offsets[k]) : k \in 1 .. Donuts})
         = {<<h, presented[h]>> : h \in DOMAIN presented}
  BY <1>3, <1>7 DEF EntriesPreserved
<1>9. ASSUME NEW k \in 1 .. Donuts, NEW i \in 1 .. size, list(k)[i] # NoHash
      PROVE  list(k)[i] \in DOMAIN presented /\ presented[list(k)[i]] = (i - 1) + offsets[k]
  <2>1. <<list(k)[i], i - 1 + offsets[k]>> \in Stored(sources[k], tier, offsets[k])
    <3> HIDE DEF size, list
    <3> QED BY <1>6, <1>9
  <2>2. PICK h \in DOMAIN presented : <<list(k)[i], i - 1 + offsets[k]>> = <<h, presented[h]>>
    <3> HIDE DEF size, list
    <3> QED BY <1>8, <2>1
  <2> QED BY <2>2
<1>10. ASSUME NEW h \in DOMAIN presented
       PROVE  \E k \in 1 .. Donuts : \E i \in 1 .. size :
                h = list(k)[i] /\ h # NoHash /\ h \in Hash /\ presented[h] = (i - 1) + offsets[k]
  <2> HIDE DEF size, list
  <2>1. PICK k \in 1 .. Donuts : <<h, presented[h]>> \in Stored(sources[k], tier, offsets[k])
    BY <1>8
  <2>2. PICK i \in 1 .. size : list(k)[i] # NoHash /\ <<h, presented[h]>> = <<list(k)[i], i - 1 + offsets[k]>>
    BY <1>6, <2>1
  <2>3. h = list(k)[i] /\ presented[h] = (i - 1) + offsets[k] /\ list(k)[i] \in Hash \cup {NoHash}
    BY <1>5, <2>2
  <2> QED BY <2>2, <2>3
<1>11. ASSUME NEW k \in 1 .. Donuts PROVE list(k)[1] # NoHash
  <2>1. 1 \in 1 .. size
    BY <1>3
  <2> HIDE DEF size, list
  <2> QED BY <1>4, <1>5, <2>1
<1> HIDE DEF list, size
<1>12. /\ \A k \in 1 .. Donuts :
            /\ offsets[k] = TierOffset + (k - 1) * size + IF k > after THEN hole ELSE 0
            /\ sources[k] = [order |-> OrderOf(list(k), tier), files |-> FilesOf(list(k), tier)]
            /\ list(k)[1] # NoHash
            /\ \A i \in 1 .. size : list(k)[i] # NoHash =>
                 /\ list(k)[i] \in DOMAIN presented
                 /\ presented[list(k)[i]] = (i - 1) + offsets[k]
       /\ \A h \in DOMAIN presented : \E k \in 1 .. Donuts : \E i \in 1 .. size :
            h = list(k)[i] /\ h # NoHash /\ h \in Hash /\ presented[h] = (i - 1) + offsets[k]
  BY <1>4, <1>9, <1>10, <1>11
<1> QED BY <1>12 DEF list, size

LEMMA InitInOrder == Init => InOrder
<1> SUFFICES ASSUME Init PROVE InOrder
  OBVIOUS
<1> DEFINE size == DonutSize[tier]
<1>1. PICK deck \in Decks, hole \in Holes, after \in 1 .. Donuts - 1 :
        /\ \A k \in 1 .. Donuts :
             /\ offsets[k] = TierOffset + (k - 1) * size + IF k > after THEN hole ELSE 0
             /\ sources[k] = [order |-> OrderOf(ListOf(deck, k, size), tier),
                              files |-> FilesOf(ListOf(deck, k, size), tier)]
             /\ ListOf(deck, k, size)[1] # NoHash
             /\ \A i \in 1 .. size : ListOf(deck, k, size)[i] # NoHash =>
                  /\ ListOf(deck, k, size)[i] \in DOMAIN presented
                  /\ presented[ListOf(deck, k, size)[i]] = (i - 1) + offsets[k]
        /\ \A h \in DOMAIN presented : \E k \in 1 .. Donuts : \E i \in 1 .. size :
             /\ h = ListOf(deck, k, size)[i] /\ h # NoHash /\ h \in Hash
             /\ presented[h] = (i - 1) + offsets[k]
  BY InitIs
<1> DEFINE list(k) == ListOf(deck, k, size)
<1>2. OffsetsFit
  BY InitLosesNothing DEF NothingLost
<1>3. /\ tier \in Tiers /\ tier \in Nat /\ tier + 1 \in Nat /\ size \in Nat \ {0} /\ Donuts \in Nat \ {0}
      /\ hole \in Nat /\ after \in Nat /\ TierOffset \in Nat
  BY <1>2, StateFacts, TierBakeAssumption
<1>4. /\ new = NewDonut /\ pc = "check" /\ prefix = 0 /\ donut = 1 /\ at = 0
      /\ updates = [k \in 1 .. Donuts |-> <<>>]
  BY DEF Init
<1>5. ASSUME NEW k \in 1 .. Donuts
      PROVE  /\ list(k) \in Seq(Hash \cup {NoHash}) /\ Len(list(k)) = size
             /\ offsets[k] = TierOffset + (k - 1) * size + (IF k > after THEN hole ELSE 0)
             /\ sources[k] = [order |-> OrderOf(list(k), tier), files |-> FilesOf(list(k), tier)]
             /\ list(k)[1] # NoHash
             /\ \A i \in 1 .. size : list(k)[i] # NoHash =>
                  list(k)[i] \in DOMAIN presented /\ presented[list(k)[i]] = (i - 1) + offsets[k]
  <2>1. list(k) \in Seq(Hash \cup {NoHash}) /\ Len(list(k)) = size
    BY <1>3, Dealt
  <2> HIDE DEF size
  <2> QED BY <1>1, <2>1
<1>6. ASSUME NEW h \in DOMAIN presented
      PROVE  \E k \in 1 .. Donuts : \E i \in 1 .. size :
               h = list(k)[i] /\ h # NoHash /\ h \in Hash /\ presented[h] = (i - 1) + offsets[k]
  <2> HIDE DEF size
  <2> QED BY <1>1
<1> HIDE DEF list
<1>7. ASSUME NEW k \in 1 .. Donuts, NEW l \in 1 .. Donuts, k < l
      PROVE  offsets[k] + size <= offsets[l]
  <2> DEFINE a == (k - 1) * size
             b == (l - 1) * size
             s == IF k > after THEN hole ELSE 0
             u == IF l > after THEN hole ELSE 0
  <2>1. a \in Nat /\ b \in Nat /\ a + size <= b
    <3> HIDE DEF size
    <3>1. a \in Nat /\ b \in Nat
      BY <1>3
    <3>2. a + size = k * size
      BY <1>3
    <3>3. k <= l - 1 /\ k \in Nat /\ l - 1 \in Nat
      BY <1>3, <1>7
    <3>4. k * size <= (l - 1) * size
      BY <1>3, <3>3
    <3> QED BY <3>1, <3>2, <3>4
  <2>2. s \in Nat /\ u \in Nat /\ s <= u
    BY <1>3, <1>7
  <2>3. offsets[k] = TierOffset + a + s /\ offsets[l] = TierOffset + b + u
    BY <1>5
  <2> HIDE DEF a, b, s, u, size
  <2> QED BY <1>3, <2>1, <2>2, <2>3
<1>8. ASSUME NEW k \in 1 .. Donuts, NEW l \in 1 .. Donuts,
             NEW i \in 1 .. size, NEW j \in 1 .. size, (i - 1) + offsets[k] = (j - 1) + offsets[l]
      PROVE  k = l /\ i = j
  <2>1. offsets[k] \in Nat /\ offsets[l] \in Nat
    BY <1>2, OffsetsAre
  <2>2. (k < l => offsets[k] + size <= offsets[l]) /\ (l < k => offsets[l] + size <= offsets[k])
    BY <1>7
  <2>3. k < l \/ l < k \/ k = l
    BY <1>3
  <2> HIDE DEF size
  <2>4. i \in Nat /\ j \in Nat /\ 1 <= i /\ 1 <= j /\ i <= size /\ j <= size
    BY <1>3
  <2> QED BY <1>3, <1>8, <2>1, <2>2, <2>3, <2>4
<1>9. IndicesFit
  <2>1. DOMAIN presented \subseteq Hash
    BY <1>6
  <2>2. ASSUME NEW h \in DOMAIN presented PROVE \E k \in 1 .. Donuts : presented[h] \in Span(k)
    <3>1. PICK k \in 1 .. Donuts, i \in 1 .. size : presented[h] = (i - 1) + offsets[k]
      BY <1>6
    <3>2. offsets[k] \in Nat
      BY <1>2, OffsetsAre
    <3>3. presented[h] \in offsets[k] .. offsets[k] + size - 1
      BY <1>3, <3>1, <3>2
    <3> QED BY <3>3 DEF Span
  <2>3. ASSUME NEW h \in DOMAIN presented, NEW g \in DOMAIN presented, presented[h] = presented[g]
        PROVE  h = g
    <3>1. PICK k \in 1 .. Donuts, i \in 1 .. size : h = list(k)[i] /\ presented[h] = (i - 1) + offsets[k]
      BY <1>6
    <3>2. PICK l \in 1 .. Donuts, j \in 1 .. size : g = list(l)[j] /\ presented[g] = (j - 1) + offsets[l]
      BY <1>6
    <3>3. k = l /\ i = j
      BY <1>8, <2>3, <3>1, <3>2
    <3> QED BY <3>1, <3>2, <3>3
  <2>4. \E h \in DOMAIN presented : presented[h] = NewOffset
    <3>1. 1 \in 1 .. Donuts /\ 1 \in 1 .. size /\ offsets[1] \in Nat
      <4>1. 1 \in 1 .. Donuts /\ 1 \in 1 .. size
        BY <1>3
      <4> QED BY <1>2, <4>1, OffsetsAre
    <3>2. list(1)[1] \in DOMAIN presented /\ presented[list(1)[1]] = (1 - 1) + offsets[1]
      BY <1>5, <3>1
    <3>3. presented[list(1)[1]] = NewOffset
      BY <3>1, <3>2 DEF NewOffset
    <3> QED BY <3>2, <3>3
  <2> QED BY <1>7, <2>1, <2>2, <2>3, <2>4 DEF IndicesFit
<1>10. ASSUME NEW k \in 1 .. Donuts PROVE Listing(k) = list(k)
  <2>1. /\ Listing(k) \in Seq(Hash \cup {NoHash}) /\ Len(Listing(k)) = size
        /\ \A i \in 1 .. size :
             /\ Listing(k)[i] # NoHash =>
                  /\ Listing(k)[i] \in DOMAIN presented
                  /\ presented[Listing(k)[i]] = (i - 1) + offsets[k]
             /\ \A h \in DOMAIN presented :
                  presented[h] = (i - 1) + offsets[k] => Listing(k)[i] = h
    BY <1>2, <1>9, ListingIs
  <2>2. ASSUME NEW i \in 1 .. size PROVE Listing(k)[i] = list(k)[i]
    <3>1. CASE list(k)[i] # NoHash
      BY <1>5, <2>1, <3>1
    <3>2. CASE list(k)[i] = NoHash
      <4> SUFFICES ASSUME Listing(k)[i] # NoHash PROVE FALSE
        BY <3>2
      <4>1. Listing(k)[i] \in DOMAIN presented /\ presented[Listing(k)[i]] = (i - 1) + offsets[k]
        BY <2>1
      <4> DEFINE h == Listing(k)[i]
      <4>2. PICK l \in 1 .. Donuts, j \in 1 .. size :
              h = list(l)[j] /\ h # NoHash /\ presented[h] = (j - 1) + offsets[l]
        BY <1>6, <4>1
      <4>3. k = l /\ i = j
        BY <1>8, <4>1, <4>2
      <4> QED BY <3>2, <4>2, <4>3
    <3> QED BY <3>1, <3>2
  <2> DEFINE a == Listing(k)
             b == list(k)
  <2>3. a \in Seq(Hash \cup {NoHash}) /\ b \in Seq(Hash \cup {NoHash}) /\ Len(a) = size /\ Len(b) = size
    BY <1>5, <2>1
  <2>4. \A i \in 1 .. size : a[i] = b[i]
    BY <2>2
  <2> HIDE DEF a, b, size
  <2>5. a = b
    BY <2>3, <2>4, SeqEqual
  <2> QED BY <2>5 DEF a, b
<1>11. PathsFrom(tier, 0) = {FilePath(p) : p \in Strings(tier)}
  <2>1. Prefixes(tier) = Strings(tier)
    BY <1>3, PrefixesAre
  <2> QED BY <2>1 DEF Prefixes, PathsFrom
<1>12. SourcesKept
  <2> SUFFICES ASSUME NEW k \in 1 .. Donuts
               PROVE  sources[k] = [order |-> OrderOf(Listing(k), tier),
                        files |-> Restrict(FilesOf(Listing(k), tier), PathsFrom(tier, prefix))]
    BY DEF SourcesKept
  <2> DEFINE l == list(k)
             f == FilesOf(l, tier)
  <2>1. DOMAIN f = PathsFrom(tier, 0)
    <3>1. f = [path \in {FilePath(p) : p \in Prefixes(tier)} |-> f[path]]
      BY DEF FilesOf
    <3>2. Prefixes(tier) = Strings(tier)
      BY <1>3, PrefixesAre
    <3> HIDE DEF f
    <3> QED BY <1>11, <3>1, <3>2
  <2>2. f = [path \in DOMAIN f |-> f[path]]
    BY DEF FilesOf
  <2>3. Restrict(f, PathsFrom(tier, 0)) = f
    <3> HIDE DEF f
    <3> QED BY <2>1, <2>2 DEF Restrict
  <2> QED BY <1>4, <1>5, <1>10, <2>3
<1>13. FilesAscend
  <2>1. DOMAIN new.files = {}
    BY <1>3, <1>4, NewDonutStores
  <2>2. PathsTo(tier, prefix) = {}
    BY <1>4 DEF PathsTo
  <2> QED BY <1>4, <2>1, <2>2 DEF FilesAscend
<1>14. UpdatesTell
  <2>1. updates \in [1 .. Donuts -> Seq(UpdateType)] /\ \A k \in 1 .. Donuts : Len(updates[k]) = 0
    <3>1. <<>> \in Seq(UpdateType) /\ Len(<<>>) = 0
      BY EmptySeq
    <3> QED BY <1>4, <3>1
  <2>2. Stored(new, tier + 1, NewOffset) = {}
    BY <1>3, <1>4, NewDonutStores
  <2> QED BY <2>1, <2>2 DEF UpdatesTell
<1>15. OrderSoFar
  <2>1. new.order = <<>>
    BY <1>4 DEF NewDonut
  <2> QED BY <1>4, <2>1, EmptySeq DEF OrderSoFar
<1> QED BY <1>9, <1>12, <1>13, <1>14, <1>15 DEF InOrder

(***************************************************************************)
(* The steps                                                               *)
(***************************************************************************)
LEMMA IndicesKept == ASSUME IndicesFit, UNCHANGED given PROVE IndicesFit'
BY DEF IndicesFit, given, Span, NewOffset

LEMMA ListingKept == ASSUME UNCHANGED given, NEW k PROVE Listing(k)' = Listing(k)
BY DEF Listing, given

\* A source file at hand is as it was made: in the order of the local indices.
LEMMA SourceFile ==
  ASSUME OffsetsFit, IndicesFit, SourcesKept, pc \in {"prefix", "copy"}, prefix < Power[tier],
         NEW k \in 1 .. Donuts
  PROVE  LET file == SuffixFile(sources[k], Nibbles)
         IN  /\ FilePath(Nibbles) \in DOMAIN sources[k].files
             /\ \A i \in 1 .. Len(file) : file[i].pi \in Nat
             /\ \A i, j \in 1 .. Len(file) : i < j => file[i].pi < file[j].pi
<1> DEFINE l == Listing(k)
           path == FilePath(Nibbles)
           w == WithPrefix(l, Nibbles)
           file == SuffixFile(sources[k], Nibbles)
<1>1. tier \in Nat /\ prefix \in Nat /\ Power[tier] \in Nat /\ Nibbles \in Strings(tier)
  BY StateFacts, PowerFacts
<1>2. sources[k].files = Restrict(FilesOf(l, tier), PathsFrom(tier, prefix))
  <2>1. sources[k] = [order |-> OrderOf(l, tier),
                      files |-> Restrict(FilesOf(l, tier), PathsFrom(tier, prefix))]
    BY DEF SourcesKept
  <2> HIDE DEF l
  <2> QED BY <2>1
<1>3. path \in PathsFrom(tier, prefix)
  <2>1. prefix \in prefix .. Power[tier] - 1
    BY <1>1
  <2> QED BY <2>1 DEF PathsFrom, Nibbles
<1>4. path \in DOMAIN sources[k].files /\ file = FilesOf(l, tier)[path]
  BY <1>2, <1>3 DEF Restrict, SuffixFile
<1>5. file = FileFor(l, tier, Nibbles)
  BY <1>1, <1>4, FilesMade
<1>6. Len(l) \in Nat
  BY ListingIs, StateFacts
<1> HIDE DEF l, file
<1>7. /\ Len(w) \in Nat /\ Ascends(w, Len(w)) /\ \A n \in 1 .. Len(w) : w[n] \in Own(l, Nibbles)
  BY <1>6, Listed, WithPrefixAscends
<1>8. \A n \in 1 .. Len(w) : w[n] \in Nat /\ w[n] >= 1
  BY <1>6, <1>7 DEF Own
<1>9. file = [i \in 1 .. Len(w) |->
                [suffix |-> Packed(SubSeq(l[w[i]], tier + 1, HashNibbles)), pi |-> w[i] - 1]]
  BY <1>5 DEF FileFor
<1> HIDE DEF w
<1>10. Len(file) = Len(w) /\ \A i \in 1 .. Len(w) : file[i].pi = w[i] - 1
  BY <1>7, <1>9
<1>11. \A i, j \in 1 .. Len(w) : i < j => w[i] < w[j]
  BY <1>7 DEF Ascends
<1>12. \A i \in 1 .. Len(file) : file[i].pi \in Nat
  BY <1>8, <1>10
<1>13. \A i, j \in 1 .. Len(file) : i < j => file[i].pi < file[j].pi
  BY <1>8, <1>10, <1>11
<1> QED BY <1>4, <1>12, <1>13 DEF file

\* A step that changes no source file and no prefix.
LEMMA SourcesStay ==
  ASSUME SourcesKept, UNCHANGED <<given, sources, prefix>>,
         pc \in {"check", "prefix", "copy", "order"} \/ pc' \notin {"check", "prefix", "copy", "order"}
  PROVE  SourcesKept'
BY ListingKept DEF SourcesKept, given

\* A step that changes neither the new donut nor the updates, nor makes an order.
LEMMA AscendStays ==
  ASSUME FilesAscend, UNCHANGED <<tier, prefix>>, new'.files = new.files, pc' # "copy"
  PROVE  FilesAscend'
BY DEF FilesAscend

LEMMA IsAtStays ==
  ASSUME UNCHANGED given, new'.files = new.files, NEW h, NEW position
  PROVE  IsAt(h, position)' <=> IsAt(h, position)
BY DEF IsAt, given, NewOffset

LEMMA UpdatesStay ==
  ASSUME UpdatesTell, UNCHANGED <<given, updates>>, new'.files = new.files,
         pc' \in {"check", "prefix", "copy"} => pc \in {"check", "prefix", "copy"},
         pc' = "order" => pc \in {"check", "prefix", "copy"} \/ (pc = "order" /\ donut' = donut)
  PROVE  UpdatesTell'
<1>1. \A h, position : IsAt(h, position)' <=> IsAt(h, position)
  BY IsAtStays
<1>2. \A p : SuffixFile(new', p) = SuffixFile(new, p)
  BY DEF SuffixFile
<1>3. Stored(new, tier + 1, NewOffset)' = Stored(new, tier + 1, NewOffset)
  BY <1>2, SameStored DEF given, NewOffset
<1> QED BY <1>1, <1>3 DEF UpdatesTell, given, Span


LEMMA OpenPrefixOrders ==
  ASSUME NothingLost, InOrder, OpenPrefix
  PROVE  InOrder'
<1> DEFINE made == {FilePath(Append(Nibbles, n)) : n \in Nibble}
<1>1. /\ OffsetsFit /\ FilesFit /\ IndicesFit /\ SourcesKept /\ FilesAscend /\ UpdatesTell /\ OrderSoFar
      /\ NothingLost'
  BY OpenPrefixKeeps DEF NothingLost, InOrder
<1>2. /\ pc = "prefix" /\ prefix < Power[tier] /\ UNCHANGED given /\ UNCHANGED <<sources, updates, prefix>>
      /\ new' = [new EXCEPT !.files = Truncated(Nibbles)] /\ donut' = 1 /\ at' = 0 /\ pc' = "copy"
      /\ tier' = tier /\ offsets' = offsets /\ presented' = presented
  BY DEF OpenPrefix, given
<1>3. /\ tier \in Nat /\ prefix \in Nat /\ Nibbles \in Strings(tier) /\ Power[tier] \in Nat
  BY <1>1, StateFacts, PowerFacts
<1>4. /\ new'.order = new.order /\ DOMAIN new'.files = made \cup DOMAIN new.files
      /\ \A path \in DOMAIN new'.files :
           new'.files[path] = IF path \in made THEN <<>> ELSE new.files[path]
  <2>1. new = [order |-> new.order, files |-> new.files]
    BY <1>1 DEF FilesFit, IsDonut
  <2>2. new' = [order |-> new.order, files |-> Truncated(Nibbles)]
    BY <1>2, <2>1
  <2> QED BY <2>2 DEF Truncated, Nibble
<1>5. made \cap DOMAIN new.files = {}
  BY <1>1, <1>2, NewPaths
<1> HIDE DEF made
<1>6. IndicesFit'
  BY <1>1, <1>2, IndicesKept
<1>7. SourcesKept'
  BY <1>1, <1>2, SourcesStay
<1>8. FilesAscend'
  <2>1. PathsTo(tier, prefix) \subseteq DOMAIN new'.files
    BY <1>1, <1>4 DEF FilesAscend
  <2>2. ASSUME NEW path \in DOMAIN new'.files
        PROVE  LET file == new'.files[path]
               IN  /\ \A i \in DOMAIN file : \E s \in Strings(HashNibbles - (tier + 1)) :
                        file[i].suffix = Packed(s)
                   /\ \A i \in DOMAIN file : ReadLocal(tier + 1, file[i].pi) = file[i].pi
                   /\ \A i, j \in DOMAIN file : i < j => file[i].pi < file[j].pi
    <3>1. CASE path \in made
      <4>1. DOMAIN new'.files[path] = {}
        BY <1>4, <3>1
      <4> QED BY <4>1
    <3>2. CASE path \notin made
      <4>1. new'.files[path] = new.files[path] /\ path \in DOMAIN new.files
        BY <1>4, <3>2
      <4> QED BY <1>1, <4>1 DEF FilesAscend
    <3> QED BY <3>1, <3>2
  <2>3. ASSUME NEW n \in Nibble
        PROVE  DOMAIN new'.files[FilePath(Append(Nibbles, n))] = {}
    <3>1. FilePath(Append(Nibbles, n)) \in made
      BY DEF made
    <3>2. new'.files[FilePath(Append(Nibbles, n))] = <<>>
      BY <1>4, <3>1
    <3> QED BY <3>2
  <2> HIDE DEF Nibbles
  <2>4. \A n \in Nibble, k \in 1 .. Donuts :
          \A m \in DOMAIN new'.files[FilePath(Append(Nibbles, n))], i \in 1 .. Len(SuffixFile(sources[k], Nibbles)) :
             k > 1 \/ (k = 1 /\ i > 0) =>
               new'.files[FilePath(Append(Nibbles, n))][m].pi + NewOffset
                 < SuffixFile(sources[k], Nibbles)[i].pi + offsets[k]
    BY <2>3
  <2>5. Nibbles' = Nibbles /\ NewOffset' = NewOffset
    BY <1>2 DEF Nibbles, NewOffset
  <2> HIDE DEF NewOffset
  <2> QED BY <1>2, <2>1, <2>2, <2>4, <2>5 DEF FilesAscend
<1>9. ASSUME NEW h, NEW position, IsAt(h, position) PROVE IsAt(h, position)'
  BY <1>2, <1>4, <1>5, <1>9 DEF IsAt, NewOffset
<1>10. \A p : SuffixFile(new', p) = SuffixFile(new, p)
  BY <1>4, <1>5 DEF SuffixFile
<1>11. Stored(new, tier + 1, NewOffset)' = Stored(new, tier + 1, NewOffset)
  BY <1>2, <1>10, SameStored DEF NewOffset
<1>12. UpdatesTell'
  BY <1>1, <1>2, <1>9, <1>11 DEF UpdatesTell, Span
<1>13. OrderSoFar'
  BY <1>1, <1>2, <1>4 DEF OrderSoFar
<1> QED BY <1>6, <1>7, <1>8, <1>12, <1>13 DEF InOrder


\* The hash of an entry begins with the prefix and the first nibble after it.
LEMMA HashRead ==
  ASSUME NEW t \in Nat, t + 1 <= HashNibbles, NEW p \in Strings(t), NEW s \in Strings(HashNibbles - t)
  PROVE  /\ p \o s \in Hash /\ (p \o s)[t + 1] = s[1]
         /\ SubSeq(p \o s, 1, t + 1) = Append(p, s[1])
<1> DEFINE h == p \o s
           q == Append(p, s[1])
           r == SubSeq(h, 1, t + 1)
<1>1. HashNibbles \in Nat /\ t \in 0 .. HashNibbles /\ 1 \in 1 .. HashNibbles - t
  BY TierBakeAssumption
<1>2. h \in Hash /\ h = [i \in 1 .. HashNibbles |-> IF i <= t THEN p[i] ELSE s[i - t]]
  BY <1>1, Joined
<1> HIDE DEF h
<1>3. h[t + 1] = s[1] /\ \A i \in 1 .. t : h[i] = p[i]
  BY <1>1, <1>2
<1>4. s[1] \in Nibble
  BY <1>1 DEF Strings
<1>5. q \in Strings(t + 1) /\ q[t + 1] = s[1] /\ \A i \in 1 .. t : q[i] = p[i]
  BY <1>4, AppendString
<1>6. /\ r \in Seq(Nibble) /\ Len(r) = t + 1 /\ \A i \in 1 .. t + 1 : r[i] = h[i]
  <2>1. \A i \in 1 .. t + 1 : h[i] \in Nibble
    BY <1>1, <1>2 DEF Hash, Nibble
  <2>2. /\ r \in Seq(Nibble)
        /\ Len(r) = (IF 1 <= t + 1 THEN (t + 1) - 1 + 1 ELSE 0)
        /\ \A i \in 1 .. (t + 1) - 1 + 1 : r[i] = h[1 + i - 1]
    BY <1>1, <2>1, SubSeqProperties
  <2> QED BY <2>2
<1> HIDE DEF q, r
<1>7. r \in Strings(t + 1)
  BY <1>6, LenProperties DEF Strings
<1>8. \A i \in 1 .. t + 1 : r[i] = q[i]
  <2> TAKE i \in 1 .. t + 1
  <2>1. i = t + 1 \/ i \in 1 .. t
    OBVIOUS
  <2> QED BY <1>3, <1>5, <1>6, <2>1
<1>9. r = q
  BY <1>5, <1>7, <1>8 DEF Strings
<1> QED BY <1>2, <1>3, <1>9 DEF h, q, r


\* The hash that a step copies is one that was presented, at the index of its entry.
LEMMA EntryKnown ==
  ASSUME NothingLost, InOrder, CopyEntry
  PROVE  /\ Nibbles \o Suffix \in DOMAIN presented
         /\ presented[Nibbles \o Suffix] = LocalPi + offsets[donut]
         /\ presented[Nibbles \o Suffix] = Rebased + NewOffset
         /\ (Nibbles \o Suffix)[tier + 1] = Suffix[1]
         /\ SubSeq(Nibbles \o Suffix, 1, tier + 1) = LongerNibbles
<1> DEFINE h == Nibbles \o Suffix
<1>1. OffsetsFit /\ FilesFit /\ EntriesPreserved /\ Reading /\ Writable
  BY DEF NothingLost, CopyEntry
<1>2. donut \in 1 .. Donuts /\ LocalPi = EntryAt.pi /\ Suffix \in Strings(HashNibbles - tier)
  BY <1>1, EntryRead
<1>3. <<h, LocalPi + offsets[donut]>> \in Stored(sources[donut], tier, offsets[donut])
  BY EntryCopied
<1>4. <<h, LocalPi + offsets[donut]>> \in {<<g, presented[g]>> : g \in DOMAIN presented}
  <2> DEFINE A == UNION {Stored(sources[k], tier, offsets[k]) : k \in 1 .. Donuts}
             x == <<h, LocalPi + offsets[donut]>>
  <2> HIDE DEF x
  <2>1. x \in A
    BY <1>2, <1>3 DEF x
  <2> HIDE DEF A
  <2>2. A \subseteq {<<g, presented[g]>> : g \in DOMAIN presented}
    BY <1>1 DEF EntriesPreserved, A
  <2> QED BY <2>1, <2>2 DEF x
<1>5. Rebased + NewOffset = LocalPi + offsets[donut]
  BY <1>1, <1>2, RebasedBack
<1>6. h[tier + 1] = Suffix[1] /\ SubSeq(h, 1, tier + 1) = LongerNibbles
  BY <1>1, <1>2, StateFacts, HashRead DEF LongerNibbles
<1> HIDE DEF h
<1>7. h \in DOMAIN presented /\ presented[h] = LocalPi + offsets[donut]
  BY <1>4
<1> QED BY <1>5, <1>6, <1>7 DEF h

\* The entry that is copied comes after those that are in its file, and before those that
\* are still to be read.
LEMMA CopyEntryAscends ==
  ASSUME NothingLost, InOrder, CopyEntry
  PROVE  FilesAscend'
<1> DEFINE path == DestPath
           old == new.files[path]
           file(k) == SuffixFile(sources[k], Nibbles)
<1>1. OffsetsFit /\ FilesFit /\ IndicesFit /\ SourcesKept /\ FilesAscend
  BY DEF NothingLost, InOrder
<1>2. /\ Reading /\ Writable /\ pc = "copy" /\ pc' = pc /\ prefix' = prefix /\ donut' = donut /\ at' = at + 1
      /\ UNCHANGED <<tier, offsets, presented, sources>> /\ NewOffset' = NewOffset /\ Nibbles' = Nibbles
  BY DEF CopyEntry, given, Reading, NewOffset, Nibbles
<1>3. /\ tier \in Nat /\ Nibbles \in Strings(tier) /\ donut \in 1 .. Donuts /\ at \in Nat /\ Donuts \in Nat
      /\ NewOffset \in Nat /\ prefix < Power[tier] /\ DonutSize[tier] \in Nat
      /\ at + 1 \in 1 .. Len(file(donut)) /\ EntryAt.pi \in Nat /\ EntryAt.pi < DonutSize[tier]
      /\ EntryAt = file(donut)[at + 1] /\ \A k \in 1 .. Donuts : Len(file(k)) \in Nat
  <2>1. \A k \in 1 .. Donuts : IsDonut(sources[k], tier)
    BY <1>1 DEF FilesFit
  <2>2. prefix < Power[tier]
    BY <1>1, <1>2 DEF FilesFit
  <2>3. EntryAt = file(donut)[at + 1]
    BY DEF EntryAt
  <2> QED BY <1>1, <1>2, <2>1, <2>2, <2>3, StateFacts, EntryRead, FileType
<1>4. /\ Suffix[1] \in Nibble /\ Tail(Suffix) \in Strings(HashNibbles - (tier + 1))
      /\ path = FilePath(Append(Nibbles, Suffix[1])) /\ path \in DOMAIN new.files
      /\ IsDonut(new', tier + 1) /\ DOMAIN new'.files = DOMAIN new.files
      /\ \A other \in DOMAIN new.files : other # path => new'.files[other] = new.files[other]
      /\ Len(old) \in Nat /\ Len(new'.files[path]) = Len(old) + 1
      /\ new'.files[path][Len(old) + 1] = EntryMade
      /\ \A i \in 1 .. Len(old) : new'.files[path][i] = old[i]
  BY EntryCopied DEF LongerNibbles
<1>5. /\ Rebased \in Nat /\ ReadLocal(tier + 1, Rebased) = Rebased /\ offsets[donut] \in Nat
      /\ Rebased + NewOffset = EntryAt.pi + offsets[donut]
  BY <1>1, <1>2, RebasedBack
<1>6. EntryMade.pi = Rebased /\ EntryMade.suffix = Packed(Tail(Suffix))
  BY DEF EntryMade
<1>7. /\ DOMAIN old = 1 .. Len(old) /\ DOMAIN new'.files[path] = 1 .. Len(old) + 1
      /\ \A m \in DOMAIN old : old[m].pi \in Nat
  <2>1. old \in Seq(EntryType(tier + 1)) /\ new'.files[path] \in Seq(EntryType(tier + 1))
    BY <1>1, <1>4 DEF FilesFit, IsDonut
  <2>2. \A e \in EntryType(tier + 1) : e.pi \in Nat
    BY DEF EntryType
  <2> DEFINE made == new'.files[path]
  <2>3. old \in [1 .. Len(old) -> EntryType(tier + 1)] /\ made \in [1 .. Len(made) -> EntryType(tier + 1)]
    <3> HIDE DEF old, made, path
    <3> QED BY <2>1, LenProperties DEF made
  <2>4. Len(made) = Len(old) + 1
    BY <1>4
  <2> HIDE DEF old, made, path
  <2> QED BY <2>2, <2>3, <2>4 DEF made
<1>8. \A m \in DOMAIN old : old[m].pi < Rebased
  <2> TAKE m \in DOMAIN old
  <2>1. old[m].pi + NewOffset < EntryAt.pi + offsets[donut]
    <3>1. new.files[FilePath(Append(Nibbles, Suffix[1]))] = old
      BY <1>4
    <3> DEFINE n == Suffix[1]
    <3>2. n \in Nibble /\ at + 1 > at /\ at + 1 \in 1 .. Len(file(donut))
      BY <1>3, <1>4
    <3> HIDE DEF n
    <3>3. \A p \in DOMAIN new.files[FilePath(Append(Nibbles, n))] :
            new.files[FilePath(Append(Nibbles, n))][p].pi + NewOffset
              < file(donut)[at + 1].pi + offsets[donut]
      <4> HIDE DEF Nibbles
      <4> QED BY <1>1, <1>2, <1>3, <3>2 DEF FilesAscend
    <3> HIDE DEF old, path, file
    <3> QED BY <1>3, <3>1, <3>3 DEF n
  <2> HIDE DEF old
  <2> QED BY <1>3, <1>5, <1>7, <2>1
<1>9. ASSUME NEW other \in DOMAIN new'.files
      PROVE  LET f == new'.files[other]
             IN  /\ \A i \in DOMAIN f : \E s \in Strings(HashNibbles - (tier + 1)) : f[i].suffix = Packed(s)
                 /\ \A i \in DOMAIN f : ReadLocal(tier + 1, f[i].pi) = f[i].pi
                 /\ \A i, j \in DOMAIN f : i < j => f[i].pi < f[j].pi
  <2>1. CASE other # path
    <3>1. other \in DOMAIN new.files /\ new'.files[other] = new.files[other]
      BY <1>4, <2>1
    <3> QED BY <1>1, <3>1 DEF FilesAscend
  <2>2. CASE other = path
    <3> DEFINE f == new'.files[path]
    <3>1. /\ \A i \in DOMAIN old : \E s \in Strings(HashNibbles - (tier + 1)) : old[i].suffix = Packed(s)
          /\ \A i \in DOMAIN old : ReadLocal(tier + 1, old[i].pi) = old[i].pi
          /\ \A i, j \in DOMAIN old : i < j => old[i].pi < old[j].pi
      BY <1>1, <1>4 DEF FilesAscend
    <3>2. DOMAIN f = 1 .. Len(old) + 1 /\ DOMAIN old = 1 .. Len(old) /\ Len(old) \in Nat
          /\ f[Len(old) + 1] = EntryMade /\ \A i \in 1 .. Len(old) : f[i] = old[i]
      BY <1>4, <1>7
    <3> HIDE DEF f, old
    <3>3. \A i \in DOMAIN f : i \in DOMAIN old \/ i = Len(old) + 1
      BY <3>2
    <3>4. \A i \in DOMAIN f : \E s \in Strings(HashNibbles - (tier + 1)) : f[i].suffix = Packed(s)
      BY <1>4, <1>6, <3>1, <3>2, <3>3
    <3>5. \A i \in DOMAIN f : ReadLocal(tier + 1, f[i].pi) = f[i].pi
      BY <1>5, <1>6, <3>1, <3>2, <3>3
    <3>6. ASSUME NEW i \in DOMAIN f, NEW j \in DOMAIN f, i < j PROVE f[i].pi < f[j].pi
      <4>1. i \in DOMAIN old
        BY <3>2, <3>6
      <4>2. CASE j \in DOMAIN old
        BY <3>1, <3>2, <3>6, <4>1, <4>2
      <4>3. CASE j = Len(old) + 1
        BY <1>6, <1>8, <3>2, <4>1, <4>3
      <4> QED BY <3>3, <4>2, <4>3
    <3> QED BY <2>2, <3>4, <3>5, <3>6 DEF f
  <2> QED BY <2>1, <2>2
<1>10. ASSUME NEW k \in 1 .. Donuts, NEW i \in 1 .. Len(file(k)), k > donut \/ (k = donut /\ i > at + 1)
       PROVE  /\ k > donut \/ (k = donut /\ i > at)
              /\ Rebased + NewOffset < file(k)[i].pi + offsets[k]
  <2>1. k > donut \/ (k = donut /\ i > at)
    BY <1>3, <1>10
  <2>2. \A j \in 1 .. Len(file(k)) : file(k)[j].pi \in Nat
    BY <1>1, <1>2, <1>3, SourceFile
  <2>3. offsets[k] \in Nat
    BY <1>1, OffsetsAre
  <2>4. CASE k > donut
    <3>1. offsets[donut] + DonutSize[tier] <= offsets[k]
      BY <1>1, <1>3, <2>4 DEF IndicesFit
    <3>2. file(k)[i].pi \in Nat
      BY <2>2
    <3>3. /\ EntryAt.pi \in Nat /\ EntryAt.pi < DonutSize[tier] /\ DonutSize[tier] \in Nat
          /\ offsets[donut] \in Nat /\ Rebased + NewOffset = EntryAt.pi + offsets[donut]
      BY <1>3, <1>5
    <3>4. EntryAt.pi + offsets[donut] < offsets[donut] + DonutSize[tier]
      BY <3>3
    <3> HIDE DEF file
    <3> QED BY <2>3, <2>4, <3>1, <3>2, <3>3, <3>4
  <2>5. CASE k = donut /\ i > at + 1
    <3>1. file(donut)[at + 1].pi < file(donut)[i].pi
      <4>1. \A a, b \in 1 .. Len(file(donut)) : a < b => file(donut)[a].pi < file(donut)[b].pi
        BY <1>1, <1>2, <1>3, SourceFile
      <4>2. at + 1 \in 1 .. Len(file(donut)) /\ i \in 1 .. Len(file(donut)) /\ at + 1 < i
        BY <1>3, <2>5
      <4> HIDE DEF file
      <4> QED BY <4>1, <4>2
    <3>2. file(donut)[i].pi \in Nat
      BY <2>2, <2>5
    <3> HIDE DEF file
    <3> QED BY <1>3, <1>5, <2>5, <3>1, <3>2
  <2> QED BY <1>10, <2>1, <2>4, <2>5
<1>11. ASSUME NEW n \in Nibble, NEW k \in 1 .. Donuts,
              NEW m \in DOMAIN new'.files[FilePath(Append(Nibbles, n))], NEW i \in 1 .. Len(file(k)),
              k > donut \/ (k = donut /\ i > at + 1)
       PROVE  new'.files[FilePath(Append(Nibbles, n))][m].pi + NewOffset < file(k)[i].pi + offsets[k]
  <2> DEFINE other == FilePath(Append(Nibbles, n))
  <2>1. k > donut \/ (k = donut /\ i > at)
    BY <1>10, <1>11
  <2>2. \A p \in DOMAIN new.files[other] : new.files[other][p].pi + NewOffset < file(k)[i].pi + offsets[k]
    <3> HIDE DEF Nibbles
    <3> QED BY <1>1, <1>2, <2>1 DEF FilesAscend
  <2>3. other \in DOMAIN new.files
    BY <1>1, <1>2 DEF FilesFit, Nibble
  <2>4. CASE other # path
    <3>1. new'.files[other] = new.files[other]
      BY <1>4, <2>3, <2>4
    <3> HIDE DEF other, file
    <3> QED BY <2>2, <3>1 DEF other
  <2>5. CASE other = path /\ m \in DOMAIN old
    <3>1. new'.files[other][m] = new.files[other][m]
      BY <1>4, <1>7, <2>5
    <3> HIDE DEF file
    <3> QED BY <2>2, <2>5, <3>1
  <2>6. CASE other = path /\ m = Len(old) + 1
    <3>1. new'.files[other][m] = EntryMade
      BY <1>4, <2>6
    <3>2. Rebased + NewOffset < file(k)[i].pi + offsets[k]
      BY <1>10, <1>11
    <3> HIDE DEF file, other
    <3> QED BY <1>6, <3>1, <3>2 DEF other
  <2>7. other = path => m \in DOMAIN old \/ m = Len(old) + 1
    <3>1. other = path => m \in 1 .. Len(old) + 1
      BY <1>7
    <3> HIDE DEF old, other, path
    <3> QED BY <1>4, <1>7, <3>1
  <2> HIDE DEF other, old, path, file
  <2> QED BY <2>4, <2>5, <2>6, <2>7 DEF other
<1>12. PathsTo(tier, prefix) \subseteq DOMAIN new'.files
  BY <1>1, <1>4 DEF FilesAscend
<1> HIDE DEF Nibbles, NewOffset
<1> QED BY <1>2, <1>9, <1>11, <1>12 DEF FilesAscend


\* A copied entry is at the end of its file, and the updates of its donut say so.
LEMMA CopyEntryTells ==
  ASSUME NothingLost, InOrder, CopyEntry
  PROVE  UpdatesTell'
<1> DEFINE path == DestPath
           old == new.files[path]
           h == Nibbles \o Suffix
           u == [pi |-> LocalPi, nibble |-> Suffix[1], position |-> Position]
           isThen(g, position) ==
             LET other == FilePath(SubSeq(g, 1, tier + 1))
             IN  /\ other \in DOMAIN new'.files /\ position + 1 \in DOMAIN new'.files[other]
                 /\ new'.files[other][position + 1].pi + NewOffset = presented[g]
<1>1. OffsetsFit /\ FilesFit /\ IndicesFit /\ UpdatesTell
  BY DEF NothingLost, InOrder
<1>2. /\ Reading /\ Writable /\ pc = "copy" /\ pc' = pc /\ UNCHANGED <<tier, offsets, presented, donut>>
      /\ updates' = [updates EXCEPT ![donut] = Append(@, u)] /\ NewOffset' = NewOffset
  BY DEF CopyEntry, given, Reading, NewOffset
<1>3. /\ donut \in 1 .. Donuts /\ LocalPi \in Nat /\ LocalPi < DonutSize[tier]
      /\ DonutSize[tier] \in Nat /\ Donuts \in Nat
  BY <1>1, <1>2, EntryRead, StateFacts
<1>4. /\ Suffix[1] \in Nibble /\ path = FilePath(LongerNibbles) /\ path \in DOMAIN new.files
      /\ IsDonut(new', tier + 1) /\ DOMAIN new'.files = DOMAIN new.files
      /\ \A other \in DOMAIN new.files : other # path => new'.files[other] = new.files[other]
      /\ Len(old) \in Nat /\ Len(new'.files[path]) = Len(old) + 1
      /\ new'.files[path][Len(old) + 1] = EntryMade
      /\ \A i \in 1 .. Len(old) : new'.files[path][i] = old[i]
  BY EntryCopied
<1>5. /\ Stored(new', tier + 1, NewOffset)
           = Stored(new, tier + 1, NewOffset) \cup {<<h, LocalPi + offsets[donut]>>}
  BY EntryCopied
<1>6. /\ h \in DOMAIN presented /\ presented[h] = LocalPi + offsets[donut]
      /\ presented[h] = Rebased + NewOffset /\ h[tier + 1] = Suffix[1]
      /\ SubSeq(h, 1, tier + 1) = LongerNibbles
  BY EntryKnown
<1>7. /\ DOMAIN old = 1 .. Len(old) /\ DOMAIN new'.files[path] = 1 .. Len(old) + 1
  <2>1. old \in Seq(EntryType(tier + 1)) /\ new'.files[path] \in Seq(EntryType(tier + 1))
    BY <1>1, <1>4 DEF FilesFit, IsDonut
  <2> DEFINE made == new'.files[path]
  <2>2. old \in [1 .. Len(old) -> EntryType(tier + 1)] /\ made \in [1 .. Len(made) -> EntryType(tier + 1)]
    <3> HIDE DEF old, made, path
    <3> QED BY <2>1, LenProperties DEF made
  <2>3. Len(made) = Len(old) + 1
    BY <1>4
  <2> HIDE DEF old, made, path
  <2> QED BY <2>2, <2>3 DEF made
<1>8. u.pi = LocalPi /\ u.nibble = Suffix[1] /\ u.position = Len(old) /\ u \in UpdateType
  BY <1>3, <1>4 DEF Position, UpdateType
<1> HIDE DEF u, h, old, path
<1>9. ASSUME NEW g, NEW position, position \in Nat, IsAt(g, position) PROVE isThen(g, position)
  <2> DEFINE other == FilePath(SubSeq(g, 1, tier + 1))
  <2>1. /\ other \in DOMAIN new.files /\ position + 1 \in DOMAIN new.files[other]
        /\ new.files[other][position + 1].pi + NewOffset = presented[g]
    BY <1>9 DEF IsAt
  <2>2. position + 1 \in DOMAIN new'.files[other] /\ new'.files[other][position + 1] = new.files[other][position + 1]
    <3>1. CASE other # path
      BY <1>4, <2>1, <3>1
    <3>2. CASE other = path
      <4>1. new.files[other] = old
        BY <3>2 DEF old
      <4> HIDE DEF other
      <4> QED BY <1>4, <1>7, <2>1, <3>2, <4>1
    <3> QED BY <3>1, <3>2
  <2>3. /\ other \in DOMAIN new'.files /\ position + 1 \in DOMAIN new'.files[other]
        /\ new'.files[other][position + 1].pi + NewOffset = presented[g]
    BY <1>4, <2>1, <2>2
  <2> QED BY <2>3
<1>10. isThen(h, Len(old))
  <2>1. /\ path \in DOMAIN new'.files /\ Len(old) + 1 \in DOMAIN new'.files[path]
        /\ new'.files[path][Len(old) + 1].pi + NewOffset = presented[h]
    <3>1. EntryMade.pi = Rebased
      BY DEF EntryMade
    <3>2. Len(old) + 1 \in 1 .. Len(old) + 1
      BY <1>4
    <3> QED BY <1>4, <1>6, <1>7, <3>1, <3>2
  <2> QED BY <1>4, <1>6, <2>1
<1> HIDE DEF isThen
<1>11. updates \in [1 .. Donuts -> Seq(UpdateType)] /\ \A k \in 1 .. Donuts : Len(updates[k]) \in Nat
  <2>1. updates \in [1 .. Donuts -> Seq(UpdateType)]
    BY <1>1 DEF UpdatesTell
  <2> QED BY <2>1, LenProperties
<1>12. /\ \A k \in 1 .. Donuts : k # donut => updates'[k] = updates[k]
       /\ updates'[donut] = Append(updates[donut], u)
       /\ DOMAIN updates' = 1 .. Donuts /\ updates' = [k \in 1 .. Donuts |-> updates'[k]]
  BY <1>2, <1>3, <1>11
<1>13. /\ updates'[donut] \in Seq(UpdateType)
       /\ Len(updates'[donut]) = Len(updates[donut]) + 1
       /\ updates'[donut][Len(updates[donut]) + 1] = u
       /\ \A v \in 1 .. Len(updates[donut]) : updates'[donut][v] = updates[donut][v]
  <2> DEFINE s == updates[donut]
  <2>1. s \in Seq(UpdateType)
    BY <1>3, <1>11
  <2> HIDE DEF s
  <2>2. /\ Append(s, u) \in Seq(UpdateType) /\ Len(Append(s, u)) = Len(s) + 1
        /\ Append(s, u)[Len(s) + 1] = u /\ \A v \in 1 .. Len(s) : Append(s, u)[v] = s[v]
    BY <1>8, <2>1, AppendProperties
  <2> QED BY <1>12, <2>2 DEF s
<1>14. updates' \in [1 .. Donuts -> Seq(UpdateType)]
  <2>1. \A k \in 1 .. Donuts : updates'[k] \in Seq(UpdateType)
    BY <1>11, <1>12, <1>13
  <2> QED BY <1>12, <2>1
<1>15. ASSUME NEW k \in 1 .. Donuts, NEW v \in 1 .. Len(updates'[k])
       PROVE  \E g \in DOMAIN presented :
                /\ presented[g] = updates'[k][v].pi + offsets[k] /\ updates'[k][v].nibble = g[tier + 1]
                /\ isThen(g, updates'[k][v].position)
  <2>1. CASE v \in 1 .. Len(updates[k])
    <3>1. updates'[k][v] = updates[k][v]
      BY <1>12, <1>13, <2>1
    <3>2. PICK g \in DOMAIN presented :
            /\ presented[g] = updates[k][v].pi + offsets[k] /\ updates[k][v].nibble = g[tier + 1]
            /\ IsAt(g, updates[k][v].position)
      BY <1>1, <2>1 DEF UpdatesTell
    <3>3. updates[k][v].position \in Nat
      <4>1. updates[k] \in Seq(UpdateType)
        BY <1>11
      <4>2. updates[k][v] \in UpdateType
        <5> DEFINE s == updates[k]
        <5> HIDE DEF s
        <5>1. s \in Seq(UpdateType) /\ v \in 1 .. Len(s)
          BY <2>1, <4>1 DEF s
        <5>2. s[v] \in UpdateType
          BY <5>1
        <5> QED BY <5>2 DEF s
      <4> QED BY <4>2 DEF UpdateType
    <3>4. isThen(g, updates[k][v].position)
      BY <1>9, <3>2, <3>3
    <3> QED BY <3>1, <3>2, <3>4
  <2>2. CASE k = donut /\ v = Len(updates[donut]) + 1
    <3>1. updates'[k][v] = u
      BY <1>13, <2>2
    <3> QED BY <1>6, <1>8, <1>10, <2>2, <3>1
  <2>3. v \in 1 .. Len(updates[k]) \/ (k = donut /\ v = Len(updates[donut]) + 1)
    <3>1. CASE k # donut
      BY <1>12, <3>1
    <3>2. CASE k = donut
      <4>1. v \in 1 .. Len(updates[donut]) + 1 /\ Len(updates[donut]) \in Nat
        BY <1>3, <1>11, <1>13, <3>2
      <4> QED BY <3>2, <4>1
    <3> QED BY <3>1, <3>2
  <2> QED BY <2>1, <2>2, <2>3
<1>16. ASSUME NEW k \in 1 .. Donuts, NEW g \in DOMAIN presented, presented[g] \in Span(k),
              <<g, presented[g]>> \in Stored(new', tier + 1, NewOffset)
       PROVE  \E v \in 1 .. Len(updates'[k]) : updates'[k][v].pi + offsets[k] = presented[g]
  <2>1. CASE <<g, presented[g]>> \in Stored(new, tier + 1, NewOffset)
    <3>1. PICK v \in 1 .. Len(updates[k]) : updates[k][v].pi + offsets[k] = presented[g]
      BY <1>1, <1>2, <1>16, <2>1 DEF UpdatesTell
    <3>2. v \in 1 .. Len(updates'[k]) /\ updates'[k][v] = updates[k][v]
      <4>1. CASE k # donut
        BY <1>12, <4>1
      <4>2. CASE k = donut
        <5>1. Len(updates[donut]) \in Nat
          BY <1>3, <1>11
        <5> QED BY <1>13, <4>2, <5>1
      <4> QED BY <4>1, <4>2
    <3> QED BY <3>1, <3>2
  <2>2. CASE <<g, presented[g]>> = <<h, LocalPi + offsets[donut]>>
    <3>1. presented[g] = LocalPi + offsets[donut]
      BY <2>2
    <3>2. k = donut
      <4>1. offsets[k] \in Nat /\ offsets[donut] \in Nat
        BY <1>1, <1>3, OffsetsAre
      <4>2. presented[g] \in offsets[k] .. offsets[k] + DonutSize[tier] - 1
        BY <1>16 DEF Span
      <4> DEFINE i == presented[g] - offsets[k]
      <4>3. i \in 0 .. DonutSize[tier] - 1 /\ i + offsets[k] = LocalPi + offsets[donut]
        BY <1>3, <3>1, <4>1, <4>2
      <4>4. LocalPi \in 0 .. DonutSize[tier] - 1
        BY <1>3
      <4> HIDE DEF i
      <4> QED BY <1>1, <1>3, <4>3, <4>4, OneSpan
    <3>3. Len(updates[donut]) + 1 \in 1 .. Len(updates'[donut])
      <4>1. Len(updates[donut]) \in Nat
        BY <1>3, <1>11
      <4> QED BY <1>13, <4>1
    <3> QED BY <1>8, <1>13, <3>1, <3>2, <3>3
  <2> QED BY <1>5, <1>16, <2>1, <2>2
<1>17. \A k \in 1 .. Donuts : Span(k)' = Span(k)
  BY <1>2 DEF Span
<1>18. Stored(new, tier + 1, NewOffset)' = Stored(new', tier + 1, NewOffset)
  BY <1>2
<1> QED BY <1>2, <1>14, <1>15, <1>16, <1>17, <1>18 DEF UpdatesTell, IsAt, isThen

LEMMA CopyEntryOrders ==
  ASSUME NothingLost, InOrder, CopyEntry
  PROVE  InOrder'
<1>1. /\ UNCHANGED given /\ UNCHANGED <<sources, prefix>> /\ pc = "copy" /\ pc' = pc
      /\ IndicesFit /\ SourcesKept /\ OrderSoFar
  BY DEF CopyEntry, InOrder, Reading
<1>2. IndicesFit' /\ SourcesKept'
  BY <1>1, IndicesKept, SourcesStay
<1>3. OrderSoFar'
  <2>1. new'.order = new.order
    BY EntryCopied
  <2> QED BY <1>1, <2>1 DEF OrderSoFar
<1> QED BY <1>2, <1>3, CopyEntryAscends, CopyEntryTells DEF InOrder


LEMMA NextFileOrders ==
  ASSUME NothingLost, InOrder, NextFile
  PROVE  InOrder'
<1>1. /\ OffsetsFit /\ FilesFit /\ IndicesFit /\ SourcesKept /\ FilesAscend /\ UpdatesTell /\ OrderSoFar
  BY DEF NothingLost, InOrder
<1>2. /\ pc = "copy" /\ donut' = donut + 1 /\ at' = 0 /\ pc' \in {"copy", "failed"}
      /\ UNCHANGED given /\ UNCHANGED <<tier, offsets, presented, sources, new, updates, prefix>>
      /\ NewOffset' = NewOffset /\ Nibbles' = Nibbles
  BY DEF NextFile, given, NewOffset, Nibbles
<1>3. donut \in Nat /\ Donuts \in Nat
  BY <1>1, StateFacts
<1>4. IndicesFit' /\ SourcesKept' /\ UpdatesTell'
  BY <1>1, <1>2, IndicesKept, SourcesStay, UpdatesStay
<1>5. FilesAscend'
  <2>1. \A k \in 1 .. Donuts : k > donut + 1 \/ k = donut + 1 => k > donut
    BY <1>3
  <2>2. ASSUME NEW n \in Nibble, NEW k \in 1 .. Donuts,
               NEW m \in DOMAIN new.files[FilePath(Append(Nibbles, n))],
               NEW i \in 1 .. Len(SuffixFile(sources[k], Nibbles)),
               k > donut + 1 \/ (k = donut + 1 /\ i > 0)
        PROVE  new.files[FilePath(Append(Nibbles, n))][m].pi + NewOffset
                 < SuffixFile(sources[k], Nibbles)[i].pi + offsets[k]
    <3>1. k > donut
      BY <2>1, <2>2
    <3> HIDE DEF Nibbles, NewOffset
    <3> QED BY <1>1, <1>2, <3>1 DEF FilesAscend
  <2> HIDE DEF Nibbles, NewOffset
  <2> QED BY <1>1, <1>2, <2>2 DEF FilesAscend
<1>6. OrderSoFar'
  BY <1>1, <1>2 DEF OrderSoFar
<1> QED BY <1>4, <1>5, <1>6 DEF InOrder

\* The steps that only change where the bake is, up to the failure.
LEMMA FailedOrders ==
  ASSUME InOrder, UNCHANGED <<given, sources, new, updates, prefix>>,
         pc' = "failed" \/ (pc = "check" /\ pc' = "prefix")
  PROVE  InOrder'
<1>1. IndicesFit /\ SourcesKept /\ FilesAscend /\ UpdatesTell /\ OrderSoFar
  BY DEF InOrder
<1>2. IndicesFit' /\ SourcesKept' /\ FilesAscend' /\ UpdatesTell'
  BY <1>1, IndicesKept, SourcesStay, AscendStays, UpdatesStay DEF given
<1>3. OrderSoFar'
  BY <1>1 DEF OrderSoFar
<1> QED BY <1>2, <1>3 DEF InOrder

LEMMA RemovePrefixOrders ==
  ASSUME NothingLost, InOrder, RemovePrefix
  PROVE  InOrder'
<1>1. /\ OffsetsFit /\ FilesFit /\ IndicesFit /\ SourcesKept /\ FilesAscend /\ UpdatesTell /\ OrderSoFar
  BY DEF NothingLost, InOrder
<1>2. /\ pc = "copy" /\ pc' = "prefix" /\ prefix' = prefix + 1
      /\ UNCHANGED given /\ UNCHANGED <<tier, offsets, presented, new, updates>>
      /\ sources' = [k \in 1 .. Donuts |-> [sources[k] EXCEPT !.files = Removed(@)]]
  BY DEF RemovePrefix, given
<1>3. /\ tier \in Nat /\ prefix \in Nat /\ Power[tier] \in Nat /\ prefix < Power[tier]
  BY <1>1, <1>2, StateFacts, PowerFacts DEF FilesFit
<1>4. PathsFrom(tier, prefix) \ {FilePath(Nibbles)} = PathsFrom(tier, prefix + 1)
  <2>1. \A p : p \in prefix .. Power[tier] - 1 <=> p = prefix \/ p \in prefix + 1 .. Power[tier] - 1
    BY <1>3
  <2>2. ASSUME NEW p \in prefix + 1 .. Power[tier] - 1
        PROVE  FilePath(PrefixNibbles(p, tier)) # FilePath(Nibbles)
    <3>1. p \in Nat /\ p # prefix /\ p \in 0 .. Power[tier] - 1 /\ prefix \in 0 .. Power[tier] - 1
      BY <1>3
    <3>2. PrefixNibbles(p, tier) \in Strings(tier) /\ Nibbles \in Strings(tier)
      BY <1>1, <1>3, <3>1, PrefixType, StateFacts
    <3>3. PrefixNibbles(p, tier) # Nibbles
      BY <1>3, <3>1, PrefixOneToOne DEF Nibbles
    <3> QED BY <1>3, <3>2, <3>3, PathOneToOne
  <2> QED BY <2>1, <2>2 DEF PathsFrom, Nibbles
<1>5. SourcesKept'
  <2> SUFFICES ASSUME NEW k \in 1 .. Donuts
               PROVE  sources'[k] = [order |-> OrderOf(Listing(k), tier),
                        files |-> Restrict(FilesOf(Listing(k), tier), PathsFrom(tier, prefix + 1))]
    <3>1. \A k : Listing(k)' = Listing(k)
      BY <1>2, ListingKept
    <3> QED BY <1>2, <3>1 DEF SourcesKept
  <2> DEFINE f == FilesOf(Listing(k), tier)
             o == OrderOf(Listing(k), tier)
             S == PathsFrom(tier, prefix)
  <2>1. sources[k] = [order |-> o, files |-> Restrict(f, S)]
    BY <1>1, <1>2 DEF SourcesKept
  <2>2. sources'[k] = [sources[k] EXCEPT !.files = Removed(@)]
    BY <1>2
  <2> HIDE DEF f, o, S
  <2>3. sources'[k] = [order |-> o, files |-> Removed(Restrict(f, S))]
    BY <2>1, <2>2
  <2>4. Removed(Restrict(f, S)) = Restrict(f, PathsFrom(tier, prefix + 1))
    <3>1. S \ {FilePath(Nibbles)} = PathsFrom(tier, prefix + 1)
      BY <1>4 DEF S
    <3> QED BY <3>1 DEF Removed, Restrict
  <2> QED BY <2>3, <2>4 DEF f, o
<1>6. FilesAscend'
  <2>1. PathsTo(tier, prefix + 1) \subseteq DOMAIN new.files
    <3>1. \A p \in 0 .. (prefix + 1) - 1 : p = prefix \/ p \in 0 .. prefix - 1
      BY <1>3
    <3>2. \A n \in 0 .. NibbleBase - 1 : FilePath(Append(PrefixNibbles(prefix, tier), n)) \in DOMAIN new.files
      BY <1>1, <1>2 DEF FilesFit, Nibbles
    <3>3. PathsTo(tier, prefix) \subseteq DOMAIN new.files
      BY <1>1 DEF FilesAscend
    <3> QED BY <3>1, <3>2, <3>3 DEF PathsTo
  <2> QED BY <1>1, <1>2, <2>1 DEF FilesAscend
<1>7. IndicesFit' /\ UpdatesTell'
  BY <1>1, <1>2, IndicesKept, UpdatesStay
<1>8. OrderSoFar'
  BY <1>1, <1>2 DEF OrderSoFar
<1> QED BY <1>5, <1>6, <1>7, <1>8 DEF InOrder


(***************************************************************************)
(* HashesOrder.bin                                                         *)
(***************************************************************************)
\* Every hash is in the new donut, and in its file once.
LEMMA AllCopied ==
  ASSUME NothingLost, prefix = Power[tier]
  PROVE  Stored(new, tier + 1, NewOffset) = {<<h, presented[h]>> : h \in DOMAIN presented}
<1>1. OffsetsFit /\ FilesFit /\ EntriesPreserved
  BY DEF NothingLost
<1>2. \A k \in 1 .. Donuts : Stored(sources[k], tier, offsets[k]) = {}
  BY <1>1, NoSourceFiles
<1>3. UNION {Stored(sources[k], tier, offsets[k]) : k \in 1 .. Donuts} = {}
  BY <1>2
<1> DEFINE A == UNION {Stored(sources[k], tier, offsets[k]) : k \in 1 .. Donuts}
           B == Stored(new, tier + 1, NewOffset)
<1>4. A \cup B = {<<h, presented[h]>> : h \in DOMAIN presented}
  BY <1>1 DEF EntriesPreserved
<1> HIDE DEF A, B
<1>5. A = {}
  BY <1>3 DEF A
<1>6. B = {<<h, presented[h]>> : h \in DOMAIN presented}
  BY <1>4, <1>5
<1> QED BY <1>6 DEF B

LEMMA HashPrefix ==
  ASSUME NEW t \in Nat, t + 1 <= HashNibbles, NEW h \in Hash
  PROVE  /\ SubSeq(h, 1, t) \in Strings(t) /\ h[t + 1] \in Nibble
         /\ SubSeq(h, 1, t + 1) = Append(SubSeq(h, 1, t), h[t + 1])
         /\ SubSeq(h, 1, t + 1) \in Strings(t + 1)
<1> DEFINE p == SubSeq(h, 1, t)
           r == SubSeq(h, 1, t + 1)
           q == Append(p, h[t + 1])
<1>1. HashNibbles \in Nat /\ t \in 0 .. HashNibbles /\ t + 1 \in 0 .. HashNibbles
  BY TierBakeAssumption
<1>2. \A i \in 1 .. t + 1 : h[i] \in Nibble
  BY <1>1 DEF Hash, Nibble
<1>3. p \in Seq(Nibble) /\ Len(p) = t /\ \A i \in 1 .. t : p[i] = h[i]
  <2>1. \A i \in 1 .. t : h[i] \in Nibble
    BY <1>2
  <2>2. /\ p \in Seq(Nibble) /\ Len(p) = (IF 1 <= t THEN t - 1 + 1 ELSE 0)
        /\ \A i \in 1 .. t - 1 + 1 : p[i] = h[1 + i - 1]
    BY <2>1, SubSeqProperties
  <2> QED BY <2>2
<1>4. r \in Seq(Nibble) /\ Len(r) = t + 1 /\ \A i \in 1 .. t + 1 : r[i] = h[i]
  <2>1. /\ r \in Seq(Nibble) /\ Len(r) = (IF 1 <= t + 1 THEN (t + 1) - 1 + 1 ELSE 0)
        /\ \A i \in 1 .. (t + 1) - 1 + 1 : r[i] = h[1 + i - 1]
    BY <1>1, <1>2, SubSeqProperties
  <2> QED BY <2>1
<1>5. p \in Strings(t) /\ r \in Strings(t + 1)
  <2> HIDE DEF p, r
  <2> QED BY <1>3, <1>4, LenProperties DEF Strings
<1>6. h[t + 1] \in Nibble
  BY <1>2
<1>7. q \in Strings(t + 1) /\ q[t + 1] = h[t + 1] /\ \A i \in 1 .. t : q[i] = p[i]
  BY <1>5, <1>6, AppendString
<1> HIDE DEF p, q, r
<1>8. \A i \in 1 .. t + 1 : r[i] = q[i]
  <2> TAKE i \in 1 .. t + 1
  <2>1. i = t + 1 \/ i \in 1 .. t
    OBVIOUS
  <2> QED BY <1>3, <1>4, <1>7, <2>1
<1>9. r = q
  BY <1>5, <1>7, <1>8 DEF Strings
<1> QED BY <1>5, <1>6, <1>9 DEF p, q, r

\* The last number that is in a finite set of numbers from 1 to n.
LEMMA Greatest ==
  ASSUME NEW n \in Nat, NEW T, T \subseteq 1 .. n, T # {}
  PROVE  \E u \in T : \A v \in u + 1 .. n : v \notin T
<1> DEFINE D == {n - u : u \in T}
<1>1. D \subseteq Nat /\ D # {}
  <2>1. \A u \in T : n - u \in Nat
    OBVIOUS
  <2> QED BY <2>1
<1>2. PICK x \in D : \A y \in D : x <= y
  <2> HIDE DEF D
  <2> QED BY <1>1, LeastNumber
<1>3. PICK u \in T : x = n - u
  BY <1>2
<1>4. \A v \in T : n - v \in D
  OBVIOUS
<1>5. \A v \in T : n - u <= n - v
  BY <1>2, <1>3, <1>4
<1> HIDE DEF D
<1>6. ASSUME NEW v \in u + 1 .. n, v \in T PROVE FALSE
  <2>1. n - u <= n - v
    BY <1>5, <1>6
  <2>2. u \in Nat /\ v \in Nat /\ v > u
    BY <1>6
  <2> QED BY <2>1, <2>2
<1> QED BY <1>6

\* What the updates say of the local index at hand.
LEMMA UpdateIs ==
  ASSUME NothingLost, InOrder, Ordering
  PROVE  LET h == Listing(donut)[at + 1]
         IN  /\ donut \in 1 .. Donuts /\ at + 1 \in 1 .. DonutSize[tier]
             /\ h = NoHash => Update(at).nibble = 0 /\ Update(at).position = 0
             /\ h # NoHash =>
                  /\ h \in DOMAIN presented /\ h \in Hash
                  /\ Update(at).nibble = h[tier + 1]
                  /\ Update(at).position \in Nat /\ IsAt(h, Update(at).position)
<1> DEFINE h == Listing(donut)[at + 1]
           list == updates[donut]
           says(u) == list[u].pi = at
           last == {u \in 1 .. Len(list) : says(u) /\ \A v \in u + 1 .. Len(list) : ~ says(v)}
<1>1. /\ OffsetsFit /\ FilesFit /\ IndicesFit /\ SourcesKept /\ UpdatesTell /\ pc = "order"
      /\ donut <= Donuts /\ at < Len(sources[donut].order)
  BY DEF NothingLost, InOrder, Ordering
<1>2. donut \in 1 .. Donuts /\ at \in Nat /\ tier \in Nat /\ DonutSize[tier] \in Nat
  BY <1>1, StateFacts
<1>3. Len(sources[donut].order) = DonutSize[tier]
  <2> DEFINE l == Listing(donut)
  <2>1. sources[donut] = [order |-> OrderOf(l, tier),
                          files |-> Restrict(FilesOf(l, tier), PathsFrom(tier, prefix))]
    BY <1>1, <1>2 DEF SourcesKept
  <2>2. Len(l) = DonutSize[tier]
    BY <1>1, <1>2, ListingIs
  <2> HIDE DEF l
  <2>3. sources[donut].order = OrderOf(l, tier)
    BY <2>1
  <2>4. Len(OrderOf(l, tier)) = Len(l)
    BY <1>2, <2>2 DEF OrderOf
  <2> QED BY <2>2, <2>3, <2>4
<1>4. at + 1 \in 1 .. DonutSize[tier] /\ (at + 1) - 1 = at
  BY <1>1, <1>2, <1>3
<1>5. /\ h # NoHash => h \in DOMAIN presented /\ presented[h] = at + offsets[donut]
      /\ \A g \in DOMAIN presented : presented[g] = at + offsets[donut] => h = g
      /\ NoHash \notin DOMAIN presented
  BY <1>1, <1>2, <1>4, ListingIs
<1>6. /\ list \in Seq(UpdateType) /\ Len(list) \in Nat
      /\ \A u \in 1 .. Len(list) : list[u] \in UpdateType
  <2>1. list \in Seq(UpdateType)
    BY <1>1, <1>2 DEF UpdatesTell
  <2> HIDE DEF list
  <2> QED BY <2>1
<1>7. ASSUME NEW u \in 1 .. Len(list), says(u)
      PROVE  h \in DOMAIN presented /\ list[u].nibble = h[tier + 1] /\ list[u].position \in Nat
             /\ IsAt(h, list[u].position)
  <2>1. PICK g \in DOMAIN presented :
          presented[g] = list[u].pi + offsets[donut] /\ list[u].nibble = g[tier + 1] /\ IsAt(g, list[u].position)
    BY <1>1, <1>2, <1>7 DEF UpdatesTell
  <2>2. g = h
    BY <1>5, <1>7, <2>1
  <2>3. list[u].position \in Nat
    BY <1>6 DEF UpdateType
  <2> QED BY <2>1, <2>2, <2>3
<1>8. Update(at) = IF last = {} THEN [nibble |-> 0, position |-> 0] ELSE list[CHOOSE u \in last : TRUE]
  BY DEF Update
<1> HIDE DEF list, h
<1>9. CASE h = NoHash
  <2>1. \A u \in 1 .. Len(list) : ~ says(u)
    BY <1>5, <1>7, <1>9
  <2>2. last = {}
    BY <2>1
  <2>3. Update(at).nibble = 0 /\ Update(at).position = 0
    <3> HIDE DEF last
    <3> QED BY <1>8, <2>2
  <2> QED BY <1>2, <1>4, <1>9, <2>3 DEF h
<1>10. CASE h # NoHash
  <2>1. h \in DOMAIN presented /\ presented[h] = at + offsets[donut] /\ h \in Hash
    BY <1>1, <1>5, <1>10 DEF IndicesFit
  <2>2. presented[h] \in Span(donut)
    <3>1. offsets[donut] \in Nat
      BY <1>1, <1>2, OffsetsAre
    <3>2. at + offsets[donut] \in offsets[donut] .. offsets[donut] + DonutSize[tier] - 1
      BY <1>2, <1>4, <3>1
    <3> QED BY <2>1, <3>2 DEF Span
  <2>3. <<h, presented[h]>> \in Stored(new, tier + 1, NewOffset)
    BY <1>1, <2>1, AllCopied DEF FilesFit
  <2>4. PICK u \in 1 .. Len(list) : list[u].pi + offsets[donut] = presented[h]
    BY <1>1, <1>2, <2>1, <2>2, <2>3 DEF UpdatesTell, list
  <2>5. says(u)
    <3>1. list[u].pi \in Nat /\ offsets[donut] \in Nat
      BY <1>1, <1>2, <1>6, OffsetsAre DEF UpdateType
    <3> QED BY <1>2, <2>1, <2>4, <3>1
  <2>6. last # {}
    <3> DEFINE T == {v \in 1 .. Len(list) : says(v)}
    <3>1. T \subseteq 1 .. Len(list) /\ T # {}
      BY <2>5
    <3>2. PICK w \in T : \A v \in w + 1 .. Len(list) : v \notin T
      <4> HIDE DEF T
      <4> QED BY <1>6, <3>1, Greatest
    <3>3. \A v \in w + 1 .. Len(list) : v \in 1 .. Len(list)
      BY <1>6
    <3>4. w \in last
      BY <3>2, <3>3
    <3> QED BY <3>4
  <2>7. PICK v \in last : Update(at) = list[v]
    <3> HIDE DEF last
    <3> QED BY <1>8, <2>6
  <2>8. Update(at).nibble = h[tier + 1] /\ Update(at).position \in Nat
    BY <1>7, <2>7
  <2>9. IsAt(h, Update(at).position)
    BY <1>7, <2>7
  <2> QED BY <1>2, <1>4, <1>10, <2>1, <2>8, <2>9 DEF h
<1> QED BY <1>9, <1>10


\* The prefix index that is written for a local index: that of the longer prefix of its
\* hash, unless the shorter one reads back as "no match".
LEMMA NewPrefixIs ==
  ASSUME NothingLost, InOrder, Ordering
  PROVE  LET h == Listing(donut)[at + 1]
         IN  /\ h = NoHash => NewPrefixIndex = 0
             /\ h # NoHash =>
                  \/ /\ NewPrefixIndex = PrefixIndex(SubSeq(h, 1, tier + 1))
                     /\ Fits(NewPrefixIndex, PrefixOnes[tier + 1])
                  \/ AllOnes /\ ~ Fits(NewPrefixIndex, PrefixOnes[tier + 1])
             /\ 0 <= PrefixOnes[tier + 1]
<1> DEFINE l == Listing(donut)
           h == l[at + 1]
           p == SubSeq(h, 1, tier)
           written == sources[donut].order[at + 1].prefix
           read == ReadPrefix(tier, written)
           u == Update(at)
           b == NibbleBase
           ones == PrefixOnes[tier + 1]
<1>1. /\ OffsetsFit /\ IndicesFit /\ SourcesKept /\ pc = "order"
  BY DEF NothingLost, InOrder, Ordering
<1>2. /\ donut \in 1 .. Donuts /\ at + 1 \in 1 .. DonutSize[tier]
      /\ h = NoHash => u.nibble = 0
      /\ h # NoHash => h \in Hash /\ h \in DOMAIN presented /\ u.nibble = h[tier + 1]
  BY UpdateIs
<1>3. /\ tier \in Tiers /\ tier \in Nat /\ tier + 1 \in Nat /\ tier + 1 <= HashNibbles
      /\ b \in Nat /\ b > 1 /\ DonutSize[tier] \in Nat
      /\ Words \in Nat /\ ones \in Nat
  <2>1. tier \in Tiers
    BY <1>1, StateFacts
  <2>2. ones \in Nat
    BY <2>1, WidthsAssumption
  <2> QED BY <1>1, <2>1, <2>2, StateFacts, TierBakeAssumption
<1>4. /\ tier = 2 => PrefixOnes[tier] = Power[tier] - 1
      /\ tier \notin {0, 2} => PrefixOnes[tier] >= Power[tier]
      /\ ones >= Power[tier + 1] - 1 /\ ones + b < Words
  BY <1>3, RoomAssumption
<1>5. /\ Power[tier] \in Nat \ {0} /\ Power[tier + 1] \in Nat \ {0}
      /\ Power[2] \in Nat /\ Power[2] > 1
  <2>1. /\ Power[0] = 1 /\ Power[0 + 1] = b * Power[0] /\ Power[1 + 1] = b * Power[1]
        /\ Power[tier] \in Nat \ {0} /\ Power[tier + 1] \in Nat \ {0}
    BY <1>3, PowerFacts
  <2>2. Power[1] = b
    BY <1>3, <2>1
  <2>3. Power[2] = b * b
    BY <2>1, <2>2
  <2>4. b * b \in Nat /\ b * b > 1
    BY <1>3
  <2> QED BY <2>1, <2>3, <2>4
<1>6. written = OrderOf(l, tier)[at + 1].prefix /\ Len(l) = DonutSize[tier]
  <2>1. sources[donut] = [order |-> OrderOf(l, tier),
                          files |-> Restrict(FilesOf(l, tier), PathsFrom(tier, prefix))]
    BY <1>1, <1>2 DEF SourcesKept
  <2>2. Len(l) = DonutSize[tier]
    BY <1>1, <1>2, ListingIs
  <2> HIDE DEF l
  <2> QED BY <2>1, <2>2
<1>7. written = IF tier = 0 \/ h = NoHash THEN 0 ELSE PrefixIndex(p)
  <2> HIDE DEF l, written
  <2>1. OrderOf(l, tier)[at + 1] =
          IF tier = 0 THEN [prefix |-> 0, suffix |-> IF h = NoHash THEN SuffixOnes ELSE (at + 1) - 1]
          ELSE IF h = NoHash THEN [prefix |-> 0, suffix |-> 0]
          ELSE [prefix |-> PrefixIndex(p),
                suffix |-> Cardinality({j \in 1 .. (at + 1) - 1 :
                             l[j] # NoHash /\ SubSeq(l[j], 1, tier) = p})]
    BY <1>2, <1>6 DEF OrderOf
  <2> HIDE DEF p, h
  <2> QED BY <1>6, <2>1
<1>8. NewPrefixIndex = (b * read + u.nibble) % Words
  BY DEF NewPrefixIndex
<1> HIDE DEF l, h, p, written, read, u, b, ones
<1>9. CASE h = NoHash
  <2>1. written = 0 /\ u.nibble = 0
    BY <1>2, <1>7, <1>9
  <2>2. read = 0
    <3>1. CASE tier = 0
      BY <3>1 DEF ReadPrefix, read
    <3>2. CASE tier # 0
      <4>1. PrefixOnes[tier] # 0
        BY <1>3, <1>4, <1>5, <3>2
      <4> QED BY <2>1, <3>2, <4>1 DEF ReadPrefix, read
    <3> QED BY <3>1, <3>2
  <2>3. (b * 0 + 0) % Words = 0
    BY <1>3, <1>4
  <2>4. NewPrefixIndex = 0
    BY <1>8, <2>1, <2>2, <2>3
  <2> QED BY <1>3, <1>9, <2>4 DEF h, l, ones
<1>10. CASE h # NoHash
  <2> DEFINE n == h[tier + 1]
             q == SubSeq(h, 1, tier + 1)
  <2>1. h \in Hash /\ h \in DOMAIN presented /\ u.nibble = n
    BY <1>2, <1>10
  <2>2. p \in Strings(tier) /\ n \in Nibble /\ q = Append(p, n) /\ q \in Strings(tier + 1)
    BY <1>3, <2>1, HashPrefix DEF p
  <2>3. PrefixIndex(p) \in 0 .. Power[tier] - 1 /\ PrefixIndex(q) \in 0 .. Power[tier + 1] - 1
    BY <1>3, <2>2, IndexOfString
  <2>4. PrefixIndex(q) = b * PrefixIndex(p) + n
    BY <1>3, <2>2, IndexOfLonger DEF b
  <2>5. n \in 0 .. b - 1
    BY <2>2 DEF Nibble, b
  <2> HIDE DEF n, q
  <2>6. CASE read = PrefixIndex(p)
    <3>1. PrefixIndex(q) \in Nat /\ PrefixIndex(q) <= ones /\ PrefixIndex(q) < Words
      BY <1>3, <1>4, <1>5, <2>3
    <3>2. PrefixIndex(q) % Words = PrefixIndex(q)
      BY <1>3, <3>1
    <3>3. NewPrefixIndex = PrefixIndex(q)
      BY <1>8, <2>1, <2>4, <2>6, <3>2
    <3>4. Fits(NewPrefixIndex, ones)
      BY <3>1, <3>3 DEF Fits
    <3> QED BY <1>3, <1>10, <3>3, <3>4 DEF h, l, q, ones
  <2>7. CASE read # PrefixIndex(p)
    <3>1. tier # 0
      <4> SUFFICES ASSUME tier = 0 PROVE FALSE
        OBVIOUS
      <4>1. PrefixIndex(p) = 0
        BY <2>3, PowerFacts
      <4>2. read = 0
        BY DEF read, ReadPrefix
      <4> QED BY <2>7, <4>1, <4>2
    <3>2. written = PrefixIndex(p)
      BY <1>7, <1>10, <3>1
    <3>3. PrefixIndex(p) = PrefixOnes[tier] /\ read = NoMatch
      BY <2>7, <3>1, <3>2 DEF read, ReadPrefix
    <3>4. tier = 2
      BY <1>4, <1>5, <2>3, <3>1, <3>3
    <3>5. AllOnes
      <4>1. PrefixIndex(SubSeq(h, 1, 2)) = PrefixOnes[2]
        BY <3>3, <3>4 DEF p
      <4> QED BY <2>1, <3>4, <4>1 DEF AllOnes
    <3> DEFINE r == Words - b + n
    <3>6. r \in 0 .. Words - 1 /\ r > ones
      BY <1>3, <1>4, <2>5
    <3>7. b * NoMatch + n = Words * (b - 1) + r
      <4>1. b * (Words - 1) = b * Words - b
        BY <1>3
      <4>2. Words * (b - 1) = b * Words - Words
        BY <1>3
      <4>3. n \in Int /\ b \in Int /\ Words \in Int /\ b * Words \in Int
        BY <1>3, <2>5
      <4> DEFINE w == b * Words
      <4>4. b * (Words - 1) = w - b /\ Words * (b - 1) = w - Words /\ w \in Int
        BY <4>1, <4>2, <4>3
      <4> HIDE DEF w
      <4>5. (w - b) + n = (w - Words) + r
        BY <4>3, <4>4
      <4> QED BY <4>4, <4>5 DEF NoMatch
    <3> HIDE DEF r
    <3>8. (Words * (b - 1) + r) % Words = r
      <4>1. Words \in Nat \ {0} /\ b - 1 \in Nat
        BY <1>3, <1>4
      <4> QED BY <3>6, <4>1, DividedBack
    <3>9. NewPrefixIndex = r
      BY <1>8, <2>1, <3>3, <3>7, <3>8
    <3>10. ~ Fits(NewPrefixIndex, ones)
      BY <1>3, <3>6, <3>9 DEF Fits
    <3> QED BY <1>3, <1>10, <3>5, <3>10 DEF h, l, ones
  <2> QED BY <2>6, <2>7
<1> QED BY <1>9, <1>10


\* Entries whose files are as they were still say what they said.
LEMMA OrderStays ==
  ASSUME UNCHANGED given, new'.files = new.files, NEW entry, NEW k, NEW i
  PROVE  OrderIs(entry, Listing(k)[i])' <=> OrderIs(entry, Listing(k)[i])
<1>1. Listing(k)' = Listing(k)
  BY ListingKept
<1>2. IsAt(Listing(k)[i], entry.suffix)' <=> IsAt(Listing(k)[i], entry.suffix)
  <2> DEFINE h == Listing(k)[i]
  <2>1. IsAt(h, entry.suffix)' <=> IsAt(h, entry.suffix)
    BY <1>1 DEF IsAt, given, NewOffset
  <2> QED BY <2>1
<1> QED BY <1>1, <1>2 DEF OrderIs, given

LEMMA StartOrderOrders ==
  ASSUME NothingLost, InOrder, StartOrder
  PROVE  InOrder'
<1>1. /\ OffsetsFit /\ FilesFit /\ IndicesFit /\ SourcesKept /\ FilesAscend /\ UpdatesTell /\ OrderSoFar
  BY DEF NothingLost, InOrder
<1>2. /\ pc = "prefix" /\ pc' = "order" /\ donut' = 1 /\ at' = 0
      /\ UNCHANGED given /\ UNCHANGED <<tier, offsets, presented, sources, updates, prefix>>
      /\ new' = [new EXCEPT !.order = <<>>]
  BY DEF StartOrder, given
<1>3. new'.files = new.files
  BY <1>1, <1>2, OrderKept
<1>4. new'.order = <<>>
  BY <1>1, <1>2 DEF FilesFit, IsDonut
<1>5. IndicesFit' /\ SourcesKept' /\ FilesAscend' /\ UpdatesTell'
  BY <1>1, <1>2, <1>3, IndicesKept, SourcesStay, AscendStays, UpdatesStay
<1>6. OrderSoFar'
  <2>1. DonutSize[tier] \in Nat \ {0} /\ Donuts \in Nat \ {0}
    BY <1>1, StateFacts
  <2>2. Len(new'.order) = 0 /\ (1 - 1) * DonutSize[tier] + 0 = 0
    BY <1>4, <2>1
  <2>3. \A k \in 1 .. Donuts, i \in 1 .. DonutSize[tier] : (k - 1) * DonutSize[tier] + i > 0
    <3> TAKE k \in 1 .. Donuts, i \in 1 .. DonutSize[tier]
    <3> QED BY <2>1, Counted
  <2>4. new'.order \in Seq([prefix : Nat, suffix : Nat])
    BY <1>4
  <2> QED BY <1>2, <2>1, <2>2, <2>3, <2>4 DEF OrderSoFar
<1> QED BY <1>5, <1>6 DEF InOrder

\* Every donut has as many local indices.
LEMMA OrderLength ==
  ASSUME OffsetsFit, IndicesFit, SourcesKept, pc = "order", NEW k \in 1 .. Donuts
  PROVE  Len(sources[k].order) = DonutSize[tier] /\ DonutSize[tier] \in Nat \ {0}
<1> DEFINE l == Listing(k)
<1>1. sources[k] = [order |-> OrderOf(l, tier),
                    files |-> Restrict(FilesOf(l, tier), PathsFrom(tier, prefix))]
  BY DEF SourcesKept
<1>2. Len(l) = DonutSize[tier] /\ DonutSize[tier] \in Nat \ {0}
  BY ListingIs, StateFacts
<1> HIDE DEF l
<1>3. sources[k].order = OrderOf(l, tier)
  BY <1>1
<1>4. Len(OrderOf(l, tier)) = Len(l)
  BY <1>2 DEF OrderOf
<1> QED BY <1>2, <1>3, <1>4

LEMMA OrderEntryOrders ==
  ASSUME NothingLost, InOrder, OrderEntry
  PROVE  InOrder'
<1> DEFINE h == Listing(donut)[at + 1]
           size == DonutSize[tier]
           made == [prefix |-> NewPrefixIndex, suffix |-> Update(at).position]
<1>1. /\ OffsetsFit /\ FilesFit /\ IndicesFit /\ SourcesKept /\ FilesAscend /\ UpdatesTell /\ OrderSoFar
      /\ NothingLost /\ InOrder
  BY DEF NothingLost, InOrder
<1>2. /\ pc = "order" /\ pc' = "order" /\ donut' = donut /\ at' = at + 1 /\ Ordering /\ OrderFits
      /\ UNCHANGED given /\ UNCHANGED <<tier, offsets, presented, sources, updates, prefix, donut>>
      /\ new' = [new EXCEPT !.order = Append(@, made)]
  BY DEF OrderEntry, given, Ordering
<1>3. new'.files = new.files
  BY <1>1, <1>2, OrderKept
<1>4. new'.order = Append(new.order, made)
  BY <1>1, <1>2 DEF FilesFit, IsDonut
<1>5. IndicesFit' /\ SourcesKept' /\ FilesAscend' /\ UpdatesTell'
  BY <1>1, <1>2, <1>3, IndicesKept, SourcesStay, AscendStays, UpdatesStay
<1>6. /\ donut \in 1 .. Donuts /\ at + 1 \in 1 .. size /\ size \in Nat \ {0} /\ Donuts \in Nat /\ at \in Nat
      /\ h = NoHash => Update(at).nibble = 0 /\ Update(at).position = 0
      /\ h # NoHash => h \in DOMAIN presented /\ Update(at).position \in Nat /\ IsAt(h, Update(at).position)
  BY <1>1, <1>2, UpdateIs, StateFacts
<1>7. made \in [prefix : Nat, suffix : Nat]
  <2>1. NewPrefixIndex \in Nat
    <3>1. CASE h = NoHash
      BY <1>1, <1>2, <3>1, NewPrefixIs
    <3>2. CASE h # NoHash
      <4>1. NewPrefixIndex = PrefixIndex(SubSeq(h, 1, tier + 1))
        BY <1>1, <1>2, <3>2, NewPrefixIs DEF OrderFits
      <4>2. SubSeq(h, 1, tier + 1) \in Strings(tier + 1) /\ tier + 1 \in Nat
        BY <1>1, <1>6, <3>2, StateFacts, HashPrefix DEF IndicesFit
      <4> QED BY <4>1, <4>2, IndexOfString
    <3> QED BY <3>1, <3>2
  <2>2. Update(at).position \in Nat
    BY <1>6
  <2> QED BY <2>1, <2>2
<1>8. OrderIs(made, h)
  <2>1. Update(at).position < SuffixOnes
    BY <1>2 DEF OrderFits, Fits24
  <2>2. made.prefix = IF h = NoHash THEN 0 ELSE PrefixIndex(SubSeq(h, 1, tier + 1))
    BY <1>1, <1>2, NewPrefixIs DEF OrderFits
  <2>3. IF h = NoHash THEN made.suffix = 0 ELSE IsAt(h, made.suffix)
    BY <1>6
  <2> HIDE DEF h
  <2> QED BY <2>1, <2>2, <2>3 DEF OrderIs
<1> HIDE DEF h, size, made
<1>9. /\ new.order \in Seq([prefix : Nat, suffix : Nat])
      /\ Len(new.order) = (donut - 1) * size + at /\ Len(new.order) \in Nat
      /\ \A k \in 1 .. Donuts, i \in 1 .. size :
           (k - 1) * size + i <= Len(new.order) =>
              OrderIs(new.order[(k - 1) * size + i], Listing(k)[i])
  BY <1>1, <1>2, LenProperties DEF OrderSoFar, size
<1>10. /\ new'.order \in Seq([prefix : Nat, suffix : Nat])
       /\ Len(new'.order) = Len(new.order) + 1
       /\ new'.order[Len(new.order) + 1] = made
       /\ \A j \in 1 .. Len(new.order) : new'.order[j] = new.order[j]
  BY <1>4, <1>7, <1>9
<1>11. ASSUME NEW k \in 1 .. Donuts, NEW i \in 1 .. size, (k - 1) * size + i <= Len(new'.order)
       PROVE  OrderIs(new'.order[(k - 1) * size + i], Listing(k)[i])
  <2> DEFINE j == (k - 1) * size + i
  <2>1. j \in 1 .. Donuts * size /\ (j - 1) \div size + 1 = k
    BY <1>6, Counted
  <2>2. CASE j <= Len(new.order)
    <3>1. j \in 1 .. Len(new.order)
      BY <1>9, <2>1, <2>2
    <3>2. new'.order[j] = new.order[j]
      BY <1>10, <3>1
    <3>3. OrderIs(new.order[j], Listing(k)[i])
      BY <1>9, <2>2
    <3> QED BY <3>2, <3>3
  <2>3. CASE ~ j <= Len(new.order)
    <3> DEFINE m == (donut - 1) * size + (at + 1)
    <3>1. m \in 1 .. Donuts * size /\ (m - 1) \div size + 1 = donut
      BY <1>6, Counted
    <3>2. (donut - 1) * size \in Nat
      BY <1>6
    <3>3. j = m
      <4> DEFINE x == (donut - 1) * size
                 y == (k - 1) * size
      <4>1. x \in Nat /\ y \in Int /\ Len(new.order) = x + at /\ y + i <= (x + at) + 1 /\ ~ y + i <= x + at
        BY <1>6, <1>9, <1>10, <1>11, <2>3, <3>2
      <4> HIDE DEF x, y
      <4>2. y + i = x + (at + 1)
        BY <1>6, <4>1
      <4> QED BY <4>2 DEF x, y
    <3>4. k = donut
      BY <2>1, <3>1, <3>3
    <3>5. i = at + 1
      <4> DEFINE x == (donut - 1) * size
      <4>1. x + i = x + (at + 1) /\ x \in Nat
        BY <3>2, <3>3, <3>4
      <4> HIDE DEF x
      <4> QED BY <1>6, <4>1
    <3>6. new'.order[j] = made
      <4>1. j = Len(new.order) + 1
        <5> DEFINE x == (donut - 1) * size
        <5>1. j = x + (at + 1) /\ Len(new.order) = x + at /\ x \in Nat
          BY <1>9, <3>2, <3>3
        <5> HIDE DEF x, j
        <5> QED BY <1>6, <5>1
      <4> QED BY <1>10, <4>1
    <3>7. OrderIs(made, Listing(k)[i])
      BY <1>8, <3>4, <3>5 DEF h
    <3> QED BY <3>6, <3>7
  <2> QED BY <2>2, <2>3
<1>12. ASSUME NEW k \in 1 .. Donuts, NEW i \in 1 .. size, (k - 1) * size + i <= Len(new'.order)
       PROVE  OrderIs(new.order[(k - 1) * size + i], Listing(k)[i])'
  <2> PICK entry : entry = new'.order[(k - 1) * size + i]
    OBVIOUS
  <2>1. OrderIs(entry, Listing(k)[i])
    BY <1>11, <1>12
  <2>2. OrderIs(entry, Listing(k)[i])'
    BY <1>2, <1>3, <2>1, OrderStays
  <2> QED BY <1>2, <2>2 DEF OrderIs, IsAt, size
<1>13. OrderSoFar'
  <2>1. Len(new'.order) = (donut - 1) * size + (at + 1)
    <3> DEFINE x == (donut - 1) * size
    <3>1. x \in Nat /\ Len(new.order) = x + at
      BY <1>6, <1>9
    <3> HIDE DEF x
    <3>2. Len(new'.order) = x + (at + 1)
      BY <1>6, <1>10, <3>1
    <3> QED BY <3>2 DEF x
  <2>2. at + 1 <= size /\ ~ donut > Donuts
    BY <1>6
  <2> QED BY <1>2, <1>10, <1>12, <2>1, <2>2 DEF OrderSoFar, size
<1> QED BY <1>5, <1>13 DEF InOrder

LEMMA NextOrderOrders ==
  ASSUME NothingLost, InOrder, NextOrder
  PROVE  InOrder'
<1> DEFINE size == DonutSize[tier]
<1>1. /\ OffsetsFit /\ FilesFit /\ IndicesFit /\ SourcesKept /\ FilesAscend /\ UpdatesTell /\ OrderSoFar
  BY DEF NothingLost, InOrder
<1>2. /\ pc = "order" /\ pc' = "order" /\ donut' = donut + 1 /\ at' = 0 /\ ~ Ordering /\ donut <= Donuts
      /\ UNCHANGED given /\ UNCHANGED <<tier, offsets, presented, sources, new, prefix>>
      /\ updates' = [updates EXCEPT ![donut] = <<>>]
  BY DEF NextOrder, given
<1>3. donut \in 1 .. Donuts /\ Donuts \in Nat /\ at \in Nat /\ size \in Nat \ {0}
  BY <1>1, <1>2, StateFacts
<1>4. IndicesFit' /\ SourcesKept' /\ FilesAscend'
  BY <1>1, <1>2, IndicesKept, SourcesStay, AscendStays
<1>5. at = size
  <2>1. Len(sources[donut].order) = size
    BY <1>1, <1>2, <1>3, OrderLength
  <2>2. at <= size
    BY <1>1, <1>2 DEF OrderSoFar
  <2> QED BY <1>2, <1>3, <2>1, <2>2 DEF Ordering
<1>6. OrderSoFar'
  <2>1. Len(new.order) = (donut - 1) * size + at
    BY <1>1, <1>2 DEF OrderSoFar
  <2>2. (donut - 1) * size + size = ((donut + 1) - 1) * size + 0
    BY <1>3
  <2>3. Len(new.order) = ((donut + 1) - 1) * size + 0
    BY <1>5, <2>1, <2>2
  <2>4. \A entry, k, i : OrderIs(entry, Listing(k)[i])' <=> OrderIs(entry, Listing(k)[i])
    BY <1>2, OrderStays
  <2>5. /\ new.order \in Seq([prefix : Nat, suffix : Nat])
        /\ \A k \in 1 .. Donuts, i \in 1 .. size :
             (k - 1) * size + i <= Len(new.order) =>
                OrderIs(new.order[(k - 1) * size + i], Listing(k)[i])
    BY <1>1, <1>2 DEF OrderSoFar
  <2>6. \A k \in 1 .. Donuts, i \in 1 .. size :
          (k - 1) * size + i <= Len(new.order) =>
             OrderIs(new.order[(k - 1) * size + i], Listing(k)[i])'
    <3> TAKE k \in 1 .. Donuts, i \in 1 .. size
    <3> HAVE (k - 1) * size + i <= Len(new.order)
    <3> PICK entry : entry = new.order[(k - 1) * size + i]
      OBVIOUS
    <3>1. OrderIs(entry, Listing(k)[i])'
      BY <2>4, <2>5
    <3> QED BY <1>2, <3>1 DEF OrderIs, IsAt
  <2> QED BY <1>2, <1>3, <2>3, <2>5, <2>6 DEF OrderSoFar
<1>7. UpdatesTell'
  <2>1. /\ updates \in [1 .. Donuts -> Seq(UpdateType)]
    BY <1>1 DEF UpdatesTell
  <2>2. updates' \in [1 .. Donuts -> Seq(UpdateType)]
    <3>1. <<>> \in Seq(UpdateType)
      OBVIOUS
    <3> QED BY <1>2, <2>1, <3>1
  <2>3. updates'[donut] = <<>> /\ \A k \in 1 .. Donuts : k # donut => updates'[k] = updates[k]
    BY <1>2, <1>3, <2>1
  <2>4. Stored(new, tier + 1, NewOffset)' = Stored(new, tier + 1, NewOffset)
    BY <1>2 DEF NewOffset
  <2>5. \A h, position : IsAt(h, position)' <=> IsAt(h, position)
    BY <1>2, IsAtStays
  <2>6. ASSUME NEW k \in 1 .. Donuts
        PROVE  /\ \A u \in 1 .. Len(updates'[k]) : \E h \in DOMAIN presented :
                    /\ presented[h] = updates'[k][u].pi + offsets[k] /\ updates'[k][u].nibble = h[tier + 1]
                    /\ IsAt(h, updates'[k][u].position)
               /\ donut + 1 <= k =>
                    \A h \in DOMAIN presented :
                      /\ presented[h] \in Span(k)
                      /\ <<h, presented[h]>> \in Stored(new, tier + 1, NewOffset)
                      => \E u \in 1 .. Len(updates'[k]) : updates'[k][u].pi + offsets[k] = presented[h]
    <3>1. CASE k = donut
      <4>1. 1 .. Len(updates'[k]) = {} /\ ~ donut + 1 <= k
        BY <1>3, <2>3, <3>1
      <4> QED BY <4>1
    <3>2. CASE k # donut
      <4>1. updates'[k] = updates[k]
        BY <2>3, <3>2
      <4>2. donut + 1 <= k => donut <= k
        BY <1>3
      <4> DEFINE right(list) ==
                   \A u \in 1 .. Len(list) : \E h \in DOMAIN presented :
                     /\ presented[h] = list[u].pi + offsets[k] /\ list[u].nibble = h[tier + 1]
                     /\ IsAt(h, list[u].position)
                 full(list) ==
                   \A h \in DOMAIN presented :
                     /\ presented[h] \in Span(k)
                     /\ <<h, presented[h]>> \in Stored(new, tier + 1, NewOffset)
                     => \E u \in 1 .. Len(list) : list[u].pi + offsets[k] = presented[h]
      <4>3. right(updates[k]) /\ (donut <= k => full(updates[k]))
        BY <1>1, <1>2 DEF UpdatesTell
      <4> HIDE DEF right, full
      <4>4. right(updates'[k]) /\ (donut + 1 <= k => full(updates'[k]))
        BY <4>1, <4>2, <4>3
      <4> QED BY <4>4 DEF right, full
    <3> QED BY <3>1, <3>2
  <2>7. \A k \in 1 .. Donuts : \A u \in 1 .. Len(updates'[k]) : \A h \in DOMAIN presented :
          IsAt(h, updates'[k][u].position) => IsAt(h, updates[k][u].position)'
    <3> TAKE k \in 1 .. Donuts
    <3> TAKE u \in 1 .. Len(updates'[k])
    <3> TAKE h \in DOMAIN presented
    <3> PICK position : position = updates'[k][u].position
      OBVIOUS
    <3>1. IsAt(h, position) => IsAt(h, position)'
      BY <2>5
    <3> QED BY <3>1 DEF IsAt
  <2> QED BY <1>2, <2>2, <2>4, <2>6, <2>7 DEF UpdatesTell, Span
<1> QED BY <1>4, <1>6, <1>7 DEF InOrder

LEMMA FinishOrders ==
  ASSUME NothingLost, InOrder, Finish
  PROVE  InOrder'
<1>1. /\ OffsetsFit /\ FilesFit /\ IndicesFit /\ SourcesKept /\ FilesAscend /\ UpdatesTell /\ OrderSoFar
  BY DEF NothingLost, InOrder
<1>2. /\ pc = "order" /\ pc' \in {"done", "failed"} /\ donut > Donuts
      /\ UNCHANGED given /\ UNCHANGED <<tier, offsets, presented, new, updates, prefix, donut, at>>
  BY DEF Finish, given
<1>3. prefix = Power[tier]
  BY <1>1, <1>2 DEF FilesFit
<1>4. IndicesFit' /\ SourcesKept' /\ FilesAscend' /\ UpdatesTell'
  <2>1. SourcesKept'
    BY <1>2 DEF SourcesKept
  <2> QED BY <1>1, <1>2, <2>1, IndicesKept, AscendStays, UpdatesStay
<1>5. OrderSoFar'
  <2>1. \A k \in 1 .. Donuts, i \in 1 .. DonutSize[tier] :
          (k - 1) * DonutSize[tier] + i <= Len(new.order) =>
             OrderIs(new.order[(k - 1) * DonutSize[tier] + i], Listing(k)[i])'
    <3> TAKE k \in 1 .. Donuts, i \in 1 .. DonutSize[tier]
    <3> HAVE (k - 1) * DonutSize[tier] + i <= Len(new.order)
    <3> PICK entry : entry = new.order[(k - 1) * DonutSize[tier] + i]
      OBVIOUS
    <3>1. OrderIs(entry, Listing(k)[i])
      BY <1>1, <1>2 DEF OrderSoFar
    <3>2. OrderIs(entry, Listing(k)[i])'
      BY <1>2, <3>1, OrderStays
    <3> QED BY <1>2, <3>2 DEF OrderIs, IsAt
  <2> QED BY <1>1, <1>2, <1>3, <2>1 DEF OrderSoFar
<1> QED BY <1>4, <1>5 DEF InOrder

LEMMA StepInOrder ==
  ASSUME NothingLost, InOrder, [Next]_vars
  PROVE  InOrder'
<1>1. CASE Check
  BY <1>1, FailedOrders DEF Check, given
<1>2. CASE OpenPrefix
  BY <1>2, OpenPrefixOrders
<1>3. CASE CopyEntry
  BY <1>3, CopyEntryOrders
<1>4. CASE CopyPanics
  BY <1>4, FailedOrders DEF CopyPanics, Failed
<1>5. CASE NextFile
  BY <1>5, NextFileOrders
<1>6. CASE RemovePrefix
  BY <1>6, RemovePrefixOrders
<1>7. CASE StartOrder
  BY <1>7, StartOrderOrders
<1>8. CASE OrderEntry
  BY <1>8, OrderEntryOrders
<1>9. CASE OrderPanics
  BY <1>9, FailedOrders DEF OrderPanics, Failed
<1>10. CASE NextOrder
  BY <1>10, NextOrderOrders
<1>11. CASE Finish
  BY <1>11, FinishOrders
<1>12. CASE UNCHANGED vars
  <2>1. \A k : Listing(k)' = Listing(k)
    BY <1>12, ListingKept DEF vars, given
  <2>2. IndicesFit' /\ SourcesKept'
    BY <1>12, <2>1, IndicesKept, SourcesStay DEF vars, given, InOrder, SourcesKept
  <2>3. FilesAscend /\ UpdatesTell /\ OrderSoFar
    BY DEF InOrder
  <2>4. FilesAscend'
    BY <1>12, <2>3 DEF vars, FilesAscend, Nibbles, NewOffset
  <2>5. UpdatesTell'
    BY <1>12, <2>3 DEF vars, UpdatesTell, IsAt, Span, NewOffset
  <2>6. OrderSoFar'
    BY <1>12, <2>1, <2>3 DEF vars, OrderSoFar, OrderIs, IsAt, NewOffset
  <2> QED BY <2>2, <2>4, <2>5, <2>6 DEF InOrder
<1> QED
  BY <1>1, <1>2, <1>3, <1>4, <1>5, <1>6, <1>7, <1>8, <1>9, <1>10, <1>11, <1>12 DEF Next

\* At every step of a bake the files have their entries in the order of their indices, the
\* updates say where each copied entry went, and HashesOrder.bin so far follows them.
THEOREM StaysInOrder == Spec => []InOrder
<1>1. Init => InOrder
  BY InitInOrder
<1>2. NothingLost /\ InOrder /\ [Next]_vars => InOrder'
  BY StepInOrder
<1> QED BY <1>1, <1>2, NothingIsLost, PTL DEF Spec

(***************************************************************************)
(* What is there at the end                                                *)
(***************************************************************************)
\* The two parts of a hash that is put together again.
LEMMA HashParts ==
  ASSUME NEW t \in 0 .. HashNibbles, NEW p \in Strings(t), NEW s \in Strings(HashNibbles - t)
  PROVE  SubSeq(p \o s, 1, t) = p /\ SubSeq(p \o s, t + 1, HashNibbles) = s
<1> DEFINE h == p \o s
           q == SubSeq(h, 1, t)
           r == SubSeq(h, t + 1, HashNibbles)
           n == HashNibbles - t
<1>1. HashNibbles \in Nat /\ t \in Nat /\ n \in Nat /\ t + n = HashNibbles
  BY TierBakeAssumption
<1>2. h \in Hash /\ h = [i \in 1 .. HashNibbles |-> IF i <= t THEN p[i] ELSE s[i - t]]
  BY Joined
<1> HIDE DEF h
<1>3. \A i \in 1 .. HashNibbles : h[i] \in Nibble
  BY <1>2 DEF Hash, Nibble
<1>4. q \in Seq(Nibble) /\ Len(q) = t /\ \A i \in 1 .. t : q[i] = p[i]
  <2>1. \A i \in 1 .. t : h[i] \in Nibble /\ h[i] = p[i]
    BY <1>1, <1>2, <1>3
  <2>2. /\ q \in Seq(Nibble) /\ Len(q) = (IF 1 <= t THEN t - 1 + 1 ELSE 0)
        /\ \A i \in 1 .. t - 1 + 1 : q[i] = h[1 + i - 1]
    BY <1>1, <2>1, SubSeqProperties
  <2> QED BY <1>1, <2>1, <2>2
<1>5. r \in Seq(Nibble) /\ Len(r) = n /\ \A i \in 1 .. n : r[i] = s[i]
  <2>1. \A i \in t + 1 .. HashNibbles : h[i] \in Nibble
    BY <1>1, <1>3
  <2>2. /\ r \in Seq(Nibble)
        /\ Len(r) = (IF t + 1 <= HashNibbles THEN HashNibbles - (t + 1) + 1 ELSE 0)
        /\ \A i \in 1 .. HashNibbles - (t + 1) + 1 : r[i] = h[(t + 1) + i - 1]
    BY <1>1, <2>1, SubSeqProperties
  <2>3. \A i \in 1 .. n : h[(t + 1) + i - 1] = s[i]
    <3> TAKE i \in 1 .. n
    <3>1. (t + 1) + i - 1 = t + i /\ t + i \in 1 .. HashNibbles /\ ~ t + i <= t /\ (t + i) - t = i
      BY <1>1
    <3> QED BY <1>2, <3>1
  <2> QED BY <1>1, <2>2, <2>3
<1> HIDE DEF q, r
<1>6. q \in Strings(t) /\ r \in Strings(n)
  BY <1>4, <1>5, LenProperties DEF Strings
<1>7. q = p /\ r = s
  BY <1>4, <1>5, <1>6 DEF Strings, n
<1> QED BY <1>7 DEF q, r, h

\* When all prefixes have been read, an entry of the new donut is that of a hash that was
\* presented.
LEMMA EntryIs ==
  ASSUME NothingLost, InOrder, prefix = Power[tier], NEW q \in Strings(tier + 1),
         NEW m \in 1 .. Len(SuffixFile(new, q))
  PROVE  LET e == SuffixFile(new, q)[m]
             h == HashOf(q, e)
         IN  /\ e = [suffix |-> e.suffix, pi |-> e.pi] /\ e.pi \in Nat
             /\ h \in DOMAIN presented /\ presented[h] = e.pi + NewOffset
             /\ SubSeq(h, 1, tier + 1) = q
             /\ e.suffix = Packed(SubSeq(h, (tier + 1) + 1, HashNibbles))
<1> DEFINE path == FilePath(q)
           file == SuffixFile(new, q)
           e == file[m]
           n == HashNibbles - (tier + 1)
           h == HashOf(q, e)
<1>1. OffsetsFit /\ FilesFit /\ FilesAscend
  BY DEF NothingLost, InOrder
<1>2. tier + 1 \in Nat /\ tier + 1 \in 0 .. HashNibbles /\ n \in Nat
  BY <1>1, StateFacts, TierBakeAssumption
<1>3. path \in DOMAIN new.files /\ file = new.files[path]
  BY DEF SuffixFile
<1>4. DOMAIN file = 1 .. Len(file) /\ e \in EntryType(tier + 1)
  BY <1>1, FileType DEF FilesFit
<1>5. PICK s \in Strings(n) : e.suffix = Packed(s)
  BY <1>1, <1>3, <1>4 DEF FilesAscend
<1>6. ReadLocal(tier + 1, e.pi) = e.pi
  BY <1>1, <1>3, <1>4 DEF FilesAscend
<1>7. e = [suffix |-> e.suffix, pi |-> e.pi] /\ e.pi \in Nat
  <2> HIDE DEF e
  <2> QED BY <1>4 DEF EntryType
<1>8. Len(q) = tier + 1
  BY <1>2, StringSeq
<1>9. Unpacked(e.suffix, n) = s
  BY <1>2, <1>5, PackedBytes
<1>10. h = q \o s
  BY <1>8, <1>9 DEF HashOf
<1>11. SubSeq(h, 1, tier + 1) = q /\ SubSeq(h, (tier + 1) + 1, HashNibbles) = s
  BY <1>2, <1>10, HashParts
<1>12. Pair(q, e, tier + 1, NewOffset) \in Stored(new, tier + 1, NewOffset)
  BY <1>1, <1>2, StoredIs DEF FilesFit
<1>13. Pair(q, e, tier + 1, NewOffset) = <<h, e.pi + NewOffset>>
  BY <1>6 DEF Pair
<1> HIDE DEF h, e
<1>14. <<h, e.pi + NewOffset>> \in {<<g, presented[g]>> : g \in DOMAIN presented}
  BY <1>12, <1>13, AllCopied
<1>15. h \in DOMAIN presented /\ presented[h] = e.pi + NewOffset
  BY <1>14
<1> QED BY <1>5, <1>7, <1>11, <1>15 DEF h, e

\* The paths of the longer prefixes are all there.
LEMMA AllPaths ==
  ASSUME NothingLost, InOrder, prefix = Power[tier], NEW q \in Strings(tier + 1)
  PROVE  FilePath(q) \in DOMAIN new.files
<1> DEFINE s == [i \in 1 .. tier |-> q[i]]
           n == q[tier + 1]
           r == Append(s, n)
<1>1. OffsetsFit /\ FilesAscend /\ tier \in Nat
  BY StateFacts DEF NothingLost, InOrder
<1>2. s \in Strings(tier) /\ n \in Nibble
  BY <1>1 DEF Strings
<1>3. r \in Strings(tier + 1) /\ r[tier + 1] = n /\ \A i \in 1 .. tier : r[i] = s[i]
  BY <1>1, <1>2, AppendString
<1> HIDE DEF r
<1>4. \A i \in 1 .. tier + 1 : r[i] = q[i]
  <2> TAKE i \in 1 .. tier + 1
  <2>1. i = tier + 1 \/ i \in 1 .. tier
    BY <1>1
  <2> QED BY <1>3, <2>1
<1> HIDE DEF s, n
<1>5. r = q
  <2> DEFINE D == 1 .. tier + 1
  <2>1. r \in [D -> Nibble] /\ q \in [D -> Nibble]
    BY <1>3 DEF Strings
  <2>2. \A i \in D : r[i] = q[i]
    BY <1>4
  <2> HIDE DEF D
  <2> QED BY <2>1, <2>2
<1>6. PICK p \in 0 .. prefix - 1 : s = PrefixNibbles(p, tier)
  BY <1>1, <1>2, PrefixOnto
<1>7. q = Append(PrefixNibbles(p, tier), n)
  BY <1>5, <1>6 DEF r
<1>8. FilePath(q) \in PathsTo(tier, prefix)
  <2>1. n \in 0 .. NibbleBase - 1
    BY <1>2 DEF Nibble
  <2> QED BY <1>7, <2>1 DEF PathsTo
<1> QED BY <1>1, <1>8 DEF FilesAscend

\* Contiguous donuts start where the one before ends.
LEMMA ContiguousOffsets ==
  ASSUME OffsetsFit, Contiguous, NEW k \in 1 .. Donuts
  PROVE  offsets[k] = NewOffset + (k - 1) * DonutSize[tier]
<1> DEFINE size == DonutSize[tier]
           S == {i \in Nat : i + 1 \in 1 .. Donuts => offsets[i + 1] = NewOffset + i * size}
<1>1. size \in Nat /\ Donuts \in Nat /\ NewOffset \in Nat
  BY StateFacts
<1> HIDE DEF size
<1>2. 0 \in S
  BY <1>1 DEF NewOffset
<1>3. ASSUME NEW i \in Nat, i \in S PROVE i + 1 \in S
  <2> SUFFICES ASSUME (i + 1) + 1 \in 1 .. Donuts
               PROVE  offsets[(i + 1) + 1] = NewOffset + (i + 1) * size
    OBVIOUS
  <2>1. i + 1 \in 1 .. Donuts /\ (i + 1) + 1 \in 2 .. Donuts /\ ((i + 1) + 1) - 1 = i + 1
    BY <1>1
  <2>2. offsets[(i + 1) + 1] = offsets[i + 1] + size
    BY <2>1 DEF Contiguous, size
  <2>3. offsets[i + 1] = NewOffset + i * size
    BY <1>3, <2>1
  <2>4. (i + 1) * size = i * size + size /\ i * size \in Nat
    BY <1>1
  <2> QED BY <1>1, <2>2, <2>3, <2>4
<1>4. \A i \in Nat : i \in S => i + 1 \in S
  BY <1>3
<1>5. Nat \subseteq S
  <2> HIDE DEF S
  <2> QED BY <1>2, <1>4, Induction
<1>6. k - 1 \in S /\ (k - 1) + 1 = k
  BY <1>1, <1>5
<1> QED BY <1>6 DEF size

\* The hashes by local index of the new donut are those of the old ones in turn.
LEMMA WholeIs ==
  ASSUME NothingLost, InOrder, Contiguous
  PROVE  LET size == DonutSize[tier]
         IN  /\ size \in Nat \ {0} /\ Donuts \in Nat \ {0}
             /\ DOMAIN Whole = 1 .. Donuts * size /\ Len(Whole) = Donuts * size /\ Donuts * size \in Nat
             /\ NoHash \notin DOMAIN presented
             /\ \A j \in 1 .. Donuts * size :
                  /\ Whole[j] # NoHash => Whole[j] \in DOMAIN presented /\ presented[Whole[j]] = j - 1 + NewOffset
                  /\ \A h \in DOMAIN presented : presented[h] = j - 1 + NewOffset => Whole[j] = h
             /\ \A h \in DOMAIN presented : \E j \in 1 .. Donuts * size : presented[h] = j - 1 + NewOffset
             /\ \A k \in 1 .. Donuts, i \in 1 .. size :
                  /\ (k - 1) * size + i \in 1 .. Donuts * size
                  /\ Whole[(k - 1) * size + i] = Listing(k)[i]
<1> DEFINE size == DonutSize[tier]
           total == Donuts * size
           here(j) == {h \in DOMAIN presented : presented[h] = j - 1 + NewOffset}
<1>1. OffsetsFit /\ IndicesFit
  BY DEF NothingLost, InOrder
<1>2. size \in Nat \ {0} /\ Donuts \in Nat \ {0} /\ total \in Nat /\ NewOffset \in Nat
  BY <1>1, StateFacts
<1>3. NoHash \notin DOMAIN presented
  BY <1>1, DecksAssumption DEF IndicesFit
<1>4. Whole = [j \in 1 .. total |-> IF here(j) = {} THEN NoHash ELSE CHOOSE h \in here(j) : TRUE]
  BY DEF Whole
<1>5. \A h, g \in DOMAIN presented : presented[h] = presented[g] => h = g
  BY <1>1 DEF IndicesFit
<1>6. ASSUME NEW j \in 1 .. total
      PROVE  /\ Whole[j] # NoHash => Whole[j] \in DOMAIN presented /\ presented[Whole[j]] = j - 1 + NewOffset
             /\ \A h \in DOMAIN presented : presented[h] = j - 1 + NewOffset => Whole[j] = h
  <2>1. Whole[j] = IF here(j) = {} THEN NoHash ELSE CHOOSE h \in here(j) : TRUE
    BY <1>4
  <2>2. here(j) # {} => Whole[j] \in here(j)
    BY <2>1
  <2>3. \A h \in here(j) : h \in DOMAIN presented /\ presented[h] = j - 1 + NewOffset
    OBVIOUS
  <2>4. \A h \in DOMAIN presented : presented[h] = j - 1 + NewOffset => h \in here(j)
    OBVIOUS
  <2> HIDE DEF here
  <2> QED BY <1>5, <2>1, <2>2, <2>3, <2>4
<1>7. ASSUME NEW k \in 1 .. Donuts, NEW i \in 1 .. size
      PROVE  /\ (k - 1) * size + i \in 1 .. total
             /\ ((k - 1) * size + i) - 1 + NewOffset = offsets[k] + i - 1
             /\ Whole[(k - 1) * size + i] = Listing(k)[i]
  <2> DEFINE j == (k - 1) * size + i
             there == {h \in DOMAIN presented : presented[h] = offsets[k] + i - 1}
  <2>1. j \in 1 .. total
    BY <1>2, Counted
  <2>2. offsets[k] = NewOffset + (k - 1) * size
    BY <1>1, ContiguousOffsets
  <2>3. j - 1 + NewOffset = offsets[k] + i - 1
    <3> DEFINE x == (k - 1) * size
    <3>1. x \in Int /\ offsets[k] = NewOffset + x /\ j = x + i
      BY <1>2, <2>2
    <3> HIDE DEF x, j
    <3> QED BY <1>2, <3>1
  <2>4. here(j) = there
    <3> HIDE DEF j
    <3> QED BY <2>3
  <2>5. Whole[j] = IF here(j) = {} THEN NoHash ELSE CHOOSE h \in here(j) : TRUE
    <3> HIDE DEF j, here
    <3> QED BY <1>4, <2>1
  <2>6. Listing(k)[i] = IF there = {} THEN NoHash ELSE CHOOSE h \in there : TRUE
    BY DEF Listing, size
  <2> DEFINE any(S) == IF S = {} THEN NoHash ELSE CHOOSE h \in S : TRUE
  <2>7. Whole[j] = any(here(j)) /\ Listing(k)[i] = any(there)
    BY <2>5, <2>6
  <2> HIDE DEF here, there, any
  <2>8. Whole[j] = Listing(k)[i]
    BY <2>4, <2>7
  <2> QED BY <2>1, <2>3, <2>8
<1>8. ASSUME NEW h \in DOMAIN presented
      PROVE  \E j \in 1 .. total : presented[h] = j - 1 + NewOffset
  <2>1. PICK k \in 1 .. Donuts : presented[h] \in Span(k)
    BY <1>1 DEF IndicesFit
  <2>2. offsets[k] \in Nat
    BY <1>1, OffsetsAre
  <2> DEFINE i == presented[h] - offsets[k] + 1
  <2>3. i \in 1 .. size /\ presented[h] = offsets[k] + i - 1
    BY <1>2, <2>1, <2>2 DEF Span, size
  <2> HIDE DEF i, total, size
  <2>4. (k - 1) * size + i \in 1 .. total
        /\ presented[h] = ((k - 1) * size + i) - 1 + NewOffset
    BY <1>7, <2>3
  <2> QED BY <2>4
<1>9. DOMAIN Whole = 1 .. total /\ Len(Whole) = total
  <2> HIDE DEF total, here
  <2> QED BY <1>2, <1>4
<1> QED BY <1>2, <1>3, <1>6, <1>7, <1>8, <1>9

\* The file of a longer prefix has the indices of the hashes with the prefix, ascending.
LEMMA FileIs ==
  ASSUME NothingLost, InOrder, Contiguous, prefix = Power[tier], NEW q \in Strings(tier + 1)
  PROVE  LET file == SuffixFile(new, q)
             f == [m \in 1 .. Len(file) |-> file[m].pi + 1]
         IN  /\ Len(file) \in Nat /\ Ascends(f, Len(file)) /\ Own(Whole, q) = Places(f, Len(file))
             /\ WithPrefix(Whole, q) = f
             /\ file = FileFor(Whole, tier + 1, q)
<1> DEFINE path == FilePath(q)
           file == SuffixFile(new, q)
           c == Len(file)
           f == [m \in 1 .. c |-> file[m].pi + 1]
           total == Donuts * DonutSize[tier]
           hash(m) == HashOf(q, file[m])
<1>1. OffsetsFit /\ FilesFit /\ FilesAscend /\ IndicesFit
  BY DEF NothingLost, InOrder
<1>2. /\ tier + 1 \in Nat /\ tier + 1 \in 0 .. HashNibbles /\ NewOffset \in Nat
  BY <1>1, StateFacts, TierBakeAssumption
<1>3. path \in DOMAIN new.files /\ file = new.files[path]
  BY AllPaths DEF SuffixFile
<1>4. DOMAIN file = 1 .. c /\ c \in Nat /\ file \in Seq(EntryType(tier + 1))
  BY <1>1, FileType DEF FilesFit
<1>5. \A m \in 1 .. c :
        /\ file[m] = [suffix |-> file[m].suffix, pi |-> file[m].pi] /\ file[m].pi \in Nat
        /\ hash(m) \in DOMAIN presented /\ presented[hash(m)] = file[m].pi + NewOffset
        /\ SubSeq(hash(m), 1, tier + 1) = q
        /\ file[m].suffix = Packed(SubSeq(hash(m), (tier + 1) + 1, HashNibbles))
  BY EntryIs
<1>6. \A i, j \in 1 .. c : i < j => file[i].pi < file[j].pi
  BY <1>1, <1>3, <1>4 DEF FilesAscend
<1>7. /\ DOMAIN Whole = 1 .. total /\ Len(Whole) = total /\ total \in Nat
      /\ NoHash \notin DOMAIN presented
      /\ \A j \in 1 .. total :
           /\ Whole[j] # NoHash => Whole[j] \in DOMAIN presented /\ presented[Whole[j]] = j - 1 + NewOffset
           /\ \A h \in DOMAIN presented : presented[h] = j - 1 + NewOffset => Whole[j] = h
      /\ \A h \in DOMAIN presented : \E j \in 1 .. total : presented[h] = j - 1 + NewOffset
  BY WholeIs
<1>8. Len(q) = tier + 1
  BY <1>2, StringSeq
<1> HIDE DEF file, c, hash, total
<1>9. \A m \in 1 .. c : file[m].pi \in Nat /\ f[m] = file[m].pi + 1
  BY <1>5, Zenon
<1>10. f \in [1 .. c -> Nat] /\ \A i, j \in 1 .. c : i < j => f[i] < f[j]
  BY <1>9, <1>6
<1>11. Ascends(f, c)
  BY <1>10 DEF Ascends
<1>12. \A m \in 1 .. c : f[m] \in 1 .. total /\ Whole[f[m]] = hash(m)
  <2> TAKE m \in 1 .. c
  <2>1. PICK j \in 1 .. total : presented[hash(m)] = j - 1 + NewOffset
    BY <1>5, <1>7
  <2>2. j = f[m]
    <3>1. presented[hash(m)] = file[m].pi + NewOffset
      BY <1>5, Zenon
    <3> DEFINE pi == file[m].pi
    <3>2. pi \in Nat /\ f[m] = pi + 1
      BY <1>9
    <3>3. pi + NewOffset = j - 1 + NewOffset
      BY <2>1, <3>1
    <3> HIDE DEF f, pi
    <3> QED BY <1>2, <3>2, <3>3
  <2> HIDE DEF f
  <2> QED BY <1>5, <1>7, <2>1, <2>2
<1>13. \A m \in 1 .. c : f[m] \in Own(Whole, q)
  <2> TAKE m \in 1 .. c
  <2> HIDE DEF f
  <2>1. f[m] \in 1 .. total /\ Whole[f[m]] # NoHash /\ SubSeq(Whole[f[m]], 1, Len(q)) = q
    <3>1. hash(m) \in DOMAIN presented /\ SubSeq(hash(m), 1, tier + 1) = q
      BY <1>5, Zenon
    <3>2. f[m] \in 1 .. total /\ Whole[f[m]] = hash(m)
      BY <1>12
    <3>3. Whole[f[m]] \in DOMAIN presented /\ SubSeq(Whole[f[m]], 1, tier + 1) = q
      BY <3>1, <3>2, Zenon
    <3>4. Whole[f[m]] # NoHash
      BY <1>7, <3>3, Zenon
    <3> QED BY <1>8, <3>2, <3>3, <3>4, Zenon
  <2> QED BY <1>7, <2>1 DEF Own
<1>14. \A j \in Own(Whole, q) : \E m \in 1 .. c : f[m] = j
  <2> TAKE j \in Own(Whole, q)
  <2> DEFINE h == Whole[j]
  <2>1. j \in 1 .. total /\ h # NoHash /\ SubSeq(h, 1, tier + 1) = q
    BY <1>7, <1>8 DEF Own
  <2>2. h \in DOMAIN presented /\ presented[h] = j - 1 + NewOffset
    BY <1>7, <2>1
  <2>3. <<h, presented[h]>> \in Stored(new, tier + 1, NewOffset)
    BY <2>2, AllCopied
  <2>4. PICK r \in Strings(tier + 1) : \E i \in 1 .. Len(SuffixFile(new, r)) :
          <<h, presented[h]>> = Pair(r, SuffixFile(new, r)[i], tier + 1, NewOffset)
    BY <1>1, <1>2, <2>3, StoredIs DEF FilesFit
  <2>5. PICK i \in 1 .. Len(SuffixFile(new, r)) :
          <<h, presented[h]>> = Pair(r, SuffixFile(new, r)[i], tier + 1, NewOffset)
    BY <2>4
  <2>6. h = HashOf(r, SuffixFile(new, r)[i])
    BY <2>5 DEF Pair
  <2>7. SubSeq(h, 1, tier + 1) = r
    BY <2>6, EntryIs
  <2>8. r = q
    BY <2>1, <2>7
  <2>9. i \in 1 .. c /\ h = hash(i)
    BY <2>6, <2>8 DEF file, c, hash
  <2>10. presented[h] = file[i].pi + NewOffset /\ file[i].pi \in Nat
    BY <1>5, <2>9
  <2>11. j = file[i].pi + 1
    BY <1>2, <2>1, <2>2, <2>10
  <2>12. f[i] = j
    BY <2>9, <2>11
  <2> QED BY <2>9, <2>12
<1>15. Own(Whole, q) = Places(f, c)
  <2> HIDE DEF f
  <2> QED BY <1>13, <1>14 DEF Places
<1>16. WithPrefix(Whole, q) = f
  <2> HIDE DEF f
  <2> QED BY <1>4, <1>7, <1>11, <1>15, WithPrefixIs
<1>17. file = FileFor(Whole, tier + 1, q)
  <2> DEFINE made(m) == [suffix |-> Packed(SubSeq(Whole[f[m]], (tier + 1) + 1, HashNibbles)), pi |-> f[m] - 1]
  <2>1. DOMAIN f = 1 .. c /\ Len(f) = c
    BY <1>4
  <2>2. FileFor(Whole, tier + 1, q) = [m \in 1 .. c |-> made(m)]
    <3> HIDE DEF f
    <3> QED BY <1>16, <2>1 DEF FileFor
  <2>3. \A m \in 1 .. c : f[m] - 1 = file[m].pi
    BY <1>9
  <2>4. \A m \in 1 .. c : file[m] = made(m)
    <3> TAKE m \in 1 .. c
    <3> HIDE DEF f
    <3>1. file[m].suffix = Packed(SubSeq(Whole[f[m]], (tier + 1) + 1, HashNibbles))
      BY <1>5, <1>12
    <3>2. file[m] = [suffix |-> file[m].suffix, pi |-> file[m].pi]
      BY <1>5
    <3> QED BY <2>3, <3>1, <3>2
  <2>5. file = [m \in 1 .. c |-> file[m]]
    <3>1. file \in Seq(EntryType(tier + 1)) /\ c = Len(file)
      BY <1>4 DEF c
    <3> QED BY <1>4, <3>1
  <2> HIDE DEF made
  <2> QED BY <2>2, <2>4, <2>5
<1> QED BY <1>4, <1>11, <1>15, <1>16, <1>17 DEF file, c

\* HashesOrder.bin has an entry for each local index at the end, that of its hash.
LEMMA EntryDone ==
  ASSUME NothingLost, InOrder, Contiguous, pc = "done"
  PROVE  LET total == Donuts * DonutSize[tier]
         IN  /\ prefix = Power[tier] /\ total \in Nat
             /\ new.order \in Seq([prefix : Nat, suffix : Nat]) /\ Len(new.order) = total
             /\ DOMAIN new.order = 1 .. total
             /\ \A j \in 1 .. total : OrderIs(new.order[j], Whole[j])
<1> DEFINE size == DonutSize[tier]
           total == Donuts * size
<1>1. OffsetsFit /\ OrderSoFar
  BY DEF NothingLost, InOrder
<1>2. /\ size \in Nat \ {0} /\ Donuts \in Nat \ {0} /\ total \in Nat /\ donut \in 1 .. Donuts + 1
  BY <1>1, StateFacts DEF OffsetsFit
<1>3. /\ new.order \in Seq([prefix : Nat, suffix : Nat])
      /\ Len(new.order) = (donut - 1) * size + at /\ at = 0 /\ donut > Donuts /\ prefix = Power[tier]
      /\ \A k \in 1 .. Donuts, i \in 1 .. size :
           (k - 1) * size + i <= Len(new.order) => OrderIs(new.order[(k - 1) * size + i], Listing(k)[i])
  BY <1>1 DEF OrderSoFar
<1>4. donut = Donuts + 1
  BY <1>2, <1>3
<1>5. (donut - 1) * size + 0 = total
  BY <1>2, <1>4
<1>6. Len(new.order) = total /\ DOMAIN new.order = 1 .. total
  BY <1>3, <1>5, LenProperties
<1> HIDE DEF total, size
<1>7. ASSUME NEW j \in 1 .. total PROVE OrderIs(new.order[j], Whole[j])
  <2> DEFINE k == (j - 1) \div size + 1
             i == j - (k - 1) * size
  <2>1. k \in 1 .. Donuts /\ i \in 1 .. size
    BY <1>2, CountedBack DEF total
  <2> HIDE DEF k
  <2>2. (k - 1) * size + i = j
    <3> DEFINE x == (k - 1) * size
    <3>1. x \in Int /\ i = j - x
      BY <1>2, <2>1
    <3> HIDE DEF x, i
    <3>2. x + i = j
      BY <1>2, <3>1
    <3> QED BY <3>2 DEF x
  <2> HIDE DEF i
  <2>3. Whole[(k - 1) * size + i] = Listing(k)[i]
    BY <2>1, WholeIs DEF size
  <2>4. (k - 1) * size + i <= Len(new.order)
    BY <1>2, <1>6, <2>2
  <2>5. OrderIs(new.order[(k - 1) * size + i], Listing(k)[i])
    BY <1>3, <2>1, <2>4
  <2> QED BY <2>2, <2>3, <2>5
<1> QED BY <1>2, <1>3, <1>6, <1>7 DEF total, size

\* It is what would have been written for the hashes of the new donut.
LEMMA OrderMade ==
  ASSUME NothingLost, InOrder, Contiguous, pc = "done"
  PROVE  new.order = OrderOf(Whole, tier + 1)
<1> DEFINE total == Donuts * DonutSize[tier]
           n == tier + 1
           before(j) == {i \in 1 .. j - 1 : Whole[i] # NoHash /\ SubSeq(Whole[i], 1, n) = SubSeq(Whole[j], 1, n)}
           made(j) == IF Whole[j] = NoHash THEN [prefix |-> 0, suffix |-> 0]
                      ELSE [prefix |-> PrefixIndex(SubSeq(Whole[j], 1, n)), suffix |-> Cardinality(before(j))]
<1>1. /\ OffsetsFit /\ IndicesFit /\ n \in Nat /\ n # 0 /\ n <= HashNibbles /\ (tier + 1) - 1 = tier
      /\ tier \in Nat /\ tier + 1 <= HashNibbles /\ NewOffset \in Nat
  BY StateFacts DEF NothingLost, InOrder
<1>2. /\ prefix = Power[tier] /\ total \in Nat
      /\ new.order \in Seq([prefix : Nat, suffix : Nat]) /\ Len(new.order) = total
      /\ DOMAIN new.order = 1 .. total
      /\ \A j \in 1 .. total : OrderIs(new.order[j], Whole[j])
  BY EntryDone
<1>3. /\ DOMAIN Whole = 1 .. total /\ Len(Whole) = total
      /\ \A j \in 1 .. total : Whole[j] # NoHash =>
           Whole[j] \in DOMAIN presented /\ presented[Whole[j]] = j - 1 + NewOffset
  BY WholeIs
<1> HIDE DEF total
<1>4. OrderOf(Whole, tier + 1) = [j \in 1 .. total |-> made(j)]
  BY <1>1, <1>3 DEF OrderOf
<1>5. ASSUME NEW j \in 1 .. total PROVE new.order[j] = made(j)
  <2> DEFINE h == Whole[j]
             q == SubSeq(h, 1, n)
             entry == new.order[j]
             file == SuffixFile(new, q)
             f == [m \in 1 .. Len(file) |-> file[m].pi + 1]
  <2>1. entry \in [prefix : Nat, suffix : Nat]
    <3> DEFINE T == [prefix : Nat, suffix : Nat]
    <3>1. new.order \in Seq(T) /\ j \in 1 .. Len(new.order)
      BY <1>2
    <3> HIDE DEF T
    <3>2. new.order[j] \in T
      BY <3>1
    <3> QED BY <3>2 DEF T
  <2>2. entry = [prefix |-> entry.prefix, suffix |-> entry.suffix] /\ entry.suffix \in Nat
    <3> HIDE DEF entry
    <3> QED BY <2>1
  <2>3. OrderIs(entry, h)
    BY <1>2
  <2>4. CASE h = NoHash
    <3>1. entry.prefix = 0 /\ entry.suffix = 0
      BY <2>3, <2>4 DEF OrderIs
    <3>2. entry = [prefix |-> 0, suffix |-> 0]
      BY <2>2, <3>1
    <3> QED BY <2>4, <3>2
  <2>5. CASE h # NoHash
    <3>1. entry.prefix = PrefixIndex(q) /\ IsAt(h, entry.suffix)
      BY <2>3, <2>5 DEF OrderIs
    <3>2. h \in DOMAIN presented /\ presented[h] = j - 1 + NewOffset /\ h \in Hash
      BY <1>1, <1>3, <2>5 DEF IndicesFit
    <3>3. q \in Strings(n) /\ Len(q) = n
      BY <1>1, <3>2, HashPrefix, StringSeq
    <3> DEFINE m == entry.suffix + 1
    <3>4. m \in DOMAIN file /\ file[m].pi + NewOffset = presented[h]
      BY <3>1 DEF IsAt, SuffixFile
    <3> HIDE DEF h, q, entry, before, n
    <3>5. /\ Len(file) \in Nat /\ Ascends(f, Len(file)) /\ Own(Whole, q) = Places(f, Len(file))
      BY <1>2, <3>3, FileIs DEF n
    <3>6. m \in 1 .. Len(file) /\ file[m].pi \in Nat
      <4>1. DOMAIN file = 1 .. Len(file) /\ \A i \in 1 .. Len(file) : file[i] \in EntryType(tier + 1)
        BY FileType DEF NothingLost, FilesFit
      <4> QED BY <3>4, <4>1 DEF EntryType
    <3>7. f[m] = j
      <4> DEFINE pi == file[m].pi
      <4>1. pi \in Nat /\ pi + NewOffset = j - 1 + NewOffset
        BY <3>2, <3>4, <3>6
      <4>2. f[m] = pi + 1
        BY <3>6
      <4> HIDE DEF pi, f, m
      <4> QED BY <1>1, <4>1, <4>2
    <3>8. Below(Places(f, Len(file)), f[m]) = m - 1
      <4> HIDE DEF f, m, file
      <4> QED BY <3>5, <3>6, AscendingRank
    <3>9. before(j) = {i \in Own(Whole, q) : i < j}
      <4>1. before(j) = {i \in 1 .. j - 1 : Whole[i] # NoHash /\ SubSeq(Whole[i], 1, n) = q}
        BY DEF before, q, h
      <4>2. \A i : i \in 1 .. j - 1 <=> i \in 1 .. total /\ i < j
        BY <1>2
      <4>3. Own(Whole, q) = {i \in 1 .. total : Whole[i] # NoHash /\ SubSeq(Whole[i], 1, n) = q}
        BY <1>3, <3>3 DEF Own
      <4> QED BY <4>1, <4>2, <4>3
    <3>10. Cardinality(before(j)) = entry.suffix
      <4>1. Cardinality(before(j)) = m - 1
        <5> HIDE DEF f, m
        <5> QED BY <3>5, <3>7, <3>8, <3>9 DEF Below
      <4>2. m - 1 = entry.suffix
        BY <2>2 DEF entry
      <4> QED BY <4>1, <4>2
    <3>11. entry = [prefix |-> PrefixIndex(q), suffix |-> Cardinality(before(j))]
      BY <2>2, <3>1, <3>10
    <3> QED BY <2>5, <3>11 DEF entry, q, h
  <2> QED BY <2>4, <2>5
<1>6. new.order = [j \in 1 .. total |-> new.order[j]]
  BY <1>2
<1> HIDE DEF made
<1> QED BY <1>4, <1>5, <1>6

LEMMA MadeAnew == NothingLost /\ InOrder => Regrouped
<1> SUFFICES ASSUME NothingLost, InOrder, pc = "done", Contiguous
    PROVE  /\ new.order = OrderOf(Whole, tier + 1)
           /\ \A path \in DOMAIN FilesOf(Whole, tier + 1) :
                path \in DOMAIN new.files /\ new.files[path] = FilesOf(Whole, tier + 1)[path]
  BY DEF Regrouped
<1>1. prefix = Power[tier] /\ tier + 1 \in Nat
  BY EntryDone, StateFacts DEF NothingLost
<1>2. ASSUME NEW path \in DOMAIN FilesOf(Whole, tier + 1)
      PROVE  path \in DOMAIN new.files /\ new.files[path] = FilesOf(Whole, tier + 1)[path]
  <2> DEFINE W == Whole
  <2> HIDE DEF W
  <2>1. DOMAIN FilesOf(W, tier + 1) = {FilePath(q) : q \in Strings(tier + 1)}
    <3>1. 0 \in 0 .. Power[tier + 1] - 1
      BY <1>1, PowerFacts
    <3>2. PrefixNibbles(0, tier + 1) \in Strings(tier + 1)
      BY <1>1, PrefixType
    <3> QED BY <1>1, <3>2, FilesMade
  <2>2. PICK q \in Strings(tier + 1) : path = FilePath(q)
    BY <2>1 DEF W
  <2>3. FilesOf(W, tier + 1)[path] = FileFor(W, tier + 1, q)
    BY <1>1, <2>2, FilesMade
  <2>4. path \in DOMAIN new.files
    BY <1>1, <2>2, AllPaths
  <2>5. SuffixFile(new, q) = FileFor(Whole, tier + 1, q)
    BY <1>1, FileIs
  <2> QED BY <2>2, <2>3, <2>4, <2>5 DEF SuffixFile, W
<1> QED BY <1>2, OrderMade

\* A bake of contiguous donuts ends with HashesOrder.bin and suffix files as if the new
\* donut had been made of its hashes directly.
THEOREM BakesAnew == Spec => []Regrouped
BY NothingIsLost, StaysInOrder, MadeAnew, PTL

(***************************************************************************)
(* Verification after a bake                                               *)
(***************************************************************************)
\* A prefix depends on the last n digits of the number only.
LEMMA PrefixCut ==
  ASSUME NEW n \in Nat, NEW a \in Nat, NEW r \in 0 .. Power[n] - 1
  PROVE  PrefixNibbles(Power[n] * a + r, n) = PrefixNibbles(r, n)
<1> DEFINE b == NibbleBase
           cut(m) == \A c \in Nat : \A s \in 0 .. Power[m] - 1 :
                       PrefixNibbles(Power[m] * c + s, m) = PrefixNibbles(s, m)
           S == {m \in Nat : cut(m)}
<1>1. b \in Nat \ {0} /\ \A m \in Nat : Power[m] \in Nat \ {0} /\ Power[m + 1] = b * Power[m]
  BY PowerFacts, TierBakeAssumption
<1>2. 0 \in S
  <2>1. \A p, q : PrefixNibbles(p, 0) = PrefixNibbles(q, 0)
    BY DEF PrefixNibbles
  <2> QED BY <2>1
<1>3. ASSUME NEW m \in Nat, m \in S PROVE m + 1 \in S
  <2> SUFFICES ASSUME NEW c \in Nat, NEW s \in 0 .. Power[m + 1] - 1
               PROVE  PrefixNibbles(Power[m + 1] * c + s, m + 1) = PrefixNibbles(s, m + 1)
    OBVIOUS
  <2> DEFINE w == Power[m]
             v == Power[m + 1]
             p == v * c + s
             d == s \div b
             r1 == s % b
             x == PrefixNibbles(p, m + 1)
             y == PrefixNibbles(s, m + 1)
  <2>1. w \in Nat \ {0} /\ v \in Nat \ {0} /\ v = b * w
    BY <1>1
  <2>2. s \in Nat /\ s < v
    BY <2>1
  <2>3. s = b * d + r1 /\ r1 \in 0 .. b - 1 /\ d \in Nat
    BY <1>1, <2>2, Divided
  <2>4. d \in 0 .. w - 1
    <3>1. d < w
      BY <1>1, <2>1, <2>2, DividedLess
    <3> QED BY <2>1, <2>3, <3>1
  <2>5. p \in Nat
    BY <2>1, <2>2
  <2> HIDE DEF d, r1, w, v
  <2>6. w * c + d \in Nat /\ v * c = b * (w * c)
    <3>1. w * c \in Nat
      BY <2>1
    <3>2. (b * w) * c = b * (w * c)
      BY <1>1, <2>1
    <3> QED BY <2>1, <2>3, <3>1, <3>2
  <2>7. p = b * (w * c + d) + r1
    <3> DEFINE k == w * c
    <3>1. k \in Nat /\ p = b * k + (b * d + r1)
      BY <2>1, <2>3, <2>6
    <3>2. b * k \in Nat /\ b * d \in Nat /\ b * (k + d) = b * k + b * d
      BY <1>1, <2>3, <3>1
    <3> HIDE DEF p
    <3> QED BY <2>3, <3>1, <3>2
  <2>8. p \div b = w * c + d /\ p % b = r1
    <3> HIDE DEF p, b
    <3> DEFINE k == w * c + d
    <3>1. k \in Nat /\ p = b * k + r1
      BY <2>6, <2>7
    <3> HIDE DEF k
    <3>2. p \div b = k /\ p % b = r1
      BY <1>1, <2>3, <3>1, DividedBack
    <3> QED BY <3>2 DEF k
  <2> HIDE DEF p
  <2>9. /\ x \in Strings(m + 1) /\ x[m + 1] = r1
        /\ \A i \in 1 .. m : x[i] = PrefixNibbles(w * c + d, m)[i]
    <3>1. /\ x \in Strings(m + 1) /\ x[m + 1] = p % b
          /\ \A i \in 1 .. m : x[i] = PrefixNibbles(p \div b, m)[i]
      BY <2>5, PrefixSplit DEF b
    <3> HIDE DEF x, b
    <3> QED BY <2>8, <3>1
  <2>10. /\ y \in Strings(m + 1) /\ y[m + 1] = r1
         /\ \A i \in 1 .. m : y[i] = PrefixNibbles(d, m)[i]
    BY <2>2, PrefixSplit DEF b, d, r1
  <2>11. PrefixNibbles(w * c + d, m) = PrefixNibbles(d, m)
    BY <1>3, <2>4 DEF w
  <2> HIDE DEF x, y
  <2>12. \A i \in 1 .. m + 1 : x[i] = y[i]
    <3> TAKE i \in 1 .. m + 1
    <3>1. i = m + 1 \/ i \in 1 .. m
      OBVIOUS
    <3> QED BY <2>9, <2>10, <2>11, <3>1
  <2>13. x = y
    BY <2>9, <2>10, <2>12 DEF Strings
  <2> QED BY <2>13 DEF x, y, p, v
<1>4. \A m \in Nat : m \in S => m + 1 \in S
  BY <1>3
<1>5. n \in S
  <2> HIDE DEF S
  <2> QED BY <1>2, <1>4, Induction
<1> QED BY <1>5

\* The entry of a local index leads to its hash, also if its prefix reads back as "no match".
LEMMA EntryLeads ==
  ASSUME NothingLost, InOrder, prefix = Power[tier], NEW h \in DOMAIN presented,
         NEW pi \in Nat, pi < Len(new.order), OrderIs(new.order[pi + 1], h)
  PROVE  LET q == SubSeq(h, 1, tier + 1)
             e == SuffixFile(new, q)[PositionAt(new, pi)]
         IN  /\ Leads(new, tier + 1, pi) /\ PrefixAt(new, tier + 1, pi) = q
             /\ HashOf(q, e) = h /\ e.pi \in Nat /\ e.pi + NewOffset = presented[h]
             /\ ReadLocal(tier + 1, e.pi) = e.pi
<1> DEFINE n == tier + 1
           q == SubSeq(h, 1, n)
           entry == new.order[pi + 1]
           file == SuffixFile(new, q)
<1>1. /\ OffsetsFit /\ IndicesFit /\ tier \in Tiers /\ n \in Nat /\ n # 0 /\ n <= HashNibbles
      /\ NewOffset \in Nat /\ h \in Hash /\ tier \in Nat
  BY StateFacts DEF NothingLost, InOrder, IndicesFit
<1>2. h # NoHash
  BY <1>1, DecksAssumption
<1>6. entry.prefix = PrefixIndex(q) /\ IsAt(h, entry.suffix) /\ entry.suffix < SuffixOnes
  BY <1>2 DEF OrderIs
<1>7. q \in Strings(n) /\ Len(q) = n
  BY <1>1, HashPrefix, StringSeq
<1>8. PrefixIndex(q) \in 0 .. Power[n] - 1 /\ PrefixNibbles(PrefixIndex(q), n) = q
  BY <1>1, <1>7, IndexOfString
<1>9. PrefixAt(new, n, pi) = q
  <2> DEFINE ones == PrefixOnes[n]
             w == Power[n]
             p == PrefixIndex(q)
  <2>1. PrefixAt(new, n, pi) = PrefixNibbles(IF p = ones THEN NoMatch ELSE p, n)
    BY <1>1, <1>6 DEF PrefixAt, ReadPrefix
  <2>2. CASE p = ones
    <3>1. ones >= w - 1 /\ ones + NibbleBase < Words /\ Words % w = 0
      BY <1>1, RoomAssumption
    <3>2. w \in Nat \ {0} /\ Words \in Nat /\ NibbleBase \in Nat /\ ones \in Nat
      <4>1. w \in Nat \ {0}
        BY <1>1, PowerFacts
      <4>2. Words \in Nat /\ NibbleBase \in Nat
        BY TierBakeAssumption
      <4>3. p \in Nat
        BY <1>8, <4>1
      <4> QED BY <2>2, <4>1, <4>2, <4>3
    <3>3. p = w - 1
      BY <1>8, <2>2, <3>1, <3>2
    <3> DEFINE a == Words \div w
    <3>4. Words = w * a + (Words % w) /\ a \in Nat
      BY <3>2, Divided
    <3> HIDE DEF a, w, ones, p
    <3>5. a # 0
      <4> SUFFICES ASSUME a = 0 PROVE FALSE
        OBVIOUS
      <4>1. Words = w * 0
        BY <3>1, <3>2, <3>4
      <4>2. Words = 0
        BY <3>2, <4>1
      <4> QED BY <3>1, <3>2, <4>2
    <3>6. NoMatch = w * (a - 1) + (w - 1)
      <4>1. w * (a - 1) = w * a - w /\ w * a \in Int
        BY <3>2, <3>4
      <4> DEFINE x == w * a
      <4>2. Words = x + 0 /\ x \in Int /\ w * (a - 1) = x - w
        BY <3>1, <3>4, <4>1
      <4> HIDE DEF x
      <4>3. x - 1 = (x - w) + (w - 1)
        BY <3>2, <4>2
      <4> QED BY <4>2, <4>3 DEF NoMatch
    <3>7. PrefixNibbles(NoMatch, n) = PrefixNibbles(w - 1, n)
      <4>1. a - 1 \in Nat /\ w - 1 \in 0 .. Power[n] - 1
        <5>1. w = Power[n]
          BY DEF w
        <5>2. a - 1 \in Nat /\ w - 1 \in 0 .. w - 1
          BY <3>2, <3>4, <3>5
        <5> QED BY <5>1, <5>2
      <4>2. PrefixNibbles(Power[n] * (a - 1) + (w - 1), n) = PrefixNibbles(w - 1, n)
        BY <1>1, <4>1, PrefixCut
      <4> QED BY <3>6, <4>2 DEF w
    <3> QED BY <1>8, <2>1, <2>2, <3>3, <3>7 DEF p
  <2>3. CASE p # ones
    BY <1>8, <2>1, <2>3
  <2> QED BY <2>2, <2>3
<1>10. PositionAt(new, pi) = entry.suffix + 1
  <2>1. entry.suffix # SuffixOnes
    BY <1>6, TierBakeAssumption
  <2> QED BY <2>1 DEF PositionAt, ReadSuffixIndex
<1>11. PositionAt(new, pi) \in DOMAIN file /\ file[PositionAt(new, pi)].pi + NewOffset = presented[h]
  BY <1>6, <1>10 DEF IsAt, SuffixFile
<1>12. Leads(new, n, pi)
  BY <1>9, <1>11 DEF Leads
<1> DEFINE m == PositionAt(new, pi)
<1>13. m \in 1 .. Len(file)
  BY <1>11, FileType DEF NothingLost, FilesFit
<1>14. HashOf(q, file[m]) = h /\ file[m].pi \in Nat
  <2> DEFINE g == HashOf(q, file[m])
  <2>1. g \in DOMAIN presented /\ presented[g] = file[m].pi + NewOffset /\ file[m].pi \in Nat
    BY <1>7, <1>13, EntryIs
  <2> HIDE DEF m, g
  <2>2. presented[g] = presented[h]
    BY <1>11, <2>1 DEF m
  <2>3. g = h
    BY <1>1, <2>1, <2>2 DEF IndicesFit
  <2> QED BY <2>1, <2>3 DEF g
<1>15. ReadLocal(tier + 1, file[m].pi) = file[m].pi
  <2>1. FilePath(q) \in DOMAIN new.files /\ file = new.files[FilePath(q)]
    BY <1>7, AllPaths DEF SuffixFile
  <2>2. FilesAscend
    BY DEF InOrder
  <2> QED BY <1>11, <2>1, <2>2 DEF FilesAscend
<1> QED BY <1>9, <1>11, <1>12, <1>14, <1>15

LEMMA LeadsTo ==
  ASSUME NothingLost, InOrder, Contiguous, pc = "done", NEW h \in DOMAIN presented
  PROVE  LET pi == presented[h] - NewOffset
             q == SubSeq(h, 1, tier + 1)
         IN  /\ Leads(new, tier + 1, pi) /\ PrefixAt(new, tier + 1, pi) = q
             /\ HashOf(q, SuffixFile(new, q)[PositionAt(new, pi)]) = h
<1> DEFINE pi == presented[h] - NewOffset
           total == Donuts * DonutSize[tier]
<1>1. OffsetsFit /\ IndicesFit /\ NewOffset \in Nat /\ h \in Hash
  BY StateFacts DEF NothingLost, InOrder, IndicesFit
<1>2. /\ prefix = Power[tier] /\ total \in Nat /\ Len(new.order) = total
      /\ \A j \in 1 .. total : OrderIs(new.order[j], Whole[j])
  BY EntryDone
<1>3. PICK j \in 1 .. total : presented[h] = j - 1 + NewOffset
  BY WholeIs
<1>4. Whole[j] = h
  BY <1>3, WholeIs
<1>5. pi \in Nat /\ pi + 1 = j /\ pi < Len(new.order)
  BY <1>1, <1>2, <1>3
<1> HIDE DEF pi, total
<1>6. OrderIs(new.order[pi + 1], h)
  BY <1>2, <1>4, <1>5
<1>7. /\ Leads(new, tier + 1, pi) /\ PrefixAt(new, tier + 1, pi) = SubSeq(h, 1, tier + 1)
      /\ HashOf(SubSeq(h, 1, tier + 1), SuffixFile(new, SubSeq(h, 1, tier + 1))[PositionAt(new, pi)]) = h
  BY <1>2, <1>5, <1>6, EntryLeads
<1> QED BY <1>7 DEF pi

LEMMA MadeToVerify == NothingLost /\ InOrder => VerifiesBaked
<1> SUFFICES ASSUME NothingLost, InOrder, pc = "done", Contiguous,
                    NEW h \in DOMAIN presented, NEW other \in DOMAIN presented
             PROVE  VerifyHash(new, tier + 1, h, presented[other] - NewOffset) <=> h = other
  BY DEF VerifiesBaked
<1> DEFINE pi == presented[other] - NewOffset
           n == tier + 1
           q == SubSeq(other, 1, n)
<1>1. /\ Leads(new, n, pi) /\ PrefixAt(new, n, pi) = q
      /\ HashOf(q, SuffixFile(new, q)[PositionAt(new, pi)]) = other
  BY LeadsTo
<1> HIDE DEF pi, n
<1>2. VerifyHash(new, n, h, pi) <=>
        q = SubSeq(h, 1, n)
        /\ HashOf(SubSeq(h, 1, n), SuffixFile(new, SubSeq(h, 1, n))[PositionAt(new, pi)]) = h
  BY <1>1 DEF VerifyHash
<1>3. VerifyHash(new, n, h, pi) <=> h = other
  BY <1>1, <1>2
<1> QED BY <1>3 DEF pi, n

\* After a bake of contiguous donuts VerifyHash accepts a local index for a hash exactly if
\* it is the index of the hash.
THEOREM BakedVerifies == Spec => []VerifiesBaked
BY NothingIsLost, StaysInOrder, MadeToVerify, PTL

(***************************************************************************)
(* Why a bake breaks off                                                   *)
(***************************************************************************)
\* A set has at most as many members as one it is the image of.
LEMMA ImageBound ==
  ASSUME NEW S, IsFiniteSet(S), NEW f, NEW T, T \subseteq {f[i] : i \in S}
  PROVE  IsFiniteSet(T) /\ Cardinality(T) <= Cardinality(S)
<1> DEFINE U == {i \in S : f[i] \in T}
           g == [i \in U |-> f[i]]
<1>1. U \in SUBSET S
  OBVIOUS
<1>2. IsFiniteSet(U) /\ Cardinality(U) <= Cardinality(S)
  <2> HIDE DEF U
  <2> QED BY <1>1, FS_Subset
<1>3. g \in Surjection(U, T)
  <2>1. g \in [U -> T]
    OBVIOUS
  <2>2. \A x \in T : \E i \in U : g[i] = x
    OBVIOUS
  <2> HIDE DEF g, U
  <2> QED BY <2>1, <2>2 DEF Surjection
<1>4. IsFiniteSet(T) /\ Cardinality(T) <= Cardinality(U)
  <2> HIDE DEF g, U
  <2> QED BY <1>2, <1>3, FS_Surjection
<1>5. Cardinality(S) \in Nat /\ Cardinality(U) \in Nat /\ Cardinality(T) \in Nat
  <2> HIDE DEF U
  <2> QED BY <1>2, <1>4, FS_CardinalityType
<1> HIDE DEF U
<1> QED BY <1>2, <1>4, <1>5

LEMMA InitExplained == Init => Explained
<1> SUFFICES ASSUME Init PROVE Explained
  OBVIOUS
<1> DEFINE size == DonutSize[tier]
           total == Donuts * size
<1>1. PICK deck \in Decks, hole \in Holes, after \in 1 .. Donuts - 1 :
        LET offset(k) == TierOffset + (k - 1) * size + IF k > after THEN hole ELSE 0
        IN  /\ \A k \in 1 .. Donuts : deck[(k - 1) * size + 1] # NoHash
            /\ offsets = [k \in 1 .. Donuts |-> offset(k)]
            /\ sources = [k \in 1 .. Donuts |->
                 [order |-> OrderOf(ListOf(deck, k, size), tier),
                  files |-> FilesOf(ListOf(deck, k, size), tier)]]
            /\ presented = [h \in {deck[i] : i \in 1 .. Donuts * size} \ {NoHash} |->
                 LET i == CHOOSE j \in 1 .. Donuts * size : deck[j] = h
                     k == (i - 1) \div size + 1
                 IN  offset(k) + i - 1 - (k - 1) * size]
  BY Zenon DEF Init
<1>2. OffsetsFit
  BY InitLosesNothing DEF NothingLost
<1>3. /\ tier \in Tiers /\ size \in Nat \ {0} /\ Donuts \in Nat \ {0} /\ total \in Nat
      /\ hole \in Nat /\ after \in Nat /\ TierOffset \in Nat /\ SuffixOnes \in Nat
  BY <1>2, StateFacts, TierBakeAssumption
<1>4. DOMAIN presented = {deck[i] : i \in 1 .. total} \ {NoHash}
  <2>1. DOMAIN presented = {deck[i] : i \in 1 .. Donuts * size} \ {NoHash}
    <3> HIDE DEF size, total
    <3> QED BY <1>1
  <2> QED BY <2>1
<1>5. NewOffset = TierOffset
  <2> DEFINE offset(k) == TierOffset + (k - 1) * size + IF k > after THEN hole ELSE 0
  <2>1. offsets = [k \in 1 .. Donuts |-> offset(k)]
    <3> HIDE DEF size, total
    <3> QED BY <1>1
  <2>2. offsets[1] = offset(1)
    <3> HIDE DEF offset
    <3> QED BY <1>3, <2>1
  <2>3. offset(1) = TierOffset
    <3>1. (1 - 1) * size = 0
      BY <1>3
    <3>2. ~ 1 > after
      OBVIOUS
    <3> HIDE DEF size
    <3> QED BY <1>3, <3>1, <3>2
  <2> QED BY <2>2, <2>3 DEF NewOffset
<1> HIDE DEF total, size
<1>6. IsFiniteSet(1 .. total)
  BY <1>3, FS_Interval
<1>7. IsFiniteSet(DOMAIN presented)
  <2>1. DOMAIN presented \subseteq {deck[i] : i \in 1 .. total}
    BY <1>4
  <2> QED BY <1>6, <2>1, ImageBound
<1>8. ASSUME NEW h \in DOMAIN presented PROVE Cardinality(SamePrefix(h)) <= SuffixOnes
  <2>1. PICK i \in 1 .. total : h = deck[i] /\ h # NoHash
    BY <1>4
  <2> DEFINE J == {j \in 1 .. total : /\ {deck[i], deck[j]} \subseteq Hash
                                      /\ SubSeq(deck[j], 1, tier + 1) = SubSeq(deck[i], 1, tier + 1)}
  <2>2. Cardinality(J) <= SuffixOnes
    BY <1>3, RoomAssumption DEF total, size
  <2>3. IsFiniteSet(J)
    <3>1. J \in SUBSET (1 .. total)
      OBVIOUS
    <3> HIDE DEF J
    <3> QED BY <1>6, <3>1, FS_Subset
  <2>4. \A j \in 1 .. total : deck[j] # NoHash => deck[j] \in Hash
    <3>1. deck \in Seq(Hash \cup {NoHash}) /\ Len(deck) >= total
      BY <1>3, DecksAssumption DEF total, size
    <3>2. \A j \in 1 .. Len(deck) : deck[j] \in Hash \cup {NoHash}
      BY <3>1
    <3>3. Len(deck) \in Nat
      BY <3>1
    <3> QED BY <1>3, <3>1, <3>2, <3>3
  <2>5. SamePrefix(h) \subseteq {deck[j] : j \in J}
    <3> SUFFICES ASSUME NEW g \in SamePrefix(h) PROVE \E j \in J : g = deck[j]
      OBVIOUS
    <3>1. g \in DOMAIN presented /\ SubSeq(g, 1, tier + 1) = SubSeq(h, 1, tier + 1)
      BY DEF SamePrefix
    <3>2. PICK j \in 1 .. total : g = deck[j] /\ g # NoHash
      BY <1>4, <3>1
    <3>3. j \in J
      BY <2>1, <2>4, <3>1, <3>2
    <3> HIDE DEF J
    <3> QED BY <3>2, <3>3
  <2> HIDE DEF J
  <2>6. IsFiniteSet(SamePrefix(h)) /\ Cardinality(SamePrefix(h)) <= Cardinality(J)
    BY <2>3, <2>5, ImageBound
  <2>7. Cardinality(J) \in Nat /\ Cardinality(SamePrefix(h)) \in Nat
    BY <2>3, <2>6, FS_CardinalityType
  <2> QED BY <1>3, <2>2, <2>6, <2>7
<1>9. pc = "check" /\ prefix = 0
  BY DEF Init
<1> QED BY <1>5, <1>7, <1>8, <1>9 DEF Explained, FailsOnlyIf

\* The first hash of all.
LEMMA FirstHash ==
  ASSUME OffsetsFit, IndicesFit
  PROVE  /\ Listing(1)[1] \in DOMAIN presented /\ presented[Listing(1)[1]] = NewOffset
         /\ Listing(1)[1] \in Hash /\ Listing(1)[1] # NoHash /\ 1 \in 1 .. Donuts
<1>1. 1 \in 1 .. Donuts /\ 1 \in 1 .. DonutSize[tier] /\ NewOffset \in Nat
  BY StateFacts
<1>2. PICK h \in DOMAIN presented : presented[h] = NewOffset
  BY DEF IndicesFit
<1>3. (1 - 1) + offsets[1] = NewOffset
  BY <1>1 DEF NewOffset
<1>4. Listing(1)[1] = h /\ NoHash \notin DOMAIN presented
  BY <1>1, <1>2, <1>3, ListingIs
<1> QED BY <1>1, <1>2, <1>4 DEF IndicesFit

\* The lookup before the bake finds it, whatever its tier.
LEMMA FirstLookup ==
  ASSUME NothingLost, InOrder, Explained, pc = "check"
  PROVE  AllOnes \/ ForwardLookup(sources[1], tier, 0) = Listing(1)[1]
<1> SUFFICES ASSUME ~ AllOnes PROVE ForwardLookup(sources[1], tier, 0) = Listing(1)[1]
  OBVIOUS
<1> DEFINE l == Listing(1)
           h == l[1]
           q == SubSeq(h, 1, tier)
           d == sources[1]
           file == SuffixFile(d, q)
           w == WithPrefix(l, q)
           written == d.order[0 + 1]
<1>1. /\ OffsetsFit /\ IndicesFit /\ SourcesKept /\ prefix = 0
  BY DEF NothingLost, InOrder, Explained
<1>2. /\ tier \in Tiers /\ tier \in Nat /\ tier \in 0 .. HashNibbles /\ tier + 1 <= HashNibbles
      /\ 1 \in 1 .. Donuts /\ DonutSize[tier] \in Nat \ {0} /\ HashNibbles \in Nat
  BY <1>1, StateFacts, TierBakeAssumption
<1>3. h \in DOMAIN presented /\ h \in Hash /\ h # NoHash
  BY <1>1, FirstHash
<1>4. Len(l) = DonutSize[tier]
  BY <1>1, <1>2, ListingIs
<1>5. q \in Strings(tier) /\ Len(q) = tier
  BY <1>2, <1>3, HashPrefix, StringSeq
<1>6. d = [order |-> OrderOf(l, tier), files |-> Restrict(FilesOf(l, tier), PathsFrom(tier, 0))]
  BY <1>1, <1>2 DEF SourcesKept
<1> HIDE DEF l
<1>7. d.order = OrderOf(l, tier) /\ d.files = Restrict(FilesOf(l, tier), PathsFrom(tier, 0))
  BY <1>6
<1>8. written = OrderOf(l, tier)[1] /\ Len(d.order) = DonutSize[tier] /\ 0 < Len(d.order)
  BY <1>2, <1>4, <1>7 DEF OrderOf
<1>9. /\ written.suffix = 0
      /\ written.prefix = IF tier = 0 THEN 0 ELSE PrefixIndex(q)
  <2> DEFINE before == {j \in 1 .. 1 - 1 : l[j] # NoHash /\ SubSeq(l[j], 1, tier) = q}
  <2>1. OrderOf(l, tier)[1] =
          IF tier = 0 THEN [prefix |-> 0, suffix |-> IF h = NoHash THEN SuffixOnes ELSE 1 - 1]
          ELSE IF h = NoHash THEN [prefix |-> 0, suffix |-> 0]
          ELSE [prefix |-> PrefixIndex(q), suffix |-> Cardinality(before)]
    <3>1. 1 \in 1 .. Len(l)
      BY <1>2, <1>4
    <3> QED BY <3>1 DEF OrderOf
  <2>2. Cardinality(before) = 0
    <3>1. before = {}
      OBVIOUS
    <3> HIDE DEF before
    <3> QED BY <3>1, FS_EmptySet
  <2> HIDE DEF before, h, q, written
  <2> QED BY <1>3, <1>8, <2>1, <2>2
<1>10. PositionAt(d, 0) = 1
  <2>1. 0 # SuffixOnes
    BY RoomAssumption
  <2> QED BY <1>9, <2>1 DEF PositionAt, ReadSuffixIndex
<1>11. PrefixAt(d, tier, 0) = q
  <2>1. PrefixAt(d, tier, 0) = PrefixNibbles(ReadPrefix(tier, written.prefix), tier)
    BY DEF PrefixAt
  <2>2. PrefixIndex(q) \in 0 .. Power[tier] - 1 /\ PrefixNibbles(PrefixIndex(q), tier) = q
    BY <1>2, <1>5, IndexOfString
  <2>3. CASE tier = 0
    <3>1. PrefixIndex(q) = 0
      BY <2>2, <2>3, PowerFacts
    <3> QED BY <2>1, <2>2, <2>3, <3>1 DEF ReadPrefix
  <2>4. CASE tier # 0
    <3>1. PrefixIndex(q) # PrefixOnes[tier]
      <4> SUFFICES ASSUME PrefixIndex(q) = PrefixOnes[tier] PROVE FALSE
        OBVIOUS
      <4>1. Power[tier] \in Nat /\ PrefixOnes[tier] < Power[tier]
        <5>1. Power[tier] \in Nat
          BY <1>2, PowerFacts
        <5> QED BY <2>2, <5>1
      <4>2. tier = 2
        BY <1>2, <2>2, <2>4, <4>1, RoomAssumption
      <4>3. PrefixIndex(SubSeq(h, 1, 2)) = PrefixOnes[2]
        BY <4>2
      <4> QED BY <1>3, <4>2, <4>3 DEF AllOnes
    <3> QED BY <1>9, <2>1, <2>2, <2>4, <3>1 DEF ReadPrefix
  <2> QED BY <2>3, <2>4
<1>12. FilePath(q) \in PathsFrom(tier, 0)
  <2>1. \E p \in 0 .. Power[tier] - 1 : q = PrefixNibbles(p, tier)
    BY <1>2, <1>5, PrefixOnto
  <2> QED BY <2>1 DEF PathsFrom
<1>13. file = FileFor(l, tier, q)
  <2>1. FilePath(q) \in DOMAIN FilesOf(l, tier) /\ FilesOf(l, tier)[FilePath(q)] = FileFor(l, tier, q)
    BY <1>2, <1>5, FilesMade
  <2> QED BY <1>7, <1>12, <2>1 DEF SuffixFile, Restrict
<1>14. /\ Len(w) \in Nat /\ Ascends(w, Len(w)) /\ \A m \in 1 .. Len(w) : w[m] \in Own(l, q)
       /\ \A i \in Own(l, q) : \E m \in 1 .. Len(w) : w[m] = i
  BY <1>2, <1>4, Listed, WithPrefixAscends
<1>15. 1 \in Own(l, q)
  BY <1>2, <1>3, <1>4, <1>5 DEF Own
<1> HIDE DEF w, h, q
<1>16. 1 \in 1 .. Len(w) /\ w[1] = 1
  <2>1. PICK m \in 1 .. Len(w) : w[m] = 1
    BY <1>14, <1>15
  <2>2. 1 \in 1 .. Len(w) /\ w[1] >= 1
    <3>1. 1 \in 1 .. Len(w)
      BY <1>14, <2>1
    <3>2. w[1] \in Own(l, q)
      BY <1>14, <3>1
    <3> QED BY <3>1, <3>2 DEF Own
  <2>3. w \in [1 .. Len(w) -> Nat] /\ (1 < m => w[1] < w[m])
    BY <1>14, <2>1, <2>2 DEF Ascends
  <2> QED BY <1>14, <2>1, <2>2, <2>3
<1>17. /\ DOMAIN file = 1 .. Len(w)
       /\ file[1] = [suffix |-> Packed(SubSeq(l[w[1]], tier + 1, HashNibbles)), pi |-> w[1] - 1]
  BY <1>13, <1>16 DEF FileFor, w
<1> DEFINE e == file[1]
<1>18. e.suffix = Packed(SubSeq(h, tier + 1, HashNibbles)) /\ e.pi = 0
  BY <1>16, <1>17 DEF h
<1>19. HashOf(q, e) = h
  BY <1>2, <1>3, <1>18, HashBack DEF q
<1>20. ReadLocal(tier, 0) = 0
  <2>1. DonutSize[tier] <= LocalOnes[tier] /\ LocalOnes[tier] \in Nat
    BY <1>2, WidthsAssumption
  <2> QED BY <1>2, <2>1 DEF ReadLocal
<1>21. Leads(d, tier, 0)
  BY <1>8, <1>10, <1>11, <1>16, <1>17 DEF Leads
<1> HIDE DEF file, d
<1>22. ForwardLookup(d, tier, 0) = h
  <2>1. ForwardLookup(d, tier, 0) =
          IF ReadLocal(tier, file[1].pi) = 0 THEN HashOf(q, file[1]) ELSE NoHash
    BY <1>10, <1>11, <1>21 DEF ForwardLookup, file
  <2> QED BY <1>18, <1>19, <1>20, <2>1
<1> QED BY <1>22 DEF h, l, d

\* The lookup after the bake finds the first hash as well.
LEMMA LastLookup ==
  ASSUME NothingLost, InOrder, pc = "order", donut > Donuts
  PROVE  ForwardLookup(new, tier + 1, 0) = Listing(1)[1]
<1> DEFINE h == Listing(1)[1]
           size == DonutSize[tier]
           q == SubSeq(h, 1, tier + 1)
           e == SuffixFile(new, q)[PositionAt(new, 0)]
<1>1. OffsetsFit /\ FilesFit /\ IndicesFit /\ OrderSoFar
  BY DEF NothingLost, InOrder
<1>2. /\ size \in Nat \ {0} /\ Donuts \in Nat \ {0} /\ donut \in Nat /\ at \in Nat /\ prefix = Power[tier]
      /\ NewOffset \in Nat
  BY <1>1, StateFacts DEF FilesFit
<1>3. h \in DOMAIN presented /\ presented[h] = NewOffset /\ 1 \in 1 .. Donuts
  BY <1>1, FirstHash
<1>4. /\ Len(new.order) = (donut - 1) * size + at
      /\ \A k \in 1 .. Donuts, i \in 1 .. size :
           (k - 1) * size + i <= Len(new.order) => OrderIs(new.order[(k - 1) * size + i], Listing(k)[i])
  BY <1>1 DEF OrderSoFar
<1>5. 0 < Len(new.order)
  <2>1. donut - 1 \in Nat \ {0}
    BY <1>2
  <2>2. (donut - 1) * size \in Nat \ {0}
    BY <1>2, <2>1
  <2> QED BY <1>2, <1>4, <2>2
<1>6. OrderIs(new.order[0 + 1], h)
  <2>1. (1 - 1) * size + 1 = 1 /\ 1 \in 1 .. size /\ Len(new.order) >= 1
    <3>1. (donut - 1) * size \in Int /\ (1 - 1) * size = 0
      BY <1>2
    <3>2. Len(new.order) \in Int
      BY <1>2, <1>4, <3>1
    <3> QED BY <1>2, <1>5, <3>1, <3>2
  <2>2. (1 - 1) * size + 1 <= Len(new.order)
    BY <2>1
  <2>3. OrderIs(new.order[(1 - 1) * size + 1], Listing(1)[1])
    BY <1>3, <1>4, <2>1, <2>2
  <2> QED BY <2>1, <2>3
<1> HIDE DEF h
<1>7. /\ Leads(new, tier + 1, 0) /\ PrefixAt(new, tier + 1, 0) = q /\ HashOf(q, e) = h
      /\ e.pi \in Nat /\ e.pi + NewOffset = presented[h] /\ ReadLocal(tier + 1, e.pi) = e.pi
  BY <1>2, <1>3, <1>5, <1>6, EntryLeads
<1>8. ForwardLookup(new, tier + 1, 0) = IF ReadLocal(tier + 1, e.pi) = 0 THEN HashOf(q, e) ELSE NoHash
  BY <1>7 DEF ForwardLookup
<1> HIDE DEF e
<1>9. ReadLocal(tier + 1, e.pi) = 0
  BY <1>2, <1>3, <1>7
<1> QED BY <1>7, <1>8, <1>9 DEF h

\* An entry whose index does not fit is one after a hole.
LEMMA CopyFails ==
  ASSUME NothingLost, InOrder, Explained, CopyPanics
  PROVE  ~ Contiguous /\ \E h \in DOMAIN presented : ~ FitsLocal(tier + 1, presented[h] - NewOffset)
<1> DEFINE h == Nibbles \o Suffix
           size == DonutSize[tier]
           o == offsets[donut]
           i == LocalPi
           file == SuffixFile(sources[donut], Nibbles)
<1>1. OffsetsFit /\ FilesFit /\ EntriesPreserved /\ Reading /\ ~ Writable /\ NewOffset = TierOffset
  BY DEF NothingLost, CopyPanics, Explained
<1>2. /\ tier \in Tiers /\ tier \in Nat /\ size \in Nat \ {0} /\ Donuts \in Nat \ {0} /\ NewOffset \in Nat
      /\ Words \in Nat /\ Nibbles \in Strings(tier)
  BY <1>1, StateFacts, TierBakeAssumption
<1>3. /\ donut \in 1 .. Donuts /\ at + 1 \in 1 .. Len(file)
      /\ i = EntryAt.pi /\ i \in Nat /\ i < size
  BY <1>1, EntryRead
<1>4. o \in Nat /\ NewOffset <= o
  BY <1>1, <1>3, OffsetsAre
<1>5. PICK hole \in Holes : o - NewOffset + size <= Donuts * size + hole
  BY <1>1, <1>3 DEF OffsetsFit
<1>6. /\ Donuts * size + hole < Words /\ TierOffset + Donuts * size + hole < Words
      /\ Donuts * size <= LocalOnes[tier + 1] /\ LocalOnes[tier + 1] \in Nat /\ hole \in Nat
  BY <1>2, WidthsAssumption, RoomAssumption, TierBakeAssumption
<1> DEFINE span == Donuts * size
           x == i + o - NewOffset
<1>7. /\ span \in Nat /\ o - NewOffset + size <= span + hole
      /\ span + hole < Words /\ TierOffset + span + hole < Words
      /\ span <= LocalOnes[tier + 1]
  BY <1>2, <1>5, <1>6
<1> HIDE DEF span, size, o, i
<1>8. x \in Nat /\ x < span + hole /\ i + o \in Nat /\ x + NewOffset = i + o
  <2>1. i \in Nat /\ i < size /\ o \in Nat /\ NewOffset <= o /\ NewOffset \in Nat /\ size \in Nat
    BY <1>2, <1>3, <1>4
  <2>2. hole \in Nat /\ span \in Nat /\ o - NewOffset + size <= span + hole
    BY <1>6, <1>7
  <2> QED BY <2>1, <2>2
<1>9. NewOffset + span + hole < Words
  BY <1>1, <1>7
<1>10. i < Words - 1 /\ i + o < Words - 1 /\ x < Words - 1
  <2>1. i \in Nat /\ i < size /\ o \in Nat /\ NewOffset <= o /\ NewOffset \in Nat /\ Words \in Nat
    BY <1>2, <1>3, <1>4
  <2>2. hole \in Nat /\ span \in Nat /\ span + hole < Words
    BY <1>6, <1>7
  <2> HIDE DEF x
  <2> QED BY <1>8, <1>9, <2>1, <2>2
<1>11. (i + o) % Words = i + o /\ x % Words = x
  <2> DEFINE v == i + o
  <2>1. v \in Nat /\ x \in Nat /\ v < Words /\ x < Words
    BY <1>2, <1>8, <1>10
  <2> HIDE DEF x, v
  <2>2. v % Words = v /\ x % Words = x
    BY <1>2, <2>1
  <2> QED BY <2>2 DEF v
<1>12. Rebased = x
  BY <1>11 DEF Rebased, i, o
<1>13. ~ FitsLocal(tier + 1, x)
  <2>1. LocalPi # NoMatch
    BY <1>2, <1>3, <1>10 DEF NoMatch, i
  <2>2. (LocalPi + offsets[donut]) % Words # NoMatch
    BY <1>2, <1>8, <1>10, <1>11 DEF NoMatch, i, o
  <2>3. Rebased # NoMatch
    <3> HIDE DEF x
    <3> QED BY <1>2, <1>8, <1>10, <1>12 DEF NoMatch
  <2> QED BY <1>1, <1>12, <2>1, <2>2, <2>3 DEF Writable
<1>14. h \in DOMAIN presented /\ presented[h] = i + o
  <2>1. Pair(Nibbles, file[at + 1], tier, o) \in Stored(sources[donut], tier, o)
    BY <1>1, <1>2, <1>3, StoredIs DEF FilesFit
  <2>2. Pair(Nibbles, file[at + 1], tier, o) = <<h, i + o>>
    <3>1. file[at + 1] = EntryAt
      BY DEF EntryAt
    <3>2. Len(Nibbles) = tier
      BY <1>2, StringSeq
    <3> QED BY <3>1, <3>2 DEF Pair, HashOf, Suffix, i, LocalPi
  <2> DEFINE A == UNION {Stored(sources[k], tier, offsets[k]) : k \in 1 .. Donuts}
             y == <<h, i + o>>
  <2> HIDE DEF y
  <2>3. y \in A
    BY <1>3, <2>1, <2>2 DEF y, o
  <2> HIDE DEF A
  <2>4. A \subseteq {<<g, presented[g]>> : g \in DOMAIN presented}
    BY <1>1 DEF EntriesPreserved, A
  <2>5. y \in {<<g, presented[g]>> : g \in DOMAIN presented}
    BY <2>3, <2>4
  <2> HIDE DEF h
  <2> QED BY <2>5 DEF y
<1>15. ~ Contiguous
  <2> SUFFICES ASSUME Contiguous PROVE FALSE
    OBVIOUS
  <2>1. o = NewOffset + (donut - 1) * size
    BY <1>1, <1>3, ContiguousOffsets DEF o, size
  <2>2. (donut - 1) * size + size <= span /\ (donut - 1) * size \in Nat
    <3>1. 1 \in 1 .. size
      BY <1>2
    <3> QED BY <1>2, <1>3, <3>1, Counted DEF span
  <2>3. x < span
    <3> DEFINE z == (donut - 1) * size
    <3>1. z \in Nat /\ z + size <= span /\ o = NewOffset + z
      BY <2>1, <2>2
    <3> HIDE DEF z
    <3> QED BY <1>2, <1>3, <1>7, <3>1
  <2>4. FitsLocal(tier + 1, x)
    <3> HIDE DEF x
    <3> QED BY <1>6, <1>7, <1>8, <2>3 DEF FitsLocal, Fits, Fits24
  <2> QED BY <1>13, <2>4
<1> HIDE DEF h
<1>16. presented[h] - NewOffset = x
  BY <1>2, <1>3, <1>4, <1>14
<1> QED BY <1>13, <1>14, <1>15, <1>16

\* No file has more entries than there are positions.
LEMMA PositionFits ==
  ASSUME NothingLost, InOrder, Explained, prefix = Power[tier],
         NEW h \in DOMAIN presented, NEW position \in Nat, IsAt(h, position)
  PROVE  position < SuffixOnes
<1> DEFINE q == SubSeq(h, 1, tier + 1)
           file == SuffixFile(new, q)
           c == Len(file)
           T == SamePrefix(h)
           g == [m \in 1 .. c |-> HashOf(q, file[m])]
<1>1. /\ OffsetsFit /\ FilesFit /\ IndicesFit /\ FilesAscend /\ IsFiniteSet(DOMAIN presented)
      /\ Cardinality(T) <= SuffixOnes /\ SuffixOnes \in Nat
  BY TierBakeAssumption DEF NothingLost, InOrder, Explained
<1>2. q \in Strings(tier + 1)
  BY <1>1, StateFacts, HashPrefix DEF IndicesFit
<1>3. c \in Nat /\ DOMAIN file = 1 .. c /\ file = new.files[FilePath(q)] /\ FilePath(q) \in DOMAIN new.files
  BY <1>1, <1>2, AllPaths, FileType DEF FilesFit, SuffixFile
<1>4. position + 1 \in 1 .. c
  BY <1>3 DEF IsAt
<1>5. \A m \in 1 .. c : g[m] \in T /\ presented[g[m]] = file[m].pi + NewOffset /\ file[m].pi \in Nat
  <2> SUFFICES ASSUME NEW m \in 1 .. c
               PROVE  g[m] \in T /\ presented[g[m]] = file[m].pi + NewOffset /\ file[m].pi \in Nat
    OBVIOUS
  <2>1. /\ HashOf(q, file[m]) \in DOMAIN presented /\ file[m].pi \in Nat
        /\ presented[HashOf(q, file[m])] = file[m].pi + NewOffset
        /\ SubSeq(HashOf(q, file[m]), 1, tier + 1) = q
    BY <1>2, EntryIs
  <2> QED BY <2>1 DEF SamePrefix
<1>6. \A i, j \in 1 .. c : i < j => file[i].pi < file[j].pi
  BY <1>1, <1>3 DEF FilesAscend
<1>7. IsFiniteSet(T)
  <2>1. T \in SUBSET DOMAIN presented
    BY DEF SamePrefix
  <2> HIDE DEF T
  <2> QED BY <1>1, <2>1, FS_Subset
<1>8. g \in Injection(1 .. c, T)
  <2>1. g \in [1 .. c -> T]
    BY <1>5
  <2>2. ASSUME NEW i \in 1 .. c, NEW j \in 1 .. c, g[i] = g[j] PROVE i = j
    <3> HIDE DEF g, file, T
    <3> DEFINE a == file[i].pi
               b == file[j].pi
    <3>1. a \in Nat /\ b \in Nat /\ a + NewOffset = b + NewOffset
      BY <1>5, <2>2
    <3>2. (i < j => a < b) /\ (j < i => b < a) /\ NewOffset \in Nat
      BY <1>1, <1>6, StateFacts
    <3> HIDE DEF a, b
    <3>3. a = b
      BY <3>1, <3>2
    <3> QED BY <3>1, <3>2, <3>3
  <2> HIDE DEF g, file, T
  <2> QED BY <2>1, <2>2 DEF Injection, IsInjective
<1> HIDE DEF g, T, file
<1>9. Cardinality(1 .. c) <= Cardinality(T)
  BY <1>7, <1>8, FS_Injection
<1>10. Cardinality(1 .. c) = c /\ Cardinality(T) \in Nat
  <2>1. Cardinality(1 .. c) = c
    BY <1>3, FS_Interval
  <2> QED BY <1>7, <2>1, FS_CardinalityType
<1> QED BY <1>1, <1>3, <1>4, <1>9, <1>10

LEMMA OrderFails ==
  ASSUME NothingLost, InOrder, Explained, OrderPanics
  PROVE  AllOnes
<1> SUFFICES ASSUME ~ AllOnes PROVE OrderFits
  BY DEF OrderPanics
<1> DEFINE h == Listing(donut)[at + 1]
<1>1. Ordering /\ pc = "order" /\ OffsetsFit /\ FilesFit /\ prefix = Power[tier]
  BY DEF OrderPanics, Ordering, NothingLost, FilesFit
<1>2. /\ h = NoHash => Update(at).position = 0
      /\ h # NoHash => h \in DOMAIN presented /\ Update(at).position \in Nat /\ IsAt(h, Update(at).position)
  BY <1>1, UpdateIs
<1>3. Update(at).position < SuffixOnes
  <2>1. CASE h = NoHash
    BY <1>2, <2>1, RoomAssumption
  <2>2. CASE h # NoHash
    <3> DEFINE position == Update(at).position
    <3>1. h \in DOMAIN presented /\ position \in Nat /\ IsAt(h, position)
      BY <1>2, <2>2
    <3> HIDE DEF h, position
    <3>2. position < SuffixOnes
      BY <1>1, <3>1, PositionFits
    <3> QED BY <3>2 DEF position
  <2> QED BY <2>1, <2>2
<1>4. Fits(NewPrefixIndex, PrefixOnes[tier + 1])
  BY <1>1, NewPrefixIs DEF Fits
<1> QED BY <1>3, <1>4 DEF OrderFits, Fits24

LEMMA StepExplained ==
  ASSUME NothingLost, InOrder, Explained, [Next]_vars
  PROVE  Explained'
<1> DEFINE reason ==
             \/ ~ Contiguous /\ \E h \in DOMAIN presented : ~ FitsLocal(tier + 1, presented[h] - NewOffset)
             \/ AllOnes
           found(hash) == AllOnes \/ hash = Listing(1)[1]
<1>1. /\ UNCHANGED given
      /\ pc' = "failed" => pc = "failed" \/ reason
      /\ pc' \notin {"check", "failed"} => found(first')
      /\ pc' = "check" => prefix' = 0
  <2>1. /\ pc \notin {"check", "failed"} => found(first)
        /\ pc = "check" => prefix = 0
    BY DEF Explained
  <2> HIDE DEF reason, found
  <2>2. CASE Check
    <3>1. AllOnes \/ ForwardLookup(sources[1], tier, 0) = Listing(1)[1]
      BY <2>2, FirstLookup DEF Check
    <3>2. Listing(1)[1] # NoHash
      BY FirstHash DEF NothingLost, InOrder
    <3>3. AllOnes => reason /\ found(first')
      BY DEF reason, found
    <3>4. first' = Listing(1)[1] => found(first')
      BY DEF found
    <3> QED BY <2>2, <3>1, <3>2, <3>3, <3>4 DEF Check
  <2>3. CASE OpenPrefix
    BY <2>1, <2>3 DEF OpenPrefix
  <2>4. CASE CopyEntry
    BY <2>1, <2>4 DEF CopyEntry, Reading
  <2>5. CASE CopyPanics
    <3>1. reason
      BY <2>5, CopyFails DEF reason
    <3> QED BY <2>5, <3>1 DEF CopyPanics, Failed
  <2>6. CASE NextFile
    <3>1. donut \in 1 .. Donuts /\ prefix < Power[tier]
      BY <2>6, StateFacts DEF NextFile, NothingLost, FilesFit
    <3>2. FilePath(Nibbles) \in DOMAIN sources[donut].files
      BY <2>6, <3>1, SourceFile DEF NextFile, NothingLost, InOrder
    <3> QED BY <2>1, <2>6, <3>2 DEF NextFile
  <2>7. CASE RemovePrefix
    BY <2>1, <2>7 DEF RemovePrefix
  <2>8. CASE StartOrder
    BY <2>1, <2>8 DEF StartOrder
  <2>9. CASE OrderEntry
    BY <2>1, <2>9 DEF OrderEntry, Ordering
  <2>10. CASE OrderPanics
    <3>1. reason
      BY <2>10, OrderFails DEF reason
    <3> QED BY <2>10, <3>1 DEF OrderPanics, Failed
  <2>11. CASE NextOrder
    BY <2>1, <2>11 DEF NextOrder
  <2>12. CASE Finish
    <3>1. ForwardLookup(new, tier + 1, 0) = Listing(1)[1]
      BY <2>12, LastLookup DEF Finish
    <3>2. AllOnes => reason
      BY DEF reason
    <3>3. found(first)
      BY <2>1, <2>12 DEF Finish
    <3>4. AllOnes \/ first = Listing(1)[1]
      BY <3>3 DEF found
    <3> QED BY <2>1, <2>12, <3>1, <3>2, <3>3, <3>4 DEF Finish
  <2>13. CASE UNCHANGED vars
    BY <2>1, <2>13 DEF vars, given
  <2> QED
    BY <2>2, <2>3, <2>4, <2>5, <2>6, <2>7, <2>8, <2>9, <2>10, <2>11, <2>12, <2>13 DEF Next
<1>2. UNCHANGED <<tier, offsets, presented>> /\ NewOffset' = NewOffset
  BY <1>1 DEF given, NewOffset
<1>3. Listing(1)' = Listing(1)
  BY <1>1, ListingKept
<1>4. AllOnes' <=> AllOnes
  BY <1>2 DEF AllOnes
<1>5. FailsOnlyIf'
  <2>1. pc = "failed" => reason
    BY DEF Explained, FailsOnlyIf, AllOnes
  <2>2. reason' <=> reason
    BY <1>2, <1>4 DEF Contiguous
  <2>3. pc' = "failed" => reason'
    BY <1>1, <2>1, <2>2
  <2> QED BY <2>3 DEF FailsOnlyIf, AllOnes
<1>6. \A h : SamePrefix(h)' = SamePrefix(h)
  BY <1>2 DEF SamePrefix
<1>7. pc' \notin {"check", "failed"} => AllOnes' \/ first' = Listing(1)'[1]
  BY <1>1, <1>3, <1>4
<1> QED BY <1>1, <1>2, <1>5, <1>6, <1>7 DEF Explained

\* Once a bake has looked up its first entry, it holds the first hash of its first donut,
\* unless a prefix of tier 2 reads back as "no match"; every prefix of the new tier has
\* room for its hashes; and a bake that broke off has met one of two reasons to.
THEOREM ReasonsInvariant == Spec => []Explained
<1>1. Init => Explained
  BY InitExplained
<1>2. NothingLost /\ InOrder /\ Explained /\ [Next]_vars => Explained'
  BY StepExplained
<1> QED BY <1>1, <1>2, NothingIsLost, StaysInOrder, PTL DEF Spec

\* A bake breaks off only if a hole made the local indices too large, or a hash of tier 2
\* begins with the prefix that reads back as "no match".
THEOREM BreaksOffOnlyIf == Spec => []FailsOnlyIf
<1>1. Explained => FailsOnlyIf
  BY DEF Explained
<1> QED BY <1>1, ReasonsInvariant, PTL

=============================================================================
