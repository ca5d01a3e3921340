--------------------------- MODULE TierBakeProofs ---------------------------
(***************************************************************************)
(* What is proved of a bake: it loses no entry and misstates none.         *)
(***************************************************************************)
EXTENDS TierBakeInvariant, FiniteSetTheorems, SequenceTheorems, WellFoundedInduction, TLAPS

(***************************************************************************)
(* Numbers                                                                 *)
(***************************************************************************)
\* A nonempty set of natural numbers has a least element.
LEMMA LeastNumber ==
  ASSUME NEW T, T \subseteq Nat, T # {}
  PROVE  \E x \in T : \A y \in T : x <= y
<1> DEFINE less == OpToRel(<, Nat)
<1>1. IsWellFoundedOn(less, Nat)
  BY NatLessThanWellFounded
<1>2. \A x, y \in Nat : <<y, x>> \in less <=> y < x
  BY DEF OpToRel
<1> HIDE DEF less
<1>3. PICK x \in T : \A y \in T : ~ (<<y, x>> \in less)
  BY <1>1, WFMin
<1>4. \A y \in T : x <= y
  <2> TAKE y \in T
  <2>1. x \in Nat /\ y \in Nat /\ ~ (y < x)
    BY <1>2, <1>3
  <2> QED BY <2>1
<1> QED BY <1>4

\* A set of natural numbers that has 0, and with every number the next one, has all.
LEMMA Induction ==
  ASSUME NEW S, 0 \in S, \A n \in Nat : n \in S => n + 1 \in S
  PROVE  Nat \subseteq S
<1> DEFINE T == Nat \ S
<1> SUFFICES ASSUME T # {} PROVE FALSE
  OBVIOUS
<1>1. PICK x \in T : \A y \in T : x <= y
  <2> HIDE DEF T
  <2>1. T \subseteq Nat
    BY DEF T
  <2> QED BY <2>1, LeastNumber
<1>2. x \in Nat /\ x # 0
  BY <1>1
<1>3. x - 1 \in Nat /\ ~ (x <= x - 1) /\ (x - 1) + 1 = x
  BY <1>2
<1>4. x - 1 \in S
  BY <1>1, <1>3
<1> QED BY <1>1, <1>3, <1>4

\* Quotients and remainders.
LEMMA Divided ==
  ASSUME NEW b \in Nat \ {0}, NEW a \in Nat
  PROVE  a = b * (a \div b) + (a % b) /\ a % b \in 0 .. b - 1 /\ a \div b \in Nat
OBVIOUS

LEMMA DividedBack ==
  ASSUME NEW b \in Nat \ {0}, NEW a \in Nat, NEW r \in 0 .. b - 1
  PROVE  (b * a + r) \div b = a /\ (b * a + r) % b = r
OBVIOUS

LEMMA DividedTwice ==
  ASSUME NEW b \in Nat \ {0}, NEW c \in Nat \ {0}, NEW a \in Nat
  PROVE  a \div (b * c) = (a \div b) \div c
OBVIOUS

LEMMA DividedLess ==
  ASSUME NEW b \in Nat \ {0}, NEW c \in Nat, NEW a \in Nat, a < b * c
  PROVE  a \div b < c
OBVIOUS

LEMMA BelowProduct ==
  ASSUME NEW b \in Nat \ {0}, NEW c \in Nat, NEW a \in Nat, NEW r \in 0 .. b - 1, a < c
  PROVE  b * a + r \in Nat /\ b * a + r < b * c
<1>1. a + 1 <= c
  OBVIOUS
<1>2. b * (a + 1) <= b * c
  BY <1>1
<1>3. b * (a + 1) = b * a + b
  OBVIOUS
<1> QED BY <1>2, <1>3

\* The recursion for Power has a solution: for every n there is one up to n, and they
\* agree.
LEMMA PowerFacts ==
  /\ Power[0] = 1
  /\ \A n \in Nat : Power[n] \in Nat \ {0} /\ Power[n + 1] = NibbleBase * Power[n]
<1> DEFINE upTo(n) == {f \in [0 .. n -> Nat \ {0}] :
                         f[0] = 1 /\ \A m \in 0 .. n - 1 : f[m + 1] = NibbleBase * f[m]}
           here == {n \in Nat : \E f \in upTo(n) : \A g \in upTo(n) : g = f}
<1>0. NibbleBase \in Nat \ {0}
  BY TierBakeAssumption
<1>1. 0 \in here
  <2> DEFINE f == [m \in 0 .. 0 |-> 1]
  <2>1. f \in upTo(0)
    OBVIOUS
  <2>2. ASSUME NEW g \in upTo(0) PROVE g = f
    <3>1. g \in [0 .. 0 -> Nat \ {0}] /\ g[0] = 1
      OBVIOUS
    <3> QED BY <3>1
  <2> QED BY <2>1, <2>2
<1>2. ASSUME NEW n \in Nat, n \in here PROVE n + 1 \in here
  <2>1. PICK f \in upTo(n) : \A g \in upTo(n) : g = f
    BY <1>2
  <2> DEFINE h == [m \in 0 .. n + 1 |-> IF m = n + 1 THEN NibbleBase * f[n] ELSE f[m]]
  <2>2. h \in upTo(n + 1)
    <3>1. \A m \in 0 .. n : h[m] = f[m] /\ f[m] \in Nat \ {0}
      BY <2>1
    <3>2. h[n + 1] = NibbleBase * f[n] /\ NibbleBase * f[n] \in Nat \ {0}
      BY <1>0, <3>1
    <3>3. h \in [0 .. n + 1 -> Nat \ {0}]
      BY <3>1, <3>2
    <3>4. h[0] = 1
      BY <2>1, <3>1
    <3>5. \A m \in 0 .. (n + 1) - 1 : h[m + 1] = NibbleBase * h[m]
      <4> TAKE m \in 0 .. (n + 1) - 1
      <4>1. CASE m = n
        BY <3>1, <3>2, <4>1
      <4>2. CASE m \in 0 .. n - 1
        BY <2>1, <3>1, <4>2
      <4> QED BY <4>1, <4>2
    <3> HIDE DEF h
    <3> QED BY <3>3, <3>4, <3>5
  <2>3. ASSUME NEW g \in upTo(n + 1) PROVE g = h
    <3> DEFINE low == [m \in 0 .. n |-> g[m]]
    <3>1. /\ g \in [0 .. n + 1 -> Nat \ {0}] /\ g[0] = 1
          /\ \A m \in 0 .. n : g[m + 1] = NibbleBase * g[m]
      OBVIOUS
    <3>2. low \in upTo(n)
      BY <3>1
    <3>3. low = f
      BY <2>1, <3>2
    <3>4. \A m \in 0 .. n : g[m] = f[m]
      <4> TAKE m \in 0 .. n
      <4>1. low[m] = g[m]
        OBVIOUS
      <4> QED BY <3>3, <4>1
    <3>5. g[n + 1] = NibbleBase * f[n]
      BY <3>1, <3>4
    <3> QED BY <3>1, <3>4, <3>5
  <2>4. n + 1 \in Nat
    OBVIOUS
  <2> HIDE DEF h, upTo
  <2> QED BY <2>2, <2>3, <2>4
<1>3. Nat \subseteq here
  <2> HIDE DEF here
  <2> QED BY <1>1, <1>2, Induction
<1> DEFINE part(n) == CHOOSE f \in upTo(n) : TRUE
           power == [n \in Nat |-> part(n)[n]]
<1>4. \A n \in Nat : part(n) \in upTo(n) /\ \A g \in upTo(n) : g = part(n)
  BY <1>3
<1> HIDE DEF part, upTo, here
<1>5. ASSUME NEW n \in Nat PROVE part(n)[n + 0] = part(n + 1)[n]
  <2> DEFINE low == [m \in 0 .. n |-> part(n + 1)[m]]
  <2>1. part(n + 1) \in upTo(n + 1)
    BY <1>4
  <2> DEFINE f == part(n + 1)
  <2>2. /\ f \in [0 .. n + 1 -> Nat \ {0}] /\ f[0] = 1
        /\ \A m \in 0 .. n : f[m + 1] = NibbleBase * f[m]
    BY <2>1 DEF upTo
  <2> HIDE DEF f
  <2>5. [m \in 0 .. n |-> f[m]] \in upTo(n)
    BY <2>2 DEF upTo
  <2>6. low \in upTo(n)
    BY <2>5 DEF f
  <2>3. low = part(n)
    BY <1>4, <2>6
  <2>4. low[n] = part(n + 1)[n]
    OBVIOUS
  <2> QED BY <2>3, <2>4
<1>6. /\ power[0] = 1
      /\ \A n \in Nat : power[n] \in Nat \ {0} /\ power[n + 1] = NibbleBase * power[n]
  <2>1. part(0)[0] = 1
    BY <1>4 DEF upTo
  <2>2. ASSUME NEW n \in Nat
        PROVE  power[n] \in Nat \ {0} /\ power[n + 1] = NibbleBase * power[n]
    <3>1. part(n) \in upTo(n) /\ part(n + 1) \in upTo(n + 1)
      BY <1>4
    <3>2. part(n)[n] \in Nat \ {0}
      BY <3>1 DEF upTo
    <3>3. part(n + 1)[n + 1] = NibbleBase * part(n + 1)[n]
      BY <3>1 DEF upTo
    <3> QED BY <1>5, <3>2, <3>3
  <2> QED BY <2>1, <2>2
<1>7. power = [n \in Nat |-> IF n = 0 THEN 1 ELSE NibbleBase * power[n - 1]]
  <2>1. ASSUME NEW n \in Nat
        PROVE  power[n] = IF n = 0 THEN 1 ELSE NibbleBase * power[n - 1]
    <3>1. CASE n = 0
      BY <1>6, <3>1
    <3>2. CASE n # 0
      <4>1. n - 1 \in Nat /\ (n - 1) + 1 = n
        BY <3>2
      <4> HIDE DEF power
      <4> QED BY <1>6, <3>2, <4>1
    <3> QED BY <3>1, <3>2
  <2> QED BY <2>1
<1> HIDE DEF power
<1>8. Power = [n \in Nat |-> IF n = 0 THEN 1 ELSE NibbleBase * Power[n - 1]]
  BY <1>7 DEF Power
<1> DEFINE ok == {n \in Nat : Power[n] \in Nat \ {0}}
<1>9. Power[0] = 1 /\ \A n \in Nat : Power[n + 1] = NibbleBase * Power[n]
  <2>1. Power[0] = 1
    BY <1>8
  <2>2. ASSUME NEW n \in Nat PROVE Power[n + 1] = NibbleBase * Power[n]
    <3>1. n + 1 \in Nat /\ n + 1 # 0 /\ (n + 1) - 1 = n
      OBVIOUS
    <3> QED BY <1>8, <3>1
  <2> QED BY <2>1, <2>2
<1>10. Nat \subseteq ok
  <2>1. 0 \in ok
    BY <1>9
  <2>2. \A n \in Nat : n \in ok => n + 1 \in ok
    <3> TAKE n \in Nat
    <3>1. Power[n] \in Nat \ {0} => NibbleBase * Power[n] \in Nat \ {0}
      BY <1>0
    <3> QED BY <1>9, <3>1
  <2> HIDE DEF ok
  <2> QED BY <2>1, <2>2, Induction
<1> QED BY <1>9, <1>10

(***************************************************************************)
(* Prefixes and their numbers                                              *)
(***************************************************************************)
LEMMA Nibbled == Nibble \subseteq Nat /\ 0 \in Nibble /\ NibbleBase \in Nat \ {0}
BY TierBakeAssumption DEF Nibble

\* The nibbles of a number are those of the number without the last one, and that.
LEMMA PrefixSplit ==
  ASSUME NEW n \in Nat, NEW p \in Nat
  PROVE  /\ PrefixNibbles(p, n + 1) \in Strings(n + 1)
         /\ \A i \in 1 .. n : PrefixNibbles(p, n + 1)[i] = PrefixNibbles(p \div NibbleBase, n)[i]
         /\ PrefixNibbles(p, n + 1)[n + 1] = p % NibbleBase
<1>1. NibbleBase \in Nat \ {0}
  BY Nibbled
<1>2. ASSUME NEW i \in 1 .. n + 1
      PROVE  Power[(n + 1) - i] \in Nat \ {0} /\ (n + 1) - i \in Nat
  BY PowerFacts
<1>3. \A i \in 1 .. n + 1 : (p \div Power[(n + 1) - i]) % NibbleBase \in Nibble
  <2> TAKE i \in 1 .. n + 1
  <2> DEFINE q == p \div Power[(n + 1) - i]
  <2>1. q \in Nat
    BY <1>2, Divided
  <2> HIDE DEF q
  <2>2. q % NibbleBase \in Nibble
    BY <1>1, <2>1, Divided DEF Nibble
  <2> QED BY <2>2 DEF q
<1>4. ASSUME NEW i \in 1 .. n
      PROVE  PrefixNibbles(p, n + 1)[i] = PrefixNibbles(p \div NibbleBase, n)[i]
  <2> DEFINE c == Power[n - i]
  <2>1. n - i \in Nat /\ (n - i) + 1 = (n + 1) - i /\ i \in 1 .. n + 1
    OBVIOUS
  <2>2. c \in Nat \ {0} /\ Power[(n + 1) - i] = NibbleBase * c
    BY <2>1, PowerFacts
  <2> HIDE DEF c
  <2>3. p \div (NibbleBase * c) = (p \div NibbleBase) \div c
    BY <1>1, <2>2, DividedTwice
  <2> QED BY <2>1, <2>2, <2>3 DEF PrefixNibbles, c
<1>5. PrefixNibbles(p, n + 1)[n + 1] = p % NibbleBase
  <2>1. Power[(n + 1) - (n + 1)] = 1
    BY PowerFacts
  <2>2. p \div 1 = p
    OBVIOUS
  <2> QED BY <2>1, <2>2 DEF PrefixNibbles
<1> QED BY <1>3, <1>4, <1>5 DEF PrefixNibbles, Strings

LEMMA PrefixType ==
  ASSUME NEW n \in Nat, NEW p \in Nat
  PROVE  PrefixNibbles(p, n) \in Strings(n)
<1>1. CASE n = 0
  BY <1>1 DEF PrefixNibbles, Strings
<1>2. CASE n # 0
  <2>1. n - 1 \in Nat /\ (n - 1) + 1 = n
    BY <1>2
  <2> QED BY <2>1, PrefixSplit
<1> QED BY <1>1, <1>2

\* A number without its last nibble.
LEMMA Shorter ==
  ASSUME NEW n \in Nat, NEW p \in 0 .. Power[n + 1] - 1
  PROVE  p \div NibbleBase \in 0 .. Power[n] - 1 /\ p \in Nat
<1> DEFINE c == Power[n]
<1>1. NibbleBase \in Nat \ {0} /\ c \in Nat \ {0} /\ Power[n + 1] = NibbleBase * c
  BY Nibbled, PowerFacts
<1> HIDE DEF c
<1>2. p \in Nat /\ p < NibbleBase * c
  BY <1>1
<1>3. p \div NibbleBase \in Nat /\ p \div NibbleBase < c
  BY <1>1, <1>2, Divided, DividedLess
<1> QED BY <1>1, <1>2, <1>3 DEF c

\* Different numbers have different nibbles.
LEMMA PrefixOneToOne ==
  ASSUME NEW n \in Nat, NEW p \in 0 .. Power[n] - 1, NEW q \in 0 .. Power[n] - 1,
         PrefixNibbles(p, n) = PrefixNibbles(q, n)
  PROVE  p = q
<1> DEFINE good == {m \in Nat : \A a, b \in 0 .. Power[m] - 1 :
                      PrefixNibbles(a, m) = PrefixNibbles(b, m) => a = b}
<1>1. 0 \in good
  BY PowerFacts
<1>2. ASSUME NEW m \in Nat, m \in good PROVE m + 1 \in good
  <2>1. ASSUME NEW a \in 0 .. Power[m + 1] - 1, NEW b \in 0 .. Power[m + 1] - 1,
               PrefixNibbles(a, m + 1) = PrefixNibbles(b, m + 1)
        PROVE  a = b
    <3> DEFINE c == a \div NibbleBase
               d == b \div NibbleBase
    <3>1. c \in 0 .. Power[m] - 1 /\ d \in 0 .. Power[m] - 1 /\ a \in Nat /\ b \in Nat
      BY Shorter
    <3>2. c \in Nat /\ d \in Nat
      BY Nibbled, Divided, <3>1
    <3>3. /\ \A i \in 1 .. m : PrefixNibbles(a, m + 1)[i] = PrefixNibbles(c, m)[i]
          /\ PrefixNibbles(a, m + 1)[m + 1] = a % NibbleBase
      BY <3>1, PrefixSplit
    <3>4. /\ \A i \in 1 .. m : PrefixNibbles(b, m + 1)[i] = PrefixNibbles(d, m)[i]
          /\ PrefixNibbles(b, m + 1)[m + 1] = b % NibbleBase
      BY <3>1, PrefixSplit
    <3>5. \A i \in 1 .. m : PrefixNibbles(c, m)[i] = PrefixNibbles(d, m)[i]
      <4> HIDE DEF c, d
      <4> QED BY <2>1, <3>3, <3>4
    <3>6. PrefixNibbles(c, m) = PrefixNibbles(d, m)
      <4> HIDE DEF c, d
      <4> QED BY <3>2, <3>5, PrefixType DEF Strings
    <3>7. c = d
      <4> HIDE DEF c, d
      <4> QED BY <1>2, <3>1, <3>6
    <3>8. a % NibbleBase = b % NibbleBase
      BY <2>1, <3>3, <3>4
    <3>9. a = NibbleBase * c + (a % NibbleBase) /\ b = NibbleBase * d + (b % NibbleBase)
      BY <3>1, Nibbled, Divided
    <3> HIDE DEF c, d
    <3> QED BY <3>7, <3>8, <3>9
  <2> QED BY <2>1
<1>3. Nat \subseteq good
  <2> HIDE DEF good
  <2> QED BY <1>1, <1>2, Induction
<1> QED BY <1>3

\* Every string of nibbles is that of a number.
LEMMA PrefixOnto ==
  ASSUME NEW n \in Nat, NEW s \in Strings(n)
  PROVE  \E p \in 0 .. Power[n] - 1 : s = PrefixNibbles(p, n)
<1> DEFINE good == {m \in Nat : \A r \in Strings(m) :
                      \E p \in 0 .. Power[m] - 1 : r = PrefixNibbles(p, m)}
<1>1. 0 \in good
  <2>1. 0 \in 0 .. Power[0] - 1
    BY PowerFacts
  <2>2. \A r \in Strings(0) : r = PrefixNibbles(0, 0)
    BY DEF Strings, PrefixNibbles
  <2> QED BY <2>1, <2>2
<1>2. ASSUME NEW m \in Nat, m \in good PROVE m + 1 \in good
  <2>1. ASSUME NEW r \in Strings(m + 1)
        PROVE  \E p \in 0 .. Power[m + 1] - 1 : r = PrefixNibbles(p, m + 1)
    <3> DEFINE front == [i \in 1 .. m |-> r[i]]
               last == r[m + 1]
    <3>1. front \in Strings(m) /\ last \in Nibble /\ \A i \in 1 .. m : r[i] = front[i]
      BY DEF Strings
    <3> HIDE DEF front
    <3>2. PICK p \in 0 .. Power[m] - 1 : front = PrefixNibbles(p, m)
      BY <1>2, <3>1
    <3> HIDE DEF last
    <3> DEFINE c == Power[m]
               q == NibbleBase * p + last
    <3>3. NibbleBase \in Nat \ {0} /\ c \in Nat \ {0} /\ Power[m + 1] = NibbleBase * c
      BY Nibbled, PowerFacts
    <3>4. p \in Nat /\ p < c
      BY <3>3
    <3> HIDE DEF c
    <3>5. q \in Nat /\ q < NibbleBase * c
      BY <3>1, <3>3, <3>4, BelowProduct DEF Nibble
    <3>6. q \div NibbleBase = p /\ q % NibbleBase = last
      BY <3>1, <3>3, <3>4, DividedBack DEF Nibble
    <3> HIDE DEF q
    <3>7. q \in 0 .. Power[m + 1] - 1
      BY <3>3, <3>5
    <3>8. /\ PrefixNibbles(q, m + 1) \in Strings(m + 1)
          /\ \A i \in 1 .. m : PrefixNibbles(q, m + 1)[i] = front[i]
          /\ PrefixNibbles(q, m + 1)[m + 1] = last
      BY <3>2, <3>5, <3>6, PrefixSplit
    <3>9. \A i \in 1 .. m + 1 : PrefixNibbles(q, m + 1)[i] = r[i]
      <4> TAKE i \in 1 .. m + 1
      <4>1. CASE i \in 1 .. m
        BY <3>1, <3>8, <4>1
      <4>2. CASE i = m + 1
        BY <3>8, <4>2 DEF last
      <4> QED BY <4>1, <4>2
    <3>10. r = PrefixNibbles(q, m + 1)
      BY <3>8, <3>9 DEF Strings
    <3> QED BY <3>7, <3>10
  <2> QED BY <2>1
<1>3. Nat \subseteq good
  <2> HIDE DEF good
  <2> QED BY <1>1, <1>2, Induction
<1> QED BY <1>3

LEMMA PrefixesAre == ASSUME NEW n \in Nat PROVE Prefixes(n) = Strings(n)
<1>1. \A p \in 0 .. Power[n] - 1 : p \in Nat
  OBVIOUS
<1> QED BY <1>1, PrefixType, PrefixOnto DEF Prefixes

\* A nibble is in one of the parts of the path.
LEMMA PathPart ==
  ASSUME NEW n \in Nat, NEW i \in 1 .. n
  PROVE  \E k, m \in Nat : \A s \in Strings(n) :
           /\ k \in DOMAIN FilePath(s) /\ m \in DOMAIN FilePath(s)[k] /\ FilePath(s)[k][m] = s[i]
<1> DEFINE parts == (n + Digits - 1) \div Digits
           q == (n - i) \div Digits
           k == parts - q
           end == n - Digits * q
           start == IF k = 1 THEN 1 ELSE (n - Digits * (q + 1)) + 1
           m == (i - start) + 1
<1>1. Digits \in Nat \ {0}
  BY TierBakeAssumption
<1>2. /\ parts \in Nat /\ n <= Digits * parts /\ Digits * (parts - 1) <= n - 1
  <2>1. n + Digits - 1 \in Nat
    BY <1>1
  <2>2. /\ parts \in Nat /\ (n + Digits - 1) % Digits \in 0 .. Digits - 1
        /\ n + Digits - 1 = Digits * parts + ((n + Digits - 1) % Digits)
    BY <1>1, <2>1, Divided
  <2>3. Digits * (parts - 1) = Digits * parts - Digits
    BY <1>1, <2>2
  <2> HIDE DEF parts
  <2> QED BY <1>1, <2>2, <2>3
<1>3. /\ q \in Nat /\ Digits * q <= n - i /\ n - i < Digits * (q + 1) /\ q < parts
  <2>1. n - i \in Nat /\ n - i < Digits * parts
    BY <1>1, <1>2
  <2>2. q \in Nat /\ n - i = Digits * q + ((n - i) % Digits) /\ (n - i) % Digits \in 0 .. Digits - 1
    BY <1>1, <2>1, Divided
  <2>3. Digits * (q + 1) = Digits * q + Digits
    BY <1>1, <2>2
  <2>4. q < parts
    <3> HIDE DEF parts
    <3> QED BY <1>1, <1>2, <2>1, DividedLess
  <2> HIDE DEF parts, q
  <2> QED BY <1>1, <2>1, <2>2, <2>3, <2>4
<1>4. k \in 1 .. parts /\ parts - k = q
  <2> HIDE DEF parts, q
  <2> QED BY <1>2, <1>3
<1>5. /\ start \in Int /\ 1 <= start /\ start <= i /\ end \in Int /\ i <= end /\ end <= n
      /\ k # 1 => Digits * (parts - (k - 1)) = Digits * (q + 1)
  <2>1. Digits * q \in Nat /\ Digits * (q + 1) \in Nat
    BY <1>1, <1>3
  <2>2. k # 1 => Digits * (q + 1) <= n - 1
    <3>1. k # 1 => q + 1 <= parts - 1
      <4> HIDE DEF parts, q
      <4> QED BY <1>2, <1>3
    <3>2. q + 1 <= parts - 1 => Digits * (q + 1) <= Digits * (parts - 1)
      <4> HIDE DEF parts, q
      <4> QED BY <1>1, <1>2, <1>3
    <3>3. Digits * (parts - 1) \in Int
      BY <1>1, <1>2
    <3> HIDE DEF parts, q, k
    <3> QED BY <1>2, <2>1, <3>1, <3>2, <3>3
  <2>3. parts - (k - 1) = q + 1
    <3> HIDE DEF parts, q
    <3> QED BY <1>2, <1>3
  <2> HIDE DEF parts, q, k
  <2> QED BY <1>3, <2>1, <2>2, <2>3
<1>6. ASSUME NEW s \in Strings(n)
      PROVE  k \in DOMAIN FilePath(s) /\ FilePath(s)[k] = SubSeq(s, start, end)
  <2>1. Len(s) = n
    BY DEF Strings
  <2>2. DOMAIN FilePath(s) = 1 .. parts
    BY <2>1 DEF FilePath
  <2> HIDE DEF parts, q
  <2>3. FilePath(s)[k] = SubSeq(s, IF k = 1 THEN 1 ELSE n - Digits * (parts - (k - 1)) + 1,
                                   n - Digits * (parts - k))
    BY <1>4, <2>1 DEF FilePath, parts
  <2> HIDE DEF k
  <2> QED BY <1>4, <1>5, <2>2, <2>3
<1> HIDE DEF start, end, k, parts, q
<1>7. k \in Nat /\ m \in Nat /\ m \in 1 .. end - start + 1 /\ start + m - 1 = i
  BY <1>2, <1>4, <1>5
<1>8. ASSUME NEW s \in Strings(n)
      PROVE  m \in DOMAIN SubSeq(s, start, end) /\ SubSeq(s, start, end)[m] = s[i]
  <2>1. \A j \in start .. end : s[j] \in Nibble
    BY <1>5 DEF Strings
  <2>2. /\ SubSeq(s, start, end) \in Seq(Nibble)
        /\ Len(SubSeq(s, start, end)) = end - start + 1
        /\ \A j \in 1 .. end - start + 1 : SubSeq(s, start, end)[j] = s[start + j - 1]
    BY <1>5, <2>1, SubSeqProperties
  <2> HIDE DEF m
  <2>3. DOMAIN SubSeq(s, start, end) = 1 .. Len(SubSeq(s, start, end))
    BY <2>2
  <2> QED BY <1>7, <2>2, <2>3
<1> HIDE DEF m
<1>9. \A s \in Strings(n) :
        k \in DOMAIN FilePath(s) /\ m \in DOMAIN FilePath(s)[k] /\ FilePath(s)[k][m] = s[i]
  BY <1>6, <1>8
<1> QED BY <1>7, <1>9

\* Different prefixes of one length have different paths.
LEMMA PathOneToOne ==
  ASSUME NEW n \in Nat, NEW s \in Strings(n), NEW r \in Strings(n), FilePath(s) = FilePath(r)
  PROVE  s = r
<1>1. \A i \in 1 .. n : s[i] = r[i]
  <2> TAKE i \in 1 .. n
  <2>1. PICK k, m \in Nat : \A t \in Strings(n) :
          /\ k \in DOMAIN FilePath(t) /\ m \in DOMAIN FilePath(t)[k] /\ FilePath(t)[k][m] = t[i]
    BY PathPart
  <2> QED BY <2>1
<1> QED BY <1>1 DEF Strings

(***************************************************************************)
(* Nibbles in bytes                                                        *)
(***************************************************************************)
LEMMA PackedBytes ==
  ASSUME NEW n \in Nat, NEW s \in Strings(n)
  PROVE  Packed(s) \in Bytes(n) /\ Unpacked(Packed(s), n) = s
<1>1. NibbleBase \in Nat \ {0} /\ Len(s) = n
  BY Nibbled DEF Strings
<1> DEFINE low(b) == IF 2 * b <= n THEN s[2 * b] ELSE 0
           byte(b) == NibbleBase * s[2 * b - 1] + low(b)
<1>2. Packed(s) = [b \in 1 .. (n + 1) \div 2 |-> byte(b)]
  BY <1>1 DEF Packed
<1>3. \A b \in 1 .. (n + 1) \div 2 : 2 * b - 1 \in 1 .. n /\ 2 * b \in Nat /\ 1 <= 2 * b
  OBVIOUS
<1>4. ASSUME NEW b \in 1 .. (n + 1) \div 2
      PROVE  /\ byte(b) \in 0 .. NibbleBase * NibbleBase - 1
             /\ byte(b) \div NibbleBase = s[2 * b - 1] /\ byte(b) % NibbleBase = low(b)
  <2> DEFINE a == s[2 * b - 1]
             r == low(b)
  <2>1. a \in 0 .. NibbleBase - 1 /\ r \in 0 .. NibbleBase - 1
    <3>1. 2 * b - 1 \in 1 .. n /\ (2 * b <= n => 2 * b \in 1 .. n)
      BY <1>3
    <3> QED BY <1>1, <3>1 DEF Strings, Nibble
  <2> HIDE DEF a, r
  <2>2. /\ NibbleBase * a + r \in Nat /\ NibbleBase * a + r < NibbleBase * NibbleBase
        /\ (NibbleBase * a + r) \div NibbleBase = a /\ (NibbleBase * a + r) % NibbleBase = r
    BY <1>1, <2>1, BelowProduct, DividedBack
  <2> DEFINE v == NibbleBase * a + r
             c == NibbleBase * NibbleBase
  <2>3. v \in Nat /\ c \in Nat /\ v < c
    BY <1>1, <2>2
  <2> HIDE DEF v, c
  <2>4. v \in 0 .. c - 1
    BY <2>3
  <2> QED BY <2>2, <2>4 DEF v, c, a, r
<1> HIDE DEF byte
<1>5. Packed(s) \in Bytes(n)
  BY <1>2, <1>4 DEF Bytes
<1>6. ASSUME NEW i \in 1 .. n
      PROVE  (IF i % 2 = 1 THEN Packed(s)[(i + 1) \div 2] \div NibbleBase
                           ELSE Packed(s)[i \div 2] % NibbleBase) = s[i]
  <2>1. CASE i % 2 = 1
    <3> DEFINE b == (i + 1) \div 2
    <3>1. b \in 1 .. (n + 1) \div 2 /\ 2 * b - 1 = i
      BY <2>1
    <3> HIDE DEF b
    <3> QED BY <1>2, <1>4, <2>1, <3>1 DEF b
  <2>2. CASE i % 2 # 1
    <3> DEFINE b == i \div 2
    <3>1. b \in 1 .. (n + 1) \div 2 /\ 2 * b = i /\ 2 * b <= n
      BY <2>2
    <3> HIDE DEF b
    <3>2. low(b) = s[i]
      BY <3>1
    <3> HIDE DEF low
    <3> QED BY <1>2, <1>4, <2>2, <3>1, <3>2 DEF b
  <2> QED BY <2>1, <2>2
<1>7. Unpacked(Packed(s), n) = s
  BY <1>6 DEF Unpacked, Strings
<1> QED BY <1>5, <1>7

LEMMA UnpackedBytes ==
  ASSUME NEW n \in Nat, NEW bytes \in Bytes(n)
  PROVE  Unpacked(bytes, n) \in Strings(n)
<1>1. NibbleBase \in Nat \ {0}
  BY Nibbled
<1>2. \A b \in 1 .. (n + 1) \div 2 : bytes[b] \div NibbleBase \in Nibble /\ bytes[b] % NibbleBase \in Nibble
  <2> TAKE b \in 1 .. (n + 1) \div 2
  <2> DEFINE v == bytes[b]
             c == NibbleBase * NibbleBase
  <2>1. v \in 0 .. c - 1 /\ c \in Nat
    BY <1>1 DEF Bytes
  <2> HIDE DEF v
  <2>2. v \in Nat /\ v < NibbleBase * NibbleBase
    <3> HIDE DEF c
    <3>1. v \in Nat /\ v < c
      BY <2>1
    <3> QED BY <3>1 DEF c
  <2>3. v \div NibbleBase \in Nat /\ v \div NibbleBase < NibbleBase /\ v % NibbleBase \in 0 .. NibbleBase - 1
    BY <1>1, <2>2, Divided, DividedLess
  <2> QED BY <1>1, <2>3 DEF v, Nibble
<1>3. \A i \in 1 .. n : /\ i % 2 = 1 => (i + 1) \div 2 \in 1 .. (n + 1) \div 2
                        /\ i % 2 # 1 => i \div 2 \in 1 .. (n + 1) \div 2
  OBVIOUS
<1> QED BY <1>2, <1>3 DEF Unpacked, Strings

(***************************************************************************)
(* Hashes from a prefix and an entry                                       *)
(***************************************************************************)
LEMMA TierFacts ==
  ASSUME NEW t \in Tiers
  PROVE  /\ t \in Nat /\ t + 1 \in Nat /\ HashNibbles - (t + 1) \in Nat \ {0}
         /\ HashNibbles - t \in Nat \ {0, 1} /\ (HashNibbles - t) - 1 = HashNibbles - (t + 1)
BY TierBakeAssumption

LEMMA StringSeq ==
  ASSUME NEW n \in Nat, NEW s \in Strings(n)
  PROVE  s \in Seq(Nibble) /\ Len(s) = n
<1>1. s \in Seq(Nibble)
  BY SeqDef DEF Strings
<1> QED BY <1>1 DEF Strings

\* A prefix and what follows it are a hash, nibble by nibble.
LEMMA Joined ==
  ASSUME NEW t \in 0 .. HashNibbles, NEW p \in Strings(t), NEW s \in Strings(HashNibbles - t)
  PROVE  p \o s = [i \in 1 .. HashNibbles |-> IF i <= t THEN p[i] ELSE s[i - t]] /\ p \o s \in Hash
<1>1. HashNibbles \in Nat
  BY TierBakeAssumption
<1>2. /\ p \in Seq(Nibble) /\ Len(p) = t
      /\ s \in Seq(Nibble) /\ Len(s) = HashNibbles - t
  BY <1>1, StringSeq
<1>3. /\ p \o s \in Seq(Nibble) /\ Len(p \o s) = HashNibbles
      /\ \A i \in 1 .. HashNibbles : (p \o s)[i] = IF i <= t THEN p[i] ELSE s[i - t]
  <2>1. Len(p) + Len(s) = HashNibbles
    BY <1>1, <1>2
  <2> QED BY <1>2, <2>1, ConcatProperties
<1>4. p \o s \in [1 .. HashNibbles -> Nibble]
  BY <1>3, LenProperties
<1> QED BY <1>3, <1>4 DEF Hash, Nibble

\* A hash without its first nibbles, packed and put after them.
LEMMA HashBack ==
  ASSUME NEW t \in 0 .. HashNibbles, NEW h \in Hash, NEW e,
         e.suffix = Packed(SubSeq(h, t + 1, HashNibbles))
  PROVE  /\ SubSeq(h, 1, t) \in Strings(t) /\ e.suffix \in Bytes(HashNibbles - t)
         /\ HashOf(SubSeq(h, 1, t), e) = h
<1> DEFINE p == SubSeq(h, 1, t)
           s == SubSeq(h, t + 1, HashNibbles)
           n == HashNibbles - t
<1>1. HashNibbles \in Nat /\ t \in Nat /\ t <= HashNibbles /\ n \in Nat
  BY TierBakeAssumption
<1>2. /\ p \in Seq(Nibble) /\ Len(p) = t /\ \A i \in 1 .. t : p[i] = h[i]
  <2>1. \A i \in 1 .. t : h[i] \in Nibble
    BY <1>1 DEF Hash, Nibble
  <2>2. /\ p \in Seq(Nibble) /\ Len(p) = (IF 1 <= t THEN t - 1 + 1 ELSE 0)
        /\ \A i \in 1 .. t - 1 + 1 : p[i] = h[1 + i - 1]
    BY <1>1, <2>1, SubSeqProperties
  <2> QED BY <1>1, <2>2
<1>3. /\ s \in Seq(Nibble) /\ Len(s) = n /\ \A i \in 1 .. n : s[i] = h[t + i]
  <2>1. \A i \in t + 1 .. HashNibbles : h[i] \in Nibble
    BY <1>1 DEF Hash, Nibble
  <2>2. /\ s \in Seq(Nibble)
        /\ Len(s) = (IF t + 1 <= HashNibbles THEN HashNibbles - (t + 1) + 1 ELSE 0)
        /\ \A i \in 1 .. HashNibbles - (t + 1) + 1 : s[i] = h[t + 1 + i - 1]
    BY <1>1, <2>1, SubSeqProperties
  <2> QED BY <1>1, <2>2
<1> HIDE DEF p, s
<1>4. p \in Strings(t) /\ s \in Strings(n)
  BY <1>2, <1>3, LenProperties DEF Strings
<1>5. Packed(s) \in Bytes(n) /\ Unpacked(Packed(s), n) = s
  BY <1>1, <1>4, PackedBytes
<1>6. p \o s = [i \in 1 .. HashNibbles |-> IF i <= t THEN p[i] ELSE s[i - t]]
  BY <1>4, Joined
<1>7. h = [i \in 1 .. HashNibbles |-> IF i <= t THEN p[i] ELSE s[i - t]]
  <2>1. \A i \in 1 .. HashNibbles : h[i] = IF i <= t THEN p[i] ELSE s[i - t]
    <3> TAKE i \in 1 .. HashNibbles
    <3>1. CASE i <= t
      BY <1>2, <3>1
    <3>2. CASE ~ (i <= t)
      <4>1. i - t \in 1 .. n /\ t + (i - t) = i
        BY <1>1, <3>2
      <4> QED BY <1>3, <3>2, <4>1
    <3> QED BY <3>1, <3>2
  <2> QED BY <2>1 DEF Hash
<1>8. HashOf(p, e) = p \o s
  BY <1>2, <1>5 DEF HashOf, s
<1> QED BY <1>4, <1>5, <1>6, <1>7, <1>8 DEF p, s

\* The first nibble of the suffix may be put at the end of the prefix.
LEMMA HashMoved ==
  ASSUME NEW t \in Nat, t + 1 <= HashNibbles, NEW p \in Strings(t),
         NEW s \in Strings(HashNibbles - t), NEW e, e.suffix = Packed(Tail(s))
  PROVE  /\ s[1] \in Nibble /\ Append(p, s[1]) \in Strings(t + 1)
         /\ e.suffix \in Bytes(HashNibbles - (t + 1))
         /\ HashOf(Append(p, s[1]), e) = p \o s
<1> DEFINE q == Append(p, s[1])
           r == Tail(s)
           n == HashNibbles - t
           m == HashNibbles - (t + 1)
<1>1. HashNibbles \in Nat /\ n \in Nat \ {0} /\ m \in Nat /\ m = n - 1
      /\ t \in 0 .. HashNibbles /\ t + 1 \in 0 .. HashNibbles
  BY TierBakeAssumption
<1>2. s \in Seq(Nibble) /\ Len(s) = n /\ p \in Seq(Nibble) /\ Len(p) = t /\ s[1] \in Nibble
  BY <1>1, StringSeq DEF Strings
<1>3. r \in Seq(Nibble) /\ Len(r) = m /\ \A i \in 1 .. m : r[i] = s[i + 1]
  <2>1. s # <<>>
    BY <1>1, <1>2
  <2> QED BY <1>1, <1>2, <2>1, HeadTailProperties
<1>4. q \in Seq(Nibble) /\ Len(q) = t + 1 /\ q[t + 1] = s[1] /\ \A i \in 1 .. t : q[i] = p[i]
  BY <1>2, AppendProperties
<1> HIDE DEF q, r
<1>5. q \in Strings(t + 1) /\ r \in Strings(m)
  BY <1>3, <1>4, LenProperties DEF Strings
<1>6. Packed(r) \in Bytes(m) /\ Unpacked(Packed(r), m) = r
  BY <1>1, <1>5, PackedBytes
<1>7. q \o r = [i \in 1 .. HashNibbles |-> IF i <= t + 1 THEN q[i] ELSE r[i - (t + 1)]]
  BY <1>1, <1>5, Joined
<1>8. p \o s = [i \in 1 .. HashNibbles |-> IF i <= t THEN p[i] ELSE s[i - t]]
  BY <1>1, Joined
<1>9. ASSUME NEW i \in 1 .. HashNibbles
      PROVE  (IF i <= t + 1 THEN q[i] ELSE r[i - (t + 1)]) = IF i <= t THEN p[i] ELSE s[i - t]
  <2>1. CASE i <= t
    BY <1>4, <2>1
  <2>2. CASE i = t + 1
    <3>1. i - t = 1 /\ ~ (i <= t)
      BY <2>2
    <3> QED BY <1>4, <2>2, <3>1
  <2>3. CASE i > t + 1
    <3>1. i - (t + 1) \in 1 .. m /\ (i - (t + 1)) + 1 = i - t /\ ~ (i <= t + 1) /\ ~ (i <= t)
      BY <1>1, <2>3
    <3> QED BY <1>3, <3>1
  <2> QED BY <2>1, <2>2, <2>3
<1>10. q \o r = p \o s
  BY <1>7, <1>8, <1>9
<1>11. HashOf(q, e) = q \o r
  BY <1>4, <1>6 DEF HashOf, r
<1> QED BY <1>2, <1>5, <1>6, <1>10, <1>11 DEF q, r

(***************************************************************************)
(* The entries that a donut was made with                                  *)
(***************************************************************************)
\* The ranks of a set of indices are 1, 2, ... up to its cardinality.
LEMMA Enumerated ==
  ASSUME NEW n \in Nat, NEW T \in SUBSET (1 .. n)
  PROVE  /\ Cardinality(T) \in Nat
         /\ \A i \in T : Cardinality({j \in T : j <= i}) \in 1 .. Cardinality(T)
         /\ \A i, k \in T : Cardinality({j \in T : j <= i}) = Cardinality({j \in T : j <= k}) => i = k
         /\ \A m \in 1 .. Cardinality(T) : \E i \in T : Cardinality({j \in T : j <= i}) = m
<1> DEFINE upTo(i) == {j \in T : j <= i}
           rank == [i \in T |-> Cardinality(upTo(i))]
           c == Cardinality(T)
<1>1. IsFiniteSet(T) /\ c \in Nat
  <2>1. IsFiniteSet(1 .. n)
    BY FS_Interval
  <2> QED BY <2>1, FS_Subset, FS_CardinalityType
<1>2. ASSUME NEW i \in T
      PROVE  /\ IsFiniteSet(upTo(i)) /\ Cardinality(upTo(i)) \in 1 .. c
  <2>1. upTo(i) \subseteq T /\ i \in upTo(i)
    OBVIOUS
  <2> HIDE DEF upTo
  <2>2. IsFiniteSet(upTo(i)) /\ Cardinality(upTo(i)) <= Cardinality(T)
    BY <1>1, <2>1, FS_Subset
  <2>3. Cardinality(upTo(i)) \in Nat /\ Cardinality(upTo(i)) # 0
    BY <2>1, <2>2, FS_CardinalityType, FS_EmptySet
  <2> QED BY <1>1, <2>2, <2>3
<1>3. ASSUME NEW i \in T, NEW k \in T, Cardinality(upTo(i)) = Cardinality(upTo(k))
      PROVE  i = k
  <2>1. ASSUME NEW a \in T, NEW b \in T, a <= b, Cardinality(upTo(a)) = Cardinality(upTo(b))
        PROVE  a = b
    <3>1. \A j \in T : j \in Int
      OBVIOUS
    <3>2. \A j \in T : j <= a => j <= b
      <4> TAKE j \in T
      <4>1. j \in Int /\ a \in Int /\ b \in Int
        BY <3>1
      <4> QED BY <2>1, <4>1
    <3>3. upTo(a) \subseteq upTo(b)
      BY <3>2
    <3>4. b \in upTo(b)
      OBVIOUS
    <3>5. upTo(b) = upTo(a)
      <4> HIDE DEF upTo
      <4> QED BY <1>2, <2>1, <3>3, FS_Subset
    <3>6. b <= a
      BY <3>4, <3>5
    <3> QED BY <2>1, <3>1, <3>6
  <2>2. i <= k \/ k <= i
    OBVIOUS
  <2> HIDE DEF upTo
  <2> QED BY <1>3, <2>1, <2>2
<1> HIDE DEF upTo, c
<1>4. rank \in Injection(T, 1 .. c)
  <2>1. rank \in [T -> 1 .. c]
    BY <1>2
  <2>2. \A a, b \in DOMAIN rank : rank[a] = rank[b] => a = b
    BY <1>3
  <2> HIDE DEF rank
  <2> QED BY <2>1, <2>2 DEF Injection, IsInjective
<1>5. IsFiniteSet(1 .. c) /\ Cardinality(1 .. c) = c
  BY <1>1, FS_Interval
<1>6. rank \in Surjection(T, 1 .. c)
  <2> HIDE DEF rank
  <2> QED BY <1>4, <1>5, FS_Injection DEF c
<1>7. \A m \in 1 .. c : \E i \in T : Cardinality(upTo(i)) = m
  <2> TAKE m \in 1 .. c
  <2>1. PICK i \in T : rank[i] = m
    <3> HIDE DEF rank
    <3> QED BY <1>6 DEF Surjection
  <2>2. rank[i] = Cardinality(upTo(i))
    OBVIOUS
  <2> QED BY <2>1, <2>2
<1> QED BY <1>1, <1>2, <1>3, <1>7 DEF upTo, c

\* WithPrefix lists the indices with the prefix, each of them once.
LEMMA Listed ==
  ASSUME NEW list, Len(list) \in Nat, NEW p
  PROVE  /\ Len(WithPrefix(list, p)) \in Nat
         /\ DOMAIN WithPrefix(list, p) = 1 .. Len(WithPrefix(list, p))
         /\ \A n \in 1 .. Len(WithPrefix(list, p)) : WithPrefix(list, p)[n] \in Own(list, p)
         /\ \A i \in Own(list, p) : \E n \in 1 .. Len(WithPrefix(list, p)) : WithPrefix(list, p)[n] = i
<1> DEFINE T == Own(list, p)
           rank(i) == Cardinality({j \in T : j <= i})
           c == Cardinality(T)
           w == WithPrefix(list, p)
<1>1. T \in SUBSET (1 .. Len(list))
  BY DEF Own
<1> HIDE DEF T
<1>2. /\ c \in Nat
      /\ \A i \in T : rank(i) \in 1 .. c
      /\ \A i, k \in T : rank(i) = rank(k) => i = k
      /\ \A m \in 1 .. c : \E i \in T : rank(i) = m
  BY <1>1, Enumerated
<1>3. w = [n \in 1 .. c |-> CHOOSE i \in T : rank(i) = n]
  BY DEF WithPrefix, T
<1> HIDE DEF rank, c, w
<1>4. DOMAIN w = 1 .. c /\ Len(w) = c
  BY <1>2, <1>3
<1>5. \A n \in 1 .. c : w[n] \in T /\ rank(w[n]) = n
  BY <1>2, <1>3
<1>6. ASSUME NEW i \in T PROVE \E n \in 1 .. c : w[n] = i
  <2>1. rank(i) \in 1 .. c /\ w[rank(i)] = i
    BY <1>2, <1>5
  <2> QED BY <2>1
<1> QED BY <1>2, <1>4, <1>5, <1>6 DEF w, T

\* A file of a donut is a sequence of entries; a file that is not there reads as empty.
LEMMA FileType ==
  ASSUME NEW t, NEW d, IsDonut(d, t), NEW p
  PROVE  /\ SuffixFile(d, p) \in Seq(EntryType(t)) /\ Len(SuffixFile(d, p)) \in Nat
         /\ DOMAIN SuffixFile(d, p) = 1 .. Len(SuffixFile(d, p))
         /\ \A i \in 1 .. Len(SuffixFile(d, p)) : SuffixFile(d, p)[i] \in EntryType(t)
<1> DEFINE file == SuffixFile(d, p)
<1>1. file \in Seq(EntryType(t))
  BY DEF SuffixFile, IsDonut
<1> HIDE DEF file
<1> QED BY <1>1, LenProperties DEF file

\* What is stored: a pair for each position of each file.
LEMMA StoredIs ==
  ASSUME NEW t \in Nat, NEW d, IsDonut(d, t), NEW offset, NEW x
  PROVE  x \in Stored(d, t, offset) <=>
           \E p \in Strings(t) : \E i \in 1 .. Len(SuffixFile(d, p)) :
             x = Pair(p, SuffixFile(d, p)[i], t, offset)
<1>1. Prefixes(t) = Strings(t)
  BY PrefixesAre
<1>2. \A p \in Strings(t) : Range(SuffixFile(d, p)) =
        {SuffixFile(d, p)[i] : i \in 1 .. Len(SuffixFile(d, p))}
  BY FileType DEF Range
<1>3. x \in Stored(d, t, offset) <=>
        \E p \in Strings(t) : \E e \in Range(SuffixFile(d, p)) : x = Pair(p, e, t, offset)
  BY <1>1 DEF Stored, Pair
<1> QED BY <1>2, <1>3

\* The files that a donut is made with.
FileFor(list, t, p) ==
  [i \in 1 .. Len(WithPrefix(list, p)) |->
     [suffix |-> Packed(SubSeq(list[WithPrefix(list, p)[i]], t + 1, HashNibbles)),
      pi |-> WithPrefix(list, p)[i] - 1]]

LEMMA FilesMade ==
  ASSUME NEW t \in Nat, NEW list, NEW p \in Strings(t)
  PROVE  /\ DOMAIN FilesOf(list, t) = {FilePath(q) : q \in Strings(t)}
         /\ FilesOf(list, t)[FilePath(p)] = FileFor(list, t, p)
<1> DEFINE of(path) == CHOOSE q \in Strings(t) : FilePath(q) = path
<1>1. FilesOf(list, t) = [path \in {FilePath(q) : q \in Strings(t)} |-> FileFor(list, t, of(path))]
  BY PrefixesAre DEF FilesOf, FileFor
<1>2. of(FilePath(p)) = p
  BY PathOneToOne
<1> HIDE DEF of
<1> QED BY <1>1, <1>2

\* A donut that was made with a list of hashes stores each of them with its index.
LEMMA StoredMade ==
  ASSUME NEW t \in Tiers, NEW list \in Seq(Hash \cup {NoHash}), NEW d,
         d = [order |-> d.order, files |-> d.files], d.files = FilesOf(list, t)
  PROVE  /\ IsDonut(d, t) /\ DOMAIN d.files = {FilePath(p) : p \in Strings(t)}
         /\ \A path \in DOMAIN d.files : \A e \in Range(d.files[path]) : e.pi < Len(list)
         /\ Len(list) <= DonutSize[t] => \A offset \in Int :
              Stored(d, t, offset) =
                {<<list[i], i - 1 + offset>> : i \in {j \in 1 .. Len(list) : list[j] # NoHash}}
<1> DEFINE w(p) == WithPrefix(list, p)
           here == {j \in 1 .. Len(list) : list[j] # NoHash}
<1>0. /\ t \in Nat /\ Len(list) \in Nat /\ t \in 0 .. HashNibbles
      /\ \A j \in 1 .. Len(list) : list[j] \in Hash \cup {NoHash}
  <2>1. t \in Nat /\ t + 1 < HashNibbles /\ HashNibbles \in Nat
    BY TierBakeAssumption
  <2>2. Len(list) \in Nat /\ list \in [1 .. Len(list) -> Hash \cup {NoHash}]
    BY LenProperties
  <2> QED BY <2>1, <2>2
<1>1. \A j \in here : list[j] \in Hash /\ j - 1 \in Nat /\ j - 1 < Len(list)
  BY <1>0
<1>2. ASSUME NEW p \in Strings(t)
      PROVE  /\ Len(w(p)) \in Nat
             /\ \A n \in 1 .. Len(w(p)) : w(p)[n] \in here /\ SubSeq(list[w(p)[n]], 1, t) = p
             /\ \A j \in here : SubSeq(list[j], 1, t) = p => \E n \in 1 .. Len(w(p)) : w(p)[n] = j
  <2>1. Len(p) = t
    BY <1>0, StringSeq
  <2>2. Own(list, p) = {j \in here : SubSeq(list[j], 1, t) = p}
    BY <2>1 DEF Own
  <2> HIDE DEF here
  <2> QED BY <1>0, <2>2, Listed
<1>3. ASSUME NEW j \in here PROVE SubSeq(list[j], 1, t) \in Strings(t)
  <2> DEFINE e == [suffix |-> Packed(SubSeq(list[j], t + 1, HashNibbles))]
  <2>1. e.suffix = Packed(SubSeq(list[j], t + 1, HashNibbles)) /\ list[j] \in Hash
    BY <1>1
  <2> HIDE DEF e
  <2> QED BY <1>0, <2>1, HashBack
<1> HIDE DEF w, here
<1> DEFINE entry(p, n) == [suffix |-> Packed(SubSeq(list[w(p)[n]], t + 1, HashNibbles)),
                           pi |-> w(p)[n] - 1]
<1>4. ASSUME NEW p \in Strings(t), NEW n \in 1 .. Len(w(p))
      PROVE  /\ entry(p, n) \in EntryType(t) /\ entry(p, n).pi < Len(list)
             /\ HashOf(p, entry(p, n)) = list[w(p)[n]]
  <2> DEFINE h == list[w(p)[n]]
             e == entry(p, n)
  <2>1. /\ h \in Hash /\ SubSeq(h, 1, t) = p /\ w(p)[n] - 1 \in Nat /\ w(p)[n] - 1 < Len(list)
    BY <1>1, <1>2
  <2>2. e.suffix = Packed(SubSeq(h, t + 1, HashNibbles)) /\ e.pi = w(p)[n] - 1
        /\ e = [suffix |-> e.suffix, pi |-> e.pi]
    OBVIOUS
  <2> HIDE DEF h, e
  <2>3. e.suffix \in Bytes(HashNibbles - t) /\ HashOf(p, e) = h
    BY <1>0, <2>1, <2>2, HashBack
  <2>4. e \in EntryType(t)
    BY <2>1, <2>2, <2>3 DEF EntryType
  <2> QED BY <2>1, <2>2, <2>3, <2>4 DEF h, e
<1> HIDE DEF entry
<1>5. /\ DOMAIN d.files = {FilePath(p) : p \in Strings(t)}
  <2>1. \E p : p \in Strings(t)
    BY <1>0, PrefixType
  <2> QED BY <1>0, <2>1, FilesMade
<1>6. ASSUME NEW p \in Strings(t)
      PROVE  d.files[FilePath(p)] = [i \in 1 .. Len(w(p)) |-> entry(p, i)]
  <2>1. FilesOf(list, t)[FilePath(p)] = FileFor(list, t, p)
    BY <1>0, FilesMade
  <2> QED BY <2>1 DEF w, entry, FileFor
<1>7. \A p \in Strings(t) : d.files[FilePath(p)] \in Seq(EntryType(t))
  <2> TAKE p \in Strings(t)
  <2>1. [i \in 1 .. Len(w(p)) |-> entry(p, i)] \in [1 .. Len(w(p)) -> EntryType(t)]
    BY <1>4
  <2> DEFINE f == [i \in 1 .. Len(w(p)) |-> entry(p, i)]
  <2>2. f \in Seq(EntryType(t))
    <3> HIDE DEF f
    <3> QED BY <1>2, <2>1, SeqDef DEF f
  <2> QED BY <1>6, <2>2
<1>8. IsDonut(d, t)
  BY <1>5, <1>7 DEF IsDonut
<1>9. \A path \in DOMAIN d.files : \A e \in Range(d.files[path]) : e.pi < Len(list)
  <2> TAKE path \in DOMAIN d.files
  <2>1. PICK p \in Strings(t) : path = FilePath(p)
    BY <1>5
  <2>2. d.files[path] = [i \in 1 .. Len(w(p)) |-> entry(p, i)]
    BY <1>6, <2>1
  <2>3. Range(d.files[path]) = {entry(p, i) : i \in 1 .. Len(w(p))}
    BY <2>2 DEF Range
  <2> QED BY <1>4, <2>3
<1>10. ASSUME Len(list) <= DonutSize[t], NEW offset \in Int
       PROVE  Stored(d, t, offset) = {<<list[i], i - 1 + offset>> : i \in here}
  <2>1. /\ DonutSize[t] \in Nat /\ LocalOnes[t] \in Nat /\ DonutSize[t] <= LocalOnes[t]
    BY TierBakeAssumption, WidthsAssumption
  <2>2. \A p \in Strings(t) : SuffixFile(d, p) = [i \in 1 .. Len(w(p)) |-> entry(p, i)]
    BY <1>5, <1>6 DEF SuffixFile
  <2>3. \A p \in Strings(t) : Len(SuffixFile(d, p)) = Len(w(p))
    BY <1>2, <2>2
  <2>4. \A p \in Strings(t) : \A n \in 1 .. Len(w(p)) :
          Pair(p, SuffixFile(d, p)[n], t, offset) = <<list[w(p)[n]], w(p)[n] - 1 + offset>>
    <3> TAKE p \in Strings(t)
    <3> TAKE n \in 1 .. Len(w(p))
    <3>1. SuffixFile(d, p)[n] = entry(p, n)
      BY <2>2
    <3>2. entry(p, n).pi = w(p)[n] - 1
      BY DEF entry
    <3>3. w(p)[n] \in here
      BY <1>2
    <3>4. w(p)[n] - 1 \in Nat /\ w(p)[n] - 1 # LocalOnes[t]
      BY <1>0, <1>1, <1>10, <2>1, <3>3
    <3>5. ReadLocal(t, entry(p, n).pi) = w(p)[n] - 1
      BY <3>2, <3>4 DEF ReadLocal
    <3> QED BY <1>4, <3>1, <3>5 DEF Pair
  <2>5. ASSUME NEW x PROVE x \in Stored(d, t, offset) <=> \E i \in here : x = <<list[i], i - 1 + offset>>
    <3>1. x \in Stored(d, t, offset) <=>
            \E p \in Strings(t) : \E n \in 1 .. Len(w(p)) : x = <<list[w(p)[n]], w(p)[n] - 1 + offset>>
      BY <1>0, <1>8, <2>3, <2>4, StoredIs
    <3>2. ASSUME NEW p \in Strings(t), NEW n \in 1 .. Len(w(p)),
                 x = <<list[w(p)[n]], w(p)[n] - 1 + offset>>
          PROVE  \E i \in here : x = <<list[i], i - 1 + offset>>
      BY <1>2, <3>2
    <3>3. ASSUME NEW i \in here, x = <<list[i], i - 1 + offset>>
          PROVE  \E p \in Strings(t) : \E n \in 1 .. Len(w(p)) :
                   x = <<list[w(p)[n]], w(p)[n] - 1 + offset>>
      <4>1. PICK p \in Strings(t) : SubSeq(list[i], 1, t) = p
        BY <1>3
      <4>2. PICK n \in 1 .. Len(w(p)) : w(p)[n] = i
        BY <1>2, <4>1
      <4> QED BY <3>3, <4>2
    <3> QED BY <3>1, <3>2, <3>3
  <2> QED BY <2>5
<1> QED BY <1>5, <1>8, <1>9, <1>10 DEF here

(***************************************************************************)
(* The initial state                                                       *)
(***************************************************************************)
\* Index i of donut k, counted over all donuts.
LEMMA Counted ==
  ASSUME NEW size \in Nat \ {0}, NEW count \in Nat, NEW k \in 1 .. count, NEW i \in 1 .. size
  PROVE  /\ (k - 1) * size + i \in 1 .. count * size
         /\ (((k - 1) * size + i) - 1) \div size + 1 = k
         /\ (k - 1) * size \in Nat /\ (k - 1) * size + size <= count * size
<1> DEFINE a == k - 1
           r == i - 1
<1>1. a \in Nat /\ r \in 0 .. size - 1 /\ a + 1 <= count
  OBVIOUS
<1>2. size * a \in Nat /\ size * (a + 1) <= size * count
  <2> HIDE DEF a
  <2> QED BY <1>1
<1>3. size * (a + 1) = size * a + size
  <2> HIDE DEF a
  <2> QED BY <1>1
<1>4. (size * a + r) \div size = a
  <2> HIDE DEF a, r
  <2> QED BY <1>1, DividedBack
<1>5. size * count = count * size /\ size * a = a * size /\ count * size \in Nat
  <2> HIDE DEF a
  <2> QED BY <1>1
<1> DEFINE m == size * a
<1>6. m \in Nat /\ m + size <= count * size /\ (m + r) \div size = a /\ a * size = m
  BY <1>2, <1>3, <1>4, <1>5
<1> HIDE DEF m
<1>7. (m + i) - 1 = m + r
  BY <1>6
<1>8. m + i \in 1 .. count * size
  BY <1>5, <1>6
<1> QED BY <1>6, <1>7, <1>8

LEMMA CountedBack ==
  ASSUME NEW size \in Nat \ {0}, NEW count \in Nat, NEW j \in 1 .. count * size
  PROVE  LET k == (j - 1) \div size + 1
         IN  /\ k \in 1 .. count /\ j - (k - 1) * size \in 1 .. size
<1> DEFINE q == (j - 1) \div size
           r == (j - 1) % size
<1>1. count * size = size * count /\ count * size \in Nat
  OBVIOUS
<1>2. j - 1 \in Nat /\ j - 1 < size * count
  BY <1>1
<1>3. q \in Nat /\ r \in 0 .. size - 1 /\ j - 1 = size * q + r /\ q < count
  BY <1>2, Divided, DividedLess
<1> HIDE DEF q, r
<1> DEFINE m == size * q
<1>4. m \in Nat /\ m = q * size /\ j - 1 = m + r
  BY <1>3
<1> HIDE DEF m
<1>5. q + 1 \in 1 .. count /\ (q + 1) - 1 = q /\ j - m \in 1 .. size
  BY <1>3, <1>4
<1> QED BY <1>4, <1>5 DEF q

LEMMA NewDonutStores ==
  ASSUME NEW t \in Nat, NEW offset
  PROVE  /\ IsDonut(NewDonut, t) /\ DOMAIN NewDonut.files = {} /\ Stored(NewDonut, t, offset) = {}
<1>1. IsDonut(NewDonut, t) /\ DOMAIN NewDonut.files = {}
  BY DEF IsDonut, NewDonut
<1>2. \A p : SuffixFile(NewDonut, p) = <<>>
  BY <1>1 DEF SuffixFile
<1>3. \A x : x \notin Stored(NewDonut, t, offset)
  <2> TAKE x
  <2>1. \A p : Len(SuffixFile(NewDonut, p)) = 0
    BY <1>2
  <2> QED BY <1>1, <2>1, StoredIs
<1> QED BY <1>1, <1>3

\* The part of a deck that a donut has.
LEMMA Dealt ==
  ASSUME NEW t \in Tiers, NEW deck \in Decks, NEW k \in 1 .. Donuts
  PROVE  LET list == ListOf(deck, k, DonutSize[t])
         IN  /\ list \in Seq(Hash \cup {NoHash}) /\ Len(list) = DonutSize[t]
             /\ \A i \in 1 .. DonutSize[t] : list[i] = deck[(k - 1) * DonutSize[t] + i]
<1> DEFINE size == DonutSize[t]
           m == (k - 1) * size
           S == Hash \cup {NoHash}
           list == ListOf(deck, k, size)
<1>1. size \in Nat \ {0} /\ Donuts \in Nat
  BY TierBakeAssumption
<1>2. m \in Nat /\ m + size <= Donuts * size /\ Donuts * size \in Nat
  <2>1. 1 \in 1 .. size
    BY <1>1
  <2> QED BY <1>1, <2>1, Counted
<1>3. k * size = m + size
  <2> HIDE DEF size
  <2> QED BY <1>1
<1>4. deck \in Seq(S) /\ Len(deck) >= Donuts * size
  BY DecksAssumption
<1>5. list = SubSeq(deck, m + 1, m + size)
  BY <1>3 DEF ListOf
<1> HIDE DEF m, list, S, size
<1>6. Len(deck) \in Nat /\ deck \in [1 .. Len(deck) -> S]
  BY <1>4, LenProperties
<1>7. \A i \in m + 1 .. m + size : deck[i] \in S
  <2> DEFINE c == Donuts * size
  <2>1. c \in Nat /\ m + size <= c /\ Len(deck) >= c
    BY <1>2, <1>4
  <2> HIDE DEF c
  <2> QED BY <1>1, <1>2, <1>6, <2>1
<1>8. /\ list \in Seq(S)
      /\ Len(list) = (IF m + 1 <= m + size THEN (m + size) - (m + 1) + 1 ELSE 0)
      /\ \A i \in 1 .. (m + size) - (m + 1) + 1 : list[i] = deck[(m + 1) + i - 1]
  <2>1. m + 1 \in Int /\ m + size \in Int
    BY <1>1, <1>2
  <2> QED BY <1>5, <1>7, <2>1, SubSeqProperties
<1>9. Len(list) = size /\ \A i \in 1 .. size : list[i] = deck[m + i]
  BY <1>1, <1>2, <1>8
<1> QED BY <1>8, <1>9 DEF m, list, S, size

LEMMA InitLosesNothing == Init => NothingLost
<1> SUFFICES ASSUME Init PROVE NothingLost
  OBVIOUS
<1>0. PICK deck \in Decks, hole \in Holes, after \in 1 .. Donuts - 1 :
       LET size == DonutSize[tier]
           offset(k) == TierOffset + (k - 1) * size + IF k > after THEN hole ELSE 0
       IN  /\ \A k \in 1 .. Donuts : deck[(k - 1) * size + 1] # NoHash
           /\ offsets = [k \in 1 .. Donuts |-> offset(k)]
           /\ sources = [k \in 1 .. Donuts |->
                [order |-> OrderOf(ListOf(deck, k, size), tier),
                 files |-> FilesOf(ListOf(deck, k, size), tier)]]
           /\ presented = [h \in {deck[i] : i \in 1 .. Donuts * size} \ {NoHash} |->
                LET i == CHOOSE j \in 1 .. Donuts * size : deck[j] = h
                    k == (i - 1) \div size + 1
                IN  offset(k) + i - 1 - (k - 1) * size]
  BY DEF Init
<1> DEFINE size == DonutSize[tier]
           All == 1 .. Donuts * size
<1>1. /\ offsets = [k \in 1 .. Donuts |->
                       TierOffset + (k - 1) * size + IF k > after THEN hole ELSE 0]
      /\ sources = [k \in 1 .. Donuts |->
           [order |-> OrderOf(ListOf(deck, k, size), tier),
            files |-> FilesOf(ListOf(deck, k, size), tier)]]
      /\ DOMAIN presented = {deck[i] : i \in All} \ {NoHash}
      /\ \A h \in DOMAIN presented : presented[h] =
           LET i == CHOOSE j \in All : deck[j] = h
               k == (i - 1) \div size + 1
           IN  TierOffset + (k - 1) * size + (IF k > after THEN hole ELSE 0) + i - 1 - (k - 1) * size
  BY <1>0
<1>2. /\ tier \in Tiers /\ tier \in Nat /\ tier + 1 \in Nat
      /\ size \in Nat \ {0} /\ Donuts \in Nat \ {0} /\ TierOffset \in Nat /\ hole \in Nat
      /\ Donuts * size \in Nat /\ after \in Nat /\ after >= 1
  BY TierBakeAssumption DEF Init
<1>3. /\ new = NewDonut /\ pc = "check" /\ prefix = 0 /\ donut = 1 /\ at = 0
  BY DEF Init
<1> DEFINE shift(k) == IF k > after THEN hole ELSE 0
<1>4. ASSUME NEW k \in 1 .. Donuts
      PROVE  /\ (k - 1) * size \in Nat /\ (k - 1) * size + size <= Donuts * size
             /\ shift(k) \in {0, hole} /\ shift(1) = 0
             /\ offsets[k] = TierOffset + (k - 1) * size + shift(k)
  <2>1. 1 \in 1 .. size
    BY <1>2
  <2>2. (k - 1) * size \in Nat /\ (k - 1) * size + size <= Donuts * size
    BY <1>2, <2>1, Counted
  <2>3. offsets[k] = TierOffset + (k - 1) * size + shift(k)
    <3> HIDE DEF size
    <3> QED BY <1>1
  <2> HIDE DEF size
  <2> QED BY <1>2, <2>2, <2>3
<1>5. offsets[1] = TierOffset
  <2>1. 1 \in 1 .. Donuts /\ (1 - 1) * size = 0
    BY <1>2
  <2>2. shift(1) = 0
    BY <1>2
  <2> HIDE DEF size, shift
  <2> QED BY <1>2, <1>4, <2>1, <2>2
<1>6. OffsetsFit
  <2>1. ASSUME NEW k \in 1 .. Donuts
        PROVE  /\ offsets[k] \in Nat /\ offsets[1] <= offsets[k]
               /\ offsets[k] - offsets[1] + size <= Donuts * size + hole
    <3> DEFINE m == (k - 1) * size
               c == Donuts * size
    <3>1. m \in Nat /\ c \in Nat /\ m + size <= c /\ shift(k) \in {0, hole}
          /\ offsets[k] = TierOffset + m + shift(k)
      BY <1>2, <1>4
    <3> HIDE DEF m, c, shift, size
    <3>2. /\ offsets[k] \in Nat /\ offsets[1] <= offsets[k]
          /\ offsets[k] - offsets[1] + size <= c + hole
      BY <1>2, <1>5, <3>1
    <3> QED BY <3>2 DEF c
  <2>2. offsets \in [1 .. Donuts -> Nat]
    <3>1. DOMAIN offsets = 1 .. Donuts /\ offsets = [k \in DOMAIN offsets |-> offsets[k]]
      BY <1>1
    <3> QED BY <2>1, <3>1
  <2>3. 0 \in 0 .. Power[tier] /\ 1 \in 1 .. Donuts + 1
    BY <1>2, PowerFacts
  <2> HIDE DEF size
  <2> QED BY <1>2, <1>3, <2>1, <2>2, <2>3 DEF OffsetsFit, NewOffset, size
<1> DEFINE list(k) == ListOf(deck, k, size)
<1>7. ASSUME NEW k \in 1 .. Donuts
      PROVE  /\ IsDonut(sources[k], tier) /\ DOMAIN sources[k].files = {FilePath(p) : p \in Strings(tier)}
             /\ \A path \in DOMAIN sources[k].files : \A e \in Range(sources[k].files[path]) : e.pi < size
             /\ Stored(sources[k], tier, offsets[k]) =
                  {<<list(k)[i], i - 1 + offsets[k]>> : i \in {j \in 1 .. size : list(k)[j] # NoHash}}
  <2> DEFINE d == sources[k]
  <2>1. d = [order |-> d.order, files |-> d.files] /\ d.files = FilesOf(list(k), tier)
    BY <1>1
  <2>2. /\ list(k) \in Seq(Hash \cup {NoHash}) /\ Len(list(k)) = size
    BY <1>2, Dealt
  <2>3. Len(list(k)) <= DonutSize[tier] /\ offsets[k] \in Int
    <3>1. offsets[k] \in Nat
      BY <1>6 DEF OffsetsFit
    <3> QED BY <1>2, <2>2, <3>1
  <2> DEFINE l == list(k)
  <2> HIDE DEF d, list
  <2>4. l \in Seq(Hash \cup {NoHash}) /\ Len(l) = size /\ d.files = FilesOf(l, tier)
    BY <2>1, <2>2
  <2> HIDE DEF l
  <2>5. /\ IsDonut(d, tier) /\ DOMAIN d.files = {FilePath(p) : p \in Strings(tier)}
        /\ \A path \in DOMAIN d.files : \A e \in Range(d.files[path]) : e.pi < Len(l)
    BY <1>2, <2>1, <2>4, StoredMade
  <2>6. Stored(d, tier, offsets[k]) =
          {<<l[i], i - 1 + offsets[k]>> : i \in {j \in 1 .. Len(l) : l[j] # NoHash}}
    BY <1>2, <2>1, <2>3, <2>4, StoredMade DEF l
  <2> QED BY <2>4, <2>5, <2>6 DEF d, l
<1>8. FilesFit
  <2>1. PathsFrom(tier, 0) = {FilePath(p) : p \in Strings(tier)}
    <3>1. Prefixes(tier) = Strings(tier)
      BY <1>2, PrefixesAre
    <3> QED BY <3>1 DEF Prefixes, PathsFrom
  <2>2. IsDonut(new, tier + 1) /\ DOMAIN new.files = {}
    BY <1>2, <1>3, NewDonutStores
  <2> QED BY <1>3, <1>7, <2>1, <2>2 DEF FilesFit
<1>9. CopiedSoFar
  BY <1>3 DEF CopiedSoFar
<1> DEFINE index(j) == (j - 1) \div size + 1
           pi(j) == TierOffset + (index(j) - 1) * size + shift(index(j)) + j - 1 - (index(j) - 1) * size
<1>10. ASSUME NEW j \in All, deck[j] # NoHash
       PROVE  deck[j] \in DOMAIN presented /\ presented[deck[j]] = pi(j)
  <2>1. deck[j] \in {deck[i] : i \in All} \ {NoHash}
    BY <1>10
  <2>2. \A i \in All : deck[i] = deck[j] => i = j
    <3>1. Len(deck) \in Nat /\ Len(deck) >= Donuts * size
      BY <1>2, DecksAssumption, LenProperties
    <3>2. All \subseteq 1 .. Len(deck)
      <4> DEFINE c == Donuts * size
      <4>1. c \in Nat /\ Len(deck) >= c
        BY <1>2, <3>1
      <4> HIDE DEF c
      <4>2. 1 .. c \subseteq 1 .. Len(deck)
        BY <3>1, <4>1
      <4> QED BY <4>2 DEF c
    <3> HIDE DEF All
    <3> QED BY <1>10, <3>2, DecksAssumption
  <2>3. (CHOOSE i \in All : deck[i] = deck[j]) = j
    <3> HIDE DEF All
    <3> QED BY <2>2
  <2> HIDE DEF All, size
  <2> QED BY <1>1, <2>1, <2>3
<1>11. \A h \in DOMAIN presented : \E j \in All : deck[j] = h /\ h # NoHash
  BY <1>1
<1>12. ASSUME NEW k \in 1 .. Donuts, NEW i \in 1 .. size
       PROVE  /\ (k - 1) * size + i \in All /\ list(k)[i] = deck[(k - 1) * size + i]
              /\ pi((k - 1) * size + i) = i - 1 + offsets[k]
  <2> DEFINE m == (k - 1) * size
             j == m + i
  <2>1. j \in All /\ index(j) = k /\ m \in Nat
    BY <1>2, Counted
  <2>2. list(k)[i] = deck[j]
    BY <1>2, Dealt
  <2>3. pi(j) = TierOffset + m + shift(k) + j - 1 - m
    <3> HIDE DEF index, j, shift
    <3> QED BY <2>1
  <2>4. offsets[k] = TierOffset + m + shift(k) /\ shift(k) \in Nat
    BY <1>2, <1>4
  <2>5. pi(j) = i - 1 + offsets[k]
    <3> HIDE DEF pi, m, shift
    <3> QED BY <1>2, <2>1, <2>3, <2>4
  <2> QED BY <2>1, <2>2, <2>5
<1>13. ASSUME NEW j \in All
       PROVE  \E k \in 1 .. Donuts : \E i \in 1 .. size : j = (k - 1) * size + i
  <2> DEFINE k == index(j)
             m == (k - 1) * size
             i == j - m
  <2>1. k \in 1 .. Donuts /\ i \in 1 .. size
    BY <1>2, CountedBack
  <2>2. m \in Nat
    <3> HIDE DEF index
    <3> QED BY <1>2, <1>4, <2>1
  <2>3. j = m + i
    <3> HIDE DEF m
    <3>1. j \in Nat
      BY <1>2
    <3> QED BY <2>2, <3>1
  <2> HIDE DEF index, i
  <2> QED BY <2>1, <2>3
<1> HIDE DEF pi, index, All, list, size, shift
<1>14. ASSUME NEW x
       PROVE  (\E k \in 1 .. Donuts : x \in Stored(sources[k], tier, offsets[k]))
                <=> \E h \in DOMAIN presented : x = <<h, presented[h]>>
  <2>1. ASSUME NEW k \in 1 .. Donuts, x \in Stored(sources[k], tier, offsets[k])
        PROVE  \E h \in DOMAIN presented : x = <<h, presented[h]>>
    <3>1. PICK i \in 1 .. size : list(k)[i] # NoHash /\ x = <<list(k)[i], i - 1 + offsets[k]>>
      BY <1>7, <2>1
    <3> DEFINE j == (k - 1) * size + i
    <3>2. j \in All /\ deck[j] # NoHash /\ x = <<deck[j], pi(j)>>
      BY <1>12, <3>1
    <3> HIDE DEF j
    <3> QED BY <1>10, <3>2
  <2>2. ASSUME NEW h \in DOMAIN presented, x = <<h, presented[h]>>
        PROVE  \E k \in 1 .. Donuts : x \in Stored(sources[k], tier, offsets[k])
    <3>1. PICK j \in All : deck[j] = h /\ h # NoHash
      BY <1>11
    <3>2. x = <<deck[j], pi(j)>>
      BY <1>10, <2>2, <3>1
    <3>3. PICK k \in 1 .. Donuts, i \in 1 .. size : j = (k - 1) * size + i
      BY <1>13
    <3>4. x = <<list(k)[i], i - 1 + offsets[k]>> /\ list(k)[i] # NoHash
      BY <1>12, <3>1, <3>2, <3>3
    <3> QED BY <1>7, <3>4
  <2> QED BY <2>1, <2>2
<1>15. Stored(new, tier + 1, NewOffset) = {}
  BY <1>2, <1>3, NewDonutStores
<1>16. EntriesPreserved
  <2> DEFINE A == UNION {Stored(sources[k], tier, offsets[k]) : k \in 1 .. Donuts}
             B == {<<h, presented[h]>> : h \in DOMAIN presented}
  <2>1. A = B
    BY <1>14
  <2> QED BY <1>15, <2>1 DEF EntriesPreserved
<1> QED BY <1>6, <1>8, <1>9, <1>16 DEF NothingLost

(***************************************************************************)
(* The steps                                                               *)
(***************************************************************************)
LEMMA AppendString ==
  ASSUME NEW t \in Nat, NEW s \in Strings(t), NEW n \in Nibble
  PROVE  /\ Append(s, n) \in Strings(t + 1) /\ Append(s, n)[t + 1] = n
         /\ \A i \in 1 .. t : Append(s, n)[i] = s[i]
<1> DEFINE q == Append(s, n)
<1>1. s \in Seq(Nibble) /\ Len(s) = t
  BY StringSeq
<1>2. q \in Seq(Nibble) /\ Len(q) = t + 1 /\ q[t + 1] = n /\ \A i \in 1 .. t : q[i] = s[i]
  BY <1>1, AppendProperties
<1> HIDE DEF q
<1>3. q \in Strings(t + 1)
  BY <1>2, LenProperties DEF Strings
<1> QED BY <1>2, <1>3 DEF q

\* The files of the longer prefixes have different paths.
LEMMA LongerPaths ==
  ASSUME NEW t \in Nat, NEW s \in Strings(t), NEW r \in Strings(t), NEW m \in Nibble, NEW n \in Nibble,
         FilePath(Append(s, m)) = FilePath(Append(r, n))
  PROVE  s = r /\ m = n
<1> DEFINE a == Append(s, m)
           b == Append(r, n)
<1>1. a \in Strings(t + 1) /\ a[t + 1] = m /\ \A i \in 1 .. t : a[i] = s[i]
  BY AppendString
<1>2. b \in Strings(t + 1) /\ b[t + 1] = n /\ \A i \in 1 .. t : b[i] = r[i]
  BY AppendString
<1> HIDE DEF a, b
<1>3. FilePath(a) = FilePath(b)
  BY DEF a, b
<1>4. a = b
  BY <1>1, <1>2, <1>3, PathOneToOne
<1>5. m = n /\ \A i \in 1 .. t : s[i] = r[i]
  BY <1>1, <1>2, <1>4
<1> QED BY <1>5 DEF Strings

LEMMA SameStored ==
  ASSUME NEW t, NEW d, NEW e, NEW offset, \A p : SuffixFile(d, p) = SuffixFile(e, p)
  PROVE  Stored(d, t, offset) = Stored(e, t, offset)
BY DEF Stored

LEMMA StateFacts ==
  ASSUME OffsetsFit
  PROVE  /\ tier \in Tiers /\ tier \in Nat /\ tier + 1 \in Nat /\ tier + 1 <= HashNibbles
         /\ Donuts \in Nat \ {0} /\ DonutSize[tier] \in Nat \ {0}
         /\ NewOffset \in Nat /\ prefix \in Nat /\ donut \in Nat \ {0} /\ at \in Nat
         /\ Nibbles \in Strings(tier)
<1>1. /\ tier \in Tiers /\ tier \in Nat /\ tier + 1 \in Nat /\ tier + 1 <= HashNibbles
      /\ Donuts \in Nat \ {0} /\ DonutSize[tier] \in Nat \ {0}
  BY TierBakeAssumption DEF OffsetsFit
<1>2. Power[tier] \in Nat \ {0}
  BY <1>1, PowerFacts
<1>3. prefix \in Nat /\ donut \in Nat \ {0} /\ at \in Nat
  BY <1>1, <1>2 DEF OffsetsFit
<1>4. NewOffset \in Nat
  BY <1>1 DEF OffsetsFit, NewOffset
<1>5. Nibbles \in Strings(tier)
  BY <1>1, <1>3, PrefixType DEF Nibbles
<1> QED BY <1>1, <1>3, <1>4, <1>5

\* A step that changes neither the offsets nor a file keeps what is stored.
LEMMA KeptStored ==
  ASSUME EntriesPreserved, UNCHANGED given, sources' = sources, new'.files = new.files
  PROVE  EntriesPreserved'
<1>1. \A p : SuffixFile(new', p) = SuffixFile(new, p)
  BY DEF SuffixFile
<1>2. Stored(new', tier + 1, NewOffset) = Stored(new, tier + 1, NewOffset)
  BY <1>1, SameStored
<1> QED BY <1>2 DEF EntriesPreserved, given, NewOffset

LEMMA KeptOffsets ==
  ASSUME OffsetsFit, UNCHANGED given, prefix' \in 0 .. Power[tier], donut' \in 1 .. Donuts + 1, at' \in Nat
  PROVE  OffsetsFit'
BY DEF OffsetsFit, given, NewOffset

\* The files of the longer prefixes were not there before.
LEMMA NewPaths ==
  ASSUME OffsetsFit, FilesFit, pc = "prefix", prefix < Power[tier]
  PROVE  {FilePath(Append(Nibbles, n)) : n \in Nibble} \cap DOMAIN new.files = {}
<1> SUFFICES ASSUME NEW n \in Nibble, FilePath(Append(Nibbles, n)) \in DOMAIN new.files PROVE FALSE
  OBVIOUS
<1>1. tier \in Nat /\ prefix \in Nat /\ Nibbles \in Strings(tier) /\ Power[tier] \in Nat
  BY StateFacts, PowerFacts
<1>2. DOMAIN new.files \subseteq PathsTo(tier, prefix)
  BY DEF FilesFit
<1>3. PICK p \in 0 .. prefix - 1, m \in Nibble :
        FilePath(Append(Nibbles, n)) = FilePath(Append(PrefixNibbles(p, tier), m))
  BY <1>2 DEF PathsTo, Nibble
<1>4. p \in Nat /\ p < prefix
  BY <1>1
<1>5. PrefixNibbles(p, tier) = Nibbles
  BY <1>1, <1>3, <1>4, LongerPaths, PrefixType
<1>6. p \in 0 .. Power[tier] - 1 /\ prefix \in 0 .. Power[tier] - 1
  BY <1>1, <1>4
<1>7. p = prefix
  BY <1>1, <1>5, <1>6, PrefixOneToOne DEF Nibbles
<1> QED BY <1>4, <1>7

\* Each longer prefix has a file of its own.
LEMMA OpenPrefixKeeps ==
  ASSUME NothingLost, OpenPrefix
  PROVE  NothingLost'
<1> DEFINE made == {FilePath(Append(Nibbles, n)) : n \in Nibble}
<1>1. OffsetsFit /\ FilesFit /\ EntriesPreserved
  BY DEF NothingLost
<1>2. /\ pc = "prefix" /\ prefix < Power[tier] /\ UNCHANGED <<tier, offsets, presented, sources, prefix>>
      /\ new' = [new EXCEPT !.files = Truncated(Nibbles)] /\ donut' = 1 /\ at' = 0 /\ pc' = "copy"
  BY DEF OpenPrefix, given
<1>3. /\ tier \in Nat /\ tier + 1 \in Nat /\ prefix \in Nat /\ Nibbles \in Strings(tier) /\ Donuts \in Nat \ {0}
      /\ Power[tier] \in Nat
  BY <1>1, StateFacts, PowerFacts
<1>4. /\ new' = [order |-> new'.order, files |-> new'.files] /\ DOMAIN new'.files = made \cup DOMAIN new.files
      /\ \A path \in DOMAIN new'.files :
           new'.files[path] = IF path \in made THEN <<>> ELSE new.files[path]
  <2>1. new = [order |-> new.order, files |-> new.files]
    BY <1>1 DEF FilesFit, IsDonut
  <2>2. new' = [order |-> new.order, files |-> Truncated(Nibbles)]
    BY <1>2, <2>1
  <2> QED BY <2>2 DEF Truncated, Nibble
<1>5. made \cap DOMAIN new.files = {}
  BY <1>1, <1>2, NewPaths
<1> HIDE DEF made
<1>6. \A p : SuffixFile(new', p) = SuffixFile(new, p)
  BY <1>4, <1>5 DEF SuffixFile
<1>7. EntriesPreserved'
  <2>1. Stored(new', tier + 1, NewOffset) = Stored(new, tier + 1, NewOffset)
    BY <1>6, SameStored
  <2> QED BY <1>1, <1>2, <2>1 DEF EntriesPreserved, NewOffset
<1>8. OffsetsFit'
  BY <1>1, <1>2, <1>3 DEF OffsetsFit, NewOffset
<1>9. IsDonut(new', tier + 1)
  <2>1. IsDonut(new, tier + 1)
    BY <1>1 DEF FilesFit
  <2>2. <<>> \in Seq(EntryType(tier + 1))
    BY EmptySeq
  <2> QED BY <1>4, <2>1, <2>2 DEF IsDonut
<1>10. DOMAIN new'.files \subseteq PathsTo(tier, prefix + 1)
  <2>1. DOMAIN new.files \subseteq PathsTo(tier, prefix)
    BY <1>1, <1>2 DEF FilesFit
  <2>2. 0 .. prefix - 1 \subseteq 0 .. (prefix + 1) - 1 /\ prefix \in 0 .. (prefix + 1) - 1
    BY <1>3
  <2>3. PathsTo(tier, prefix) \subseteq PathsTo(tier, prefix + 1)
    BY <2>2 DEF PathsTo
  <2>4. made \subseteq PathsTo(tier, prefix + 1)
    BY <2>2 DEF PathsTo, made, Nibbles, Nibble
  <2> QED BY <1>4, <2>1, <2>3, <2>4
<1>11. \A n \in 0 .. NibbleBase - 1 : FilePath(Append(Nibbles, n)) \in DOMAIN new'.files
  BY <1>4 DEF made, Nibble
<1>12. FilesFit'
  BY <1>1, <1>2, <1>9, <1>10, <1>11 DEF FilesFit, Nibbles
<1>13. CopiedSoFar'
  <2> SUFFICES ASSUME NEW k \in 1 .. Donuts
      PROVE  LET file == SuffixFile(sources[k], Nibbles)
             IN  /\ k = 1 => 0 <= Len(file)
                 /\ \A i \in 1 .. Len(file) : k < 1 \/ (k = 1 /\ i <= 0) =>
                      Pair(Nibbles, file[i], tier, offsets[k]) \in Stored(new', tier + 1, NewOffset)
    BY <1>2 DEF CopiedSoFar, Nibbles, NewOffset
  <2>1. Len(SuffixFile(sources[k], Nibbles)) \in Nat
    BY <1>1, FileType DEF FilesFit
  <2> HIDE DEF Nibbles
  <2> QED BY <1>3, <2>1
<1> QED BY <1>7, <1>8, <1>12, <1>13 DEF NothingLost

\* The entry at hand has an index of its donut.
LEMMA EntryRead ==
  ASSUME OffsetsFit, FilesFit, Reading
  PROVE  /\ donut \in 1 .. Donuts /\ at + 1 \in 1 .. Len(SuffixFile(sources[donut], Nibbles))
         /\ EntryAt \in EntryType(tier) /\ EntryAt.pi \in Nat /\ EntryAt.pi < DonutSize[tier]
         /\ LocalPi = EntryAt.pi /\ Suffix \in Strings(HashNibbles - tier)
<1> DEFINE d == sources[donut]
           path == FilePath(Nibbles)
           file == SuffixFile(d, Nibbles)
<1>1. /\ donut \in Nat \ {0} /\ at \in Nat /\ tier \in Tiers /\ Donuts \in Nat
      /\ DonutSize[tier] \in Nat \ {0}
  BY StateFacts
<1>2. donut \in 1 .. Donuts /\ at < Len(file)
  BY <1>1 DEF Reading
<1>3. IsDonut(d, tier)
  BY <1>2 DEF FilesFit
<1>4. Len(file) \in Nat /\ \A i \in 1 .. Len(file) : file[i] \in EntryType(tier)
  BY <1>3, FileType
<1>5. at + 1 \in 1 .. Len(file)
  <2> HIDE DEF file
  <2> QED BY <1>1, <1>2, <1>4
<1>6. path \in DOMAIN d.files /\ file = d.files[path]
  <2>1. Len(<<>>) = 0
    OBVIOUS
  <2>2. file # <<>>
    <3> HIDE DEF file
    <3> QED BY <1>1, <1>2, <2>1
  <2> QED BY <2>2 DEF SuffixFile
<1>7. file[at + 1] \in Range(d.files[path])
  <2>1. at + 1 \in DOMAIN file
    <3>1. DOMAIN file = 1 .. Len(file)
      BY <1>3, FileType
    <3> QED BY <1>5, <3>1
  <2> HIDE DEF file
  <2> QED BY <1>6, <2>1 DEF Range
<1>8. file[at + 1].pi < DonutSize[tier]
  <2>1. \A e \in Range(d.files[path]) : e.pi < DonutSize[tier]
    BY <1>2, <1>6 DEF FilesFit
  <2> HIDE DEF file
  <2> QED BY <1>7, <2>1
<1>9. EntryAt = file[at + 1]
  BY DEF EntryAt
<1> HIDE DEF file, path, d
<1>10. EntryAt \in EntryType(tier) /\ EntryAt.pi < DonutSize[tier]
  BY <1>4, <1>5, <1>8, <1>9
<1>11. EntryAt.pi \in Nat /\ EntryAt.suffix \in Bytes(HashNibbles - tier)
  BY <1>10 DEF EntryType
<1>12. Suffix \in Strings(HashNibbles - tier)
  <2>1. HashNibbles - tier \in Nat
    BY <1>1, TierFacts
  <2> QED BY <1>11, <2>1, UnpackedBytes DEF Suffix
<1>13. LocalPi = EntryAt.pi
  <2>1. EntryAt.pi # LocalOnes[tier]
    <3>1. LocalOnes[tier] \in Nat /\ DonutSize[tier] <= LocalOnes[tier]
      BY <1>1, WidthsAssumption
    <3> QED BY <1>1, <1>10, <1>11, <3>1
  <2> QED BY <2>1 DEF LocalPi, ReadLocal
<1> QED BY <1>2, <1>5, <1>10, <1>11, <1>12, <1>13 DEF file, d

\* The offset of the new donut takes the place of that of the source, without a loss.
LEMMA RebasedBack ==
  ASSUME OffsetsFit, FilesFit, Reading, Writable
  PROVE  /\ Rebased \in Nat /\ offsets[donut] \in Nat
         /\ ReadLocal(tier + 1, Rebased) = Rebased
         /\ ReadLocal(tier + 1, Rebased) + NewOffset = EntryAt.pi + offsets[donut]
<1> DEFINE size == DonutSize[tier]
           i == EntryAt.pi
           o == offsets[donut]
<1>1. /\ tier \in Tiers /\ tier \in Nat /\ donut \in 1 .. Donuts /\ Donuts \in Nat /\ size \in Nat \ {0}
      /\ NewOffset \in Nat /\ i \in Nat /\ i < size /\ LocalPi = i
  BY StateFacts, EntryRead
<1>2. PICK hole \in Holes :
        NewOffset <= o /\ o - NewOffset + size <= Donuts * size + hole
  BY <1>1 DEF OffsetsFit
<1> DEFINE span == Donuts * size + hole
<1>3. /\ LocalOnes[tier + 1] \in Nat /\ span < Words /\ (tier + 1 > 2 => span <= LocalOnes[tier + 1])
      /\ Words \in Nat /\ hole \in Nat /\ span \in Nat
  <2>1. Words \in Nat /\ hole \in Nat
    BY TierBakeAssumption
  <2>2. Donuts * size \in Nat
    BY <1>1
  <2> QED BY <1>1, <2>1, <2>2, WidthsAssumption
<1>4. o \in Nat
  BY <1>1 DEF OffsetsFit
<1>5. i + o - NewOffset \in Nat /\ i + o - NewOffset < span
  <2>1. o - NewOffset + size <= span
    BY <1>2
  <2> HIDE DEF span, size, i, o
  <2> QED BY <1>1, <1>2, <1>3, <1>4, <2>1
<1> HIDE DEF span
<1>6. Rebased = i + o - NewOffset
  <2> DEFINE v == i + o - NewOffset
  <2>1. v \in Nat /\ v < Words /\ Words \in Nat
    <3> HIDE DEF v
    <3> QED BY <1>3, <1>5 DEF v
  <2>2. v % Words = v
    <3> HIDE DEF v
    <3> QED BY <2>1
  <2>3. Rebased = v % Words
    BY <1>1 DEF Rebased
  <2> QED BY <2>2, <2>3
<1>7. Rebased # LocalOnes[tier + 1]
  <2>1. CASE tier + 1 > 2
    BY <1>3, <1>5, <1>6, <2>1
  <2>2. CASE ~ (tier + 1 > 2)
    <3>1. tier + 1 \in {1, 2}
      BY <1>1, <2>2
    <3>2. Rebased < LocalOnes[tier + 1]
      BY <3>1 DEF Writable, FitsLocal, Fits24
    <3>3. Rebased \in Nat
      BY <1>5, <1>6
    <3> QED BY <1>3, <3>2, <3>3
  <2> QED BY <2>1, <2>2
<1>8. ReadLocal(tier + 1, Rebased) = Rebased
  BY <1>7 DEF ReadLocal
<1>9. Rebased + NewOffset = i + o
  <2> HIDE DEF i, o
  <2> QED BY <1>1, <1>4, <1>5, <1>6
<1> QED BY <1>4, <1>5, <1>6, <1>8, <1>9

\* A copied entry says the same of the same hash, and nothing else changes.
LongerNibbles == Append(Nibbles, Suffix[1])
EntryMade == [suffix |-> Packed(Tail(Suffix)), pi |-> Rebased]

LEMMA EntryCopied ==
  ASSUME NothingLost, CopyEntry
  PROVE  /\ LongerNibbles \in Strings(tier + 1) /\ Suffix[1] \in Nibble
         /\ Tail(Suffix) \in Strings(HashNibbles - (tier + 1))
         /\ DestPath = FilePath(LongerNibbles) /\ DestPath \in DOMAIN new.files
         /\ IsDonut(new', tier + 1) /\ DOMAIN new'.files = DOMAIN new.files /\ new'.order = new.order
         /\ \A other \in DOMAIN new.files : other # DestPath => new'.files[other] = new.files[other]
         /\ Len(new.files[DestPath]) \in Nat
         /\ Len(new'.files[DestPath]) = Len(new.files[DestPath]) + 1
         /\ new'.files[DestPath][Len(new.files[DestPath]) + 1] = EntryMade
         /\ \A i \in 1 .. Len(new.files[DestPath]) : new'.files[DestPath][i] = new.files[DestPath][i]
         /\ <<Nibbles \o Suffix, LocalPi + offsets[donut]>> \in Stored(sources[donut], tier, offsets[donut])
         /\ Stored(new', tier + 1, NewOffset)
              = Stored(new, tier + 1, NewOffset) \cup {<<Nibbles \o Suffix, LocalPi + offsets[donut]>>}
<1> DEFINE q == LongerNibbles
           path == DestPath
           e == EntryMade
           x == Pair(Nibbles, EntryAt, tier, offsets[donut])
<1>1. OffsetsFit /\ FilesFit /\ CopiedSoFar /\ EntriesPreserved
  BY DEF NothingLost
<1>2. /\ Reading /\ Writable /\ pc = "copy" /\ pc' = pc /\ prefix' = prefix /\ donut' = donut /\ at' = at + 1
      /\ UNCHANGED <<tier, offsets, presented, sources>>
      /\ new' = [new EXCEPT !.files[DestPath] = Append(@, e)]
  BY DEF CopyEntry, given, Reading, EntryMade
<1>3. /\ tier \in Nat /\ tier + 1 \in Nat /\ tier + 1 <= HashNibbles /\ Nibbles \in Strings(tier)
      /\ at \in Nat /\ donut \in 1 .. Donuts /\ Donuts \in Nat
  BY <1>1, <1>2, StateFacts, EntryRead
<1>4. /\ at + 1 \in 1 .. Len(SuffixFile(sources[donut], Nibbles))
      /\ EntryAt \in EntryType(tier) /\ LocalPi = EntryAt.pi /\ Suffix \in Strings(HashNibbles - tier)
  BY <1>1, <1>2, EntryRead
<1>5. /\ Rebased \in Nat /\ offsets[donut] \in Nat
      /\ ReadLocal(tier + 1, Rebased) + NewOffset = EntryAt.pi + offsets[donut]
  BY <1>1, <1>2, RebasedBack
<1>6. e.suffix = Packed(Tail(Suffix)) /\ e.pi = Rebased /\ e = [suffix |-> e.suffix, pi |-> e.pi]
  BY DEF EntryMade
<1> HIDE DEF e
<1>7. /\ Suffix[1] \in Nibble /\ q \in Strings(tier + 1) /\ e.suffix \in Bytes(HashNibbles - (tier + 1))
      /\ HashOf(q, e) = Nibbles \o Suffix
  BY <1>3, <1>4, <1>6, HashMoved DEF LongerNibbles
<1>8. e \in EntryType(tier + 1)
  BY <1>5, <1>6, <1>7 DEF EntryType
<1>9. Pair(q, e, tier + 1, NewOffset) = x
  <2>1. HashOf(Nibbles, EntryAt) = Nibbles \o Suffix
    <3>1. Len(Nibbles) = tier
      BY <1>3, StringSeq
    <3> QED BY <3>1 DEF HashOf, Suffix
  <2>2. ReadLocal(tier, EntryAt.pi) = EntryAt.pi
    BY <1>4 DEF LocalPi
  <2> QED BY <1>5, <1>6, <1>7, <2>1, <2>2 DEF Pair
<1>10. path = FilePath(q) /\ path \in DOMAIN new.files
  BY <1>1, <1>2, <1>7 DEF FilesFit, DestPath, Nibble, LongerNibbles
<1> HIDE DEF x, q, path
<1> DEFINE old == new.files[path]
<1>11. /\ new' = [order |-> new'.order, files |-> new'.files] /\ DOMAIN new'.files = DOMAIN new.files
       /\ new'.files[path] = Append(old, e)
       /\ \A other \in DOMAIN new.files : other # path => new'.files[other] = new.files[other]
  <2>1. new = [order |-> new.order, files |-> new.files]
    BY <1>1 DEF FilesFit, IsDonut
  <2>2. new' = [order |-> new.order, files |-> [new.files EXCEPT ![path] = Append(@, e)]]
    BY <1>2, <2>1 DEF path
  <2> QED BY <1>10, <2>2
<1>12. IsDonut(new, tier + 1)
  BY <1>1 DEF FilesFit
<1>13. old \in Seq(EntryType(tier + 1))
  BY <1>10, <1>12 DEF IsDonut
<1>14. /\ Append(old, e) \in Seq(EntryType(tier + 1)) /\ Len(Append(old, e)) = Len(old) + 1
       /\ Append(old, e)[Len(old) + 1] = e /\ \A i \in 1 .. Len(old) : Append(old, e)[i] = old[i]
       /\ Len(old) \in Nat
  BY <1>8, <1>13, AppendProperties, LenProperties
<1>15. IsDonut(new', tier + 1)
  BY <1>11, <1>12, <1>14 DEF IsDonut
<1>16. /\ SuffixFile(new, q) = old /\ SuffixFile(new', q) = Append(old, e)
       /\ \A p \in Strings(tier + 1) : p # q => SuffixFile(new', p) = SuffixFile(new, p)
  <2>1. SuffixFile(new, q) = old /\ SuffixFile(new', q) = Append(old, e)
    BY <1>10, <1>11 DEF SuffixFile
  <2>2. ASSUME NEW p \in Strings(tier + 1), p # q PROVE SuffixFile(new', p) = SuffixFile(new, p)
    <3>1. FilePath(p) # path
      BY <1>3, <1>7, <1>10, <2>2, PathOneToOne
    <3> QED BY <1>11, <3>1 DEF SuffixFile
  <2> QED BY <2>1, <2>2
<1> HIDE DEF old
<1> DEFINE before == Stored(new, tier + 1, NewOffset)
           after == Stored(new', tier + 1, NewOffset)
<1>17. after = before \cup {x}
  <2>1. ASSUME NEW y, y \in before PROVE y \in after
    <3>1. PICK p \in Strings(tier + 1) : \E i \in 1 .. Len(SuffixFile(new, p)) :
            y = Pair(p, SuffixFile(new, p)[i], tier + 1, NewOffset)
      BY <1>3, <1>12, <2>1, StoredIs
    <3>2. PICK i \in 1 .. Len(SuffixFile(new, p)) : y = Pair(p, SuffixFile(new, p)[i], tier + 1, NewOffset)
      BY <3>1
    <3>3. i \in 1 .. Len(SuffixFile(new', p)) /\ SuffixFile(new', p)[i] = SuffixFile(new, p)[i]
      <4>1. CASE p = q
        BY <1>14, <1>16, <4>1
      <4>2. CASE p # q
        BY <1>16, <4>2
      <4> QED BY <4>1, <4>2
    <3>4. \E r \in Strings(tier + 1) : \E j \in 1 .. Len(SuffixFile(new', r)) :
            y = Pair(r, SuffixFile(new', r)[j], tier + 1, NewOffset)
      BY <3>2, <3>3
    <3> QED BY <1>3, <1>15, <3>4, StoredIs
  <2>2. x \in after
    <3>1. Len(old) + 1 \in 1 .. Len(SuffixFile(new', q)) /\ SuffixFile(new', q)[Len(old) + 1] = e
      BY <1>14, <1>16
    <3>2. \E r \in Strings(tier + 1) : \E j \in 1 .. Len(SuffixFile(new', r)) :
            x = Pair(r, SuffixFile(new', r)[j], tier + 1, NewOffset)
      BY <1>7, <1>9, <3>1
    <3> QED BY <1>3, <1>15, <3>2, StoredIs
  <2>3. ASSUME NEW y, y \in after PROVE y \in before \cup {x}
    <3>1. PICK p \in Strings(tier + 1) : \E i \in 1 .. Len(SuffixFile(new', p)) :
            y = Pair(p, SuffixFile(new', p)[i], tier + 1, NewOffset)
      BY <1>3, <1>15, <2>3, StoredIs
    <3>2. PICK i \in 1 .. Len(SuffixFile(new', p)) : y = Pair(p, SuffixFile(new', p)[i], tier + 1, NewOffset)
      BY <3>1
    <3>3. CASE p = q /\ i = Len(old) + 1
      BY <1>9, <1>14, <1>16, <3>2, <3>3
    <3>4. CASE ~ (p = q /\ i = Len(old) + 1)
      <4>1. i \in 1 .. Len(SuffixFile(new, p)) /\ SuffixFile(new', p)[i] = SuffixFile(new, p)[i]
        <5>1. CASE p = q
          BY <1>14, <1>16, <3>4, <5>1
        <5>2. CASE p # q
          BY <1>16, <5>2
        <5> QED BY <5>1, <5>2
      <4>2. \E r \in Strings(tier + 1) : \E j \in 1 .. Len(SuffixFile(new, r)) :
              y = Pair(r, SuffixFile(new, r)[j], tier + 1, NewOffset)
        BY <3>2, <4>1
      <4> QED BY <1>3, <1>12, <4>2, StoredIs
    <3> QED BY <3>3, <3>4
  <2> HIDE DEF before, after
  <2> QED BY <2>1, <2>2, <2>3
<1>18. x \in Stored(sources[donut], tier, offsets[donut])
  <2>1. IsDonut(sources[donut], tier)
    BY <1>1, <1>3 DEF FilesFit
  <2>2. x = Pair(Nibbles, SuffixFile(sources[donut], Nibbles)[at + 1], tier, offsets[donut])
    BY DEF x, EntryAt
  <2>3. \E r \in Strings(tier) : \E j \in 1 .. Len(SuffixFile(sources[donut], r)) :
          x = Pair(r, SuffixFile(sources[donut], r)[j], tier, offsets[donut])
    BY <1>3, <1>4, <2>2
  <2> QED BY <1>3, <2>1, <2>3, StoredIs
<1>19. x = <<Nibbles \o Suffix, LocalPi + offsets[donut]>>
  <2>1. Len(Nibbles) = tier
    BY <1>3, StringSeq
  <2> QED BY <2>1 DEF x, Pair, HashOf, Suffix, LocalPi
<1>20. Tail(Suffix) \in Strings(HashNibbles - (tier + 1))
  <2> DEFINE n == HashNibbles - tier
             r == Tail(Suffix)
  <2>1. n \in Nat \ {0, 1} /\ n - 1 = HashNibbles - (tier + 1)
    BY <1>1, StateFacts, TierFacts
  <2>2. Suffix \in Seq(Nibble) /\ Len(Suffix) = n
    BY <1>4, <2>1, StringSeq
  <2>3. r \in Seq(Nibble) /\ Len(r) = n - 1
    <3> HIDE DEF n
    <3>1. Suffix # <<>>
      BY <2>1, <2>2
    <3> QED BY <2>2, <3>1, HeadTailProperties
  <2> HIDE DEF r
  <2> QED BY <2>1, <2>3, LenProperties DEF Strings, r
<1>21. new'.order = new.order
  <2>1. new = [order |-> new.order, files |-> new.files]
    BY <1>12 DEF IsDonut
  <2> QED BY <1>2, <2>1
<1> HIDE DEF before, after
<1>22. path = DestPath
  BY DEF path
<1> QED BY <1>7, <1>10, <1>11, <1>14, <1>15, <1>17, <1>18, <1>19, <1>20, <1>21, <1>22
        DEF q, e, old, before, after

LEMMA CopyEntryKeeps ==
  ASSUME NothingLost, CopyEntry
  PROVE  NothingLost'
<1> DEFINE x == <<Nibbles \o Suffix, LocalPi + offsets[donut]>>
           before == Stored(new, tier + 1, NewOffset)
           after == Stored(new', tier + 1, NewOffset)
<1>1. OffsetsFit /\ FilesFit /\ CopiedSoFar /\ EntriesPreserved
  BY DEF NothingLost
<1>2. /\ Reading /\ Writable /\ pc = "copy" /\ pc' = pc /\ prefix' = prefix /\ donut' = donut /\ at' = at + 1
      /\ UNCHANGED <<tier, offsets, presented, sources>>
  BY DEF CopyEntry, given, Reading
<1>3. /\ at \in Nat /\ donut \in 1 .. Donuts /\ Donuts \in Nat /\ Nibbles \in Strings(tier)
      /\ at + 1 \in 1 .. Len(SuffixFile(sources[donut], Nibbles))
  BY <1>1, <1>2, StateFacts, EntryRead
<1>4. /\ IsDonut(new', tier + 1) /\ DOMAIN new'.files = DOMAIN new.files
      /\ x \in Stored(sources[donut], tier, offsets[donut]) /\ after = before \cup {x}
  BY EntryCopied
<1>5. x = Pair(Nibbles, EntryAt, tier, offsets[donut])
  <2>1. Len(Nibbles) = tier
    BY <1>1, <1>3, StateFacts, StringSeq
  <2> QED BY <2>1 DEF Pair, HashOf, Suffix, LocalPi
<1> HIDE DEF x
<1>6. EntriesPreserved'
  <2> DEFINE A == UNION {Stored(sources[k], tier, offsets[k]) : k \in 1 .. Donuts}
  <2>1. x \in A
    BY <1>3, <1>4
  <2>2. A \cup after = A \cup before
    <3> HIDE DEF A, before, after
    <3> QED BY <1>4, <2>1
  <2>3. A \cup after = {<<h, presented[h]>> : h \in DOMAIN presented}
    <3>1. A \cup before = {<<h, presented[h]>> : h \in DOMAIN presented}
      BY <1>1 DEF EntriesPreserved
    <3> HIDE DEF A, before, after
    <3> QED BY <2>2, <3>1
  <2> QED BY <1>2, <2>3 DEF EntriesPreserved, NewOffset
<1>7. OffsetsFit'
  BY <1>1, <1>2, <1>3 DEF OffsetsFit, NewOffset
<1>8. FilesFit'
  BY <1>1, <1>2, <1>4 DEF FilesFit, Nibbles
<1>9. CopiedSoFar'
  <2> SUFFICES ASSUME NEW k \in 1 .. Donuts
      PROVE  LET file == SuffixFile(sources[k], Nibbles)
             IN  /\ k = donut => at + 1 <= Len(file)
                 /\ \A i \in 1 .. Len(file) : k < donut \/ (k = donut /\ i <= at + 1) =>
                      Pair(Nibbles, file[i], tier, offsets[k]) \in after
    BY <1>2 DEF CopiedSoFar, Nibbles, NewOffset
  <2>1. \A i \in 1 .. Len(SuffixFile(sources[k], Nibbles)) : k < donut \/ (k = donut /\ i <= at) =>
          Pair(Nibbles, SuffixFile(sources[k], Nibbles)[i], tier, offsets[k]) \in before
    BY <1>1, <1>2 DEF CopiedSoFar
  <2>2. k = donut => x = Pair(Nibbles, SuffixFile(sources[k], Nibbles)[at + 1], tier, offsets[k])
    BY <1>5 DEF EntryAt
  <2>3. x \in after /\ before \subseteq after
    <3> HIDE DEF before, after
    <3> QED BY <1>4
  <2>4. at + 1 \in 1 .. Len(SuffixFile(sources[donut], Nibbles))
    BY <1>3
  <2>5. ASSUME NEW i \in 1 .. Len(SuffixFile(sources[k], Nibbles)), k < donut \/ (k = donut /\ i <= at + 1)
        PROVE  Pair(Nibbles, SuffixFile(sources[k], Nibbles)[i], tier, offsets[k]) \in after
    <3>1. CASE k = donut /\ i = at + 1
      BY <2>2, <2>3, <3>1
    <3>2. CASE ~ (k = donut /\ i = at + 1)
      <4>1. k < donut \/ (k = donut /\ i <= at)
        BY <1>3, <2>5, <3>2
      <4> HIDE DEF before, after
      <4> QED BY <2>1, <2>3, <4>1
    <3> QED BY <3>1, <3>2
  <2> HIDE DEF before, after
  <2> QED BY <2>4, <2>5
<1> QED BY <1>6, <1>7, <1>8, <1>9 DEF NothingLost

\* The source files of a prefix go when all that is in them is in the new donut.
LEMMA RemovePrefixKeeps ==
  ASSUME NothingLost, RemovePrefix
  PROVE  NothingLost'
<1>1. OffsetsFit /\ FilesFit /\ CopiedSoFar /\ EntriesPreserved
  BY DEF NothingLost
<1>2. /\ pc = "copy" /\ donut > Donuts /\ pc' = "prefix" /\ prefix' = prefix + 1
      /\ UNCHANGED <<tier, offsets, presented, new, donut, at>>
      /\ sources' = [k \in 1 .. Donuts |-> [sources[k] EXCEPT !.files = Removed(@)]]
  BY DEF RemovePrefix, given
<1>3. /\ tier \in Nat /\ tier + 1 \in Nat /\ Nibbles \in Strings(tier) /\ Donuts \in Nat \ {0}
      /\ prefix \in Nat /\ Power[tier] \in Nat /\ prefix < Power[tier] /\ donut \in Nat
  BY <1>1, <1>2, StateFacts, PowerFacts DEF FilesFit
<1>4. ASSUME NEW k \in 1 .. Donuts
      PROVE  /\ IsDonut(sources[k], tier) /\ IsDonut(sources'[k], tier)
             /\ DOMAIN sources'[k].files = DOMAIN sources[k].files \ {FilePath(Nibbles)}
             /\ \A path \in DOMAIN sources'[k].files : sources'[k].files[path] = sources[k].files[path]
  <2> DEFINE d == sources[k]
             f == sources'[k]
  <2>1. IsDonut(d, tier)
    BY <1>1 DEF FilesFit
  <2>2. f = [d EXCEPT !.files = Removed(@)]
    BY <1>2
  <2> HIDE DEF d, f
  <2>3. f = [order |-> d.order, files |-> Removed(d.files)]
    BY <2>1, <2>2 DEF IsDonut
  <2>4. /\ f = [order |-> f.order, files |-> f.files]
        /\ DOMAIN f.files = DOMAIN d.files \ {FilePath(Nibbles)}
        /\ \A path \in DOMAIN f.files : f.files[path] = d.files[path]
    BY <2>3 DEF Removed, Restrict
  <2>5. IsDonut(f, tier)
    BY <2>1, <2>4 DEF IsDonut
  <2> QED BY <2>1, <2>4, <2>5 DEF d, f
<1>5. ASSUME NEW k \in 1 .. Donuts, NEW p \in Strings(tier)
      PROVE  SuffixFile(sources'[k], p) = IF p = Nibbles THEN <<>> ELSE SuffixFile(sources[k], p)
  <2>1. FilePath(p) = FilePath(Nibbles) => p = Nibbles
    BY <1>3, PathOneToOne
  <2> QED BY <1>4, <2>1 DEF SuffixFile
<1> DEFINE kept(k) == Stored(sources'[k], tier, offsets[k])
           had(k) == Stored(sources[k], tier, offsets[k])
           made == Stored(new, tier + 1, NewOffset)
<1>6. ASSUME NEW k \in 1 .. Donuts, NEW x \in kept(k) PROVE x \in had(k)
  <2>1. PICK p \in Strings(tier) : \E i \in 1 .. Len(SuffixFile(sources'[k], p)) :
          x = Pair(p, SuffixFile(sources'[k], p)[i], tier, offsets[k])
    BY <1>3, <1>4, StoredIs
  <2>2. p # Nibbles
    <3>1. Len(<<>>) = 0
      OBVIOUS
    <3> QED BY <1>5, <2>1, <3>1
  <2>3. SuffixFile(sources'[k], p) = SuffixFile(sources[k], p)
    BY <1>5, <2>2
  <2> QED BY <1>3, <1>4, <2>1, <2>3, StoredIs
<1>7. ASSUME NEW k \in 1 .. Donuts, NEW x \in had(k) PROVE x \in kept(k) \/ x \in made
  <2>1. PICK p \in Strings(tier) : \E i \in 1 .. Len(SuffixFile(sources[k], p)) :
          x = Pair(p, SuffixFile(sources[k], p)[i], tier, offsets[k])
    BY <1>3, <1>4, StoredIs
  <2>2. CASE p = Nibbles
    <3>1. k < donut
      BY <1>2, <1>3
    <3>2. \A i \in 1 .. Len(SuffixFile(sources[k], Nibbles)) :
            Pair(Nibbles, SuffixFile(sources[k], Nibbles)[i], tier, offsets[k]) \in made
      BY <1>1, <1>2, <3>1 DEF CopiedSoFar
    <3> QED BY <2>1, <2>2, <3>2
  <2>3. CASE p # Nibbles
    <3>1. SuffixFile(sources'[k], p) = SuffixFile(sources[k], p)
      BY <1>5, <2>3
    <3> QED BY <1>3, <1>4, <2>1, <3>1, StoredIs
  <2> QED BY <2>2, <2>3
<1>8. EntriesPreserved'
  <2> HIDE DEF kept, had, made
  <2>1. (UNION {kept(k) : k \in 1 .. Donuts}) \cup made = (UNION {had(k) : k \in 1 .. Donuts}) \cup made
    BY <1>6, <1>7
  <2>2. (UNION {kept(k) : k \in 1 .. Donuts}) \cup made = {<<h, presented[h]>> : h \in DOMAIN presented}
    BY <1>1, <2>1 DEF EntriesPreserved, had, made
  <2> QED BY <1>2, <2>2 DEF EntriesPreserved, NewOffset, kept, made
<1>9. OffsetsFit'
  <2>1. prefix + 1 \in 0 .. Power[tier]
    BY <1>3
  <2> QED BY <1>1, <1>2, <2>1 DEF OffsetsFit, NewOffset
<1>10. ASSUME NEW k \in 1 .. Donuts PROVE DOMAIN sources'[k].files \subseteq PathsFrom(tier, prefix + 1)
  <2>1. DOMAIN sources[k].files \subseteq PathsFrom(tier, prefix)
    BY <1>1 DEF FilesFit
  <2>2. \A p \in prefix .. Power[tier] - 1 : p = prefix \/ p \in prefix + 1 .. Power[tier] - 1
    BY <1>3
  <2>3. PathsFrom(tier, prefix) \subseteq PathsFrom(tier, prefix + 1) \cup {FilePath(Nibbles)}
    BY <2>2 DEF PathsFrom, Nibbles
  <2> QED BY <1>4, <2>1, <2>3
<1>11. ASSUME NEW k \in 1 .. Donuts
       PROVE  \A path \in DOMAIN sources'[k].files :
                \A e \in Range(sources'[k].files[path]) : e.pi < DonutSize[tier]
  <2>1. \A path \in DOMAIN sources[k].files :
          \A e \in Range(sources[k].files[path]) : e.pi < DonutSize[tier]
    BY <1>1 DEF FilesFit
  <2> QED BY <1>4, <2>1
<1>12. FilesFit'
  BY <1>1, <1>2, <1>4, <1>10, <1>11 DEF FilesFit, Nibbles
<1>13. CopiedSoFar'
  BY <1>2 DEF CopiedSoFar
<1> QED BY <1>8, <1>9, <1>12, <1>13 DEF NothingLost

\* The steps that change no file.
LEMMA FilesKept ==
  ASSUME FilesFit, UNCHANGED <<tier, sources, prefix>>, IsDonut(new', tier + 1), new'.files = new.files,
         \/ pc' = pc
         \/ pc = "prefix" /\ prefix = Power[tier] /\ pc' = "order"
  PROVE  FilesFit'
BY DEF FilesFit, Nibbles

LEMMA OrderKept ==
  ASSUME FilesFit, NEW order, new' = [new EXCEPT !.order = order]
  PROVE  IsDonut(new', tier + 1) /\ new'.files = new.files
<1>1. IsDonut(new, tier + 1)
  BY DEF FilesFit
<1>2. new' = [order |-> order, files |-> new.files]
  BY <1>1 DEF IsDonut
<1> QED BY <1>1, <1>2 DEF IsDonut

LEMMA FailedKeeps ==
  ASSUME NothingLost, UNCHANGED <<given, sources, new, prefix, donut, at>>, pc' \in {"failed", "prefix"},
         pc' = "prefix" => pc = "check"
  PROVE  NothingLost'
<1>1. OffsetsFit /\ FilesFit /\ EntriesPreserved
  BY DEF NothingLost
<1>2. OffsetsFit'
  BY <1>1 DEF OffsetsFit, given, NewOffset
<1>3. FilesFit'
  BY <1>1 DEF FilesFit, given, Nibbles
<1>4. EntriesPreserved'
  BY <1>1, KeptStored
<1>5. CopiedSoFar'
  BY DEF CopiedSoFar
<1> QED BY <1>2, <1>3, <1>4, <1>5 DEF NothingLost

LEMMA NextFileKeeps ==
  ASSUME NothingLost, NextFile
  PROVE  NothingLost'
<1>1. OffsetsFit /\ FilesFit /\ CopiedSoFar /\ EntriesPreserved
  BY DEF NothingLost
<1>2. /\ pc = "copy" /\ donut <= Donuts /\ ~ Reading /\ donut' = donut + 1 /\ at' = 0
      /\ pc' \in {"copy", "failed"} /\ UNCHANGED <<tier, offsets, presented, sources, new, prefix>>
  BY DEF NextFile, given
<1>3. Donuts \in Nat /\ donut \in Nat /\ donut \in 1 .. Donuts /\ at \in Nat
  BY <1>1, <1>2, StateFacts
<1>4. OffsetsFit'
  BY <1>1, <1>2, <1>3 DEF OffsetsFit, NewOffset
<1>5. FilesFit'
  BY <1>1, <1>2 DEF FilesFit, Nibbles
<1>6. EntriesPreserved'
  BY <1>1, <1>2, KeptStored DEF given
<1>7. CopiedSoFar'
  <2> SUFFICES ASSUME NEW k \in 1 .. Donuts
      PROVE  LET file == SuffixFile(sources[k], Nibbles)
             IN  /\ k = donut + 1 => 0 <= Len(file)
                 /\ \A i \in 1 .. Len(file) : k < donut + 1 \/ (k = donut + 1 /\ i <= 0) =>
                      Pair(Nibbles, file[i], tier, offsets[k]) \in Stored(new, tier + 1, NewOffset)
    BY <1>2 DEF CopiedSoFar, Nibbles, NewOffset
  <2> DEFINE file == SuffixFile(sources[k], Nibbles)
  <2>1. Len(file) \in Nat
    BY <1>1, FileType DEF FilesFit
  <2>2. k = donut => at = Len(file)
    BY <1>1, <1>2, <1>3, <2>1 DEF CopiedSoFar, Reading
  <2>3. ASSUME NEW i \in 1 .. Len(file), k < donut + 1 \/ (k = donut + 1 /\ i <= 0)
        PROVE  k < donut \/ (k = donut /\ i <= at)
    <3> HIDE DEF file
    <3> QED BY <1>3, <2>1, <2>2, <2>3
  <2>4. \A i \in 1 .. Len(file) : k < donut \/ (k = donut /\ i <= at) =>
          Pair(Nibbles, file[i], tier, offsets[k]) \in Stored(new, tier + 1, NewOffset)
    BY <1>1, <1>2 DEF CopiedSoFar
  <2> QED BY <2>1, <2>3, <2>4
<1> QED BY <1>4, <1>5, <1>6, <1>7 DEF NothingLost

\* While HashesOrder.bin is made.
LEMMA OrderingKeeps ==
  ASSUME NothingLost, StartOrder \/ OrderEntry \/ NextOrder
  PROVE  NothingLost'
<1>1. OffsetsFit /\ FilesFit /\ EntriesPreserved
  BY DEF NothingLost
<1>2. /\ UNCHANGED <<given, sources, prefix>> /\ pc' = "order"
      /\ pc = "order" \/ (pc = "prefix" /\ prefix = Power[tier])
      /\ at' \in {0, at + 1} /\ (donut' \in {1, donut} \/ (donut' = donut + 1 /\ donut <= Donuts))
  <2>1. CASE StartOrder
    BY <2>1 DEF StartOrder, given
  <2>2. CASE OrderEntry
    BY <2>2 DEF OrderEntry, Ordering, given
  <2>3. CASE NextOrder
    BY <2>3 DEF NextOrder, given
  <2> QED BY <2>1, <2>2, <2>3
<1>3. IsDonut(new', tier + 1) /\ new'.files = new.files
  <2>1. CASE StartOrder
    BY <1>1, <2>1, OrderKept DEF StartOrder
  <2>2. CASE OrderEntry
    BY <1>1, <2>2, OrderKept DEF OrderEntry
  <2>3. CASE NextOrder
    BY <1>1, <2>3 DEF NextOrder, FilesFit
  <2> QED BY <2>1, <2>2, <2>3
<1>4. OffsetsFit'
  <2>1. /\ Donuts \in Nat \ {0} /\ donut \in 1 .. Donuts + 1 /\ at \in Nat
        /\ prefix \in 0 .. Power[tier]
    BY <1>1, StateFacts DEF OffsetsFit
  <2>2. at' \in Nat /\ donut' \in 1 .. Donuts + 1
    BY <1>2, <2>1
  <2> QED BY <1>1, <1>2, <2>1, <2>2, KeptOffsets
<1>5. FilesFit'
  BY <1>1, <1>2, <1>3, FilesKept DEF given
<1>6. EntriesPreserved'
  BY <1>1, <1>2, <1>3, KeptStored
<1>7. CopiedSoFar'
  BY <1>2 DEF CopiedSoFar
<1> QED BY <1>4, <1>5, <1>6, <1>7 DEF NothingLost

\* When every prefix has been read, the sources have no suffix file any more.
LEMMA NoSourceFiles ==
  ASSUME OffsetsFit, FilesFit, prefix = Power[tier], NEW k \in 1 .. Donuts
  PROVE  Stored(sources[k], tier, offsets[k]) = {}
<1>1. tier \in Nat /\ prefix = Power[tier] /\ Power[tier] \in Nat
  BY StateFacts, PowerFacts
<1>2. IsDonut(sources[k], tier) /\ DOMAIN sources[k].files \subseteq PathsFrom(tier, prefix)
  BY DEF FilesFit
<1>3. prefix .. Power[tier] - 1 = {}
  BY <1>1
<1>4. DOMAIN sources[k].files = {}
  BY <1>2, <1>3 DEF PathsFrom
<1>5. \A p : SuffixFile(sources[k], p) = <<>>
  BY <1>4 DEF SuffixFile
<1>6. \A p : Len(SuffixFile(sources[k], p)) = 0
  BY <1>5
<1>7. \A x : x \notin Stored(sources[k], tier, offsets[k])
  <2> TAKE x
  <2>1. ~ \E p \in Strings(tier) : \E i \in 1 .. Len(SuffixFile(sources[k], p)) :
            x = Pair(p, SuffixFile(sources[k], p)[i], tier, offsets[k])
    BY <1>6
  <2> QED BY <1>1, <1>2, <2>1, StoredIs
<1> QED BY <1>7

\* The source folders go at the end.
LEMMA FinishKeeps ==
  ASSUME NothingLost, Finish
  PROVE  NothingLost'
<1>1. OffsetsFit /\ FilesFit /\ EntriesPreserved
  BY DEF NothingLost
<1>2. /\ pc = "order" /\ pc' \in {"done", "failed"} /\ sources' = [k \in 1 .. Donuts |-> NewDonut]
      /\ UNCHANGED <<tier, offsets, presented, new, prefix, donut, at>>
  BY DEF Finish, given
<1>3. tier \in Nat /\ tier + 1 \in Nat /\ prefix = Power[tier] /\ Power[tier] \in Nat
  BY <1>1, <1>2, StateFacts, PowerFacts DEF FilesFit
<1>4. ASSUME NEW k \in 1 .. Donuts PROVE Stored(sources[k], tier, offsets[k]) = {}
  BY <1>1, <1>3, NoSourceFiles
<1>5. ASSUME NEW k \in 1 .. Donuts
      PROVE  /\ sources'[k] = NewDonut /\ IsDonut(sources'[k], tier) /\ DOMAIN sources'[k].files = {}
             /\ Stored(sources'[k], tier, offsets[k]) = {}
  BY <1>2, <1>3, NewDonutStores
<1>6. EntriesPreserved'
  <2>1. UNION {Stored(sources'[k], tier, offsets[k]) : k \in 1 .. Donuts}
          = UNION {Stored(sources[k], tier, offsets[k]) : k \in 1 .. Donuts}
    BY <1>4, <1>5
  <2> QED BY <1>1, <1>2, <2>1 DEF EntriesPreserved, NewOffset
<1>7. OffsetsFit'
  BY <1>1, <1>2 DEF OffsetsFit, NewOffset
<1>8. FilesFit'
  BY <1>1, <1>2, <1>5 DEF FilesFit, Nibbles
<1>9. CopiedSoFar'
  BY <1>2 DEF CopiedSoFar
<1> QED BY <1>6, <1>7, <1>8, <1>9 DEF NothingLost

(***************************************************************************)
(* Between any two steps of a bake and wherever it fails, for every tier,  *)
(* every deck of hashes and every hole that an orphaned folder has left:   *)
(* the suffix files of the old donuts and of the new one together say of   *)
(* every hash the index that it was presented with, and nothing else.      *)
(***************************************************************************)
THEOREM NothingIsLost == Spec => []NothingLost
<1>1. Init => NothingLost
  BY InitLosesNothing
<1>2. NothingLost /\ [Next]_vars => NothingLost'
  <2> SUFFICES ASSUME NothingLost, [Next]_vars PROVE NothingLost'
    OBVIOUS
  <2>1. CASE Check
    BY <2>1, FailedKeeps DEF Check
  <2>2. CASE OpenPrefix
    BY <2>2, OpenPrefixKeeps
  <2>3. CASE CopyEntry
    BY <2>3, CopyEntryKeeps
  <2>4. CASE CopyPanics
    BY <2>4, FailedKeeps DEF CopyPanics, Failed
  <2>5. CASE NextFile
    BY <2>5, NextFileKeeps
  <2>6. CASE RemovePrefix
    BY <2>6, RemovePrefixKeeps
  <2>7. CASE StartOrder
    BY <2>7, OrderingKeeps
  <2>8. CASE OrderEntry
    BY <2>8, OrderingKeeps
  <2>9. CASE OrderPanics
    BY <2>9, FailedKeeps DEF OrderPanics, Failed
  <2>10. CASE NextOrder
    BY <2>10, OrderingKeeps
  <2>11. CASE Finish
    BY <2>11, FinishKeeps
  <2>12. CASE UNCHANGED vars
    <3>1. OffsetsFit /\ FilesFit /\ CopiedSoFar /\ EntriesPreserved /\ UNCHANGED vars
      BY <2>12 DEF NothingLost
    <3>2. OffsetsFit'
      BY <3>1 DEF OffsetsFit, NewOffset, vars
    <3>3. FilesFit'
      BY <3>1 DEF FilesFit, Nibbles, vars
    <3>4. CopiedSoFar'
      BY <3>1 DEF CopiedSoFar, Nibbles, NewOffset, vars
    <3>5. EntriesPreserved'
      BY <3>1, KeptStored DEF vars, given
    <3> QED BY <3>2, <3>3, <3>4, <3>5 DEF NothingLost
  <2> QED BY <2>1, <2>2, <2>3, <2>4, <2>5, <2>6, <2>7, <2>8, <2>9, <2>10, <2>11, <2>12 DEF Next
<1> QED BY <1>1, <1>2, PTL DEF Spec

\* No entry is lost or misstated at any step of a bake: it is a conjunct of NothingLost
\* (removing and copying of suffix files in tierbake.go).
THEOREM EntriesArePreserved == Spec => []EntriesPreserved
<1>1. NothingLost => EntriesPreserved
  BY DEF NothingLost
<1> QED BY <1>1, NothingIsLost, PTL
=============================================================================
