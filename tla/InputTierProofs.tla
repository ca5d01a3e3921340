--------------------------- MODULE InputTierProofs ---------------------------
(*****************************************************************************)
(* What is proved of an input tier for every size, number of hashes and      *)
(* number of faults: its two files are never misread.                        *)
(*****************************************************************************)
EXTENDS InputTier, FiniteSetTheorems, TLAPS
USE InputTierAssumption

(*****************************************************************************)
(* Counting the entries of a HashesOrder.bin that are no gaps                *)
(*****************************************************************************)
RankIn(o, i) == Cardinality({j \in 1 .. i : o[j] # NoMatch})

\* There are finitely many entries, at most one for each index.
LEMMA RankType ==
  ASSUME NEW o, NEW i \in Nat
  PROVE  /\ IsFiniteSet({j \in 1 .. i : o[j] # NoMatch})
         /\ RankIn(o, i) \in Nat /\ RankIn(o, i) <= i
         /\ RankIn(o, 0) = 0
<1>1. IsFiniteSet(1 .. i) /\ Cardinality(1 .. i) = i
  BY FS_Interval
<1>2. {j \in 1 .. i : o[j] # NoMatch} \subseteq 1 .. i
  OBVIOUS
<1>3. {j \in 1 .. 0 : o[j] # NoMatch} = {}
  OBVIOUS
<1> QED BY <1>1, <1>2, <1>3, FS_Subset, FS_CardinalityType, FS_EmptySet DEF RankIn

\* An entry counts for one, a gap for nothing.
LEMMA RankStep ==
  ASSUME NEW o, NEW i \in Nat
  PROVE  RankIn(o, i + 1) = RankIn(o, i) + (IF o[i + 1] # NoMatch THEN 1 ELSE 0)
<1> DEFINE E(n) == {j \in 1 .. n : o[j] # NoMatch}
<1>1. IsFiniteSet(E(i))
  BY RankType
<1>2. CASE o[i + 1] # NoMatch
  <2>1. E(i + 1) = E(i) \cup {i + 1} /\ i + 1 \notin E(i)
    BY <1>2
  <2> HIDE DEF E
  <2>2. Cardinality(E(i) \cup {i + 1}) = Cardinality(E(i)) + 1
    BY <1>1, <2>1, FS_AddElement
  <2> QED BY <1>2, <2>1, <2>2 DEF RankIn, E
<1>3. CASE ~(o[i + 1] # NoMatch)
  <2>1. E(i + 1) = E(i)
    BY <1>3
  <2> QED BY <1>3, <2>1, RankType DEF RankIn
<1> QED BY <1>2, <1>3

\* Later indices count more entries, and strictly more up to a later entry.
LEMMA RankMonotone ==
  ASSUME NEW o, NEW i \in Nat, NEW j \in Nat, i <= j
  PROVE  /\ RankIn(o, i) <= RankIn(o, j)
         /\ i < j /\ o[j] # NoMatch => RankIn(o, i) < RankIn(o, j)
<1>1. \A m, n \in Nat : m <= n => RankIn(o, m) <= RankIn(o, n)
  <2> SUFFICES ASSUME NEW m \in Nat, NEW n \in Nat, m <= n
               PROVE  RankIn(o, m) <= RankIn(o, n)
    OBVIOUS
  <2>1. {k \in 1 .. m : o[k] # NoMatch} \subseteq {k \in 1 .. n : o[k] # NoMatch}
    OBVIOUS
  <2>2. IsFiniteSet({k \in 1 .. n : o[k] # NoMatch})
    BY RankType
  <2> QED BY <2>1, <2>2, FS_Subset DEF RankIn
<1>2. ASSUME i < j, o[j] # NoMatch
      PROVE  RankIn(o, i) < RankIn(o, j)
  <2>1. j - 1 \in Nat /\ i <= j - 1 /\ (j - 1) + 1 = j
    BY <1>2
  <2>2. RankIn(o, j) = RankIn(o, j - 1) + 1
    BY <1>2, <2>1, RankStep
  <2>3. RankIn(o, i) <= RankIn(o, j - 1)
    BY <1>1, <2>1
  <2>4. RankIn(o, i) \in Nat /\ RankIn(o, j - 1) \in Nat
    BY <2>1, RankType
  <2> QED BY <2>2, <2>3, <2>4
<1> QED BY <1>1, <1>2

\* An entry counts itself.
LEMMA RankPositive ==
  ASSUME NEW o, NEW i \in Nat \ {0}, o[i] # NoMatch
  PROVE  RankIn(o, i) \in Nat \ {0}
<1>1. RankIn(o, 0) < RankIn(o, i)
  BY RankMonotone, 0 \in Nat, 0 < i
<1>2. RankIn(o, 0) = 0 /\ RankIn(o, i) \in Nat
  BY RankType, 0 \in Nat
<1> QED BY <1>1, <1>2

\* Two entries that count the same are the same.
LEMMA RankInjective ==
  ASSUME NEW o, NEW i \in Nat, NEW j \in Nat, o[i] # NoMatch, o[j] # NoMatch,
         RankIn(o, i) = RankIn(o, j)
  PROVE  i = j
<1>1. RankIn(o, i) \in Nat /\ RankIn(o, j) \in Nat
  BY RankType
<1>2. ~(i < j) /\ ~(j < i)
  BY <1>1, RankMonotone
<1> QED BY <1>2

\* What comes later, and gaps, do not count.
LEMMA RankSame ==
  ASSUME NEW o, NEW p, NEW i \in Nat, NEW j \in Nat, i <= j,
         \A k \in 1 .. i : o[k] = p[k], \A k \in i + 1 .. j : p[k] = NoMatch
  PROVE  RankIn(p, j) = RankIn(o, i)
<1>1. {k \in 1 .. j : p[k] # NoMatch} = {k \in 1 .. i : o[k] # NoMatch}
  OBVIOUS
<1> QED BY <1>1 DEF RankIn

(*****************************************************************************)
(* Files that can be read, and what is read                                  *)
(*****************************************************************************)
\* The operators of the specification count in HashesOrder.bin.
LEMMA RankIs == \A i : Rank(i) = RankIn(order, i)
BY DEF Rank, IsEntry, RankIn

LEMMA RankIsPrimed == \A i : Rank(i)' = RankIn(order', i)
BY DEF Rank, IsEntry, RankIn

\* Files that an append broke off in are not readable.
LEMMA TornUnreadable ==
  ASSUME NeverMisread, pc # "between", Readable
  PROVE  ~Torn
<1>1. Len(order) \in Nat /\ Len(suffix) \in Nat
  BY DEF NeverMisread, TypeOK
<1>2. CASE order = <<>>
  <2>1. Entries = 0
    BY <1>2, RankIs, RankType, Len(<<>>) = 0, 0 \in Nat DEF Entries
  <2> QED BY <1>1, <2>1 DEF Torn, Accounted
<1>3. CASE order # <<>>
  <2>1. Len(order) \in 1 .. Len(order)
    BY <1>1, <1>3 DEF NeverMisread, TypeOK
  <2>2. Rank(Len(order)) <= Len(suffix)
    BY <1>3, <2>1 DEF NeverMisread, NeverMadeUpFor, Readable
  <2>3. Rank(Len(order)) \in Nat
    BY <1>1, RankIs, RankType
  <2> QED BY <1>1, <2>2, <2>3 DEF Torn, Accounted, Entries
<1> QED BY <1>2, <1>3

\* An entry of HashSuffix.bin has a hash and an index of two bytes.
LEMMA SuffixType ==
  ASSUME TypeOK
  PROVE  /\ Len(suffix) \in Nat
         /\ \A k \in 1 .. Len(suffix) : suffix[k].hash \in Hashes /\ suffix[k].pi \in 0 .. Ones2
         /\ \A k \in 1 .. Len(suffix) : suffix[k].pi \in Nat
<1> DEFINE E == [hash : Hashes, pi : 0 .. Ones2]
<1>1. suffix \in Seq(E)
  BY DEF TypeOK
<1>2. \A e \in E : e.hash \in Hashes /\ e.pi \in 0 .. Ones2 /\ e.pi \in Nat
  OBVIOUS
<1> HIDE DEF E
<1> QED BY <1>1, <1>2

\* The files are finite, and so is what they count.
LEMMA EntriesType ==
  ASSUME TypeOK
  PROVE  /\ Len(order) \in Nat /\ Len(suffix) \in Nat
         /\ Entries = RankIn(order, Len(order)) /\ Entries \in Nat
<1>1. Len(order) \in Nat /\ Len(suffix) \in Nat
  BY DEF TypeOK
<1>2. Entries = RankIn(order, Len(order))
  BY RankIs DEF Entries
<1> QED BY <1>1, <1>2, RankType

\* What readHashes reads are the entries of HashSuffix.bin, all of them and each at
\* its own index.
LEMMA ReadEntries ==
  ASSUME NeverMisread, pc # "between", Readable
  PROVE  /\ \A i \in 1 .. Len(order) : IsEntry(i) =>
              /\ Rank(i) \in 1 .. Len(suffix)
              /\ suffix[Rank(i)].pi = i - 1 /\ suffix[Rank(i)].pi # Ones2
         /\ \A k \in 1 .. Len(suffix) :
              /\ suffix[k].pi + 1 \in 1 .. Len(order) /\ IsEntry(suffix[k].pi + 1)
              /\ Rank(suffix[k].pi + 1) = k
<1>1. ~Torn
  BY TornUnreadable
<1>2. \A k \in 1 .. Len(suffix) :
        /\ suffix[k].pi + 1 \in 1 .. Len(order) /\ IsEntry(suffix[k].pi + 1)
        /\ Rank(suffix[k].pi + 1) = k
  BY <1>1 DEF NeverMisread, Aligned
<1>3. ASSUME NEW i \in 1 .. Len(order), IsEntry(i)
      PROVE  /\ Rank(i) \in 1 .. Len(suffix)
             /\ suffix[Rank(i)].pi = i - 1 /\ suffix[Rank(i)].pi # Ones2
  <2>1. Rank(i) \in Nat \ {0}
    BY <1>3, RankIs, RankPositive DEF IsEntry
  <2>2. Rank(i) <= Len(suffix) /\ order[i] = ReadID16(suffix[Rank(i)].pi)
    BY <1>3 DEF Readable
  <2>3. suffix[Rank(i)].pi # Ones2
    BY <1>3, <2>2 DEF ReadID16, IsEntry
  <2>4. suffix[Rank(i)].pi = i - 1
    BY <1>1, <1>3, <2>2 DEF NeverMisread, Aligned
  <2> QED BY <2>1, <2>2, <2>3, <2>4 DEF NeverMisread, TypeOK
<1> QED BY <1>2, <1>3

\* So the map is that of the accepted hashes.
LEMMA ReadMapAccepted ==
  ASSUME NeverMisread, pc # "between", Readable
  PROVE  /\ DOMAIN ReadMap = DOMAIN accepted
         /\ ReadMap \in [DOMAIN accepted -> Nat]
         /\ \A k \in 1 .. Len(suffix) : ReadMap[suffix[k].hash] = suffix[k].pi
<1> DEFINE R == {suffix[Rank(i)] : i \in {j \in 1 .. Len(order) : IsEntry(j)}}
<1>1. R = {suffix[k] : k \in 1 .. Len(suffix)}
  <2>1. \A k \in 1 .. Len(suffix) : suffix[k] \in R
    BY ReadEntries
  <2> QED BY <2>1, ReadEntries
<1>2. ASSUME NEW k \in 1 .. Len(suffix)
      PROVE  ReadID16((CHOOSE e \in R : e.hash = suffix[k].hash).pi) = suffix[k].pi
  <2>1. PICK e \in R : e = (CHOOSE f \in R : f.hash = suffix[k].hash) /\ e.hash = suffix[k].hash
    BY <1>1
  <2>2. PICK l \in 1 .. Len(suffix) : e = suffix[l]
    BY <1>1
  <2>3. l = k
    BY <2>1, <2>2 DEF NeverMisread, SuffixAccepted
  <2>4. suffix[k].pi # Ones2
    BY ReadEntries
  <2> QED BY <2>1, <2>2, <2>3, <2>4 DEF ReadID16
<1>3. ReadMap = [h \in {e.hash : e \in R} |-> ReadID16((CHOOSE e \in R : e.hash = h).pi)]
  BY DEF ReadMap
<1> HIDE DEF R
<1>4. \A k \in 1 .. Len(suffix) : suffix[k].pi \in Nat
  BY SuffixType DEF NeverMisread
<1>5. {e.hash : e \in R} = {suffix[k].hash : k \in 1 .. Len(suffix)}
  BY <1>1
<1>6. {e.hash : e \in R} = DOMAIN accepted
  BY <1>5 DEF NeverMisread, SuffixAccepted
<1>7. ASSUME NEW k \in 1 .. Len(suffix)
      PROVE  suffix[k].hash \in DOMAIN accepted /\ ReadMap[suffix[k].hash] = suffix[k].pi
  <2>1. suffix[k].hash \in {e.hash : e \in R}
    BY <1>5
  <2> QED BY <1>2, <1>3, <1>6, <2>1
<1>8. DOMAIN ReadMap = DOMAIN accepted
  BY <1>3, <1>6
<1>9. ASSUME NEW h \in DOMAIN accepted
      PROVE  ReadMap[h] \in Nat
  <2>1. PICK k \in 1 .. Len(suffix) : h = suffix[k].hash
    BY <1>5, <1>6
  <2> QED BY <1>4, <1>7, <2>1
<1>10. ReadMap = [h \in DOMAIN accepted |-> ReadMap[h]]
  BY <1>3, <1>6
<1> QED BY <1>7, <1>8, <1>9, <1>10

(*****************************************************************************)
(* Every step keeps the invariant                                            *)
(*****************************************************************************)
\* CreateInputTierFiles makes files without entries.
LEMMA InitNeverMisread ==
  ASSUME Init
  PROVE  NeverMisread
<1>1. Len(order) = 0 /\ Len(suffix) = 0
  BY DEF Init
<1>2. Entries = 0 /\ Accounted = 0 /\ ~Torn
  <2>1. Entries = RankIn(order, 0)
    BY <1>1, RankIs DEF Entries
  <2>2. Entries = 0
    BY <2>1, RankType, 0 \in Nat
  <2> QED BY <1>1, <2>2 DEF Accounted, Torn, Init
<1>3. TypeOK
  BY DEF Init, TypeOK, NoEntries, NoAppend
<1>4. SuffixAccepted /\ MemoryAccepted /\ PendingNew
  BY <1>1 DEF Init, SuffixAccepted, MemoryAccepted, PendingNew, NoEntries
<1>5. NeverMadeUpFor /\ Aligned
  BY <1>1, <1>2 DEF Init, NeverMadeUpFor, Aligned
<1> QED BY <1>3, <1>4, <1>5 DEF NeverMisread

\* OpenInputTier reads what was accepted.
LEMMA OpenStep ==
  ASSUME NeverMisread, OpenInputTier
  PROVE  NeverMisread'
<1>1. pc = "closed" /\ Readable /\ map' = ReadMap /\ hashBytes' = ReadHashBytes /\ pc' = "open"
  BY DEF OpenInputTier
<1>2. UNCHANGED <<order, suffix, pending, accepted, faults>>
  BY DEF OpenInputTier, files
<1>3. TypeOK /\ SuffixAccepted /\ NeverMadeUpFor /\ Aligned
  BY DEF NeverMisread
<1>4. \A i \in 1 .. Len(order) :
        hashBytes'[i] = IF IsEntry(i) THEN suffix[Rank(i)].hash ELSE NoHash
  BY <1>1 DEF ReadHashBytes
<1>5. hashBytes' \in Seq(Hashes \cup {NoHash}) /\ Len(hashBytes') = Len(order)
  <2>1. \A i \in 1 .. Len(order) : hashBytes'[i] \in Hashes \cup {NoHash}
    BY <1>1, <1>3, <1>4, ReadEntries, SuffixType
  <2>2. hashBytes' \in [1 .. Len(order) -> Hashes \cup {NoHash}]
    BY <1>1, <2>1 DEF ReadHashBytes
  <2>3. Len(order) \in Nat
    BY <1>3 DEF TypeOK
  <2> QED BY <2>2, <2>3
<1>6. /\ DOMAIN map' = DOMAIN accepted /\ map' \in [DOMAIN accepted -> Nat]
      /\ \A k \in 1 .. Len(suffix) : map'[suffix[k].hash] = suffix[k].pi
  BY <1>1, ReadMapAccepted
<1>7. TypeOK'
  <2>1. DOMAIN accepted \subseteq Hashes
    BY <1>3, SuffixType DEF SuffixAccepted
  <2> QED BY <1>1, <1>2, <1>3, <1>5, <1>6, <2>1 DEF TypeOK
<1>8. MemoryAccepted'
  <2>1. ASSUME NEW h \in DOMAIN map'
        PROVE  /\ accepted[h] = map'[h] + Offset
               /\ map'[h] < Len(hashBytes') /\ hashBytes'[map'[h] + 1] = h
    <3>1. PICK k \in 1 .. Len(suffix) : h = suffix[k].hash
      BY <1>3, <1>6, <2>1 DEF SuffixAccepted
    <3>2. /\ suffix[k].pi + 1 \in 1 .. Len(order) /\ IsEntry(suffix[k].pi + 1)
          /\ Rank(suffix[k].pi + 1) = k
      BY <1>1, ReadEntries
    <3>3. map'[h] = suffix[k].pi /\ suffix[k].pi \in Nat
      BY <1>3, <1>6, <3>1, SuffixType
    <3>4. accepted[h] = suffix[k].pi + Offset
      BY <1>3, <3>1 DEF SuffixAccepted
    <3>5. Len(order) \in Nat
      BY <1>3 DEF TypeOK
    <3> QED BY <1>4, <1>5, <3>1, <3>2, <3>3, <3>4, <3>5
  <2>2. ASSUME NEW i \in 1 .. Len(hashBytes'), hashBytes'[i] # NoHash
        PROVE  hashBytes'[i] \in DOMAIN map' /\ map'[hashBytes'[i]] = i - 1
    <3>1. i \in 1 .. Len(order) /\ IsEntry(i) /\ hashBytes'[i] = suffix[Rank(i)].hash
      BY <1>4, <1>5, <2>2
    <3>2. Rank(i) \in 1 .. Len(suffix) /\ suffix[Rank(i)].pi = i - 1
      BY <1>1, <3>1, ReadEntries
    <3> QED BY <1>3, <1>6, <3>1, <3>2 DEF SuffixAccepted
  <2> QED BY <1>2, <1>6, <2>1, <2>2 DEF MemoryAccepted
<1>9. SuffixAccepted' /\ PendingNew'
  BY <1>1, <1>2, <1>3 DEF SuffixAccepted, PendingNew
<1>10. Entries' = Entries /\ Accounted' = Accounted /\ Torn' = Torn
  BY <1>1, <1>2 DEF Entries, Accounted, Torn, Rank, IsEntry
<1>11. NeverMadeUpFor'
  BY <1>1, <1>2, <1>3, <1>10 DEF NeverMadeUpFor, IsEntry
<1>12. Aligned'
  <2>1. ~Torn
    BY <1>1, TornUnreadable
  <2>2. \A i : (IsEntry(i) <=> IsEntry(i)') /\ Rank(i)' = Rank(i)
    BY <1>2 DEF IsEntry, Rank
  <2>3. ReadHashBytes' = hashBytes'
    BY <1>1, <1>2 DEF ReadHashBytes, IsEntry, Rank
  <2>4. \A i \in 1 .. Len(order) : i <= Len(hashBytes')
    BY <1>3, <1>5 DEF TypeOK
  <2> QED BY <1>1, <1>2, <1>3, <1>5, <2>1, <2>2, <2>3, <2>4 DEF Aligned
<1> QED BY <1>7, <1>8, <1>9, <1>11, <1>12 DEF NeverMisread

\* Closing the tier and any end of the process keep the files; one that comes between
\* the two writes leaves them torn.
LEMMA GoneStep ==
  ASSUME NeverMisread, Gone, UNCHANGED files, pc # "closed",
         \/ faults' = faults /\ pc # "between"
         \/ faults' = faults + 1 /\ faults < MaxFaults
         \/ faults' = faults /\ pending.pi > Ones2
  PROVE  NeverMisread'
<1>1. /\ map' = NoEntries /\ hashBytes' = <<>> /\ pc' = "closed"
      /\ UNCHANGED <<order, suffix, accepted>>
  BY DEF Gone, files
<1>2. TypeOK /\ SuffixAccepted /\ NeverMadeUpFor /\ Aligned
  BY DEF NeverMisread
<1>3. TypeOK'
  BY <1>1, <1>2 DEF TypeOK, Gone, NoEntries, NoAppend
<1>4. SuffixAccepted' /\ MemoryAccepted' /\ PendingNew'
  BY <1>1, <1>2 DEF SuffixAccepted, MemoryAccepted, PendingNew
<1>5. Entries' = Entries /\ \A i : (IsEntry(i) <=> IsEntry(i)') /\ Rank(i)' = Rank(i)
  BY <1>1 DEF Entries, IsEntry, Rank
<1>6. Len(suffix) \in Nat /\ Len(order) \in Nat /\ Entries \in Nat
  BY <1>2, EntriesType
<1>7. CASE pc = "between"
  <2>1. Torn'
    BY <1>1, <1>2, <1>5, <1>6, <1>7 DEF NeverMadeUpFor, Torn, Accounted
  <2>2. NeverMadeUpFor'
    <3>1. faults' = 0 => Len(order) > Ones2
      BY <1>2, <1>6, <1>7 DEF NeverMadeUpFor, Aligned, TypeOK
    <3> QED BY <1>1, <1>2, <1>5, <1>6, <1>7, <3>1 DEF NeverMadeUpFor, Accounted
  <2> QED BY <1>3, <1>4, <2>1, <2>2 DEF NeverMisread, Aligned
<1>8. CASE pc # "between"
  <2>1. Accounted' = Accounted /\ (Torn' <=> Torn)
    BY <1>1, <1>5, <1>8 DEF Torn, Accounted
  <2>2. faults' = 0 => faults = 0
    BY <1>2 DEF TypeOK
  <2>3. NeverMadeUpFor'
    BY <1>1, <1>2, <1>5, <2>1, <2>2 DEF NeverMadeUpFor
  <2>4. Aligned'
    BY <1>1, <1>2, <1>5, <2>1 DEF Aligned
  <2> QED BY <1>3, <1>4, <2>3, <2>4 DEF NeverMisread
<1> QED BY <1>7, <1>8

\* What the first write of an append makes of HashesOrder.bin: one more entry, at the
\* end, after gaps.
LEMMA OrderWrittenFacts ==
  ASSUME NeverMisread, pc = "open", NEW p \in Nat, Len(hashBytes) <= p, order' = OrderWritten(p)
  PROVE  /\ Len(order') = Len(order) + (p - Len(hashBytes)) + 1
         /\ \A k \in 1 .. Len(order) : order'[k] = order[k]
         /\ \A k \in Len(order) + 1 .. Len(order') - 1 : order'[k] = NoMatch
         /\ order'[Len(order')] = p /\ p # NoMatch
         /\ Entries' = Entries + 1
         /\ \A k \in 1 .. Len(order) : Rank(k)' = Rank(k)
<1> DEFINE n == p - Len(hashBytes)
           gaps == OnesForGaps(n)
<1>1. n \in Nat /\ Len(order) \in Nat
  BY DEF NeverMisread, TypeOK
<1>2. gaps \in Seq({NoMatch}) /\ Len(gaps) = n /\ \A k \in 1 .. n : gaps[k] = NoMatch
  BY <1>1 DEF OnesForGaps
<1>3. order' = order \o gaps \o <<p>>
  BY DEF OrderWritten
<1>4. order \in Seq(Int) /\ gaps \in Seq(Int)
  <2>1. order \in Seq(0 .. Ones3 \cup {NoMatch})
    BY DEF NeverMisread, TypeOK
  <2> QED BY <1>2, <2>1 DEF NoMatch
<1> HIDE DEF gaps, n
<1>5. /\ Len(order') = Len(order) + n + 1
      /\ \A k \in 1 .. Len(order) : order'[k] = order[k]
      /\ \A k \in Len(order) + 1 .. Len(order) + n : order'[k] = gaps[k - Len(order)]
      /\ order'[Len(order) + n + 1] = p
  <2> DEFINE og == order \o gaps
  <2>1. /\ og \in Seq(Int) /\ Len(og) = Len(order) + n
        /\ \A k \in 1 .. Len(order) : og[k] = order[k]
        /\ \A k \in Len(order) + 1 .. Len(order) + n : og[k] = gaps[k - Len(order)]
    BY <1>1, <1>2, <1>4
  <2>2. order' = og \o <<p>>
    BY <1>3
  <2> HIDE DEF og
  <2>3. /\ Len(order') = Len(og) + 1 /\ order'[Len(og) + 1] = p
        /\ \A k \in 1 .. Len(og) : order'[k] = og[k]
    BY <2>1, <2>2
  <2> QED BY <1>1, <2>1, <2>3
<1>6. \A k \in Len(order) + 1 .. Len(order) + n : order'[k] = NoMatch
  BY <1>1, <1>2, <1>5
<1>7. \A k \in 1 .. Len(order) : Rank(k)' = Rank(k)
  <2> SUFFICES ASSUME NEW k \in 1 .. Len(order) PROVE RankIn(order', k) = RankIn(order, k)
    BY RankIs, RankIsPrimed
  <2>1. k \in Nat /\ k <= k /\ (\A i \in 1 .. k : order[i] = order'[i])
        /\ \A i \in k + 1 .. k : order'[i] = NoMatch
    BY <1>1, <1>5
  <2> QED BY <2>1, RankSame
<1>8. RankIn(order', Len(order) + n) = RankIn(order, Len(order))
  <2> DEFINE L == Len(order)
             M == Len(order) + n
  <2>1. L \in Nat /\ M \in Nat /\ L <= M
    BY <1>1
  <2>2. (\A k \in 1 .. L : order[k] = order'[k]) /\ \A k \in L + 1 .. M : order'[k] = NoMatch
    BY <1>5, <1>6
  <2> HIDE DEF L, M
  <2>3. RankIn(order', M) = RankIn(order, L)
    BY <2>1, <2>2, RankSame
  <2> QED BY <2>3 DEF L, M
<1>9. p # NoMatch
  BY DEF NoMatch
<1>10. RankIn(order', Len(order) + n + 1) = RankIn(order, Len(order)) + 1
  <2> DEFINE M == Len(order) + n
  <2>1. M \in Nat /\ order'[M + 1] # NoMatch
    BY <1>1, <1>5, <1>9
  <2> HIDE DEF M
  <2>2. RankIn(order', M + 1) = RankIn(order', M) + 1
    BY <2>1, RankStep
  <2> QED BY <1>8, <2>2 DEF M
<1>11. Entries' = Entries + 1
  <2>1. Entries' = RankIn(order', Len(order'))
    BY DEF Entries, Rank, IsEntry, RankIn
  <2>2. Entries = RankIn(order, Len(order))
    BY RankIs DEF Entries
  <2> QED BY <1>5, <1>10, <2>1, <2>2
<1> QED BY <1>1, <1>5, <1>6, <1>7, <1>9, <1>11 DEF n

\* The first write of an append is accounted for by the append that is pending.
LEMMA AppendOrderStep ==
  ASSUME NeverMisread, NEW gpi \in Offset .. MaxGpi - 1, NEW h \in Hashes, AppendOrder(gpi, h)
  PROVE  NeverMisread'
<1> DEFINE p == gpi - Offset
           L == Len(order)
<1>1. pc = "open" /\ h \notin DOMAIN map /\ p \in Nat /\ Len(hashBytes) <= p /\ p < Ones3
  BY DEF AppendOrder, Presentable, NeverMisread, TypeOK
<1>2. /\ order' = OrderWritten(p) /\ pending' = [hash |-> h, pi |-> p] /\ pc' = "between"
      /\ UNCHANGED <<suffix, map, hashBytes, accepted, faults>>
  BY DEF AppendOrder, memory
<1>3. TypeOK /\ SuffixAccepted /\ MemoryAccepted /\ NeverMadeUpFor /\ Aligned
  BY DEF NeverMisread
<1>4. p + Offset < MaxGpi
  BY DEF TypeOK
<1> HIDE DEF p
<1>5. /\ Len(order') = Len(order) + (p - Len(hashBytes)) + 1
      /\ \A k \in 1 .. Len(order) : order'[k] = order[k]
      /\ \A k \in Len(order) + 1 .. Len(order') - 1 : order'[k] = NoMatch
      /\ order'[Len(order')] = p /\ p # NoMatch
      /\ Entries' = Entries + 1
      /\ \A k \in 1 .. Len(order) : Rank(k)' = Rank(k)
  BY <1>1, <1>2, OrderWrittenFacts
<1>6. L \in Nat /\ Len(suffix) \in Nat /\ Entries \in Nat /\ Len(hashBytes) \in Nat
  BY <1>3, EntriesType DEF TypeOK
<1>7. TypeOK'
  <2>1. order' \in Seq(0 .. Ones3 \cup {NoMatch})
    <3>1. OnesForGaps(p - Len(hashBytes)) \in Seq(0 .. Ones3 \cup {NoMatch})
      BY <1>1, <1>6 DEF OnesForGaps
    <3>2. <<p>> \in Seq(0 .. Ones3 \cup {NoMatch})
      BY <1>1
    <3>3. order \in Seq(0 .. Ones3 \cup {NoMatch})
      BY <1>3 DEF TypeOK
    <3> QED BY <1>2, <3>1, <3>2, <3>3 DEF OrderWritten
  <2> QED BY <1>1, <1>2, <1>3, <2>1 DEF TypeOK
<1>8. SuffixAccepted' /\ MemoryAccepted'
  BY <1>1, <1>2, <1>3 DEF SuffixAccepted, MemoryAccepted
<1>9. PendingNew'
  BY <1>1, <1>2, <1>3, <1>4 DEF PendingNew, MemoryAccepted
<1>10. Accounted = Len(suffix) /\ Accounted' = Len(suffix) + 1 /\ (Torn' <=> Torn)
  BY <1>1, <1>2, <1>5, <1>6 DEF Accounted, Torn
<1>11. Len(order') >= L + 1
  BY <1>1, <1>5, <1>6
<1>12. NeverMadeUpFor'
  BY <1>2, <1>3, <1>5, <1>6, <1>10, <1>11 DEF NeverMadeUpFor, IsEntry
<1>13. ASSUME ~Torn
       PROVE  /\ \A k \in 1 .. Len(suffix) : \E i \in 1 .. Len(order') :
                   i = suffix[k].pi + 1 /\ IsEntry(i)' /\ Rank(i)' = k
              /\ \A i \in 1 .. Len(order') : IsEntry(i)' => order'[i] = i - 1
              /\ \A i \in 1 .. Len(order') : IsEntry(i)' /\ Rank(i)' <= Len(suffix) =>
                   suffix[Rank(i)'].pi = i - 1
              /\ \A i \in 1 .. Len(order') :
                   IF i <= Len(hashBytes) THEN hashBytes[i] = ReadHashBytes[i]'
                   ELSE IsEntry(i)' => i = Len(order')
              /\ Len(order') = p + 1
  <2>0. /\ \A k \in 1 .. Len(suffix) :
             /\ suffix[k].pi + 1 \in 1 .. L /\ IsEntry(suffix[k].pi + 1)
             /\ Rank(suffix[k].pi + 1) = k
        /\ \A i \in 1 .. L : IsEntry(i) => order[i] = i - 1
        /\ \A i \in 1 .. L : IsEntry(i) /\ Rank(i) <= Len(suffix) => suffix[Rank(i)].pi = i - 1
        /\ L = Len(hashBytes)
    BY <1>1, <1>3, <1>13 DEF Aligned
  <2>1. L = Len(hashBytes) /\ Len(order') = p + 1 /\ Entries = Len(suffix)
    <3>1. Entries >= Accounted /\ ~(Entries > Accounted)
      BY <1>3, <1>13 DEF Torn, NeverMadeUpFor
    <3>2. Entries = Len(suffix)
      BY <1>6, <1>10, <3>1
    <3> QED BY <1>1, <1>5, <1>6, <2>0, <3>2
  <2>2. \A i \in 1 .. L : (IsEntry(i)' <=> IsEntry(i)) /\ Rank(i)' = Rank(i) /\ order'[i] = order[i]
    BY <1>5 DEF IsEntry
  <2>3. \A i \in 1 .. Len(order') : IsEntry(i)' => i \in 1 .. L \/ i = Len(order')
    BY <1>5, <1>6 DEF IsEntry
  <2>4. \A i : i = Len(order') => Rank(i)' = Len(suffix) + 1
    BY <1>5, <2>1 DEF Entries, Rank, IsEntry
  <2>5. \A k \in 1 .. Len(suffix) : \E i \in 1 .. Len(order') :
          i = suffix[k].pi + 1 /\ IsEntry(i)' /\ Rank(i)' = k
    BY <1>2, <1>6, <1>11, <2>0, <2>2
  <2>6. \A i \in 1 .. Len(order') : IsEntry(i)' => order'[i] = i - 1
    BY <1>1, <1>5, <1>6, <2>0, <2>1, <2>2, <2>3
  <2>7. \A i \in 1 .. Len(order') : IsEntry(i)' /\ Rank(i)' <= Len(suffix) =>
          suffix[Rank(i)'].pi = i - 1
    <3> SUFFICES ASSUME NEW i \in 1 .. Len(order'), IsEntry(i)', Rank(i)' <= Len(suffix)
                 PROVE  suffix[Rank(i)'].pi = i - 1
      OBVIOUS
    <3>1. i \in 1 .. L
      BY <1>6, <2>3, <2>4
    <3>2. IsEntry(i) /\ Rank(i)' = Rank(i)
      BY <2>2, <3>1
    <3> QED BY <2>0, <3>1, <3>2
  <2>8. \A i \in 1 .. L : hashBytes[i] = ReadHashBytes[i]
    BY <1>1, <1>3, <1>13, <2>1 DEF Aligned
  <2>9. \A i \in 1 .. L : ReadHashBytes[i]' = ReadHashBytes[i]
    BY <1>2, <1>6, <1>11, <2>2 DEF ReadHashBytes
  <2>10. \A i \in 1 .. Len(order') : i <= Len(hashBytes) => i \in 1 .. L
    BY <1>6, <2>1
  <2>11. \A i \in 1 .. Len(order') : ~(i <= Len(hashBytes)) /\ IsEntry(i)' => i = Len(order')
    BY <1>6, <2>1, <2>3
  <2> QED BY <2>1, <2>5, <2>6, <2>7, <2>8, <2>9, <2>10, <2>11
<1>14. Aligned'
  BY <1>2, <1>10, <1>13 DEF Aligned
<1> QED BY <1>7, <1>8, <1>9, <1>12, <1>14 DEF NeverMisread

\* What the second write makes of the list in memory.
LEMMA ListWritten ==
  ASSUME NeverMisread, AppendSuffix
  PROVE  /\ hashBytes' \in Seq(Hashes \cup {NoHash}) /\ Len(hashBytes') = pending.pi + 1
         /\ \A i \in 1 .. Len(hashBytes) : hashBytes'[i] = hashBytes[i]
         /\ \A i \in Len(hashBytes) + 1 .. pending.pi : hashBytes'[i] = NoHash
         /\ hashBytes'[pending.pi + 1] = pending.hash
<1> DEFINE n == pending.pi - Len(hashBytes)
           room == RoomForGaps(n)
           S == Hashes \cup {NoHash}
           og == hashBytes \o room
<1>1. hashBytes \in Seq(S) /\ Len(hashBytes) \in Nat /\ pending.pi \in Nat /\ pending.hash \in S
  BY DEF NeverMisread, TypeOK
<1>2. n \in Nat
  BY <1>1 DEF NeverMisread, PendingNew, AppendSuffix
<1>3. room \in Seq(S) /\ Len(room) = n /\ \A k \in 1 .. n : room[k] = NoHash
  BY <1>2 DEF RoomForGaps
<1>4. hashBytes' = og \o <<pending.hash>>
  BY DEF AppendSuffix
<1>5. Len(hashBytes) + n = pending.pi
  BY <1>1
<1> HIDE DEF room, n
<1>6. /\ og \in Seq(S) /\ Len(og) = pending.pi
      /\ \A k \in 1 .. Len(hashBytes) : og[k] = hashBytes[k]
      /\ \A k \in Len(hashBytes) + 1 .. pending.pi : og[k] = room[k - Len(hashBytes)]
  BY <1>1, <1>2, <1>3, <1>5
<1>7. \A k \in Len(hashBytes) + 1 .. pending.pi : og[k] = NoHash
  <2> SUFFICES ASSUME NEW k \in Len(hashBytes) + 1 .. pending.pi
               PROVE  og[k] = NoHash
    OBVIOUS
  <2>1. k - Len(hashBytes) \in 1 .. n
    BY <1>1, <1>2, <1>5
  <2> QED BY <1>3, <1>6, <2>1
<1> HIDE DEF og
<1>8. /\ hashBytes' \in Seq(S) /\ Len(hashBytes') = Len(og) + 1
      /\ hashBytes'[Len(og) + 1] = pending.hash
      /\ \A k \in 1 .. Len(og) : hashBytes'[k] = og[k]
  BY <1>1, <1>4, <1>6
<1>9. /\ \A k \in 1 .. Len(hashBytes) : k \in 1 .. Len(og)
      /\ \A k \in Len(hashBytes) + 1 .. pending.pi : k \in 1 .. Len(og)
  BY <1>1, <1>2, <1>5, <1>6
<1> QED BY <1>1, <1>6, <1>7, <1>8, <1>9

\* The second write adds the accepted hash to the other file and to memory, at the
\* same index.
LEMMA AppendSuffixStep ==
  ASSUME NeverMisread, AppendSuffix
  PROVE  NeverMisread'
<1> DEFINE p == pending.pi
           h == pending.hash
           L == Len(suffix)
<1>1. TypeOK /\ SuffixAccepted /\ MemoryAccepted /\ NeverMadeUpFor /\ Aligned
  BY DEF NeverMisread
<1>2. /\ pc = "between" /\ p \in 0 .. Ones2 /\ p \in Nat
      /\ h \in Hashes /\ h \notin DOMAIN accepted /\ Len(hashBytes) <= p /\ p + Offset < MaxGpi
  BY <1>1 DEF NeverMisread, TypeOK, PendingNew, AppendSuffix
<1>3. /\ suffix' = Append(suffix, pending) /\ UNCHANGED <<order, faults>>
      /\ pc' \in {"open", "full"} /\ pending' = NoAppend
  BY DEF AppendSuffix
<1>4. /\ DOMAIN map' = DOMAIN map \cup {h} /\ map'[h] = p
      /\ \A x \in DOMAIN map \ {h} : map'[x] = map[x]
  BY DEF AppendSuffix
<1>5. /\ DOMAIN accepted' = DOMAIN accepted \cup {h} /\ accepted'[h] = p + Offset
      /\ \A x \in DOMAIN accepted \ {h} : accepted'[x] = accepted[x]
  BY DEF AppendSuffix
<1>6. /\ hashBytes' \in Seq(Hashes \cup {NoHash}) /\ Len(hashBytes') = p + 1
      /\ \A i \in 1 .. Len(hashBytes) : hashBytes'[i] = hashBytes[i]
      /\ \A i \in Len(hashBytes) + 1 .. p : hashBytes'[i] = NoHash
      /\ hashBytes'[p + 1] = h
  BY ListWritten
<1>7. map' \in [DOMAIN map' -> Nat]
  <2>1. map' = [x \in DOMAIN map' |-> map'[x]]
    BY DEF AppendSuffix
  <2> QED BY <1>1, <1>2, <1>4, <2>1 DEF TypeOK
<1>8. /\ Len(order) \in Nat /\ L \in Nat /\ Entries = RankIn(order, Len(order))
      /\ Entries \in Nat /\ Len(hashBytes) \in Nat
  BY <1>1, EntriesType DEF TypeOK
<1>9. /\ suffix' \in Seq([hash : Hashes, pi : 0 .. Ones2]) /\ Len(suffix') = L + 1
      /\ suffix'[L + 1].hash = h /\ suffix'[L + 1].pi = p
      /\ \A k \in 1 .. L : suffix'[k] = suffix[k]
  <2> DEFINE E == [hash : Hashes, pi : 0 .. Ones2]
  <2>1. suffix \in Seq(E)
    BY <1>1 DEF TypeOK
  <2>2. pending \in E
    BY <1>1, <1>2 DEF TypeOK
  <2> HIDE DEF E
  <2>3. suffix' \in Seq(E) /\ Len(suffix') = L + 1 /\ suffix'[L + 1] = pending
        /\ \A k \in 1 .. L : suffix'[k] = suffix[k]
    BY <1>3, <2>1, <2>2
  <2> QED BY <2>3 DEF E
<1>10. \A k \in 1 .. L : suffix[k].hash \in DOMAIN accepted /\ suffix[k].hash # h /\ suffix[k].pi \in Nat
  BY <1>1, <1>2, SuffixType DEF SuffixAccepted
<1>11. \A k \in 1 .. L + 1 : k \in 1 .. L \/ k = L + 1
  BY <1>8
<1>12. TypeOK'
  <2>1. \A x \in DOMAIN accepted' : accepted'[x] \in Offset .. MaxGpi - 1
    BY <1>1, <1>2, <1>5 DEF TypeOK
  <2> QED BY <1>1, <1>2, <1>3, <1>4, <1>6, <1>7, <1>9, <2>1 DEF TypeOK, NoAppend
<1>13. SuffixAccepted'
  <2> DEFINE H(k) == suffix'[k].hash
  <2>1. \A k \in 1 .. L : H(k) = suffix[k].hash /\ suffix'[k].pi = suffix[k].pi
    BY <1>9
  <2>2. H(L + 1) = h /\ suffix'[L + 1].pi = p
    BY <1>9
  <2> HIDE DEF H
  <2>3. DOMAIN accepted' = {H(k) : k \in 1 .. L + 1}
    BY <1>1, <1>5, <1>8, <1>11, <2>1, <2>2 DEF SuffixAccepted
  <2>4. \A k \in 1 .. L + 1 : accepted'[H(k)] = suffix'[k].pi + Offset
    <3>1. \A k \in 1 .. L : accepted[suffix[k].hash] = suffix[k].pi + Offset
      BY <1>1 DEF SuffixAccepted
    <3>2. \A k \in 1 .. L : accepted'[H(k)] = suffix'[k].pi + Offset
      BY <1>5, <1>10, <2>1, <3>1
    <3> QED BY <1>5, <1>11, <2>2, <3>2
  <2>5. \A k, l \in 1 .. L + 1 : H(k) = H(l) => k = l
    BY <1>1, <1>10, <1>11, <2>1, <2>2 DEF SuffixAccepted
  <2> QED BY <1>9, <2>3, <2>4, <2>5 DEF SuffixAccepted, H
<1>14. MemoryAccepted'
  <2>1. /\ DOMAIN map = DOMAIN accepted
        /\ \A x \in DOMAIN map :
             /\ accepted[x] = map[x] + Offset /\ map[x] \in Nat
             /\ map[x] < Len(hashBytes) /\ hashBytes[map[x] + 1] = x
        /\ \A i \in 1 .. Len(hashBytes) : hashBytes[i] # NoHash =>
             hashBytes[i] \in DOMAIN map /\ map[hashBytes[i]] = i - 1
    BY <1>1, <1>2 DEF MemoryAccepted, TypeOK
  <2>2. ASSUME NEW x \in DOMAIN map'
        PROVE  /\ accepted'[x] = map'[x] + Offset
               /\ map'[x] < Len(hashBytes') /\ hashBytes'[map'[x] + 1] = x
    <3>1. CASE x = h
      BY <1>2, <1>4, <1>5, <1>6, <3>1
    <3>2. CASE x # h
      <4>1. x \in DOMAIN map /\ map'[x] = map[x] /\ accepted'[x] = accepted[x]
        BY <1>4, <1>5, <2>1, <2>2, <3>2
      <4>2. map[x] + 1 \in 1 .. Len(hashBytes)
        BY <1>8, <2>1, <4>1
      <4>3. hashBytes'[map[x] + 1] = x
        BY <1>6, <2>1, <4>1, <4>2
      <4>4. map[x] < p + 1
        BY <1>2, <1>8, <2>1, <4>1
      <4>5. accepted[x] = map[x] + Offset
        BY <2>1, <4>1
      <4> QED BY <1>6, <4>1, <4>3, <4>4, <4>5
    <3> QED BY <3>1, <3>2
  <2>3. ASSUME NEW i \in 1 .. Len(hashBytes'), hashBytes'[i] # NoHash
        PROVE  hashBytes'[i] \in DOMAIN map' /\ map'[hashBytes'[i]] = i - 1
    <3>1. i \in 1 .. Len(hashBytes) \/ i = p + 1
      <4>1. i \in 1 .. Len(hashBytes) \/ i \in Len(hashBytes) + 1 .. p \/ i = p + 1
        BY <1>2, <1>6, <1>8
      <4> QED BY <1>6, <2>3, <4>1
    <3>2. CASE i = p + 1
      BY <1>2, <1>4, <1>6, <3>2
    <3>3. CASE i \in 1 .. Len(hashBytes)
      <4>1. hashBytes[i] \in DOMAIN map /\ map[hashBytes[i]] = i - 1 /\ hashBytes'[i] = hashBytes[i]
        BY <1>6, <2>1, <2>3, <3>3
      <4> QED BY <1>2, <1>4, <2>1, <4>1
    <3> QED BY <3>1, <3>2, <3>3
  <2> QED BY <1>3, <1>4, <1>5, <2>1, <2>2, <2>3 DEF MemoryAccepted
<1>15. PendingNew'
  BY <1>3 DEF PendingNew
<1>16. Entries' = Entries /\ \A i : (IsEntry(i) <=> IsEntry(i)') /\ Rank(i)' = Rank(i)
  BY <1>3 DEF Entries, IsEntry, Rank
<1>17. Accounted = L + 1 /\ Accounted' = L + 1 /\ (Torn' <=> Torn)
  BY <1>2, <1>3, <1>9, <1>16 DEF Accounted, Torn
<1>18. NeverMadeUpFor'
  BY <1>1, <1>3, <1>16, <1>17 DEF NeverMadeUpFor
<1>19. ASSUME ~Torn
       PROVE  /\ \A k \in 1 .. L + 1 : \E i \in 1 .. Len(order) :
                   i = suffix'[k].pi + 1 /\ IsEntry(i) /\ Rank(i) = k
              /\ \A i \in 1 .. Len(order) : IsEntry(i) => order[i] = i - 1
              /\ \A i \in 1 .. Len(order) : IsEntry(i) /\ Rank(i) <= L + 1 =>
                   suffix'[Rank(i)].pi = i - 1
              /\ \A i \in 1 .. Len(order) : hashBytes'[i] = ReadHashBytes'[i]
              /\ Len(order) = p + 1
  <2>1. /\ \A k \in 1 .. L :
             /\ suffix[k].pi + 1 \in 1 .. Len(order) /\ IsEntry(suffix[k].pi + 1)
             /\ Rank(suffix[k].pi + 1) = k
        /\ \A i \in 1 .. Len(order) : IsEntry(i) => order[i] = i - 1
        /\ \A i \in 1 .. Len(order) : IsEntry(i) /\ Rank(i) <= L => suffix[Rank(i)].pi = i - 1
        /\ \A i \in 1 .. Len(order) : IF i <= Len(hashBytes) THEN hashBytes[i] = ReadHashBytes[i]
                                      ELSE IsEntry(i) => i = Len(order)
        /\ Len(order) = p + 1
    BY <1>1, <1>2, <1>19 DEF Aligned
  <2>2. Entries = L + 1
    BY <1>1, <1>8, <1>17, <1>19 DEF Torn, NeverMadeUpFor
  <2>3. IsEntry(p + 1) /\ Rank(p + 1) = L + 1 /\ p + 1 \in 1 .. Len(order)
    <3>1. order # <<>>
      BY <1>2, <2>1
    <3> QED BY <1>1, <1>2, <2>1, <2>2, <3>1 DEF NeverMadeUpFor, Entries
  <2>4. ASSUME NEW i \in 1 .. Len(order), IsEntry(i), i # p + 1
        PROVE  Rank(i) \in 1 .. L
    <3>1. i \in Nat \ {0} /\ i < p + 1 /\ p + 1 \in Nat
      BY <1>2, <2>1, <2>4
    <3>2. order[i] # NoMatch /\ order[p + 1] # NoMatch
      BY <2>3, <2>4 DEF IsEntry
    <3>3. RankIn(order, i) < RankIn(order, p + 1)
      BY <3>1, <3>2, RankMonotone
    <3>4. RankIn(order, i) \in Nat \ {0}
      BY <3>1, <3>2, RankPositive
    <3>5. Rank(i) = RankIn(order, i) /\ Rank(p + 1) = RankIn(order, p + 1)
      BY RankIs
    <3> QED BY <1>8, <2>3, <3>3, <3>4, <3>5
  <2>5. ASSUME NEW k \in 1 .. L + 1
        PROVE  /\ suffix'[k].pi + 1 \in 1 .. Len(order) /\ IsEntry(suffix'[k].pi + 1)
               /\ Rank(suffix'[k].pi + 1) = k
    BY <1>9, <1>11, <2>1, <2>3
  <2>6. ASSUME NEW i \in 1 .. Len(order), IsEntry(i)
        PROVE  suffix'[Rank(i)].pi = i - 1
    <3>1. CASE i = p + 1
      <4>1. Rank(i) = L + 1 /\ i - 1 = p
        BY <1>2, <2>3, <3>1
      <4> QED BY <1>9, <4>1
    <3>2. CASE i # p + 1
      <4>1. Rank(i) \in 1 .. L
        BY <2>4, <2>6, <3>2
      <4>2. suffix[Rank(i)].pi = i - 1
        BY <1>8, <2>1, <2>6, <4>1
      <4> QED BY <1>9, <4>1, <4>2
    <3> QED BY <3>1, <3>2
  <2>7. ASSUME NEW i \in 1 .. Len(order)
        PROVE  hashBytes'[i] = ReadHashBytes'[i]
    <3>1. ReadHashBytes'[i] = IF IsEntry(i) THEN suffix'[Rank(i)].hash ELSE NoHash
      BY <1>3 DEF ReadHashBytes, IsEntry, Rank
    <3>2. ReadHashBytes[i] = IF IsEntry(i) THEN suffix[Rank(i)].hash ELSE NoHash
      BY DEF ReadHashBytes
    <3>3. CASE i = p + 1
      BY <1>6, <1>9, <2>3, <3>1, <3>3
    <3>4. CASE i <= Len(hashBytes)
      <4>1. i \in 1 .. Len(hashBytes) /\ i # p + 1
        BY <1>2, <1>8, <3>4
      <4>2. hashBytes'[i] = ReadHashBytes[i]
        BY <1>6, <2>1, <3>4, <4>1
      <4>3. IsEntry(i) => suffix'[Rank(i)] = suffix[Rank(i)]
        BY <1>9, <2>4, <4>1
      <4> QED BY <3>1, <3>2, <4>2, <4>3
    <3>5. CASE ~(i <= Len(hashBytes)) /\ i # p + 1
      <4>1. i \in Len(hashBytes) + 1 .. p
        BY <1>2, <1>8, <2>1, <3>5
      <4>2. ~IsEntry(i)
        BY <2>1, <3>5
      <4> QED BY <1>6, <3>1, <4>1, <4>2
    <3> QED BY <3>3, <3>4, <3>5
  <2> QED BY <2>1, <2>5, <2>6, <2>7
<1>20. Aligned'
  <2> SUFFICES ASSUME ~Torn
               PROVE  /\ \A k \in 1 .. Len(suffix') : \E i \in 1 .. Len(order') :
                           i = suffix'[k].pi + 1 /\ IsEntry(i)' /\ Rank(i)' = k
                      /\ \A i \in 1 .. Len(order') : IsEntry(i)' => order'[i] = i - 1
                      /\ \A i \in 1 .. Len(order') : IsEntry(i)' /\ Rank(i)' <= Len(suffix') =>
                           suffix'[Rank(i)'].pi = i - 1
                      /\ \A i \in 1 .. Len(order') :
                           i <= Len(hashBytes') /\ hashBytes'[i] = ReadHashBytes'[i]
                      /\ Len(order') = Len(hashBytes')
    BY <1>3, <1>17 DEF Aligned
  <2>1. Len(order') = Len(order) /\ Len(suffix') = L + 1 /\ Len(hashBytes') = Len(order)
    BY <1>3, <1>6, <1>9, <1>19
  <2>2. order' = order
    BY <1>3
  <2>3. \A k \in 1 .. L + 1 : \E i \in 1 .. Len(order) :
          i = suffix'[k].pi + 1 /\ IsEntry(i)' /\ Rank(i)' = k
    BY <1>16, <1>19
  <2>4. \A i \in 1 .. Len(order) : IsEntry(i)' => order[i] = i - 1
    BY <1>16, <1>19
  <2>5. \A i \in 1 .. Len(order) : IsEntry(i)' /\ Rank(i)' <= L + 1 => suffix'[Rank(i)'].pi = i - 1
    BY <1>16, <1>19
  <2>6. \A i \in 1 .. Len(order) : i <= Len(order) /\ hashBytes'[i] = ReadHashBytes'[i]
    BY <1>19
  <2> QED BY <2>1, <2>2, <2>3, <2>4, <2>5, <2>6
<1> QED BY <1>12, <1>13, <1>14, <1>15, <1>18, <1>20 DEF NeverMisread

\* A failed write leaves the files torn and memory as it was.
LEMMA AppendSuffixFailsStep ==
  ASSUME NeverMisread, AppendSuffixFails
  PROVE  NeverMisread'
<1>1. /\ pc = "between" /\ pc' = "open" /\ pending' = NoAppend
      /\ faults' = faults + 1 /\ faults < MaxFaults
      /\ UNCHANGED <<order, suffix, map, hashBytes, accepted>>
  BY DEF AppendSuffixFails, files, memory
<1>2. TypeOK /\ SuffixAccepted /\ MemoryAccepted /\ NeverMadeUpFor
  BY DEF NeverMisread
<1>3. TypeOK'
  BY <1>1, <1>2 DEF TypeOK, NoAppend
<1>4. SuffixAccepted' /\ MemoryAccepted' /\ PendingNew'
  BY <1>1, <1>2 DEF SuffixAccepted, MemoryAccepted, PendingNew
<1>5. Entries' = Entries /\ \A i : (IsEntry(i) <=> IsEntry(i)')
  BY <1>1 DEF Entries, IsEntry, Rank
<1>6. Entries \in Nat /\ Len(suffix) \in Nat
  BY <1>2, EntriesType
<1>7. Torn' /\ NeverMadeUpFor'
  <2>1. Entries >= Len(suffix) + 1
    BY <1>1, <1>2 DEF NeverMadeUpFor, Accounted
  <2>2. Accounted' = Len(suffix) /\ faults' # 0
    BY <1>1, <1>2 DEF Accounted, TypeOK
  <2> QED BY <1>1, <1>2, <1>5, <1>6, <2>1, <2>2 DEF NeverMadeUpFor, Torn
<1> QED BY <1>3, <1>4, <1>7 DEF NeverMisread, Aligned

\* Every step of an input tier keeps the invariant.
LEMMA NextNeverMisread ==
  ASSUME NeverMisread, [Next]_vars
  PROVE  NeverMisread'
<1>1. CASE OpenInputTier
  BY <1>1, OpenStep
<1>2. CASE Close \/ AppendSuffixPanics
  BY <1>2, GoneStep DEF Close, AppendSuffixPanics
<1>3. CASE Crash
  BY <1>3, GoneStep DEF Crash
<1>4. CASE \E gpi \in Offset .. MaxGpi - 1, h \in Hashes : AppendOrder(gpi, h)
  BY <1>4, AppendOrderStep
<1>5. CASE \E gpi \in Offset .. MaxGpi - 1, h \in Hashes : AppendOrderPanics(gpi, h)
  BY <1>5, GoneStep DEF AppendOrderPanics, Presentable
<1>6. CASE AppendSuffix \/ AppendSuffixFails
  BY <1>6, AppendSuffixStep, AppendSuffixFailsStep
<1>7. CASE UNCHANGED vars
  <2>1. UNCHANGED <<order, suffix, map, hashBytes, pc, pending, accepted, faults>>
    BY <1>7 DEF vars, files, memory
  <2>2. TypeOK' /\ SuffixAccepted' /\ MemoryAccepted' /\ PendingNew'
    <3>1. TypeOK'
      BY <2>1 DEF NeverMisread, TypeOK
    <3>2. SuffixAccepted'
      BY <2>1 DEF NeverMisread, SuffixAccepted
    <3>3. MemoryAccepted' /\ PendingNew'
      BY <2>1 DEF NeverMisread, MemoryAccepted, PendingNew
    <3> QED BY <3>1, <3>2, <3>3
  <2>3. /\ Entries' = Entries /\ (Torn' <=> Torn) /\ Accounted' = Accounted
        /\ \A i : (IsEntry(i)' <=> IsEntry(i)) /\ Rank(i)' = Rank(i)
        /\ ReadHashBytes' = ReadHashBytes
    BY <2>1 DEF Torn, Accounted, Entries, Rank, IsEntry, ReadHashBytes
  <2>4. NeverMadeUpFor'
    BY <2>1, <2>3 DEF NeverMisread, NeverMadeUpFor
  <2>5. Aligned'
    BY <2>1, <2>3 DEF NeverMisread, Aligned
  <2> QED BY <2>2, <2>4, <2>5 DEF NeverMisread
<1> QED BY <1>1, <1>2, <1>3, <1>4, <1>5, <1>6, <1>7 DEF Next

(*****************************************************************************)
(* What follows for an input tier                                            *)
(*****************************************************************************)
\* However many appends break off between their writes, and wherever the gaps are:
\* what memory and HashSuffix.bin hold is what was accepted, and HashesOrder.bin
\* either fits them or shows that it does not.
THEOREM FilesNeverMisread == Spec => []NeverMisread
<1>1. Init => NeverMisread
  BY InitNeverMisread
<1>2. NeverMisread /\ [Next]_vars => NeverMisread'
  BY NextNeverMisread
<1> QED BY <1>1, <1>2, PTL DEF Spec

\* An open input tier answers for a hash, and for an index, exactly what AppendHash
\* accepted, for every size, gap, crash and write error.
THEOREM LookupsAreExact == Spec => []LookupsExact
<1>1. ASSUME NeverMisread, pc \in {"open", "full"}, NEW h \in Hashes
      PROVE  LookupHash(h) = IF h \in DOMAIN accepted THEN accepted[h] ELSE NoMatch
  BY <1>1 DEF NeverMisread, MemoryAccepted, LookupHash
<1>2. ASSUME NeverMisread, pc \in {"open", "full"}, NEW gpi \in 0 .. MaxGpi, NEW h \in Hashes
      PROVE  GetHashAtIndex(gpi) = h <=> h \in DOMAIN accepted /\ accepted[h] = gpi
  <2>1. /\ DOMAIN map = DOMAIN accepted
        /\ \A x \in DOMAIN map :
             /\ accepted[x] = map[x] + Offset /\ map[x] \in Nat
             /\ map[x] < Len(hashBytes) /\ hashBytes[map[x] + 1] = x
        /\ \A i \in 1 .. Len(hashBytes) : hashBytes[i] # NoHash =>
             hashBytes[i] \in DOMAIN map /\ map[hashBytes[i]] = i - 1
        /\ Len(hashBytes) \in Nat
    BY <1>2 DEF NeverMisread, MemoryAccepted, TypeOK
  <2>2. ASSUME GetHashAtIndex(gpi) = h
        PROVE  h \in DOMAIN accepted /\ accepted[h] = gpi
    <3>1. /\ gpi - Offset + 1 \in 1 .. Len(hashBytes)
          /\ hashBytes[gpi - Offset + 1] = h /\ h # NoHash
      BY <1>2, <2>1, <2>2 DEF GetHashAtIndex
    <3>2. h \in DOMAIN map /\ map[h] = gpi - Offset
      BY <2>1, <3>1
    <3> QED BY <2>1, <3>2
  <2>3. ASSUME h \in DOMAIN accepted, accepted[h] = gpi
        PROVE  GetHashAtIndex(gpi) = h
    <3>1. map[h] = gpi - Offset /\ map[h] \in Nat /\ map[h] < Len(hashBytes)
      BY <2>1, <2>3
    <3> QED BY <2>1, <2>3, <3>1 DEF GetHashAtIndex
  <2> QED BY <2>2, <2>3
<1>3. NeverMisread => LookupsExact
  BY <1>1, <1>2 DEF LookupsExact
<1> QED BY <1>3, FilesNeverMisread, PTL

\* Closing an input tier and opening it again changes nothing in memory, whenever the
\* files can be read at all.
THEOREM ReadsBackTheSame == Spec => []ReadBackSame
<1>1. ASSUME NeverMisread, pc \in {"open", "full"}, Readable
      PROVE  ReadMap = map /\ ReadHashBytes = hashBytes
  <2>1. ReadMap \in [DOMAIN accepted -> Nat] /\ map \in [DOMAIN accepted -> Nat]
    BY <1>1, ReadMapAccepted DEF NeverMisread, TypeOK, MemoryAccepted
  <2>2. ASSUME NEW h \in DOMAIN accepted
        PROVE  ReadMap[h] = map[h]
    <3>1. PICK k \in 1 .. Len(suffix) : h = suffix[k].hash
      BY <1>1 DEF NeverMisread, SuffixAccepted
    <3>2. ReadMap[h] = suffix[k].pi /\ suffix[k].pi \in Nat
      BY <1>1, <3>1, ReadMapAccepted, SuffixType DEF NeverMisread
    <3>3. map[h] + Offset = suffix[k].pi + Offset /\ map[h] \in Nat
      BY <1>1, <2>1, <3>1 DEF NeverMisread, SuffixAccepted, MemoryAccepted
    <3> QED BY <3>2, <3>3
  <2>3. ~Torn
    BY <1>1, TornUnreadable
  <2>4. /\ Len(order) = Len(hashBytes) /\ Len(order) \in Nat
        /\ \A i \in 1 .. Len(order) : hashBytes[i] = ReadHashBytes[i]
    BY <1>1, <2>3 DEF NeverMisread, Aligned, TypeOK
  <2>5. hashBytes = [i \in 1 .. Len(order) |-> hashBytes[i]]
    BY <1>1, <2>4 DEF NeverMisread, TypeOK
  <2>6. ReadHashBytes = [i \in 1 .. Len(order) |-> ReadHashBytes[i]]
    BY DEF ReadHashBytes
  <2>7. ReadHashBytes = hashBytes
    BY <2>4, <2>5, <2>6
  <2> QED BY <2>1, <2>2, <2>7
<1>2. NeverMisread => ReadBackSame
  BY <1>1 DEF ReadBackSame
<1> QED BY <1>2, FilesNeverMisread, PTL

\* As long as no write failed and no process died, the files are readable until the
\* indices come to the largest number of two bytes.
THEOREM AlwaysReopensUntilFull == Spec => []ReopensUntilFull
<1>1. ASSUME NeverMisread, faults = 0, pc # "between", Len(order) <= Ones2
      PROVE  Readable
  <2>1. Len(order) \in Nat /\ Len(suffix) \in Nat /\ Entries \in Nat
        /\ Entries = RankIn(order, Len(order))
    BY <1>1, EntriesType DEF NeverMisread
  <2>2. ~Torn
    BY <1>1, <2>1 DEF NeverMisread, NeverMadeUpFor
  <2>3. Entries = Len(suffix)
    BY <1>1, <2>1, <2>2 DEF NeverMisread, NeverMadeUpFor, Torn, Accounted
  <2>4. ASSUME NEW i \in 1 .. Len(order), IsEntry(i)
        PROVE  Rank(i) <= Len(suffix) /\ order[i] = ReadID16(suffix[Rank(i)].pi)
    <3>1. RankIn(order, i) <= RankIn(order, Len(order))
      BY <2>1, RankMonotone
    <3>2. Rank(i) <= Len(suffix)
      BY <2>1, <2>3, <3>1, RankIs
    <3>3. order[i] = i - 1 /\ suffix[Rank(i)].pi = i - 1
      BY <1>1, <2>2, <2>4, <3>2 DEF NeverMisread, Aligned
    <3>4. i - 1 # Ones2
      BY <1>1, <2>1
    <3> QED BY <3>2, <3>3, <3>4 DEF ReadID16
  <2> QED BY <2>4 DEF Readable
<1>2. NeverMisread => ReopensUntilFull
  BY <1>1 DEF ReopensUntilFull
<1> QED BY <1>2, FilesNeverMisread, PTL

\* A file with each hash once has one index for each.
LEMMA IndexOfEntries ==
  ASSUME NEW s, \A k, l \in 1 .. Len(s) : s[k].hash = s[l].hash => k = l
  PROVE  /\ IndexOf(s) = [h \in {s[k].hash : k \in 1 .. Len(s)} |-> IndexOf(s)[h]]
         /\ \A k \in 1 .. Len(s) : IndexOf(s)[s[k].hash] = s[k].pi + Offset
<1> DEFINE found == {s[k] : k \in 1 .. Len(s)}
           hashes == {s[k].hash : k \in 1 .. Len(s)}
<1>1. {e.hash : e \in found} = hashes
  OBVIOUS
<1>2. IndexOf(s) = [h \in hashes |-> (CHOOSE e \in found : e.hash = h).pi + Offset]
  BY <1>1 DEF IndexOf
<1>3. ASSUME NEW k \in 1 .. Len(s)
      PROVE  (CHOOSE e \in found : e.hash = s[k].hash) = s[k]
  <2>1. PICK e \in found : e = (CHOOSE f \in found : f.hash = s[k].hash) /\ e.hash = s[k].hash
    OBVIOUS
  <2>2. PICK l \in 1 .. Len(s) : e = s[l]
    OBVIOUS
  <2> QED BY <2>1, <2>2
<1>4. \A k \in 1 .. Len(s) : s[k].hash \in hashes
  OBVIOUS
<1> HIDE DEF found, hashes
<1>5. \A k \in 1 .. Len(s) : IndexOf(s)[s[k].hash] = s[k].pi + Offset
  BY <1>2, <1>3, <1>4
<1>6. IndexOf(s) = [h \in hashes |-> IndexOf(s)[h]]
  BY <1>2
<1> QED BY <1>5, <1>6 DEF hashes

\* HashSuffix.bin by itself is the append-only index of HashIndex, whatever breaks off:
\* the second write of an append is the step that adds a hash, with a later index than
\* all others.
THEOREM SuffixImplemented == Spec => SuffixSpec
<1>1. Init => Index!Init
  <2> SUFFICES ASSUME Init PROVE IndexOf(suffix) = [h \in {} |-> 0]
    BY DEF Index!Init
  <2>1. {suffix[i] : i \in 1 .. Len(suffix)} = {}
    BY DEF Init
  <2> QED BY <2>1 DEF IndexOf
<1>2. ASSUME NeverMisread, NeverMisread', [Next]_vars
      PROVE  Index!Next \/ UNCHANGED IndexOf(suffix)
  <2>1. CASE UNCHANGED suffix
    BY <2>1 DEF IndexOf
  <2>2. CASE AppendSuffix
    <3> DEFINE I == IndexOf(suffix)
               J == IndexOf(suffix')
               h == pending.hash
    <3>1. /\ I = [x \in DOMAIN accepted |-> I[x]]
          /\ \A x \in DOMAIN accepted : I[x] = accepted[x]
      <4>1. /\ DOMAIN accepted = {suffix[k].hash : k \in 1 .. Len(suffix)}
            /\ \A k \in 1 .. Len(suffix) : accepted[suffix[k].hash] = suffix[k].pi + Offset
            /\ \A k, l \in 1 .. Len(suffix) : suffix[k].hash = suffix[l].hash => k = l
        BY <1>2 DEF NeverMisread, SuffixAccepted
      <4>2. /\ I = [x \in {suffix[k].hash : k \in 1 .. Len(suffix)} |-> I[x]]
            /\ \A k \in 1 .. Len(suffix) : I[suffix[k].hash] = suffix[k].pi + Offset
        BY <4>1, IndexOfEntries
      <4> HIDE DEF I
      <4> QED BY <4>1, <4>2
    <3>2. /\ J = [x \in DOMAIN accepted' |-> J[x]]
          /\ \A x \in DOMAIN accepted' : J[x] = accepted'[x]
      <4>1. /\ DOMAIN accepted' = {suffix'[k].hash : k \in 1 .. Len(suffix')}
            /\ \A k \in 1 .. Len(suffix') : accepted'[suffix'[k].hash] = suffix'[k].pi + Offset
            /\ \A k, l \in 1 .. Len(suffix') : suffix'[k].hash = suffix'[l].hash => k = l
        BY <1>2 DEF NeverMisread, SuffixAccepted
      <4>2. /\ J = [x \in {suffix'[k].hash : k \in 1 .. Len(suffix')} |-> J[x]]
            /\ \A k \in 1 .. Len(suffix') : J[suffix'[k].hash] = suffix'[k].pi + Offset
        BY <4>1, IndexOfEntries
      <4> HIDE DEF J
      <4> QED BY <4>1, <4>2
    <3> HIDE DEF I, J
    <3>3. /\ h \in Hashes \ DOMAIN accepted /\ pending.pi \in Nat
          /\ Len(hashBytes) <= pending.pi /\ Len(hashBytes) \in Nat
      BY <1>2, <2>2 DEF AppendSuffix, NeverMisread, PendingNew, TypeOK
    <3>4. /\ DOMAIN accepted' = DOMAIN accepted \cup {h} /\ accepted'[h] = pending.pi + Offset
          /\ \A x \in DOMAIN accepted : accepted'[x] = accepted[x]
      BY <2>2, <3>3 DEF AppendSuffix
    <3>5. \A x \in DOMAIN accepted : accepted[x] < pending.pi + Offset
      <4>1. /\ DOMAIN map = DOMAIN accepted
            /\ \A x \in DOMAIN map : accepted[x] = map[x] + Offset /\ map[x] < Len(hashBytes)
        BY <1>2, <2>2 DEF AppendSuffix, NeverMisread, MemoryAccepted
      <4>2. \A x \in DOMAIN map : map[x] \in Nat
        BY <1>2 DEF NeverMisread, TypeOK
      <4> QED BY <3>3, <4>1, <4>2
    <3>6. \A x \in DOMAIN accepted' : accepted'[x] \in Offset .. MaxGpi - 1
      BY <1>2 DEF NeverMisread, TypeOK
    <3>7. /\ h \in Hashes \ DOMAIN I /\ J \in [DOMAIN I \cup {h} -> Offset .. MaxGpi - 1]
          /\ \A x \in DOMAIN I : J[x] = I[x] /\ I[x] < J[h]
      BY <3>1, <3>2, <3>3, <3>4, <3>5, <3>6
    <3>8. h \in DOMAIN J \ DOMAIN I
      BY <3>7
    <3> QED BY <3>7, <3>8 DEF Index!Next, Index!Append, I, J
  <2>3. UNCHANGED suffix \/ AppendSuffix
    BY <1>2 DEF Next, vars, files, OpenInputTier, Close, Crash, AppendOrder, AppendOrderPanics,
       AppendSuffixPanics, AppendSuffixFails
  <2> QED BY <2>1, <2>2, <2>3
<1> QED BY <1>1, <1>2, FilesNeverMisread, PTL DEF Spec, SuffixSpec, Index!Spec

=============================================================================
