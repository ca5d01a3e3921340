------------------------------- MODULE TierBake -------------------------------
(***************************************************************************)
(* BakeFrozenTierToDonutFolder (tierbake/tierbake.go): the donuts of a     *)
(* frozen tier become one donut of the next tier.  Cake.tla has the same   *)
(* bake with a number per prefix and a hash for each entry; this module    *)
(* has what those stand for: nibbles packed into bytes, file paths made    *)
(* of prefixes, positions in files, local indices with an offset, and      *)
(* integers of a few bytes whose largest value means "no match".           *)
(*                                                                         *)
(* A donut is a HashesOrder.bin (order: an entry for each local index, a   *)
(* prefix index and a position) and HashSuffix.bin files (files: for each  *)
(* path the entries, a packed suffix and a local index).  The numbers in   *)
(* them are as written: Read... and Fits... say what the integer types of  *)
(* smalltree/multibytetypes.go make of them.                               *)
(***************************************************************************)
EXTENDS Integers, Sequences, FiniteSets, Functions

CONSTANTS
  NibbleBase,     \* the values of a nibble: 16
  HashNibbles,    \* nibbles in a hash: 64
  Digits,         \* digitsPerFolder: 2
  Words,          \* 2^64
  PrefixOnes,     \* largest prefix index in the bytes it has at each tier
  LocalOnes,      \* largest local index in the bytes it has at each tier
  SuffixOnes,     \* largest position in its three bytes
  Tiers,          \* the tiers that are baked
  TierOffset,     \* the offset of the tier
  DonutSize,      \* the local indices of a donut of each tier
  Donuts,         \* the donuts of a tier: 16
  Decks,          \* what was presented: sequences of hashes and NoHash for gaps
  NoHash,         \* a gap
  Holes           \* the indices an orphaned folder may take before a later donut

ASSUME TierBakeAssumption ==
  /\ {NibbleBase, Digits, Donuts} \subseteq Nat \ {0} /\ NibbleBase > 1
  /\ {HashNibbles, Words, SuffixOnes, TierOffset} \subseteq Nat
  /\ \A t \in Tiers : t \in Nat /\ t + 1 < HashNibbles /\ DonutSize[t] \in Nat \ {0}
  /\ Holes \subseteq Nat

\* A source donut has no index that reads back as "no match". A local index has room for
\* the new donut up to a hole, or else it is of three bytes, which do not take all ones;
\* eight bytes have room in any case. (In the code the four bytes of tier 4 have room for
\* 65535 * 16^4 indices and a hole of one input tier.)
ASSUME WidthsAssumption ==
  \A t \in Tiers :
    /\ {PrefixOnes[t + 1], LocalOnes[t], LocalOnes[t + 1]} \subseteq Nat
    /\ DonutSize[t] <= LocalOnes[t]
    /\ \A hole \in Holes :
         LET span == Donuts * DonutSize[t] + hole
         IN  span < Words /\ (t + 1 > 2 => span <= LocalOnes[t + 1])

Power[n \in Nat] == IF n = 0 THEN 1 ELSE NibbleBase * Power[n - 1]

\* Every hash is presented once.
Hash == [1 .. HashNibbles -> 0 .. NibbleBase - 1]
ASSUME DecksAssumption ==
  /\ NoHash \notin Hash
  /\ \A deck \in Decks :
       /\ deck \in Seq(Hash \cup {NoHash})
       /\ \A t \in Tiers : Len(deck) >= Donuts * DonutSize[t]
       /\ \A i, j \in 1 .. Len(deck) : deck[i] = deck[j] /\ deck[i] # NoHash => i = j

\* What else a bake needs to run to its end: the integers have room for the numbers of
\* donuts without a hole. The prefixes of tier 2 are all that one byte can say, elsewhere
\* one value is left; no prefix has more hashes than there are positions. 2^64 is a power
\* of 16, and indices do not reach it.
ASSUME RoomAssumption ==
  /\ SuffixOnes > 0
  /\ \A t \in Tiers :
       /\ t = 2 => PrefixOnes[t] = Power[t] - 1
       /\ t \notin {0, 2} => PrefixOnes[t] >= Power[t]
       /\ PrefixOnes[t + 1] >= Power[t + 1] - 1 /\ PrefixOnes[t + 1] + NibbleBase < Words
       /\ Words % Power[t + 1] = 0
       /\ Donuts * DonutSize[t] <= LocalOnes[t + 1]
       /\ \A hole \in Holes : TierOffset + Donuts * DonutSize[t] + hole < Words
       /\ \A deck \in Decks : \A i \in 1 .. Donuts * DonutSize[t] :
            Cardinality({j \in 1 .. Donuts * DonutSize[t] :
              /\ {deck[i], deck[j]} \subseteq Hash
              /\ SubSeq(deck[j], 1, t + 1) = SubSeq(deck[i], 1, t + 1)}) <= SuffixOnes

VARIABLES
  tier,       \* sourceTierIndex
  sources,    \* the donuts of the frozen tier
  offsets,    \* donutOffsets
  new,        \* the donut that is made
  updates,    \* the TempUpdates file of each source donut
  pc,         \* where in the function the bake is, or how it ended
  prefix,     \* prefixIndex
  donut,      \* forest: the source donut at hand, from 1
  at,         \* the entries read so far of the file at hand
  first,      \* hash: what ForwardLookup(0) found before the bake
  presented   \* history: the index of each hash

vars == <<tier, sources, offsets, new, updates, pc, prefix, donut, at, first, presented>>

NoMatch == Words - 1        \* 64 bits of all ones

\* As in Cake.tla, a definition that is used nowhere is a faulty variant of one
\* that follows it.

(***************************************************************************)
(* Integers of a few bytes                                                 *)
(***************************************************************************)
ReadLocal(t, id) == IF id = LocalOnes[t] THEN NoMatch ELSE id
ReadSuffixIndex(id) == IF id = SuffixOnes THEN NoMatch ELSE id
\* Tier 0 has no bytes for a prefix index.
ReadPrefix(t, id) ==
  IF t = 0 THEN 0 ELSE IF id = PrefixOnes[t] THEN NoMatch ELSE id

\* Three bytes do not take all ones; one, two and four bytes do.
Fits24(id, ones) == id < ones
Fits(id, ones) == id <= ones
FitsLocal(t, id) == IF t \in {1, 2} THEN Fits24(id, LocalOnes[t]) ELSE Fits(id, LocalOnes[t])

(***************************************************************************)
(* Nibbles, prefixes and paths                                             *)
(***************************************************************************)
\* A byte is two nibbles, the first one the more significant.
Packed(nibbles) ==
  [b \in 1 .. (Len(nibbles) + 1) \div 2 |->
     NibbleBase * nibbles[2 * b - 1] + IF 2 * b <= Len(nibbles) THEN nibbles[2 * b] ELSE 0]
Unpacked(bytes, n) ==
  [i \in 1 .. n |-> IF i % 2 = 1 THEN bytes[(i + 1) \div 2] \div NibbleBase
                                 ELSE bytes[i \div 2] % NibbleBase]

PrefixNibbles(p, n) == [i \in 1 .. n |-> (p \div Power[n - i]) % NibbleBase]
PrefixIndex(nibbles) ==
  LET index[i \in 0 .. Len(nibbles)] ==
        IF i = 0 THEN 0 ELSE NibbleBase * index[i - 1] + nibbles[i]
  IN  index[Len(nibbles)]

\* The last digits are the file name, those before them the folders; the first
\* folder has the digits that are left over.
FilePath(nibbles) ==
  LET parts == (Len(nibbles) + Digits - 1) \div Digits
      end(k) == Len(nibbles) - Digits * (parts - k)
  IN  [k \in 1 .. parts |-> SubSeq(nibbles, IF k = 1 THEN 1 ELSE end(k - 1) + 1, end(k))]

(***************************************************************************)
(* Reading a donut d of tier t                                             *)
(***************************************************************************)
SuffixFile(d, p) ==
  IF FilePath(p) \in DOMAIN d.files THEN d.files[FilePath(p)] ELSE <<>>
HashOf(p, entry) == p \o Unpacked(entry.suffix, HashNibbles - Len(p))

\* Where the entry of HashesOrder.bin for a local index leads.
PrefixAt(d, t, pi) == PrefixNibbles(ReadPrefix(t, d.order[pi + 1].prefix), t)
PositionAt(d, pi) == ReadSuffixIndex(d.order[pi + 1].suffix) + 1
Leads(d, t, pi) ==
  /\ pi < Len(d.order)
  /\ PositionAt(d, pi) \in DOMAIN SuffixFile(d, PrefixAt(d, t, pi))

\* The hash of a local index; NoHash stands for the error returns and the panic.
ForwardLookup(d, t, pi) ==
  IF ~ Leads(d, t, pi) THEN NoHash
  ELSE LET p == PrefixAt(d, t, pi)
           entry == SuffixFile(d, p)[PositionAt(d, pi)]
       IN  IF ReadLocal(t, entry.pi) = pi THEN HashOf(p, entry) ELSE NoHash

\* Whether an open tier takes a candidate index for the hash's own.
VerifyPrefix(d, t, hash, pi) ==
  Leads(d, t, pi) /\ PrefixAt(d, t, pi) = SubSeq(hash, 1, t)
VerifyHash(d, t, hash, pi) ==
  /\ Leads(d, t, pi)
  /\ PrefixAt(d, t, pi) = SubSeq(hash, 1, t)
  /\ HashOf(SubSeq(hash, 1, t), SuffixFile(d, SubSeq(hash, 1, t))[PositionAt(d, pi)]) = hash

(***************************************************************************)
(* Init: what earlier bakes made. Donut k of tier t has the hashes of      *)
(* list, in one file per prefix in the order of their local indices, and   *)
(* those lead back to them. A gap has an entry in HashesOrder.bin only.    *)
(***************************************************************************)
Prefixes(t) == {PrefixNibbles(p, t) : p \in 0 .. Power[t] - 1}
Own(list, p) == {i \in 1 .. Len(list) : list[i] # NoHash /\ SubSeq(list[i], 1, Len(p)) = p}
WithPrefix(list, p) ==
  [n \in 1 .. Cardinality(Own(list, p)) |->
     CHOOSE i \in Own(list, p) : Cardinality({j \in Own(list, p) : j <= i}) = n]
FilesOf(list, t) ==
  [path \in {FilePath(p) : p \in Prefixes(t)} |->
     LET p == CHOOSE q \in Prefixes(t) : FilePath(q) = path
         indices == WithPrefix(list, p)
     IN  [i \in 1 .. Len(indices) |->
            [suffix |-> Packed(SubSeq(list[indices[i]], t + 1, HashNibbles)),
             pi |-> indices[i] - 1]]]
OrderOf(list, t) ==
  [i \in 1 .. Len(list) |->
     IF t = 0 THEN [prefix |-> 0, suffix |-> IF list[i] = NoHash THEN SuffixOnes ELSE i - 1]
     ELSE IF list[i] = NoHash THEN [prefix |-> 0, suffix |-> 0]
     ELSE LET p == SubSeq(list[i], 1, t)
          IN  [prefix |-> PrefixIndex(p),
               suffix |-> Cardinality({j \in 1 .. i - 1 :
                            list[j] # NoHash /\ SubSeq(list[j], 1, t) = p})]]

ListOf(deck, k, n) == SubSeq(deck, (k - 1) * n + 1, k * n)
NewDonut == [order |-> <<>>, files |-> [path \in {} |-> <<>>]]

\* A donut whose first index is a gap is refused when it is made.
Init ==
  /\ tier \in Tiers
  /\ \E deck \in Decks, hole \in Holes, after \in 1 .. Donuts - 1 :
       LET size == DonutSize[tier]
           offset(k) == TierOffset + (k - 1) * size + IF k > after THEN hole ELSE 0
       IN  /\ \A k \in 1 .. Donuts : deck[(k - 1) * size + 1] # NoHash
           /\ offsets = [k \in 1 .. Donuts |-> offset(k)]
           /\ sources = [k \in 1 .. Donuts |->
                [order |-> OrderOf(ListOf(deck, k, size), tier),
                 files |-> FilesOf(ListOf(deck, k, size), tier)]]
           /\ presented = [h \in {deck[i] : i \in 1 .. Donuts * size} \ {NoHash} |->
                LET i == CHOOSE j \in 1 .. Donuts * size : deck[j] = h
                    k == (i - 1) \div size + 1
                IN  offset(k) + i - 1 - (k - 1) * size]
  /\ new = NewDonut
  /\ updates = [k \in 1 .. Donuts |-> <<>>]
  /\ pc = "check" /\ prefix = 0 /\ donut = 1 /\ at = 0 /\ first = NoHash

(***************************************************************************)
(* The bake                                                                *)
(***************************************************************************)
given == <<tier, offsets, presented>>
NewOffset == offsets[1]

Failed ==
  /\ pc' = "failed"
  /\ UNCHANGED <<given, sources, new, updates, prefix, donut, at, first>>

\* A lookup of the tier's first index before anything is touched.
Check ==
  /\ pc = "check"
  /\ first' = ForwardLookup(sources[1], tier, 0)
  /\ pc' = IF first' = NoHash THEN "failed" ELSE "prefix"
  /\ UNCHANGED <<given, sources, new, updates, prefix, donut, at>>

\* One empty file for each nibble that may follow the prefix; files of other
\* prefixes are kept.
Truncated(p) ==
  LET made == {FilePath(Append(p, n)) : n \in 0 .. NibbleBase - 1}
  IN  [path \in made \cup DOMAIN new.files |-> IF path \in made THEN <<>> ELSE new.files[path]]

Nibbles == PrefixNibbles(prefix, tier)

OpenPrefix ==
  /\ pc = "prefix"
  /\ prefix < Power[tier]
  /\ new' = [new EXCEPT !.files = Truncated(Nibbles)]
  /\ donut' = 1 /\ at' = 0
  /\ pc' = "copy"
  /\ UNCHANGED <<given, sources, updates, prefix, first>>

\* The entry at hand, its index from the tier's offset, and what follows its prefix.
Reading == pc = "copy" /\ donut <= Donuts /\ at < Len(SuffixFile(sources[donut], Nibbles))
EntryAt == SuffixFile(sources[donut], Nibbles)[at + 1]
LocalPi == ReadLocal(tier, EntryAt.pi)
RebasedNot == LocalPi
RebasedHalf == (LocalPi + offsets[donut]) % Words
Rebased == (LocalPi + offsets[donut] - NewOffset) % Words
Suffix == Unpacked(EntryAt.suffix, HashNibbles - tier)
DestPath == FilePath(Append(Nibbles, Suffix[1]))
Writable ==
  /\ LocalPi # NoMatch /\ (LocalPi + offsets[donut]) % Words # NoMatch /\ Rebased # NoMatch
  /\ FitsLocal(tier + 1, Rebased)

\* The entry goes to the file of the longer prefix, and its new position to the
\* updates of its donut.
PositionInSource == at
Position == Len(new.files[DestPath])

CopyEntry ==
  /\ Reading /\ Writable
  /\ new' = [new EXCEPT !.files[DestPath] =
                 Append(@, [suffix |-> Packed(Tail(Suffix)), pi |-> Rebased])]
  /\ updates' = [updates EXCEPT ![donut] =
                   Append(@, [pi |-> LocalPi, nibble |-> Suffix[1], position |-> Position])]
  /\ at' = at + 1
  /\ UNCHANGED <<given, sources, pc, prefix, donut, first>>

CopyPanics == Reading /\ ~ Writable /\ Failed

\* The file has been read to its end, or was not there to be opened.
NextFile ==
  /\ pc = "copy" /\ donut <= Donuts /\ ~ Reading
  /\ donut' = donut + 1 /\ at' = 0
  /\ pc' = IF FilePath(Nibbles) \in DOMAIN sources[donut].files THEN "copy" ELSE "failed"
  /\ UNCHANGED <<given, sources, new, updates, prefix, first>>

\* Every source donut loses its file of the prefix.
RemovedAll(files) == Restrict(files, {})
Removed(files) == Restrict(files, DOMAIN files \ {FilePath(Nibbles)})

RemovePrefix ==
  /\ pc = "copy" /\ donut > Donuts
  /\ sources' = [k \in 1 .. Donuts |-> [sources[k] EXCEPT !.files = Removed(@)]]
  /\ prefix' = prefix + 1
  /\ pc' = "prefix"
  /\ UNCHANGED <<given, new, updates, donut, at, first>>

StartOrder ==
  /\ pc = "prefix"
  /\ prefix = Power[tier]
  /\ new' = [new EXCEPT !.order = <<>>]
  /\ donut' = 1 /\ at' = 0
  /\ pc' = "order"
  /\ UNCHANGED <<given, sources, updates, prefix, first>>

\* updateMap: what the updates say of a local index; zero if there is nothing.
Update(pi) ==
  LET last == {u \in 1 .. Len(updates[donut]) :
                 /\ updates[donut][u].pi = pi
                 /\ \A v \in u + 1 .. Len(updates[donut]) : updates[donut][v].pi # pi}
  IN  IF last = {} THEN [nibble |-> 0, position |-> 0]
      ELSE updates[donut][CHOOSE u \in last : TRUE]

Ordering == pc = "order" /\ donut <= Donuts /\ at < Len(sources[donut].order)
NewPrefixIndex ==
  (NibbleBase * ReadPrefix(tier, sources[donut].order[at + 1].prefix) + Update(at).nibble) % Words
OrderFits ==
  /\ Fits(NewPrefixIndex, PrefixOnes[tier + 1])
  /\ Fits24(Update(at).position, SuffixOnes)

OrderEntry ==
  /\ Ordering /\ OrderFits
  /\ new' = [new EXCEPT !.order =
                 Append(@, [prefix |-> NewPrefixIndex, suffix |-> Update(at).position])]
  /\ at' = at + 1
  /\ UNCHANGED <<given, sources, updates, pc, prefix, donut, first>>

OrderPanics == Ordering /\ ~ OrderFits /\ Failed

NextOrder ==
  /\ pc = "order" /\ donut <= Donuts /\ ~ Ordering
  /\ updates' = [updates EXCEPT ![donut] = <<>>]
  /\ donut' = donut + 1 /\ at' = 0
  /\ UNCHANGED <<given, sources, new, pc, prefix, first>>

\* The source folders go, then the new donut's first index is looked up.
Finish ==
  /\ pc = "order" /\ donut > Donuts
  /\ sources' = [k \in 1 .. Donuts |-> NewDonut]
  /\ pc' = IF ForwardLookup(new, tier + 1, 0) = first THEN "done" ELSE "failed"
  /\ UNCHANGED <<given, new, updates, prefix, donut, at, first>>

Next ==
  \/ Check \/ OpenPrefix \/ CopyEntry \/ CopyPanics \/ NextFile \/ RemovePrefix
  \/ StartOrder \/ OrderEntry \/ OrderPanics \/ NextOrder \/ Finish

Spec == Init /\ [][Next]_vars

(***************************************************************************)
(* What makes a bake correct                                               *)
(***************************************************************************)
Stored(d, t, offset) ==
  UNION {{<<HashOf(p, e), ReadLocal(t, e.pi) + offset>> : e \in Range(SuffixFile(d, p))} :
           p \in Prefixes(t)}

\* Between any two steps of a bake, and wherever it fails, the suffix files of
\* the old donuts and of the new one together say of every hash the index it was
\* presented with, and say nothing else: source files go only after what is in
\* them was copied, with the index rebased, under the path of its longer prefix.
EntriesPreserved ==
  (UNION {Stored(sources[k], tier, offsets[k]) : k \in 1 .. Donuts})
    \cup Stored(new, tier + 1, NewOffset) = {<<h, presented[h]>> : h \in DOMAIN presented}

Contiguous == \A k \in 2 .. Donuts : offsets[k] = offsets[k - 1] + DonutSize[tier]
Whole ==
  [i \in 1 .. Donuts * DonutSize[tier] |->
     LET here == {h \in DOMAIN presented : presented[h] = i - 1 + NewOffset}
     IN  IF here = {} THEN NoHash ELSE CHOOSE h \in here : TRUE]

\* A bake of contiguous donuts ends with what would have been there if the new
\* donut had been made of its hashes directly: the donuts that the next bake
\* starts from are again of the form that Init assumes.
Regrouped ==
  pc = "done" /\ Contiguous =>
    /\ new.order = OrderOf(Whole, tier + 1)
    /\ \A path \in DOMAIN FilesOf(Whole, tier + 1) :
         path \in DOMAIN new.files /\ new.files[path] = FilesOf(Whole, tier + 1)[path]

\* After a bake of contiguous donuts an open tier takes a candidate index for
\* the index of a hash exactly if it is, whichever leaf of a tree it came from.
\* This goes by HashesOrder.bin, which has neither offsets nor local indices.
VerifiesBaked ==
  pc = "done" /\ Contiguous =>
    \A h, other \in DOMAIN presented :
      VerifyHash(new, tier + 1, h, presented[other] - NewOffset) <=> h = other

\* A bake breaks off for one of two reasons only: an orphaned folder below has
\* left a hole and the new donut spans more indices than its local index has
\* room for, or a prefix of all ones at tier 2 reads back as no match.
FailsOnlyIf ==
  pc = "failed" =>
    \/ ~ Contiguous /\ \E h \in DOMAIN presented :
         ~ FitsLocal(tier + 1, presented[h] - NewOffset)
    \/ tier = 2 /\ \E h \in DOMAIN presented : PrefixIndex(SubSeq(h, 1, 2)) = PrefixOnes[2]

\* What ID16.WriteID asserts of the prefix index that it is given: it fits.
PrefixFits == Ordering => Fits(NewPrefixIndex, PrefixOnes[tier + 1])

=============================================================================
