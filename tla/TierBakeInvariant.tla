-------------------------- MODULE TierBakeInvariant --------------------------
(***************************************************************************)
(* The inductive invariants of a bake: that it loses no entry, and that it *)
(* has them in the right order.                                            *)
(***************************************************************************)
EXTENDS TierBake

Nibble == 0 .. NibbleBase - 1
Strings(n) == [1 .. n -> Nibble]

(***************************************************************************)
(* Why no entry is lost: with this, EntriesPreserved is inductive.         *)
(***************************************************************************)
\* The last index of the new donut is at most this far from its first.
OffsetsFit ==
  /\ tier \in Tiers /\ offsets \in [1 .. Donuts -> Nat]
  /\ \E hole \in Holes : \A k \in 1 .. Donuts :
       /\ NewOffset <= offsets[k]
       /\ offsets[k] - NewOffset + DonutSize[tier] <= Donuts * DonutSize[tier] + hole
  /\ prefix \in 0 .. Power[tier] /\ donut \in 1 .. Donuts + 1 /\ at \in Nat

\* A suffix file of tier t has what the hash has after t nibbles, in bytes.
Bytes(n) == [1 .. (n + 1) \div 2 -> 0 .. NibbleBase * NibbleBase - 1]
EntryType(t) == [suffix : Bytes(HashNibbles - t), pi : Nat]
IsDonut(d, t) ==
  /\ d = [order |-> d.order, files |-> d.files]
  /\ \A path \in DOMAIN d.files : d.files[path] \in Seq(EntryType(t))

\* The sources have files of the prefixes to come, the new donut has files of the longer
\* prefixes of those that were read, each of them once.
PathsFrom(t, q) == {FilePath(PrefixNibbles(p, t)) : p \in q .. Power[t] - 1}
PathsTo(t, q) ==
  {FilePath(Append(PrefixNibbles(p, t), n)) : p \in 0 .. q - 1, n \in 0 .. NibbleBase - 1}
FilesFit ==
  /\ \A k \in 1 .. Donuts :
       /\ IsDonut(sources[k], tier) /\ DOMAIN sources[k].files \subseteq PathsFrom(tier, prefix)
       /\ \A path \in DOMAIN sources[k].files :
            \A e \in Range(sources[k].files[path]) : e.pi < DonutSize[tier]
  /\ IsDonut(new, tier + 1)
  /\ pc \in {"check", "prefix"} => DOMAIN new.files \subseteq PathsTo(tier, prefix)
  /\ pc = "copy" =>
       /\ prefix < Power[tier] /\ DOMAIN new.files \subseteq PathsTo(tier, prefix + 1)
       /\ \A n \in 0 .. NibbleBase - 1 : FilePath(Append(Nibbles, n)) \in DOMAIN new.files
  /\ pc = "order" => prefix = Power[tier]

\* What was read of the files at hand is in the new donut.
Pair(p, e, t, offset) == <<HashOf(p, e), ReadLocal(t, e.pi) + offset>>
CopiedSoFar ==
  pc = "copy" => \A k \in 1 .. Donuts :
    LET file == SuffixFile(sources[k], Nibbles)
    IN  /\ k = donut => at <= Len(file)
        /\ \A i \in 1 .. Len(file) : k < donut \/ (k = donut /\ i <= at) =>
             Pair(Nibbles, file[i], tier, offsets[k]) \in Stored(new, tier + 1, NewOffset)

NothingLost == OffsetsFit /\ FilesFit /\ CopiedSoFar /\ EntriesPreserved

(***************************************************************************)
(* Why the new donut is as if it had been made directly                    *)
(***************************************************************************)
\* The hashes of donut k, by local index.
Span(k) == offsets[k] .. offsets[k] + DonutSize[tier] - 1
Listing(k) ==
  [i \in 1 .. DonutSize[tier] |->
     LET here == {h \in DOMAIN presented : presented[h] = offsets[k] + i - 1}
     IN  IF here = {} THEN NoHash ELSE CHOOSE h \in here : TRUE]

\* A hash has an index of its own, in one of the donuts; these do not overlap.
IndicesFit ==
  /\ DOMAIN presented \subseteq Hash
  /\ \A h \in DOMAIN presented : \E k \in 1 .. Donuts : presented[h] \in Span(k)
  /\ \A h, g \in DOMAIN presented : presented[h] = presented[g] => h = g
  /\ \A k, l \in 1 .. Donuts : k < l => offsets[k] + DonutSize[tier] <= offsets[l]
  /\ \E h \in DOMAIN presented : presented[h] = NewOffset

\* Until the end, what is left of the sources is as it was made.
SourcesKept ==
  pc \in {"check", "prefix", "copy", "order"} => \A k \in 1 .. Donuts :
    sources[k] = [order |-> OrderOf(Listing(k), tier),
                  files |-> Restrict(FilesOf(Listing(k), tier), PathsFrom(tier, prefix))]

\* The files of the new donut have their entries in the order of their indices, and
\* what is still to be read of the files at hand comes after them.
FilesAscend ==
  /\ PathsTo(tier, prefix) \subseteq DOMAIN new.files
  /\ \A path \in DOMAIN new.files :
       LET file == new.files[path]
       IN  /\ \A i \in DOMAIN file : \E s \in Strings(HashNibbles - (tier + 1)) :
                file[i].suffix = Packed(s)
           /\ \A i \in DOMAIN file : ReadLocal(tier + 1, file[i].pi) = file[i].pi
           /\ \A i, j \in DOMAIN file : i < j => file[i].pi < file[j].pi
  /\ pc = "copy" => \A n \in Nibble, k \in 1 .. Donuts :
       LET made == new.files[FilePath(Append(Nibbles, n))]
           file == SuffixFile(sources[k], Nibbles)
       IN  \A m \in DOMAIN made, i \in 1 .. Len(file) : k > donut \/ (k = donut /\ i > at) =>
             made[m].pi + NewOffset < file[i].pi + offsets[k]

\* The entry of the hash is at the position of the file of its longer prefix.
IsAt(h, position) ==
  LET path == FilePath(SubSeq(h, 1, tier + 1))
  IN  /\ path \in DOMAIN new.files /\ position + 1 \in DOMAIN new.files[path]
      /\ new.files[path][position + 1].pi + NewOffset = presented[h]

\* The updates of a donut say nothing wrong, and they say something of each hash that was
\* copied.
UpdateType == [pi : Nat, nibble : Nibble, position : Nat]
UpdatesTell ==
  /\ updates \in [1 .. Donuts -> Seq(UpdateType)]
  /\ \A k \in 1 .. Donuts :
       /\ \A u \in 1 .. Len(updates[k]) : \E h \in DOMAIN presented :
            /\ presented[h] = updates[k][u].pi + offsets[k] /\ updates[k][u].nibble = h[tier + 1]
            /\ IsAt(h, updates[k][u].position)
       /\ pc \in {"check", "prefix", "copy"} \/ (pc = "order" /\ donut <= k) =>
            \A h \in DOMAIN presented :
              /\ presented[h] \in Span(k)
              /\ <<h, presented[h]>> \in Stored(new, tier + 1, NewOffset)
              => \E u \in 1 .. Len(updates[k]) : updates[k][u].pi + offsets[k] = presented[h]

\* HashesOrder.bin has so far what the hashes of the donuts read call for.
OrderIs(entry, h) ==
  /\ entry.prefix = IF h = NoHash THEN 0 ELSE PrefixIndex(SubSeq(h, 1, tier + 1))
  /\ IF h = NoHash THEN entry.suffix = 0 ELSE IsAt(h, entry.suffix)
  /\ entry.suffix < SuffixOnes
OrderSoFar ==
  /\ new.order \in Seq([prefix : Nat, suffix : Nat])
  /\ pc \in {"order", "done"} =>
       /\ Len(new.order) = (donut - 1) * DonutSize[tier] + at
       /\ at <= DonutSize[tier] /\ (donut > Donuts => at = 0)
       /\ pc = "done" => donut > Donuts /\ prefix = Power[tier]
       /\ \A k \in 1 .. Donuts, i \in 1 .. DonutSize[tier] :
            LET j == (k - 1) * DonutSize[tier] + i
            IN  j <= Len(new.order) => OrderIs(new.order[j], Listing(k)[i])

InOrder == IndicesFit /\ SourcesKept /\ FilesAscend /\ UpdatesTell /\ OrderSoFar

\* With this, FailsOnlyIf is inductive: what was looked up before the bake, unless the
\* prefix of tier 2 reads back as no match, is the first hash; and every prefix has room.
AllOnes == tier = 2 /\ \E h \in DOMAIN presented : PrefixIndex(SubSeq(h, 1, 2)) = PrefixOnes[2]
SamePrefix(h) == {g \in DOMAIN presented : SubSeq(g, 1, tier + 1) = SubSeq(h, 1, tier + 1)}
Explained ==
  /\ NewOffset = TierOffset /\ (pc = "check" => prefix = 0)
  /\ pc \notin {"check", "failed"} => AllOnes \/ first = Listing(1)[1]
  /\ IsFiniteSet(DOMAIN presented)
  /\ \A h \in DOMAIN presented : Cardinality(SamePrefix(h)) <= SuffixOnes
  /\ FailsOnlyIf

=============================================================================
