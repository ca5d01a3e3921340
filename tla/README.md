# Wedding cake: TLA+ specifications, model checks and proofs

The program (`src/`, Go) is a library that stores hashes on disk in the order in
which they are presented, and answers for a hash the *global presentation index*
it was presented with. It is built like a wedding cake: an input tier that takes
new hashes, and above it five tiers of up to 16 donuts each. A full input tier
is *baked* into a donut of tier 0, and a tier with 16 donuts is baked into one
donut of the tier above it. This directory holds a specification of that
machinery, what TLC checks of it on small cakes, and what TLAPS proves of the
pipeline, the input tier, the bakes and the icing for cakes of every size.

## 1. Inventory

| part (source) | state it keeps | operations | what makes it correct |
|---|---|---|---|
| cake pipeline (`cake/cake.go`) | `openInputTier`, `tiersInfo`, `openTiers`; the folders `InputTier_<o>`, `Tier<t>_<o>/Donut<k>` and the files in them | `AppendHash` (with the whole cascade of freezes, bakes, icings and openings), `LookupHash`, `Close` | no hash is lost or answered wrongly, whatever breaks off where; every pipeline ends and cleans up |
| tiers info (`cake/tiersinfo.go`) | `TierOffsets.txt` | `ToDisk`, `FromDisk` | what is read back is what was in memory |
| factory (`cake/cakefactory.go`) | none of its own | `Create`, `Open`, `Exists` | a closed cake opens again, unchanged |
| tier lookup (`cake/tier.go`) | the open donuts and their offsets | `LookupHash`, `VerifyHash`, `Close` | a candidate of a tree is verified before it is answered |
| input tier (`inputtier/`) | `HashesOrder.bin`, `HashSuffix.bin`, a map and a list in memory | create, open, `AppendHash`, `LookupHash`, `GetHashAtIndex`, count, `Close` | both files agree with each other and with memory; gaps in the indices are allowed |
| tier baking (`tierbake/`) | the new donut's files, temporary update files | input tier to donut, tier to donut, `ForwardLookup`, file names of prefixes | every hash moves to the file of its longer prefix with its index rebased, before its source is removed |
| forest (`forest/`) | `TreesRoots.bin`, `Level<LL>Lengths.bin`, `Level<LL>Nodes.bin` of an icing | write one tree per prefix, open, look up | row p of a lengths file is about prefix p |
| shallow tree (`shallowtreebyte/`) | a tree in memory; flags for the bytes still to examine | generate, visit, shape | every hash reaches its own leaf, and a lookup walks the bytes the generation chose |
| small tree (`smalltree/`) | formats of a level and its encoded nodes | design formats, encode, decode, integers of 1 to 5 bytes | decoding inverts encoding; a width fits what is written |
| indices (`types/`) | none | local and global index conversion | |

`AppendHash` is the only operation that changes folders. It calls the input
tier, then everything else in the caller's thread: there are no goroutines, no
locks and no callbacks. The parts communicate by files: a bake reads the files
of frozen folders, an icing reads the files of the bake, an opened donut reads
the icing and, to verify, the bake's files. What is hard is not concurrency but

* the many file operations of one `AppendHash`, between any two of which the
  process may die, with source files removed while the new ones are being made;
* two records (`TierOffsets.txt` and the `DonutOffsets.txt` of each tier) that
  are written at other moments than the folders they name;
* error returns in mid-pipeline, after which the caller still has an open cake;
* indices: gaps, offsets, the rebasing of local indices, values that coincide
  with "no match", and the equality that triggers the freeze.

`PROJECT.json` lists these hazards one by one, at their lines, with the
properties that cover them.

## 2. Modules

| module | content |
|---|---|
| `HashIndex` | the abstract specification: an append-only function from hashes to increasing indices |
| `Cake` | the pipeline, the factory, the tiers info and what the pipeline needs of the input tier and of tier baking; one action per file operation; fair and unfair specification; `TypeOK` |
| `CakeLookup` | `Cake.LookupHash`, `Tier.LookupHash` and `VerifyHash` as operators on the state of `Cake` |
| `CakeProperties` | the safety, action and liveness properties and the two refinement mappings to `HashIndex` |
| `CakeInvariant` | the inductive invariants: `Inductive` in twelve named parts, `InputAhead`, `Traced` in five (where every entry of every file leads), `Tidy` in six (what is on disk while nothing broke off), `Shared` in four (which folder has which indices, without gaps), `CountedUp` in two (how many, and where they begin), `Bounded` and `Switching` |
| `MCCake` | small prefix functions for TLC |
| `InputTier` | one input tier by itself: its two files entry by entry, what it keeps of them in memory, and an append as two writes; refines `HashIndex`; its properties and its inductive invariant `NeverMisread` |
| `MCInputTier` | its symmetry for TLC |
| `TierBake` | one bake of a tier by itself: packed nibbles, paths of prefixes, positions, update files, integers with their widths; its properties |
| `TierBakeInvariant` | its inductive invariants: `NothingLost`, `InOrder` in five parts, and `Explained` |
| `MCTierBake` | small decks of hashes for TLC |
| `ShallowTree` | which byte each node of a tree forks on, and what a visitor sees of the tree |
| `NodeFormats` | the formats of a level, the numbering of its nodes, their encoding and decoding; extends `ShallowTree` |
| `Forest` | an icing, from the suffix files of a donut through trees and encoded levels to the forest's files, and lookups in them; extends `NodeFormats` |
| `ForestProperties` | its safety properties |
| `ForestInvariant` | its inductive invariants: `RowsAccounted` of the files, `TreesFit` of the trees |
| `MCForest` | small sets of hashes and configurations for TLC |
| `CakeProofs`, `CakeTidyProofs`, `CakeShareProofs` | the proofs about `Cake`, each extending the one before |
| `InputTierProofs` | the proofs about `InputTier` |
| `TierBakeProofs`, `TierBakeOrderProofs` | the proofs about `TierBake`, the second extending the first |
| `TreeProofs`, `ForestProofs` | the proofs about trees and encoded levels, and those about `Forest`, which extend them |

### How Cake corresponds to the code

*Disk.* `tierOffsets` is `TierOffsets.txt` (-1 for an absent tier, as in the
file). `inputs` maps the offset of each `InputTier_<o>` folder to its count of
`HashesOrder.bin` entries, its `HashSuffix.bin` entries and its READONLY flag.
`donutFile` maps `<<t, o>>` to the `DonutOffsets.txt` of `Tier<t>_<o>`; `donuts`
maps `<<t, o, k>>` to the files of `Donut<k>` in it: `suffix` (the entries of
all its suffix files), `updates` (the `TempUpdates` files), `order`
(`HashesOrder.bin`) and `iced` (whether the icing is complete).

*Memory.* `tiersInfo`, `input` and `open` are the three fields of `Cake` that
change. `open[t].donuts` keeps for each open donut the folder number its icing
was read from, because `Tier.LookupHash` looks in `donuts[d]` but verifies in
the folder `Donut<d>`: the two need not be the same after an error.

*Control.* `pc` and `job` say where in `AppendHash` the process is and hold its
local variables. The pipeline is

    AppendHash -> FreezeCreate -> FreezeRecord -> FreezeSwitch -> FreezeSeal
      -> [TierRecord -> TierFile ->] DonutFolder
      -> BakeInput -> RemoveInput -> Ice -> PublishFirst or PublishNext
    and while the tier is full
      -> FreezeTier -> [TierRecord -> TierFile ->] DonutFolder
      -> (BakePrefix -> DropPrefix) for each prefix -> BakeOrder -> RemoveTier
      -> Ice -> PublishFirst or PublishNext

with the ways it breaks off: `AppendTooLarge` and `TopTierPanic` (panics),
`BakeInputFails`, `BakeTierFails`, `BakeOrderFails`, `DonutRefused` and the
failing half of `PublishFirst` (error returns: memory and folders stay as they
are and the caller may go on), and `Crash` between any two steps. A step is one
file operation or several that no later step can tell apart.

*Data.* A hash is identified with the index it is presented with. Callers
present every hash once (`inputtier.go:14-17`), so a right answer for a hash is
the hash itself. Its nibbles are abstracted to `PrefixOf[t][h]`, the number of
the suffix file it is in at tier t. An entry of `order` is the hash that the
stored pair of prefix and position leads to; `PastEnd` and `Dangling` are
entries that lead nowhere, or nowhere in particular. What a dangling entry
happens to hit, and what a tree answers for a hash it does not hold, is left
open in `CakeLookup`: `LookupHash(h)` is a set of possible answers.

### How InputTier corresponds to the code

`order` and `suffix` are `HashesOrder.bin` and `HashSuffix.bin`, `map` and
`hashBytes` the two fields in memory. `AppendOrder` is `AppendHash` up to its
first write, `AppendSuffix` the rest of it; between them the process may die
(`Crash`), the second write may fail (`AppendSuffixFails`: the caller keeps the
open tier) or `ID16.WriteID` may panic (`AppendSuffixPanics`). `Readable`,
`ReadMap` and `ReadHashBytes` are what `readHashes` makes of the files: whether it
returns without an error or a panic, and what is then in memory. The n-th entry
of `order` that is no gap belongs to the n-th entry of `suffix` (`Rank`). `Ones2`
and `Ones3` are the largest values of two and three bytes, which read back as "no
match"; 0xFFFF is also the size of a full tier. `Close` also stands for a crash
while no append is running, since both leave the same files.

`Cake` takes an append for one step, with the count of `order` entries and the
set of `suffix` entries for the two files. What `InputTier` adds is that a torn
append never makes an input tier answer wrongly, but may make it unreadable.

### How TierBake corresponds to the code

`sources` and `offsets` are the donuts of the frozen tier and their
`donutOffsets`, `new` is the donut that is made. A donut is its `HashesOrder.bin`
(`order`, a prefix index and a position for each local index) and its suffix files
(`files`, from a path to entries of a packed suffix and a local index), in the
numbers that are written; `ReadLocal`, `ReadPrefix` and `ReadSuffixIndex` say what
the integer types read back, `Fits` and `Fits24` what they agree to write.
`updates` are the `TempUpdates` files. The steps are those of
`BakeFrozenTierToDonutFolder`, with one step for each entry:

    Check -> for each prefix: OpenPrefix -> for each donut: (CopyEntry | CopyPanics)*
      -> NextFile; -> RemovePrefix
    -> StartOrder -> for each donut: (OrderEntry | OrderPanics)* -> NextOrder
    -> Finish

`Check` and `Finish` are the two calls of `ForwardLookup(0)` that are compared.
`Cake` has the same bake with a number where this module has a sequence of nibbles
and a path, and a hash where it has a pair of prefix and position. Two properties
justify that, both proved: `Regrouped` says that the files a bake ends with are of the form
`Init` assumes, so that one module stands for a whole cascade of bakes, and
`VerifiesBaked` that the pairs lead where `Cake` says they lead.

### How Forest corresponds to the code

`IceTheDonut` takes the prefixes one after the other: `TakePrefix` reads the
suffix file, `Fork` is one call of `recurseGenerateNode` that makes a slots node,
`Encode` designs the formats and encodes the levels, `AppendLevel` and
`AppendRoot` are `AppendTreeForPrefix`. A node of a tree is the set of hashes below
it, and the tree is the function `fork` from nodes to the byte they fork on; which
of several bytes with equal entropy is taken is left open, because it depends on
the rounding of floating-point sums. `ForkPanics` and `ForkHangs` are the two ways
in which generation does not end well; the panics of the encoder are the other half
of `Encode`. `roots`, `lengths` and `blobs` are the files. A row of `lengths` says
whether the prefix has bytes at the level, and an encoded level is the sequence of
its nodes with the counts of its formats, where the code has byte lengths and byte
offsets; what is kept is what decides which tree's bytes a row leads to, which id a
node gets, and what an id finds. `trees` and `forks` are history: what was encoded for
each prefix, and the tree it was encoded from. No action reads `forks`; `trees` is the
encoder's result that `AppendLevel` writes out.

`Opens` is `ForestRead.Open`, `Lookup` is `ForestRead.Lookup`, which may also panic
or never return. `CakeLookup` lets the icing of a donut answer, for a hash that is
not in it, any index in the donut (`CandidateAgrees` says how few of these it does
answer, and in which cases it claims nothing) and takes a complete icing to find
what it holds. `IcedFound` says to what extent that is so, and the run `lone` where it is not:
`Cake` is the pipeline over forests that open and find, and where a forest does
not, `LookupComplete` and `OpenAfterCrash` do not carry over to the program.

## 3. What the runs show

`Cap` is 65535 in the code and 2 or 3 here, `Donuts` 16 and 2 or 3, `NTiers` 5
and 2 or 3, `PrefixCount[t]` 16^t and 2^t.

| run | bounds | shows |
|---|---|---|
| `serve` | 3 tiers of 3 donuts, input tier of 2, 55 hashes, no gap, no crash | `LookupComplete`, `Shared`, `ReopenFaithful`, `Odometer`, `NoOrphans`, `OpenAfterCrash`, and that the answers implement `HashIndex` through every step of every bake |
| `crash` | 3 tiers of 3 donuts, input tier of 2, 18 hashes, gaps of one, 2 crashes | `TypeOK`, `Inductive`, `InputAhead`, `Traced`, `Tidy`, `Durable`, `LookupSound`, `CurrentInputNotSealed`, `ServedImmutable`, `InputOffsetAdvances`, `PipelineEnds`, and that the folders implement `HashIndex`; the caller goes on after errors |
| `gap` | input tier of 3, one gap | violation of `LookupComplete` |
| `crash_at_cap` | input tier of 2, one crash | violation of `LocalPiFits` |
| `input_append` | input tier of 4 (also all ones in two bytes; 6 is all ones in three), 5 hashes, gaps of two, 2 faults | `NeverMisread`, `LookupsExact`, `ReadBackSame`, `ReopensUntilFull`, and that `HashSuffix.bin` implements `HashIndex` |
| `input_torn` | input tier of 3, 3 hashes, one fault | violation of `EntriesPaired` |
| `bake` | bakes of tiers 0, 1 and 2, two donuts each, hashes of five one-bit nibbles, 16 local indices with no, one or three gaps, a hole of no or one input tier between the donuts | `EntriesPreserved`, `NothingLost`, `InOrder`, `Explained`, `Regrouped`, `VerifiesBaked`, `FailsOnlyIf` |
| `bake_ff` | the same without a hole | violation of `PrefixFits` |
| `ice` | tiers 0, 1 and 2, hashes of three two-bit bytes, one reassurance byte, four configurations of the formats, all sets of at most four of eight hashes and six larger ones, lookups of all 64 hashes | `OpenReadsBack`, `IcedFound`, `CandidateAgrees`, `PanicsOnlyIf`, `OpensIff`, `RowsAccounted`, `TreesFit` |
| `short` | the same at tier 1 | violation of `OpensWhenDone` |
| `lone` | the same at tier 1 | violation of `LoneHashFound` |
| `padding` | the same at tier 0 | violation of `EmptySlotsLeadNowhere` |

*Why the bounds are enough.* Without gaps 54 hashes fill three tiers of three
donuts over an input tier of two, so every depth of the cascade occurs, with and
without an existing tier above, and the top tier overflows (`TopTierPanic`). With three donuts the
second one stays in service for a while (with two it is baked in the call that
made it), and a missing donut can be the first, a middle or the last one. Two
crashes are enough for a crash, a reopening, a pipeline over what the first crash
left, and a second crash in it; there, 18 hashes fill the first two tiers, so that the
bake of either may break off, and over what the first bakes left later ones are made. A gap
at the start of an input tier makes `AppendHash` return an error, after which the caller
may go on: what is missing or half baked in a tier then stays in service beside the rest.
`MCPrefixOf` sends neighbouring hashes to different files and several hashes to
every file, so that a file dropped too early or truncated loses something. Every
action and every disjunct of `Next` fires in the passing runs.

In `bake` a nibble is a bit and two of them make a byte, so that prefixes of odd and
even length are packed, and paths have one part or two (`digitsPerFolder` is 2 as in
the code). The largest numbers of each width (`MCPrefixOnes`, `MCLocalOnes`) stand to
the sizes as in the code: the prefix index of tier 2 just fits and its largest value
is "no match", tier 2 spans just less than its local index can say, so that a hole of
one input tier makes it too large, and the local index of the input tier's last entry
is not "no match". The decks put up to all hashes of a prefix into one file and
scatter them over the donuts, with and without the all-ones prefix, with a gap at the
end of a donut and several in the middle of some. `Words` is 2^64 in the code and
a number here that no sum reaches except by wrapping around.

In `ice` trees have one to three levels. The four configurations have a format group
per number of slots, groups of several tiny or several medium formats to be merged,
full nodes, and node ids that end at three, so that a level of four nodes has one whose
id reads back as "no match" and one of five is not encoded. Larger sets are there for levels that
mix nodes of two, three and four slots. With three bytes, a prefix of one nibble leaves
two whole bytes: hashes that differ in the byte the prefix ends in only
(`ForkPanics`), and leaves with no byte left (`ForkHangs`), both occur, as do ties
of entropy, empty prefixes, lone hashes, and trees with fewer levels than their
neighbours. These are extremes in the program, where 30 bytes or more are left of a
hash of 32 and a level would need 65536 nodes; the runs say what happens there, and
that nothing else does.

`CHECK_DEADLOCK FALSE`: a bake or an icing is over at some point; a cake that cannot be opened any more, or whose indices
have reached the bound `MaxGpi`, has no next step; the same goes for an input
tier.

*Bounds that are not the code's.* `MaxGpi`, `MaxGap` and `MaxFaults` (constants
of `Cake` and `InputTier`) bound the indices, the gaps and the crashes.

*Fairness.* `FairSpec` adds weak fairness of `Pipeline`, the part of
`AppendHash` after the append. `AppendHash` is a plain call in the caller's
thread that waits for nothing, so it takes its next step unless the process
dies. Opening, closing and presenting hashes are the caller's choice and get no
fairness.

### Where the code and its comments disagree

* `gap`: gaps "are permitted" (`inputtier.go:91`), but the position written to
  `HashesOrder.bin` counts them and the suffix file does not, so after a bake
  the hashes behind a gap are not found, or the lookup returns an error.
* `crash_at_cap`: the freeze is triggered by `== 65535` (`cake.go:58`). After a crash
  between the append that fills an input tier and
  the record of its freeze, the next append makes the count 65536; the tier is
  never frozen and the local index then outgrows what `ID16.WriteID` asserts
  (`multibytetypes.go:55-58`). A gap may jump over the 65535th index too: local index 65535
  is then stored, two bytes read it back as "no match", and the closed cake does not open
  again, which `RestartsInvisible` and `ReopensUntilFull` allow for.

* `input_torn`: every entry of `HashesOrder.bin` that is no gap is said to have
  one in `HashSuffix.bin` (`inputtier.go:207-208`), but a crash or an error
  between the two writes leaves one without, and the tier can not be read again.
* `bake_ff`: the one byte that holds a prefix index in tier 2 takes 0xFF both for the
  prefix FF and for "no match" (`multibytetypes.go:44`). `BakeFrozenTierToDonutFolder`
  does not tell them apart, and the shifted number is more than `ID16.WriteID` asserts
  (`multibytetypes.go:55-58`). Every bake of tier 2 that holds a hash beginning with FF
  ends in this panic, after all source suffix files were removed.
* `short`: the lengths files are "indexed by the prefix index" (`forestwrite.go:23-24`),
  but a tree that lacks a level adds no row to it (`forestwrite.go:87`). If earlier
  trees have the level and later ones do not, `Open` refuses the forest
  (`forestread.go:106`) that was written without an error. `OpensIff` in `ice` says
  which forests open; a forest whose rows are about the wrong prefixes is never among
  them (`OpenReadsBack`).
* `lone`: a leaf is said to keep bytes "that haven't been examined yet" for reassurance
  (`shallowtree.go:383-384`), but the leaf of a hash that is alone in its prefix keeps the first
  bytes of the hash (`shallowtree.go:121`), and the lookup compares the bytes after the
  prefix (`forestread.go:164`). From tier 1 on such a hash is not found unless these happen
  to be equal. `IcedFound` leaves the case out: what a lookup answers then, right or
  wrong, is the subject of `LoneHashFound` alone.
* `padding`: a tiny node merged with larger ones is padded with zeros, which
  "imply an empty slot" (`nodeformatencoder.go:339-340`, `365-366`), but `GetNextNode` takes them
  for the byte value 0 and the node id 0 (`nodeformatdecoder.go:245-251`). A hash that is not
  stored is then led to some node of the level below; the reassurance bytes or
  `VerifyHash` have to refuse it. `CandidateAgrees` leaves out the hashes whose way ends
  at a missing slot for 0 in a tree with padding (`MeetsPadding`), and no others.

A lookup in a prefix that has no hashes goes to the level 255 of its root entry
(`forestread.go:152-154`), which no forest has, and panics. No comment says what it should
give; `CandidateAgrees` says nothing of it.

What is lost after a crash is a fact of the design that no comment denies, so it
is not a violation run but stated in the properties: `Durable` and `ArchiveSpec`
say that a hash's folder entry survives, `LookupSound` that a wrong index is
never answered, `OpenAfterCrash` at which steps a first crash leaves a cake that
`Open` refuses. `LookupComplete` is claimed only while nothing was interrupted.

## 4. What is proved

*Assumptions.* `SizesAssumption` (`Cap > 0`, `Donuts > 1`, `NTiers > 0`, the bounds are
natural numbers) and `PrefixAssumption` (`PrefixOf[t][h]` is one of the
`PrefixCount[t]` files) for `Cake`; `InputTierAssumption` for `InputTier`;
`ShallowTreeAssumption` and `ForestAssumption` for the icing. They say of what kind the
constants are and little else, so that the theorems hold for the code's own sizes, any
gaps, any number of crashes, any hashes. For the icing, `ForestAssumption` has two things
more: the hashes of a donut have local indices of their own, since
each entry of `HashesOrder.bin` is one hash, and a level has room for a group of each of its
formats (`IsConfig`), which `nodeformat.go:241-246` asserts with a group to spare. For `TierBake` there are also
`DecksAssumption`, that hashes are presented once (`inputtier.go:14-17`), and
`WidthsAssumption`, that no index in use reads back as "no match": a donut of tier t has
65535 * 16^t indices, which one less than two, three or four bytes can say; a local index
of more than three bytes must have room for the holes of `Holes`, and in the code's four
bytes of tier 4 there is room for a hole of one input tier. Three bytes refuse all ones
when they are written, so nothing is assumed of the holes there. `RoomAssumption` is used
for the theorems of `TierBakeOrderProofs`: the prefixes of
tier 2 are exactly what one byte can say, those of the other source tiers leave all ones
free (one byte for 16, two for 4096); 2^64 is a multiple of every 16^n in use; a donut
made of donuts without a hole has local indices that fit; and no prefix of the new donut
has more hashes than the three bytes of a position can say. Only the last is not a matter
of the code's own numbers above tier 2: a donut of tier 3 has 65535 * 4096 indices for
4096 prefixes, so that it says that no prefix has 256 times its share, which is
what hashes are for. A further
hypothesis is `MaxGap = 0`, in
the theorems marked with a star: with a gap the property is false (run `gap`, and the
index jumped over that is described with `crash_at_cap`). `Shared` has it, with "nothing broke off", in its own statement.

| theorem (module) | says |
|---|---|
| `TypeCorrectness` (`CakeProofs`) | `Spec => []TypeOK` |
| `InductiveInvariant` (`CakeProofs`) | `Spec => []Inductive` |
| `Durability` (`CakeProofs`) | `Spec => []Durable`: no step removes the last copy of a hash |
| `InputStaysAhead` (`CakeProofs`) | `Spec => []InputAhead` |
| `InputNeverSealed` (`CakeProofs`) | `Spec => []CurrentInputNotSealed` |
| `OffsetsAdvance` (`CakeProofs`) | `Spec => InputOffsetAdvances`: no index is handed out twice |
| `FilesTraced` (`CakeTidyProofs`) | `Spec => []Traced`: where every entry of every file leads |
| `LookupsSound` (`CakeTidyProofs`) | `Spec => []LookupSound`: no wrong index is answered |
| `ServedStaysImmutable` (`CakeTidyProofs`) | `Spec => ServedImmutable` |
| `ArchiveImplemented` (`CakeTidyProofs`) | `Spec => ArchiveSpec`: what is on disk implements `HashIndex` |
| `TidyInvariant` (`CakeTidyProofs`) | `Spec => []Tidy`: what there is while nothing broke off |
| `BakesCleanUp` (`CakeTidyProofs`) | `Spec => []NoOrphans` |
| `RestartsInvisible` (`CakeTidyProofs`) | gaps or not, `Close` and `Open` change nothing unless a local index is "no match" |
| `ReopensFaithfully`* (`CakeTidyProofs`) | `Spec => []ReopenFaithful` |
| `OpensAfterCrash`* (`CakeTidyProofs`) | `Spec => []OpenAfterCrash` |
| `ShareInvariant` (`CakeShareProofs`) | `Spec => []Shared`: which folder has which indices |
| `LookupsComplete`* (`CakeShareProofs`) | `Spec => []LookupComplete`: what was presented is found |
| `ServiceImplemented`* (`CakeShareProofs`) | `Spec => ServiceSpec`: the answers implement `HashIndex` |
| `CountInvariant` (`CakeShareProofs`) | `Spec => []CountedUp`: where every donut that is listed begins, and the input tier |
| `CountsLikeAnOdometer`* (`CakeShareProofs`) | `Spec => []Odometer`: tiers are frozen when full, not later, and follow each other without a hole |
| `FilesNeverMisread` (`InputTierProofs`) | `Spec => []NeverMisread` |
| `LookupsAreExact` (`InputTierProofs`) | `Spec => []LookupsExact` |
| `ReadsBackTheSame` (`InputTierProofs`) | `Spec => []ReadBackSame` |
| `AlwaysReopensUntilFull` (`InputTierProofs`) | `Spec => []ReopensUntilFull` |
| `SuffixImplemented` (`InputTierProofs`) | `Spec => SuffixSpec`: `HashSuffix.bin` implements `HashIndex` |
| `NothingIsLost` (`TierBakeProofs`) | `Spec => []NothingLost` |
| `EntriesArePreserved` (`TierBakeProofs`) | `Spec => []EntriesPreserved`: no entry is lost or misstated between any two steps of a bake |
| `StaysInOrder` (`TierBakeOrderProofs`) | `Spec => []InOrder` |
| `BakesAnew` (`TierBakeOrderProofs`) | `Spec => []Regrouped`: a bake ends with what would have been made of its hashes directly |
| `BakedVerifies` (`TierBakeOrderProofs`) | `Spec => []VerifiesBaked`: a local index verifies for its own hash only |
| `ReasonsInvariant` (`TierBakeOrderProofs`) | `Spec => []Explained`: why no other reason comes up |
| `BreaksOffOnlyIf` (`TierBakeOrderProofs`) | `Spec => []FailsOnlyIf`: two reasons to fail and no other |
| `RowsAreAccounted` (`ForestProofs`) | `Spec => []RowsAccounted` |
| `OpenedReadsBack` (`ForestProofs`) | `Spec => []OpenReadsBack` |
| `OpensExactlyIf` (`ForestProofs`) | `Spec => []OpensIff` |
| `TreesAreFit` (`ForestProofs`) | `Spec => []TreesFit`: what is generated, and what was encoded, is a tree |
| `IcingPanicsOnlyIf` (`ForestProofs`) | `Spec => []PanicsOnlyIf`: two reasons for an icing to fail and no other |
| `StoredIsFound` (`ForestProofs`) | `Spec => []IcedFound`: a stored hash is found at its index, unless it is alone in its prefix, or its tree has too many nodes or too few bytes at some level |
| `CandidatesAgree` (`ForestProofs`) | `Spec => []CandidateAgrees`: another hash is answered at most one it agrees with, with the exceptions that the property names |

### Cake: nothing is lost (`Inductive`)

`Durable` fails only if a step removes or truncates a file whose
hashes are nowhere else. Three kinds of step do: `CreateInputTierFiles`
truncates, `BakePrefix` truncates the new donut's files of a prefix, and
`DropPrefix`, `RemoveInput` and `RemoveTier` remove sources. So the invariant
must know that

* the next input offset is above every folder that holds hashes (`Offsets`),
  because counts only grow and `TierOffsets.txt` runs ahead of every folder name;
* a donut being made is in a folder of its own (`JobNewer`, `TiersNewer`,
  `DonutsListed`, `OpenTiers`): donut numbers come from `DonutOffsets.txt`, and
  the folder in hand has a newer offset than any folder it could be added to;
* what is dropped was copied (`NothingDroppedEarly`), from *all* donuts the
  frozen tier has (`AllSources`), even where memory lists others after an error;
* memory, disk and program counter agree where this matters (`JobFits`,
  `MemoryOnDisk`, `InputFolders`, `TypeOK`).

Each conjunct is needed by some action. `Inductive` is also an invariant of the
`crash` run. `InputAhead` is proved relative to it.

### Cake: nothing is answered wrongly (`Traced`)

`Traced` follows an entry through its life. A suffix entry's local index and the offset
listed for its donut add up to the hash (`Indexed`), so that the index a tree has for a hash
it holds is the right one. This survives every rebasing because the
offsets that a bake subtracts and adds are those of the two `DonutOffsets.txt` (`JobIndexed`),
whatever memory lists. In a recorded tier `HashesOrder.bin` leads to no hash that the donut's
suffix files do not have, and neither do the update files it is made from (`OrderWithin`), so
that `VerifyHash` refuses whatever a tree answers for a hash it does not hold.
`LookupSound` follows. `ServedImmutable` follows from where the donut
in hand is (`InService`); `ArchiveSpec` from `Durable` and its counterpart, that no folder ever
gets a hash that was not presented (`OnlyStored`).

`LookupSound` makes an exception of donuts that stand behind one that was never made
(`Misnumbered`): a gap at the first index of an input tier lets `AppendHash` fail after the
donut was registered and before its icing was opened, after which `donuts[d]` is not the
donut of folder `d`, and what `VerifyHash` compares is in the wrong file. Nothing in the
repository says that this can not happen, so it is part of the property and no
violation run.

### Cake: what is there while nothing broke off (`Tidy`)

A crash, a panic or an error sets `interrupted`, and `Tidy` is about the time before the
first. Then the folders are those the records name, plus exactly what `pc` says
`AppendHash` has in hand: one frozen input folder, one frozen tier, the donut in the
making (`InputsTidy`, `FoldersTidy`, `DonutsTidy`). Memory has all of it open
(`MemoryTidy`, `InputTidy`). `NamedByFirst` (a tier's folder is named after its first
donut's offset) is what `PublishFirst` needs to be right about the folder it opens. The
steps that break off make `interrupted` true, so that they are vacuous here; what has to be
shown of them is in `Inductive` and `Traced`. `NoOrphans`, `ReopenFaithful` and
`OpenAfterCrash` follow: a restart reads what `Tidy` says is there.

### Cake: everything is found (`Shared`)

Without gaps, the share of a donut is the interval of indices from its own offset up to the
least offset that comes after it (`After`): that of the next donut in its list, of a tier,
of the input tier, or of the folder in hand. The shares of all folders are what was
presented, at every step, because a step that moves a boundary moves the hashes:

* a freeze adds a boundary at the end, above everything (`Ascending`, `InputsFilled`: a
  frozen input folder is full, so it ends where the next one starts);
* listing a new donut adds a boundary that the folder in hand had already
  (`MakingContext` in the proofs: between the donut in hand and the newest boundary there
  is none);
* a bake moves the shares of the frozen tier's donuts into one. In the middle of it the
  files of each prefix are in the source, in both, or in the new donut only, according to
  `job.prefix` (`PrefixesMoved`);
* `BakeOrder` concatenates. `Base(d)`, a cardinality, is the distance of offsets because
  consecutive shares are intervals (`Bases`); the update that belongs to a
  local index is unique (`ConcatenatedInOrder`), and the result is in order for the union.

`LookupsComplete` then needs of the lookup: a donut in service has its share at every moment
(`ServedShared`); whatever candidates its trees give, the donut answers the hash or "no match"
and never an error (`DonutFinds`), so that the first donut that has the hash answers
(`TiersFind`); and what is not in service is what `AppendHash` has in hand (`AllInReach`).
Two small invariants join: no tier lists more donuts than a lookup looks at (`Bounded`),
and between recording a frozen input tier and switching to the next, memory still answers from
the frozen one (`Switching`).
`ServiceImplemented` is the step simulation: the answers of a lookup, together with what is in
hand, change by the one hash that an `Append` adds, and by nothing else.

### Cake: it counts like an odometer (`CountedUp`)

`Shared` says which indices a folder has, not how many. `CountedUp` says, while no gap is
presented and nothing broke off, that donut d of tier t begins at
`Span[t + 1] + (d - 1) * DonutSize[t]`: after everything in the tiers above and the donuts
before it in its own. `Span[t]` adds up the donuts of the tiers from t up, as `DONUT_OFFSETS`
lists them on disk, beginning with the topmost tier. The second part places the input
folder: at `Span[0]`, except while the last one is in hand, which then begins there, and
will be one donut more of the tier it goes to.

A tier is full only from listing its last donut to being frozen (`MayBeFull`), and
when `FreezeTier` runs it has exactly `Donuts` donuts: the check of `cake.go:110` comes
neither late nor early. The steps that matter are four:

* `FreezeRecord` moves the input folder by `Cap`, because it is full (`Tidy`);
* `DonutFolder` lists the folder in hand last in its tier. The tiers below are empty
  (`EmptyBelow`, from `Inductive`), so no donut of theirs has to move, and the span
  grows by what the folder in hand has;
* `Publish` goes on to `FreezeTier` exactly if the tier is full, and returns otherwise;
* `FreezeTier` takes `Donuts` donuts of a tier out of the record, which begin where the
  tiers above end and span as much as one donut of the next tier.

The recursion of `Span` goes down from `NTiers`, so that it is an induction over the distance
from there (`SpanFacts`), and what a tier spans depends on the tiers above it only
(`SameAbove`). `Odometer` follows, as memory has what the lists on disk say between calls
(`OpenIsListed`).

### InputTier: no file is misread (`NeverMisread`)

Whether a file can be read is a matter of counting: the entries of `HashesOrder.bin` that
are no gaps against those of `HashSuffix.bin`. The invariant says that once an append broke off
between the two writes, `HashesOrder.bin` has more of them for good, whatever is
appended later, since its last entry is never a gap and no later append makes up for the
missing one; otherwise the n-th entries that are no gap pair with the n-th of the other file
(`Rank`). The lemmas about `Rank` (it grows by one at an entry that is none, it is one to
one on such entries) carry the proof. `ReopensUntilFull` adds that the values 0xFFFF and
0xFFFFFF, which read back as "no match", are not reached earlier.

### TierBake: no entry is lost (`NothingLost`)

What the suffix files say is a set of pairs of a hash and an index, and the claim is that
the old donuts and the new one together say the same at every step. Of the steps

* `CopyEntry` adds a pair that was there. The hash is the same because the nibble that
  leaves the suffix joins the prefix (`HashMoved`) and packing nibbles into bytes is
  undone by reading them (`PackedBytes`), for odd and even lengths; the index is the same because the
  difference of the offsets does not wrap around or reach "no match" (`RebasedBack`);
* `OpenPrefix` truncates no file that has entries. Files made before are those of smaller
  prefixes (`PathsTo`), a number is found again from its nibbles (`PrefixOneToOne`), and
  two prefixes of one length have different paths (`PathOneToOne`);
* `RemovePrefix` removes what was copied: `CopiedSoFar` says that the entries of the
  donuts done, and those before `at` of the donut at hand, are in the new donut;
* `Finish` removes folders that have no suffix file left (`PathsFrom`).

That every string of nibbles is the prefix of some number (`PrefixOnto`), so that no file is
left out, goes by induction over the length. An induction is here the statement that the set of lengths for which
a fact holds has 0 and with every number the next one (`Induction`, from the least
element of a set of numbers); that the recursion for `Power` has a solution
is proved in the same way (`PowerFacts`). In the initial state each hash of a donut has
one place in one file: the indices of a prefix are listed by their ranks, which are one to
one (`Enumerated`).

### TierBake: the new donut is as if made directly (`InOrder`)

`NothingLost` speaks of sets of pairs. `Regrouped` is about sequences: at which position of
its file a hash is, and which position `HashesOrder.bin` gives for it. The
position is written to the updates file when the entry is copied, long before the order
is made from it. `InOrder` says, at every step,

* `IndicesFit`: each index belongs to one hash and to one donut, and the spans of the donuts
  follow each other;
* `SourcesKept`: what is left of the sources is what `OrderOf` and `FilesOf` make of their
  hashes. So a source file lists its hashes by ascending index (`SourceFile`);
* `FilesAscend`: so do the files of the new donut, and what is still to be read of the
  files at hand comes after what is in them, by donut and then by place. This is
  why an append keeps the order, and why the entry that was copied last has the position
  that the length of the file was;
* `UpdatesTell`: the updates of a donut lead to the entries of its hashes, and they
  have every hash of it that is in the new donut. Files only grow, so a position stays right;
* `OrderSoFar`: `HashesOrder.bin` has an entry for each local index read so far. It has the
  longer prefix (`NewPrefixIs`: the shorter prefix, times 16, and the next nibble, also if the
  shorter prefix reads back as "no match", whose digits are those of the prefix) and a
  position where the hash is; a gap has zeros.

At the end the file of a prefix ascends and has exactly the hashes of the prefix
(`NothingLost`); there is only one such sequence (`WithPrefixIs`, from the rank of a number
in a set), the one that `FilesOf` lists, and the position of a hash is the number of those
of its prefix before it (`OrderMade`). `VerifiesBaked` follows since the entry of a local
index leads to its hash, and to no other one (`EntryLeads`).

`Explained` is `FailsOnlyIf` with what makes it inductive: the lookup of the first hash
before the bake found it, unless its prefix is all ones (`FirstLookup`); the one after
the bake finds the same (`LastLookup`), so that `Finish` does not fail. An entry
is refused only if its index does not fit, which takes a hole (`CopyFails`); a position
always fits, since the entries of a file are distinct hashes of one prefix (`PositionFits`);
a prefix index fits unless the shorter prefix was read back as "no match" (`OrderFails`).

### Forest: rows belong to their prefixes (`RowsAccounted`)

A row of a lengths file is appended only by trees that have the level. `RowsAccounted`: up to
the first tree that lacks the level after one that has it, the file has one row per
tree; from there on it stays shorter than the number of trees, since it never catches up. The
number of rows that are one counts the encoded levels. Hence `Open`, which compares the
number of rows, accepts no file whose rows have slipped. That there is a first such tree is
the least element of a set of natural numbers.

### Forest: a lookup walks the tree that was made (`TreesFit`)

Which byte a node forks on depends on entropies, which format it gets on the merging of groups,
and its number on both orders in which nodes are visited and written. The invariant is what a
lookup needs of a tree whatever these were, and it is little (`IsTree`):

* two nodes have no hash in common, or one of them is in a slot of the other;
* a node forks on a byte that is free there, and in which its hashes differ.

A fork keeps this (`ForkedTree`): its slots are apart, and what was apart from the node, or
around it, is so from its slots. `todo` is exactly the crowded nodes that have not been forked,
so that every hash has a leaf of its own when generation ends. `PanicsOnlyIf` is in the
invariant because generation must not end otherwise: `Best` has a byte unless the hashes agree
in all free ones, and as the hashes of a prefix agree in all of the prefix (`FreeTells`, since a
prefix index is the number of one string of nibbles only, `IndexOneToOne`), that takes a byte an
odd prefix ends in; and each level has groups with room for its nodes
(`LevelGroupsFit`), unless it has more of them than two bytes can name.

From there to the answers the proof goes through the encoding, in `TreeProofs`:

* *Order.* The visit orders the nodes of a level: of two nodes the one with the larger byte
  value at their common ancestor comes first, and there is one such ancestor (`CommonFacts`,
  `VisitOrders`). So a level lists each of its nodes once (`LevelNodesFacts`).
* *Groups.* A group counts the nodes with its numbers of slots, all of one format, and a tiny
  one has room for the largest of them (`GroupsFit`). The first groups are so
  (`ProposedFits`). A merge of neighbours keeps it, since the numbers of one format are
  neighbours (`FormatFacts`); as long as there are more groups than
  formats some two can be merged (`SomeMergeable`), so `Cheapest` chooses among
  them; and the sorting moves groups as a whole (`MergedFits`, `RefinedFits`, `SortedFits`).
* *Numbers.* A group's members are as many as it counts (`MembersFacts`), a number is the sum of
  the counts before and a place among the members, and the level is written as the
  members of its groups end to end. So the node at a number is the one that got it
  (`EncodedLevel`), and a slots node leads from each of its values to the node in that
  slot (`NextFacts`), from other values nowhere, or, if it is padded and the value is 0, to
  the node with the number 0.
* *Lookup.* A lookup reaches only nodes whose hashes agree with it in the bytes examined, and a
  node that holds it if there is one (`Reaches`). It goes down one node with each
  step, and each step examines a byte that was free, so that after `HashBytes` + 1 steps it has ended at one of
  them (`StepFacts`, `LookupEnds`): at a slots node without the value, at the padding, or at a leaf. A
  stored hash never meets the padding, because its own node has its value.
* *Leaves.* A leaf that keeps its hash's first free bytes is compared in the same
  bytes with the hash looked up (`LeafCompares`, `FirstFreeFacts`), and the bytes on the way and these are
  different ones, so that they can be counted together (`CommonBytesFacts`). A lone hash keeps its first
  bytes instead: in tier 0 these are the same, elsewhere that is chance (`LoneFacts`).

That an opened forest gives the lookup the tree of its own prefix is `OpenReadsBack`
(`ReadableWhenDone`). `IcedFound` has three exceptions: a level with more nodes than two bytes
can name (`Crowded`), a level at which too few bytes are left for a leaf (`RunsShort`), and a lone hash
that keeps other bytes than are compared. `CandidateAgrees` has the first two, a prefix without
hashes, and a way that ends at a missing slot for 0 where there is padding; of a lone
hash above tier 0 it says only that no other index is answered. The proofs use each exception where
it stands in the property and nowhere else.

### How the proofs are laid out

`CakeProofs` has the facts about helpers and about steps that only return,
one lemma per action for `Inductive`, puts them together and
derives `InputAhead`. `CakeTidyProofs` adds `Traced` and `Tidy`, `CakeShareProofs` adds `Shared`
and `CountedUp`, each with one lemma per action, relative to the ones before. `InputTierProofs`
stands alone. `TierBakeProofs` has numbers, nibbles, paths and
`NothingLost`, `TierBakeOrderProofs` adds ascending sequences and the other two invariants.
`TreeProofs` has what is true of every tree and every level, with no step in it,
`ForestProofs` the steps of an icing and of a lookup. The inductive invariants are invariants
of a run too, except `Bounded` and `Switching`, two lines each that are only a step on
the way to `LookupComplete`, and `CountedUp`, a step on the way to `Odometer`, which the run
`serve` checks.

*Induction.* The induction theorems of the library take an operator as a parameter, which no
prover here can instantiate. Induction over numbers is therefore stated of a set (`Induction`,
`InductionUpTo`), and a recursive function is shown to exist by choosing, for each length, one
that satisfies the equations up to it (`PowerFacts`, `Recursion`). That is how powers, prefix
indices, the unevenness of a byte, sums of counts, merges one after
the other, sequences end to end, and the steps of a lookup are reasoned about.

*Only model-checked.*

* Liveness: `PipelineEnds`, which needs fairness and ENABLED.

None of these modules has a RECURSIVE operator.

## 5. What is not modelled, and the plan

Not in any module yet:

* a torn append as a fault of the whole cake: `InputTier` and `Cake` are not
  composed (plan 1), nor are the bakes of `TierBake` and the icings of `Forest`: what
  these find is an assumption of `Cake`, as said in section 2;
* the first bake, of an input tier (`inputtierbake.go`), entry by entry: `Cake` has its
  steps, `TierBake` starts from what it makes (`OrderOf` and `FilesOf` at tier 0);
* rewrites of `TierOffsets.txt` and `DonutOffsets.txt` that a crash tears
  (plan 2) and errors of the operating system such as a full disk (plan 3);
* the layout of bytes: the order of bytes in an integer, byte lengths and offsets
  inside a level, the bitmaps of medium nodes;
* `ShallowTree.LookupHash`, the counting of nodes and the printing of shapes,
  which only tests use; `DecoderLevelsTest`, a copy of `ForestRead.Lookup` for tests;
  `EncodeSmallTree`, a stub that panics; ID40, which nothing uses;
* a lookup in a prefix without hashes (see above);
* the READONLY flag that `CreateInputTierFiles` leaves where it is (`FreezeCreate` makes the
  tier without one) and the error of `AppendHash` when the donut it has just iced cannot be
  opened (`PublishNext` has no failing branch): no state gets there, since the offset of a new input tier is above all that were
  used (`InputAhead`), and a donut is published only after its icing is complete;
* `O_APPEND` without `O_WRONLY` (`inputtier.go:60`): the files are taken to be
  writable, as the comment at `inputtier.go:24` says;
* indices presented out of order, and hashes presented twice: both are excluded
  by the callers' contract (`inputtier.go:14-17`, `:91`).

Done so far: `Cake` with its lookups, invariant and proofs, `InputTier`, `TierBake`,
`ShallowTree`, `NodeFormats` and `Forest`. The plan, in this order:

1. `InputTier` composed with `Cake`, with the torn append as a fault of its own.
2. Torn rewrites of the two offset files in `Cake` as a fault of their own.
3. Operating-system errors as a fault at each step of `Cake`.
