--------------------------------- MODULE Cake ---------------------------------
(***************************************************************************)
(* The wedding cake (cake/cake.go): hashes are appended to an input tier;  *)
(* a full input tier is frozen and baked into a donut of tier 0; a tier    *)
(* with all its donuts is frozen and baked into one donut of the tier      *)
(* above it.  AppendHash runs that pipeline to the end before it returns.  *)
(*                                                                         *)
(* A step of this module is one file operation, or a group of them that    *)
(* nothing can tell apart, so that the process may die between any two.    *)
(*                                                                         *)
(* A hash is identified with the index it is presented with: callers       *)
(* present every hash once (inputtier.go:14-17), so a lookup that is right *)
(* answers the hash itself.                                                *)
(***************************************************************************)
EXTENDS Integers, Sequences, FiniteSets, Functions, FiniteSetsExt

CONSTANTS
  Cap,          \* entries of a full input tier; the same number is the
                \*   two-byte "no match" value (65535 and 0xFFFF in the code)
  Donuts,       \* donuts of a full tier (16 in the code)
  NTiers,       \* tiers above the input tier (5 in the code)
  PrefixCount,  \* suffix files of a donut, by tier (16^t in the code)
  PrefixOf,     \* the suffix file a hash belongs to, by tier
  MaxGpi,       \* bound: presentation indices are below it
  MaxGap,       \* bound: indices one presentation may skip
  MaxFaults     \* bound: crashes of the process

Tiers == 0 .. NTiers - 1
Hashes == 0 .. MaxGpi - 1

ASSUME SizesAssumption ==
  /\ Cap \in Nat \ {0}
  /\ Donuts \in Nat \ {0, 1}
  /\ NTiers \in Nat \ {0}
  /\ MaxGpi \in Nat
  /\ MaxGap \in Nat
  /\ MaxFaults \in Nat

ASSUME PrefixAssumption ==
  /\ PrefixCount \in [Tiers -> Nat \ {0}]
  /\ PrefixOf \in [Tiers -> [Hashes -> Nat]]
  /\ \A t \in Tiers, h \in Hashes : PrefixOf[t][h] < PrefixCount[t]

VARIABLES
  \* On disk
  tierOffsets,  \* TierOffsets.txt
  inputs,       \* the InputTier_<offset> folders, by offset
  donutFile,    \* Tier<t>_<offset>/DonutOffsets.txt, by <<t, offset>>
  donuts,       \* Tier<t>_<offset>/Donut<k> folders, by <<t, offset, k>>
  \* In the memory of the process that opened the cake
  tiersInfo,    \* Cake.tiersInfo
  input,        \* Cake.openInputTier
  open,         \* Cake.openTiers
  \* Where AppendHash is, and its local variables
  pc, job,
  \* History, for the properties
  stored,       \* hashes an AppendHash wrote to the input tier
  faults,       \* crashes so far
  interrupted   \* some AppendHash did not reach its end

disk == <<tierOffsets, inputs, donutFile, donuts>>
memory == <<tiersInfo, input, open>>
ghost == <<stored, faults, interrupted>>
vars == <<disk, memory, pc, job, ghost>>

(***************************************************************************)
(* Values.  Here and below, a definition that directly precedes another    *)
(* and is used nowhere (OnFileOfAll before OnFile) is a faulty variant of  *)
(* it: with it in the other's place, some property must fail.              *)
(***************************************************************************)
Absent == -1      \* TierOffsets.txt's entry for a tier that is not there
PastEnd == -1     \* a HashesOrder.bin entry that cannot be followed
Dangling == -2    \* one that points at no hash in particular
NoFolder == -1

NoJob == [tier |-> 0, off |-> 0, count |-> 0, offsets |-> <<>>, prefix |-> 0]
NilInput == [offset |-> NoFolder, count |-> 0, entries |-> {}]
NilTier == [folder |-> NoFolder, offsets |-> <<>>, donuts |-> <<>>]
NewInput == [count |-> 0, suffix |-> {}, readonly |-> FALSE]
NewDonut == [suffix |-> {}, updates |-> {}, order |-> [i \in {} |-> Dangling],
             iced |-> FALSE]

Entry(h, pi) == [hash |-> h, pi |-> pi]
HashesIn(entries) == {e.hash : e \in entries}

Put(f, x, v) == [y \in DOMAIN f \cup {x} |-> IF y = x THEN v ELSE f[y]]
DropNothing(f, S) == f
Drop(f, S) == Restrict(f, DOMAIN f \ S)

\* What TiersInfo.ToDisk writes: the offset of an absent tier is not kept.
OnFileOfAll(info) ==
  [input |-> info.input, tier |-> info.offset]
OnFile(info) ==
  [input |-> info.input,
   tier |-> [t \in Tiers |-> IF info.present[t] THEN info.offset[t] ELSE Absent]]

\* What TiersInfo.FromDisk reads back.
FromFileUnchanged(file) ==
  [input |-> file.input, offset |-> file.tier,
   present |-> [t \in Tiers |-> file.tier[t] # Absent]]
FromFile(file) ==
  [input |-> file.input,
   offset |-> [t \in Tiers |-> IF file.tier[t] = Absent THEN 0 ELSE file.tier[t]],
   present |-> [t \in Tiers |-> file.tier[t] # Absent]]

\* A TiersInfo with tier t present at offset o, and one without tier t.
WithTier(info, t, o) ==
  [info EXCEPT !.offset[t] = o, !.present[t] = TRUE]
WithoutTier(info, t) == [info EXCEPT !.present[t] = FALSE]

\* What NewInputTier and openTier hold in memory after reading a folder.
OpenedInput(o) ==
  [offset |-> o, count |-> inputs[o].count, entries |-> inputs[o].suffix]
OpenedTier(t, o) ==
  [folder |-> o, offsets |-> donutFile[<<t, o>>],
   donuts |-> [d \in 1 .. Len(donutFile[<<t, o>>]) |-> d - 1]]

\* OpenInputTier panics on a READONLY folder; readHashes fails when the last
\* HashesOrder.bin entry has no HashSuffix.bin entry, or when a stored index
\* reads back as the two-byte "no match".
InputReadable(o) ==
  /\ o \in DOMAIN inputs
  /\ ~inputs[o].readonly
  /\ inputs[o].count = 0 \/ \E e \in inputs[o].suffix : e.pi = inputs[o].count - 1
  /\ \A e \in inputs[o].suffix : e.pi # Cap

\* ForestRead.Open: the icing is whole (TreesRoots.bin is written last).
DonutReadable(s) == s \in DOMAIN donuts /\ donuts[s].iced

TierReadable(t, o) ==
  /\ <<t, o>> \in DOMAIN donutFile
  /\ \A k \in 0 .. Len(donutFile[<<t, o>>]) - 1 : DonutReadable(<<t, o, k>>)

\* CakeFactory.Open succeeds.
Openable ==
  /\ InputReadable(tierOffsets.input)
  /\ \A t \in Tiers :
       tierOffsets.tier[t] # Absent => TierReadable(t, tierOffsets.tier[t])

(***************************************************************************)
(* CakeFactory.Create has made an empty input tier and TierOffsets.txt.    *)
(***************************************************************************)
Init ==
  /\ tierOffsets = [input |-> 0, tier |-> [t \in Tiers |-> Absent]]
  /\ inputs = [o \in {0} |-> NewInput]
  /\ donutFile = [x \in {} |-> <<>>]
  /\ donuts = [x \in {} |-> NewDonut]
  /\ tiersInfo = FromFile(tierOffsets)
  /\ input = NilInput
  /\ open = [t \in Tiers |-> NilTier]
  /\ pc = "down"
  /\ job = NoJob
  /\ stored = {}
  /\ faults = 0
  /\ interrupted = FALSE

(***************************************************************************)
(* Open and Close                                                          *)
(***************************************************************************)
Open ==
  /\ pc = "down"
  /\ Openable
  /\ tiersInfo' = FromFile(tierOffsets)
  /\ input' = OpenedInput(tierOffsets.input)
  /\ open' = [t \in Tiers |-> IF tierOffsets.tier[t] = Absent THEN NilTier
                              ELSE OpenedTier(t, tierOffsets.tier[t])]
  /\ pc' = "idle"
  /\ UNCHANGED <<disk, job, ghost>>

\* What is in memory is gone; TiersInfo is read again before its next use.
Forget ==
  /\ input' = NilInput
  /\ open' = [t \in Tiers |-> NilTier]
  /\ pc' = "down"
  /\ job' = NoJob
  /\ UNCHANGED tiersInfo

Close ==
  /\ pc = "idle"
  /\ Forget
  /\ UNCHANGED <<disk, ghost>>

\* The process dies. Between two calls that is no worse than Close.
Crash ==
  /\ pc \notin {"down", "idle"}
  /\ faults < MaxFaults
  /\ Forget
  /\ faults' = faults + 1
  /\ interrupted' = TRUE
  /\ UNCHANGED <<disk, stored>>

\* A panic in the middle of AppendHash ends the process.
Panic ==
  /\ Forget
  /\ interrupted' = TRUE
  /\ UNCHANGED <<stored, faults>>

\* AppendHash returns an error and the caller goes on with the open cake.
GiveUp ==
  /\ pc' = "idle"
  /\ job' = NoJob
  /\ interrupted' = TRUE
  /\ UNCHANGED <<memory, stored, faults>>

Fail == GiveUp /\ UNCHANGED disk

(***************************************************************************)
(* AppendHash: the input tier (inputtier.go)                               *)
(***************************************************************************)
\* gpi's are presented in order, but may leave gaps.
Presentable(gpi) ==
  LET expected == input.offset + input.count
  IN  pc = "idle" /\ expected <= gpi /\ gpi <= expected + MaxGap

AppendHash(gpi) ==
  LET localPi == gpi - input.offset
  IN /\ Presentable(gpi)
     /\ localPi <= Cap
     /\ inputs' = [inputs EXCEPT
          ![input.offset].count = localPi + 1,
          ![input.offset].suffix = @ \cup {Entry(gpi, localPi)}]
     /\ input' = [input EXCEPT !.count = localPi + 1,
                               !.entries = @ \cup {Entry(gpi, localPi)}]
     /\ stored' = stored \cup {gpi}
     /\ pc' = IF localPi + 1 = Cap THEN "freezeCreate" ELSE "idle"
     /\ UNCHANGED <<tierOffsets, donutFile, donuts, tiersInfo, open, job, faults,
                    interrupted>>

\* HashesOrder.bin has been written when the two-byte local index panics.
AppendTooLarge(gpi) ==
  LET localPi == gpi - input.offset
  IN /\ Presentable(gpi)
     /\ localPi > Cap
     /\ inputs' = [inputs EXCEPT ![input.offset].count = localPi + 1]
     /\ Panic
     /\ UNCHANGED <<tierOffsets, donutFile, donuts>>

(***************************************************************************)
(* FreezeInputTierForBaking                                                *)
(***************************************************************************)
NextOffsetStuck == tiersInfo.input
NextOffsetShort == tiersInfo.input + input.count - 1
NextOffset == tiersInfo.input + input.count

\* CreateInputTierFiles truncates the files of the next input tier.
FreezeCreate ==
  /\ pc = "freezeCreate"
  /\ inputs' = Put(inputs, NextOffset, NewInput)
  /\ pc' = "freezeRecord"
  /\ UNCHANGED <<tierOffsets, donutFile, donuts, memory, job, ghost>>

FreezeRecord ==
  /\ pc = "freezeRecord"
  /\ tiersInfo' = [tiersInfo EXCEPT !.input = NextOffset]
  /\ tierOffsets' = OnFile(tiersInfo')
  /\ job' = [NoJob EXCEPT !.off = tiersInfo.input]
  /\ pc' = "freezeSwitch"
  /\ UNCHANGED <<inputs, donutFile, donuts, input, open, ghost>>

FreezeSwitch ==
  /\ pc = "freezeSwitch"
  /\ input' = OpenedInput(tiersInfo.input)
  /\ pc' = "freezeSeal"
  /\ UNCHANGED <<disk, tiersInfo, open, job, ghost>>

FreezeSeal ==
  /\ pc = "freezeSeal"
  /\ inputs' = [inputs EXCEPT ![job.off].readonly = TRUE]
  /\ pc' = "newDonut"
  /\ UNCHANGED <<tierOffsets, donutFile, donuts, memory, job, ghost>>

(***************************************************************************)
(* newDonutFolder(job.tier, job.off)                                       *)
(***************************************************************************)
\* The tier's folder, the donut being made in it, and the donuts of the frozen
\* tier it is made of (job.tier > 0).
TierFolder == <<job.tier, tiersInfo.offset[job.tier]>>
SlotBefore == <<job.tier, tiersInfo.offset[job.tier],
                IF job.count = 1 THEN 0 ELSE job.count - 2>>
Slot == <<job.tier, tiersInfo.offset[job.tier], job.count - 1>>
Source(d) == <<job.tier - 1, job.off, d - 1>>
Sources == {Source(d) : d \in 1 .. Len(job.offsets)}

TierRecord ==
  /\ pc = "newDonut"
  /\ job.tier \in Tiers
  /\ open[job.tier] = NilTier
  /\ tiersInfo' = WithTier(tiersInfo, job.tier, job.off)
  /\ tierOffsets' = OnFile(tiersInfo')
  /\ pc' = "tierFile"
  /\ UNCHANGED <<inputs, donutFile, donuts, input, open, job, ghost>>

TierFile ==
  /\ pc = "tierFile"
  /\ donutFile' = Put(donutFile, <<job.tier, job.off>>, <<>>)
  /\ open' = [open EXCEPT ![job.tier] = [NilTier EXCEPT !.folder = job.off]]
  /\ pc' = "newDonut"
  /\ UNCHANGED <<tierOffsets, inputs, donuts, tiersInfo, input, job, ghost>>

HasRoom == TierFolder \in DOMAIN donutFile /\ Len(donutFile[TierFolder]) < Donuts

DonutFolder ==
  LET folder == TierFolder
      registered == Append(donutFile[folder], job.off)
  IN /\ pc = "newDonut"
     /\ job.tier \in Tiers
     /\ open[job.tier] # NilTier
     /\ HasRoom
     /\ donutFile' = [donutFile EXCEPT ![folder] = registered]
     /\ open' = [open EXCEPT ![job.tier].offsets = registered]
     /\ job' = [job EXCEPT !.count = Len(registered)]
     /\ pc' = IF job.tier = 0 THEN "bakeInput" ELSE "bakePrefix"
     /\ UNCHANGED <<tierOffsets, inputs, donuts, tiersInfo, input, ghost>>

\* DonutOffsets.txt is missing, or "tier already has 16 donuts".
DonutRefused ==
  /\ pc = "newDonut"
  /\ job.tier \in Tiers
  /\ open[job.tier] # NilTier
  /\ ~HasRoom
  /\ Fail

\* There is no tier above the last one: index out of range.
TopTierPanic ==
  /\ pc = "newDonut"
  /\ job.tier = NTiers
  /\ Panic
  /\ UNCHANGED disk

(***************************************************************************)
(* BakeFrozenInputTier: the new donut's files are copies of the input's    *)
(***************************************************************************)
\* HashesOrder.bin holds localPi itself as the position in HashSuffix.bin, but
\* a gap takes no room there: localPi resolves to the entry of that rank. A
\* gap's own all-ones entry is no position at all.
Resolved(entries, localPi) ==
  LET ranked == {e \in entries :
                   Cardinality({d \in entries : d.pi < e.pi}) = localPi}
  IN  IF (\E e \in entries : e.pi = localPi) /\ ranked # {}
      THEN (CHOOSE e \in ranked : TRUE).hash ELSE PastEnd

\* ForwardLookup(0) fails, before and after, unless localPi 0 was presented.
HasFirst(entries) == \E e \in entries : e.pi = 0

BakeInput ==
  LET frozen == inputs[job.off]
  IN /\ pc = "bakeInput"
     /\ HasFirst(frozen.suffix)
     /\ donuts' = Put(donuts, Slot,
          [NewDonut EXCEPT
             !.suffix = frozen.suffix,
             !.order = [l \in 0 .. frozen.count - 1 |-> Resolved(frozen.suffix, l)]])
     /\ pc' = "removeInput"
     /\ UNCHANGED <<tierOffsets, inputs, donutFile, memory, job, ghost>>

BakeInputFails ==
  /\ pc = "bakeInput"
  /\ ~HasFirst(inputs[job.off].suffix)
  /\ Fail

RemoveInput ==
  /\ pc = "removeInput"
  /\ inputs' = Drop(inputs, {job.off})
  /\ pc' = "ice"
  /\ UNCHANGED <<tierOffsets, donutFile, donuts, memory, job, ghost>>

(***************************************************************************)
(* BakeFrozenTierToDonutFolder: the suffix files of the source donuts are  *)
(* regrouped by the destination's longer prefix, one source prefix at a    *)
(* time, each source file being removed as soon as it has been copied      *)
(***************************************************************************)
PrefixOfEntry(e) == PrefixOf[job.tier - 1][e.hash]
OfPrefix(entries) == {e \in entries : PrefixOfEntry(e) = job.prefix}

\* A local index of source donut d, as a local index of the new donut.
RebasedNot(d, pi) == pi
Rebased(d, pi) == pi + job.offsets[d] - job.off

Moved(d) ==
  {Entry(e.hash, Rebased(d, e.pi)) : e \in OfPrefix(donuts[Source(d)].suffix)}

\* The TempUpdates file of source donut d.
Updates(d) ==
  {[donut |-> d, pi |-> e.pi, hash |-> e.hash] : e \in OfPrefix(donuts[Source(d)].suffix)}

\* os.Create truncates the destination's files of the prefix being baked.
KeptNothing(entries) == {}
Kept(entries) == entries \ OfPrefix(entries)

\* The new donut once the files of this prefix are copied from n source donuts.
Copied(n) ==
  LET made == IF job.prefix = 0 THEN NewDonut ELSE donuts[Slot]
  IN  [made EXCEPT !.suffix = Kept(@) \cup UNION {Moved(d) : d \in 1 .. n},
                   !.updates = @ \cup UNION {Updates(d) : d \in 1 .. n}]

\* A source donut that was registered but never baked has no files; one whose
\* bake broke off has no HashesOrder.bin, and may lack some suffix files.
Exists(d) == Source(d) \in DOMAIN donuts
Whole(d) == Exists(d) /\ DOMAIN donuts[Source(d)].order # {}

\* ForwardLookup(0) in the first source comes before everything else.
BakePrefix ==
  /\ pc = "bakePrefix"
  /\ Whole(1)
  /\ \A d \in 1 .. Len(job.offsets) : Exists(d)
  /\ donuts' = Put(donuts, Slot, Copied(Len(job.offsets)))
  /\ pc' = "dropPrefix"
  /\ UNCHANGED <<tierOffsets, inputs, donutFile, memory, job, ghost>>

\* A suffix file of source d is missing: those before it have been copied.
BakeTierFails ==
  /\ pc = "bakePrefix"
  /\ \E d \in 1 .. Len(job.offsets) :
       /\ ~Whole(d)
       /\ d > 1 => Whole(1)
       /\ \A c \in 1 .. d - 1 : Exists(c)
       /\ donuts' = IF d = 1 THEN donuts ELSE Put(donuts, Slot, Copied(d - 1))
  /\ GiveUp
  /\ UNCHANGED <<tierOffsets, inputs, donutFile>>

NextPrefixSame == job.prefix
NextPrefix == job.prefix + 1

DropPrefix ==
  /\ pc = "dropPrefix"
  /\ donuts' = [s \in DOMAIN donuts |->
       IF s \in Sources
       THEN [donuts[s] EXCEPT !.suffix = @ \ OfPrefix(@)]
       ELSE donuts[s]]
  /\ job' = [job EXCEPT !.prefix = NextPrefix]
  /\ pc' = IF NextPrefix = PrefixCount[job.tier - 1] THEN "bakeOrder"
           ELSE "bakePrefix"
  /\ UNCHANGED <<tierOffsets, inputs, donutFile, memory, ghost>>

\* HashesOrder.bin of the new donut: those of the sources one after the other,
\* entry by entry. The position in the suffix file comes from the updates; the
\* prefix comes from the source's entry (tier 0 has only the empty prefix), so
\* that an entry is right only if the source's pointed into its hash's file.
SourceOrder(d) == donuts[Source(d)].order
Base(d) == Cardinality(UNION {{c} \X DOMAIN SourceOrder(c) : c \in 1 .. d - 1})

Pointer(d, localPi) ==
  LET updated == {u \in donuts[Slot].updates : u.donut = d /\ u.pi = localPi}
      old == SourceOrder(d)[localPi]
      samePrefix(h) == old \in Hashes /\ PrefixOf[job.tier - 1][old] = PrefixOf[job.tier - 1][h]
      right == {u \in updated : job.tier = 1 \/ samePrefix(u.hash)}
  IN  IF right = {} THEN Dangling ELSE (CHOOSE u \in right : TRUE).hash

Concatenated(n) ==
  LET donutAt(i) == CHOOSE d \in 1 .. n : Base(d) <= i /\ i < Base(d + 1)
  IN  [i \in 0 .. Base(n + 1) - 1 |-> Pointer(donutAt(i), i - Base(donutAt(i)))]

BakeOrder ==
  /\ pc = "bakeOrder"
  /\ \A d \in 1 .. Len(job.offsets) : Whole(d)
  /\ donuts' = [donuts EXCEPT ![Slot].order = Concatenated(Len(job.offsets)),
                             ![Slot].updates = {}]
  /\ pc' = "removeTier"
  /\ UNCHANGED <<tierOffsets, inputs, donutFile, memory, job, ghost>>

\* Source d has no HashesOrder.bin: those of the sources before it are written, and its
\* own updates file has been read and removed before that is noticed.
Unread(d) == {u \in donuts[Slot].updates : u.donut > d}
BakeOrderFails ==
  /\ pc = "bakeOrder"
  /\ \E d \in 1 .. Len(job.offsets) :
       /\ ~Whole(d)
       /\ \A c \in 1 .. d - 1 : Whole(c)
       /\ donuts' = [donuts EXCEPT ![Slot].order = Concatenated(d - 1),
                                  ![Slot].updates = Unread(d)]
  /\ GiveUp
  /\ UNCHANGED <<tierOffsets, inputs, donutFile>>

RemoveTier ==
  LET folder == <<job.tier - 1, job.off>>
  IN /\ pc = "removeTier"
     /\ donutFile' = Drop(donutFile, {folder})
     /\ donuts' = Drop(donuts, {s \in DOMAIN donuts : <<s[1], s[2]>> = folder})
     /\ pc' = "ice"
     /\ UNCHANGED <<tierOffsets, inputs, memory, job, ghost>>

(***************************************************************************)
(* IceTheDonut, and its donut put in service                               *)
(***************************************************************************)
Ice ==
  /\ pc = "ice"
  /\ donuts' = [donuts EXCEPT ![Slot].iced = TRUE]
  /\ pc' = "publish"
  /\ UNCHANGED <<tierOffsets, inputs, donutFile, memory, job, ghost>>

\* The cascade goes on while the tier just added to is full.
ReturnLate ==
  IF job.count > Donuts
  THEN pc' = "freezeTier" /\ job' = job
  ELSE pc' = "idle" /\ job' = NoJob
Return ==
  IF job.count = Donuts
  THEN pc' = "freezeTier" /\ job' = job
  ELSE pc' = "idle" /\ job' = NoJob

\* donutsCount == 1: the tier is (re)opened, under the new donut's offset.
PublishFirst ==
  /\ pc = "publish"
  /\ job.count = 1
  /\ tiersInfo' = WithTier(tiersInfo, job.tier, job.off)
  /\ tierOffsets' = OnFile(tiersInfo')
  /\ IF TierReadable(job.tier, job.off)
     THEN /\ open' = [open EXCEPT ![job.tier] = OpenedTier(job.tier, job.off)]
          /\ Return
          /\ UNCHANGED interrupted
     ELSE /\ pc' = "idle"
          /\ job' = NoJob
          /\ interrupted' = TRUE
          /\ UNCHANGED open
  /\ UNCHANGED <<inputs, donutFile, donuts, input, stored, faults>>

PublishedNot(tier) == tier
Published(tier) == [tier EXCEPT !.donuts = Append(@, job.count - 1)]

PublishNext ==
  /\ pc = "publish"
  /\ job.count > 1
  /\ DonutReadable(<<job.tier, open[job.tier].folder, job.count - 1>>)
  /\ open' = [open EXCEPT ![job.tier] = Published(@)]
  /\ Return
  /\ UNCHANGED <<disk, tiersInfo, input, ghost>>

\* FreezeTierForBaking. The READONLY file it makes is read only by the bake
\* that follows it, so it is not a state of its own.
FreezeTier ==
  LET t == job.tier
  IN /\ pc = "freezeTier"
     /\ tiersInfo' = WithoutTier(tiersInfo, t)
     /\ tierOffsets' = OnFile(tiersInfo')
     /\ open' = [open EXCEPT ![t] = NilTier]
     /\ job' = [tier |-> t + 1, off |-> tiersInfo.offset[t], count |-> 0,
                offsets |-> open[t].offsets, prefix |-> 0]
     /\ pc' = "newDonut"
     /\ UNCHANGED <<inputs, donutFile, donuts, input, ghost>>

(***************************************************************************)
(* The specification                                                       *)
(***************************************************************************)
Freeze == FreezeCreate \/ FreezeRecord \/ FreezeSwitch \/ FreezeSeal

NewDonutFolder ==
  TierRecord \/ TierFile \/ DonutFolder \/ DonutRefused \/ TopTierPanic

Bake ==
  \/ BakeInput \/ BakeInputFails \/ RemoveInput
  \/ BakePrefix \/ BakeTierFails \/ DropPrefix
  \/ BakeOrder \/ BakeOrderFails \/ RemoveTier

Publish == Ice \/ PublishFirst \/ PublishNext \/ FreezeTier

\* What is left of an AppendHash that has begun.
Pipeline == Freeze \/ NewDonutFolder \/ Bake \/ Publish

Next ==
  \/ Open \/ Close \/ Crash
  \/ \E gpi \in Hashes : AppendHash(gpi) \/ AppendTooLarge(gpi)
  \/ Pipeline

Spec == Init /\ [][Next]_vars

\* AppendHash runs to its end in the caller's thread.
FairSpec == Spec /\ WF_vars(Pipeline)

(***************************************************************************)
(* Type correctness                                                        *)
(***************************************************************************)
EntryType == [hash : Hashes, pi : Int]
UpdateType == [donut : Nat, pi : Int, hash : Hashes]
TierOffsetsType == [input : Nat, tier : [Tiers -> Nat \cup {Absent}]]
TiersInfoType ==
  [input : Nat, offset : [Tiers -> Nat], present : [Tiers -> BOOLEAN]]
InputFolderType == [count : Nat, suffix : SUBSET EntryType, readonly : BOOLEAN]
InputType ==
  [offset : Nat \cup {NoFolder}, count : Nat, entries : SUBSET EntryType]
OpenTierType ==
  [folder : Nat \cup {NoFolder}, offsets : Seq(Nat), donuts : Seq(Int)]
JobType ==
  [tier : 0 .. NTiers, off : Nat, count : Nat, offsets : Seq(Nat), prefix : Nat]

InputsOK ==
  /\ DOMAIN inputs \subseteq Nat
  /\ \A o \in DOMAIN inputs : inputs[o] \in InputFolderType

DonutOK(donut) ==
  /\ donut \in [suffix : SUBSET EntryType, updates : SUBSET UpdateType,
                 order : {donut.order}, iced : BOOLEAN]
  /\ donut.order \in [DOMAIN donut.order -> Hashes \cup {PastEnd, Dangling}]

TiersOnDiskOK ==
  /\ DOMAIN donutFile \subseteq Tiers \X Nat
  /\ \A x \in DOMAIN donutFile : donutFile[x] \in Seq(Nat)
  /\ DOMAIN donuts \subseteq Tiers \X Nat \X Int
  /\ \A s \in DOMAIN donuts : DonutOK(donuts[s])

MemoryOK ==
  /\ tiersInfo \in TiersInfoType
  /\ input \in InputType
  /\ open \in [Tiers -> OpenTierType]

FreezeSteps == {"freezeCreate", "freezeRecord", "freezeSwitch", "freezeSeal"}
DonutSteps ==
  {"tierFile", "bakeInput", "removeInput", "bakePrefix", "dropPrefix", "bakeOrder",
   "removeTier", "ice", "publish", "freezeTier"}

ControlOK ==
  /\ pc \in {"down", "idle", "newDonut"} \cup FreezeSteps \cup DonutSteps
  /\ job \in JobType
  /\ pc \in DonutSteps => job.tier \in Tiers
  /\ stored \subseteq Hashes
  /\ faults \in 0 .. MaxFaults
  /\ interrupted \in BOOLEAN

\* Every variable has its type. What could break it is an index that leaves its
\* range while the pipeline passes it on: a tier beyond the last one, a local
\* index rebased on the wrong donut, a HashesOrder.bin entry read where none is.
TypeOK ==
  /\ tierOffsets \in TierOffsetsType
  /\ InputsOK
  /\ TiersOnDiskOK
  /\ MemoryOK
  /\ ControlOK

=============================================================================
