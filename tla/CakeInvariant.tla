---------------------------- MODULE CakeInvariant ----------------------------
(***************************************************************************)
(* Why no hash is ever lost from disk: the inductive invariant behind      *)
(* TypeOK and Durable, in parts that each say one thing about how the      *)
(* pipeline keeps out of its own way, crashes included.                    *)
(***************************************************************************)
EXTENDS CakeProperties

Up == pc # "down"

\* AppendHash has a frozen folder in hand.
Baking == pc \in {"freezeSwitch", "freezeSeal", "newDonut"} \cup DonutSteps
InputInHand == Baking /\ job.tier = 0
BakeInputSteps == {"bakeInput", "removeInput"}
BakeTierSteps == {"bakePrefix", "dropPrefix", "bakeOrder", "removeTier"}
SlotSteps == BakeInputSteps \cup BakeTierSteps \cup {"ice", "publish"}

\* The local variables of AppendHash fit the place it is at.
JobFits ==
  /\ pc \in {"freezeCreate", "freezeRecord"} => input.count = Cap
  /\ pc \in {"freezeSwitch", "freezeSeal"} => job.tier = 0
  /\ pc \in BakeInputSteps => job.tier = 0
  /\ pc \in BakeTierSteps => job.tier > 0
  /\ pc \in {"freezeSwitch", "freezeSeal", "newDonut", "tierFile"} => job.prefix = 0

\* Memory agrees with TierOffsets.txt, and the input tier held open exists.
MemoryOnDisk ==
  Up => /\ tierOffsets = OnFile(tiersInfo)
        /\ input.offset \in DOMAIN inputs
        /\ pc # "freezeSwitch" => input.offset = tiersInfo.input

\* The folder to switch to, and the frozen input folder, are there.
InputFolders ==
  /\ pc = "freezeRecord" => NextOffset \in DOMAIN inputs
  /\ pc = "freezeSwitch" => tiersInfo.input \in DOMAIN inputs
  /\ InputInHand /\ pc \notin {"ice", "publish", "freezeTier"} => job.off \in DOMAIN inputs

\* Nothing has been appended to an input folder that is not current yet; every
\* other folder is named below the current input offset.
Offsets ==
  /\ \A o \in DOMAIN inputs : inputs[o].suffix # {} => o <= tierOffsets.input
  /\ \A x \in DOMAIN donutFile : x[2] < tierOffsets.input
  /\ \A t \in Tiers : tierOffsets.tier[t] < tierOffsets.input
  /\ Baking => job.off < tierOffsets.input

\* A recorded tier is newer than every folder of the tiers above it, and while a
\* tier is being added to, those below it are gone.
TiersNewer ==
  /\ \A t \in Tiers : tierOffsets.tier[t] # Absent =>
       \A x \in DOMAIN donutFile : x[1] > t => x[2] < tierOffsets.tier[t]
  /\ Baking => \A t \in Tiers : t < job.tier => ~tiersInfo.present[t]

\* The folder in hand is newer than those it may be added to: the only folder
\* of its name can be the one just made for it.
JobNewer ==
  Baking => \A x \in DOMAIN donutFile :
    x[1] >= job.tier =>
      \/ x[2] < job.off
      \/ /\ x[1] = job.tier /\ x[2] = job.off
         /\ tiersInfo.offset[x[1]] = job.off /\ open[x[1]] # NilTier

\* Open tiers are present, and know their donuts.
OpenTiers ==
  /\ \A t \in Tiers : open[t] # NilTier =>
       /\ tiersInfo.present[t]
       /\ <<t, tiersInfo.offset[t]>> \in DOMAIN donutFile =>
            open[t].offsets = donutFile[<<t, tiersInfo.offset[t]>>]
  /\ pc = "tierFile" => open[job.tier] = NilTier /\ tiersInfo.offset[job.tier] = job.off
  /\ pc \in DonutSteps => tiersInfo.present[job.tier]
  /\ pc \in DonutSteps \ {"tierFile"} => open[job.tier] # NilTier

\* Every donut is one of those that its tier's DonutOffsets.txt lists, and the
\* one being made is the last of them.
DonutsListed ==
  /\ \A s \in DOMAIN donuts :
       /\ <<s[1], s[2]>> \in DOMAIN donutFile
       /\ s[3] \in 0 .. Len(donutFile[<<s[1], s[2]>>]) - 1
  /\ pc \in SlotSteps =>
       /\ TierFolder \in DOMAIN donutFile
       /\ job.count = Len(donutFile[TierFolder])
       /\ job.count > 0

\* The sources of a bake are all the donuts of the frozen tier.
AllSources ==
  /\ pc \in {"newDonut", "tierFile"} \cup BakeTierSteps
  /\ job.tier > 0
  /\ <<job.tier - 1, job.off>> \in DOMAIN donutFile
  => Len(donutFile[<<job.tier - 1, job.off>>]) <= Len(job.offsets)

\* A bake starts with a new donut folder, and has copied what it removes.
NothingDroppedEarly ==
  /\ pc = "bakeInput" \/ (pc = "bakePrefix" /\ job.prefix = 0) => Slot \notin DOMAIN donuts
  /\ pc = "removeInput" =>
       /\ Slot \in DOMAIN donuts
       /\ HashesIn(inputs[job.off].suffix) \subseteq HashesIn(donuts[Slot].suffix)
  /\ pc = "bakePrefix" /\ job.prefix > 0 =>
       /\ Slot \in DOMAIN donuts
       /\ \A e \in donuts[Slot].suffix : PrefixOfEntry(e) < job.prefix
  /\ pc = "dropPrefix" =>
       /\ Slot \in DOMAIN donuts
       /\ \A e \in donuts[Slot].suffix : PrefixOfEntry(e) <= job.prefix
       /\ \A s \in Sources \cap DOMAIN donuts :
            HashesIn(OfPrefix(donuts[s].suffix)) \subseteq HashesIn(donuts[Slot].suffix)
  /\ pc \in {"bakePrefix", "dropPrefix"} =>
       \A s \in Sources \cap DOMAIN donuts :
         \A e \in donuts[s].suffix : PrefixOfEntry(e) >= job.prefix
  /\ pc \in {"bakeOrder", "removeTier"} =>
       /\ Slot \in DOMAIN donuts
       /\ \A s \in Sources \cap DOMAIN donuts : donuts[s].suffix = {}

Inductive ==
  /\ TypeOK /\ JobFits /\ MemoryOnDisk /\ InputFolders /\ Offsets /\ TiersNewer
  /\ JobNewer /\ OpenTiers /\ DonutsListed /\ AllSources /\ NothingDroppedEarly
  /\ Durable

\* The input folder that TierOffsets.txt names is there, is newer than every
\* sealed one, and counts past every hash stored so far; the open input tier
\* counts as its folder does. With Inductive, this is inductive too, and shows
\* that a crash never leaves an input offset that is sealed or used already.
InputAhead ==
  /\ tierOffsets.input \in DOMAIN inputs
  /\ \A o \in DOMAIN inputs : inputs[o].readonly => o < tierOffsets.input
  /\ Up => input.count = inputs[input.offset].count
  /\ \A h \in stored : h < tierOffsets.input + inputs[tierOffsets.input].count

(***************************************************************************)
(* Why an answered index is the one that was presented: with Inductive,    *)
(* the parts of Traced are inductive too.                                  *)
(***************************************************************************)
\* Folders and memory hold stored hashes only.
OnlyStored == OnDisk \subseteq stored /\ HashesIn(input.entries) \subseteq stored

\* A local index counts from the offset that its input folder is named by, or that
\* DonutOffsets.txt has for its donut.
DonutOffset(s) == donutFile[<<s[1], s[2]>>][s[3] + 1]
Indexed ==
  /\ \A o \in DOMAIN inputs : \A e \in inputs[o].suffix : e.hash = e.pi + o
  /\ \A e \in input.entries : e.hash = e.pi + input.offset
  /\ \A s \in DOMAIN donuts : \A e \in donuts[s].suffix : e.hash = e.pi + DonutOffset(s)

\* The offsets that a bake goes by are those in the two DonutOffsets.txt.
JobIndexed ==
  /\ pc \in SlotSteps => donutFile[TierFolder][job.count] = job.off
  /\ /\ pc \in {"newDonut", "tierFile"} \cup BakeTierSteps
     /\ job.tier > 0
     /\ <<job.tier - 1, job.off>> \in DOMAIN donutFile
     => donutFile[<<job.tier - 1, job.off>>] = job.offsets

\* In a recorded tier, HashesOrder.bin leads to no hash that the donut's suffix files
\* do not have, and the updates it will be made from do not, either.
Recorded(s) == s[2] = tierOffsets.tier[s[1]]
LeadsWithin(donut) ==
  \A i \in DOMAIN donut.order :
    donut.order[i] \in Hashes => donut.order[i] \in HashesIn(donut.suffix)
UpdatesWithin(donut) == \A u \in donut.updates : u.hash \in HashesIn(donut.suffix)
OrderWithin ==
  /\ \A s \in DOMAIN donuts : Recorded(s) => LeadsWithin(donuts[s])
  /\ pc \in {"dropPrefix", "bakeOrder"} \/ (pc = "bakePrefix" /\ job.prefix > 0) =>
       UpdatesWithin(donuts[Slot])

\* The donuts in service are there, in the folder that is recorded, and are not the
\* one being made. An open tier of another folder has none, and never will.
InService ==
  /\ ~Up => \A t \in Tiers : open[t] = NilTier
  /\ \A t \in Tiers : open[t] # NilTier =>
       \/ open[t].folder = tiersInfo.offset[t]
       \/ open[t].donuts = <<>> /\ <<t, tiersInfo.offset[t]>> \notin DOMAIN donutFile
  /\ \A t \in Tiers : \A d \in DOMAIN open[t].donuts :
       <<t, open[t].folder, open[t].donuts[d]>> \in DOMAIN donuts
  /\ pc \in SlotSteps =>
       \A d \in DOMAIN open[job.tier].donuts : open[job.tier].donuts[d] # job.count - 1

Traced == OnlyStored /\ Indexed /\ JobIndexed /\ OrderWithin /\ InService

(***************************************************************************)
(* Why every bake cleans up and a restart is invisible: while nothing      *)
(* breaks off, the folders are those that the two records name, but for    *)
(* what AppendHash has in hand.                                            *)
(***************************************************************************)
\* The new input folder is made before it is recorded, the frozen one is there until
\* it has been baked.
NewInputs == IF pc = "freezeRecord" THEN {NextOffset} ELSE {}
FrozenInputs ==
  IF InputInHand /\ pc \notin {"ice", "publish", "freezeTier"} THEN {job.off} ELSE {}
InputsTidy ==
  /\ DOMAIN inputs = {tierOffsets.input} \cup NewInputs \cup FrozenInputs
  /\ \A o \in NewInputs : inputs[o] = NewInput

\* A tier's folder is made after it is recorded; a frozen tier's folder is there until
\* it has been baked, though it is not recorded any more.
RecordedFolders ==
  {<<t, tierOffsets.tier[t]>> : t \in {u \in Tiers : tierOffsets.tier[u] # Absent}}
FrozenFolders ==
  IF job.tier > 0 /\ pc \in {"newDonut", "tierFile"} \cup BakeTierSteps
  THEN {<<job.tier - 1, job.off>>} ELSE {}
NotYetMade == IF pc = "tierFile" THEN {TierFolder} ELSE {}
FoldersTidy == DOMAIN donutFile = (RecordedFolders \ NotYetMade) \cup FrozenFolders

\* A listed donut is there as soon as its bake has begun, and iced when it comes to
\* be published.
NotYetBaked ==
  IF pc = "bakeInput" \/ (pc = "bakePrefix" /\ job.prefix = 0) THEN {Slot} ELSE {}
NotYetIced == IF pc \in SlotSteps \ {"publish"} THEN {Slot} ELSE {}
DonutsTidy ==
  /\ \A x \in DOMAIN donutFile : \A d \in 1 .. Len(donutFile[x]) :
       <<x[1], x[2], d - 1>> \in DOMAIN donuts \cup NotYetBaked
  /\ \A s \in DOMAIN donuts : donuts[s].iced <=> s \notin NotYetIced

\* A tier's folder is named by the offset of its first donut; it has none only between
\* being made and getting it.
NamedByFirst ==
  \A x \in DOMAIN donutFile :
    IF donutFile[x] = <<>> THEN pc = "newDonut" /\ x = <<job.tier, job.off>>
    ELSE donutFile[x][1] = x[2]

\* Memory has all recorded tiers open, with all their donuts but the one in the making.
Numbered(n) == [d \in 1 .. n |-> d - 1]
Unpublished(t) == IF pc \in SlotSteps /\ t = job.tier THEN 1 ELSE 0
MemoryTidy ==
  Up => \A t \in Tiers :
    /\ open[t] = NilTier <=> ~tiersInfo.present[t] \/ (pc = "tierFile" /\ t = job.tier)
    /\ open[t] # NilTier =>
         /\ open[t].folder = tiersInfo.offset[t]
         /\ <<t, tiersInfo.offset[t]>> \in DOMAIN donutFile
         /\ open[t].donuts = Numbered(Len(open[t].offsets) - Unpublished(t))

\* The last entry of the current input folder is no gap, and memory has them all. If
\* there are no gaps at all, the tier is frozen when it is full.
InputTidy ==
  LET current == inputs[tierOffsets.input]
  IN  /\ current.count = 0 \/ \E e \in current.suffix : e.pi = current.count - 1
      /\ \A e \in current.suffix : e.pi < current.count
      /\ Up /\ pc # "freezeSwitch" => input = OpenedInput(tierOffsets.input)
      /\ MaxGap = 0 =>
           \/ current.count < Cap
           \/ current.count = Cap /\ pc \in {"freezeCreate", "freezeRecord"}

AllTidy ==
  InputsTidy /\ FoldersTidy /\ DonutsTidy /\ NamedByFirst /\ MemoryTidy /\ InputTidy
Tidy == ~interrupted => AllTidy

(***************************************************************************)
(* Why lookups are complete: as long as there are no gaps and nothing      *)
(* breaks off, the folders share out all indices that were presented, and  *)
(* the HashesOrder.bin of each donut leads to every one of its share.      *)
(***************************************************************************)
\* What a donut can end at, besides the next one listed: a tier, the folder in hand
\* until it is listed, the input tier.
InHandStart == IF pc \in {"freezeSwitch", "freezeSeal", "newDonut"} THEN {job.off} ELSE {}
Starts ==
  {tierOffsets.input} \cup InHandStart
    \cup {tierOffsets.tier[t] : t \in {u \in Tiers : tierOffsets.tier[u] # Absent}}

\* The hashes from the donut's own offset on, up to whatever comes after it. What is in
\* hand comes after all donuts that it could be put next to.
After(s) ==
  LET listed == donutFile[<<s[1], s[2]>>]
  IN  {listed[d] : d \in s[3] + 2 .. Len(listed)} \cup {o \in Starts : o > s[2]}
Share(s) == {h \in Hashes : DonutOffset(s) <= h /\ \A o \in After(s) : h < o}
Ascending ==
  /\ tierOffsets.input <= MaxGpi
  /\ \A s \in DOMAIN donuts \cup NotYetBaked : \A o \in After(s) : DonutOffset(s) < o
  /\ pc \in {"freezeSwitch", "freezeSeal", "newDonut", "tierFile"} =>
       \A s \in DOMAIN donuts : s[1] >= job.tier => s[2] < job.off

\* An input folder has every index from its own on; a full one, up to the next folder's.
InputsFilled ==
  /\ \A o \in DOMAIN inputs : HashesIn(inputs[o].suffix) = o .. o + inputs[o].count - 1
  /\ \A o \in FrozenInputs : inputs[o].count = Cap /\ o + Cap = tierOffsets.input

\* A HashesOrder.bin that leads from each local index to the hash with that index.
InOrder(hashes, o) == [i \in {h - o : h \in hashes} |-> i + o]

\* A donut's files have its share and no more, but for the donut being made and what
\* it is made of.
BeingMade ==
  IF pc \in {"bakeInput", "bakePrefix", "dropPrefix", "bakeOrder"} THEN {Slot} ELSE {}
BeingMoved == IF pc \in BakeTierSteps THEN Sources ELSE {}
DonutsFilled ==
  \A s \in DOMAIN donuts :
    /\ HashesIn(donuts[s].suffix) \subseteq Share(s)
    /\ s \notin BeingMade \cup BeingMoved => Share(s) \subseteq HashesIn(donuts[s].suffix)
    /\ s \notin BeingMade =>
         donuts[s].order = InOrder(Share(s), DonutOffset(s))

\* Each hash is in the source's file until the file of its prefix is dropped, and in
\* the new donut's, with an update to find it by, when the file has been copied.
PrefixesCopied == job.prefix + IF pc = "dropPrefix" THEN 1 ELSE 0
Update(d, h) == [donut |-> d, pi |-> h - job.offsets[d], hash |-> h]
PrefixesMoved ==
  pc \in {"bakePrefix", "dropPrefix", "bakeOrder"} =>
    /\ pc = "bakeOrder" => job.prefix = PrefixCount[job.tier - 1]
    /\ \A d \in 1 .. Len(job.offsets) : \A h \in Share(Source(d)) :
         /\ PrefixOf[job.tier - 1][h] >= job.prefix => h \in HashesIn(donuts[Source(d)].suffix)
         /\ PrefixOf[job.tier - 1][h] < PrefixesCopied =>
              h \in HashesIn(donuts[Slot].suffix) /\ Update(d, h) \in donuts[Slot].updates
    /\ PrefixesCopied > 0 => \A u \in donuts[Slot].updates :
         u.donut \in 1 .. Len(job.offsets) /\ u = Update(u.donut, u.hash)

AllShared == Ascending /\ InputsFilled /\ DonutsFilled /\ PrefixesMoved
Shared == MaxGap = 0 /\ ~interrupted => AllShared

\* No tier lists more donuts than a lookup would look at, and until AppendHash has
\* switched to the new input folder, which is empty, lookups read the frozen one.
Bounded == \A x \in DOMAIN donutFile : Len(donutFile[x]) <= Donuts
Switching ==
  ~interrupted /\ pc = "freezeSwitch" =>
    input = OpenedInput(job.off) /\ inputs[tierOffsets.input].suffix = {}

(***************************************************************************)
(* Why the cake counts like an odometer: the donuts that a tier lists      *)
(* begin where the tiers above it end, one after the other, and the input  *)
(* folder begins where they end, but for what AppendHash has in hand.      *)
(***************************************************************************)
ListedIn(t) ==
  LET x == <<t, tierOffsets.tier[t]>> IN IF x \in DOMAIN donutFile THEN donutFile[x] ELSE <<>>
DonutCounts == [t \in Tiers |-> Len(ListedIn(t))]
Span == SpanFrom(DonutCounts)

\* A tier is full only until it is frozen.
MayBeFull(t) == pc \in SlotSteps \cup {"freezeTier"} /\ t = job.tier
TiersCounted ==
  \A t \in Tiers :
    /\ Len(ListedIn(t)) < Donuts \/ (Len(ListedIn(t)) = Donuts /\ MayBeFull(t))
    /\ pc = "freezeTier" /\ t = job.tier => Len(ListedIn(t)) = Donuts
    /\ \A d \in 1 .. Len(ListedIn(t)) : ListedIn(t)[d] = Span[t + 1] + (d - 1) * DonutSize[t]
InputCounted ==
  IF pc \in {"freezeSwitch", "freezeSeal", "newDonut", "tierFile"}
  THEN job.off = Span[0] /\ tierOffsets.input = job.off + DonutSize[job.tier]
  ELSE tierOffsets.input = Span[0]
AllCounted == TiersCounted /\ InputCounted
CountedUp == MaxGap = 0 /\ ~interrupted => AllCounted

=============================================================================
