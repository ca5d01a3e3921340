----------------------------- MODULE CakeProofs -----------------------------
(*****************************************************************************)
(* What is proved of the cake for every value of its constants: the inductive *)
(* invariant, from it type correctness and durability, and that the input    *)
(* offset stays ahead of everything stored. First facts about the operators  *)
(* of Cake.tla and about the steps that end an AppendHash early. Then the    *)
(* steps keep the invariant: Create, Open, Close, Crash, the append and      *)
(* FreezeInputTierForBaking; newDonutFolder, the donut put in service and    *)
(* FreezeTierForBaking; and the bakes, which remove an entry only after its  *)
(* hash is in the new donut.                                                 *)
(*****************************************************************************)
EXTENDS CakeInvariant, TLAPS
USE SizesAssumption, PrefixAssumption DEF Tiers, Hashes, Inductive, TypeOK

\* A hash is in some folders if an entry of one of them has it.
LEMMA HashesOfMember ==
  ASSUME NEW f, NEW h
  PROVE  h \in HashesOf(f) <=> \E x \in DOMAIN f : \E e \in f[x].suffix : e.hash = h
BY DEF HashesOf, HashesIn

\* More entries hold no fewer hashes.
LEMMA HashesInMonotonic ==
  ASSUME NEW S, NEW T, S \subseteq T
  PROVE  HashesIn(S) \subseteq HashesIn(T)
BY DEF HashesIn

\* Folders that keep their entries, or gain some, keep their hashes.
LEMMA HashesGrow ==
  ASSUME NEW f, NEW g, DOMAIN f \subseteq DOMAIN g,
         \A x \in DOMAIN f : HashesIn(f[x].suffix) \subseteq HashesIn(g[x].suffix)
  PROVE  HashesOf(f) \subseteq HashesOf(g)
BY DEF HashesOf

\* What TiersInfo.ToDisk writes: the offsets of the tiers that are present.
LEMMA OnFileFacts ==
  ASSUME NEW info \in TiersInfoType
  PROVE  /\ OnFile(info) \in TierOffsetsType
         /\ OnFile(info).input = info.input
         /\ \A t \in Tiers : OnFile(info).tier[t] =
              IF info.present[t] THEN info.offset[t] ELSE Absent
BY DEF OnFile, TiersInfoType, TierOffsetsType

\* TiersInfo.FromDisk reads back what ToDisk wrote.
LEMMA FromFileFacts ==
  ASSUME NEW file \in TierOffsetsType
  PROVE  /\ FromFile(file) \in TiersInfoType
         /\ OnFile(FromFile(file)) = file
         /\ FromFile(file).input = file.input
         /\ \A t \in Tiers :
              /\ FromFile(file).present[t] <=> file.tier[t] # Absent
              /\ file.tier[t] # Absent => FromFile(file).offset[t] = file.tier[t]
<1>1. FromFile(file) \in TiersInfoType
  BY DEF FromFile, TiersInfoType, TierOffsetsType, Absent
<1>2. OnFile(FromFile(file)) = file
  BY DEF FromFile, OnFile, TierOffsetsType, Absent
<1> QED BY <1>1, <1>2 DEF FromFile, TierOffsetsType

\* Recording a tier changes that tier only.
LEMMA WithTierFacts ==
  ASSUME NEW info \in TiersInfoType, NEW t \in Tiers, NEW o \in Nat
  PROVE  /\ WithTier(info, t, o) \in TiersInfoType
         /\ WithTier(info, t, o).input = info.input
         /\ WithTier(info, t, o).offset[t] = o
         /\ WithTier(info, t, o).present[t]
         /\ \A u \in Tiers \ {t} :
              /\ WithTier(info, t, o).offset[u] = info.offset[u]
              /\ WithTier(info, t, o).present[u] = info.present[u]
BY DEF WithTier, TiersInfoType

\* Taking a tier out keeps every offset and the presence of the others.
LEMMA WithoutTierFacts ==
  ASSUME NEW info \in TiersInfoType, NEW t \in Tiers
  PROVE  /\ WithoutTier(info, t) \in TiersInfoType
         /\ WithoutTier(info, t).input = info.input
         /\ WithoutTier(info, t).offset = info.offset
         /\ ~WithoutTier(info, t).present[t]
         /\ \A u \in Tiers \ {t} : WithoutTier(info, t).present[u] = info.present[u]
BY DEF WithoutTier, TiersInfoType

Counted(folder, n) == [folder EXCEPT !.count = n]
Sealed(folder) == [folder EXCEPT !.readonly = TRUE]
Grown(folder, n, e) == [folder EXCEPT !.count = n, !.suffix = @ \cup {e}]
GrownInput(in, n, e) == [in EXCEPT !.count = n, !.entries = @ \cup {e}]

\* Counting and sealing an input folder keep its type and its entries.
LEMMA FolderFacts ==
  ASSUME NEW folder \in InputFolderType, NEW n \in Nat
  PROVE  /\ Counted(folder, n) \in InputFolderType
         /\ Counted(folder, n).suffix = folder.suffix
         /\ Sealed(folder) \in InputFolderType
         /\ Sealed(folder).suffix = folder.suffix
<1>1. Counted(folder, n) \in InputFolderType
  BY DEF InputFolderType, Counted
<1>2. Sealed(folder) \in InputFolderType
  BY DEF InputFolderType, Sealed
<1>3. Counted(folder, n).suffix = folder.suffix /\ Sealed(folder).suffix = folder.suffix
  BY DEF InputFolderType, Counted, Sealed
<1> QED BY <1>1, <1>2, <1>3

\* Appending to an input folder keeps its type and adds the one entry.
LEMMA FolderGrows ==
  ASSUME NEW folder \in InputFolderType, NEW n \in Nat, NEW e \in EntryType
  PROVE  /\ Grown(folder, n, e) \in InputFolderType
         /\ Grown(folder, n, e).suffix = folder.suffix \cup {e}
<1>1. Grown(folder, n, e) \in InputFolderType
  BY DEF InputFolderType, Grown
<1>2. Grown(folder, n, e).suffix = folder.suffix \cup {e}
  BY DEF InputFolderType, Grown
<1> QED BY <1>1, <1>2

\* The same for the input tier in memory.
LEMMA OpenInputGrows ==
  ASSUME NEW in \in InputType, NEW n \in Nat, NEW e \in EntryType
  PROVE  /\ GrownInput(in, n, e) \in InputType
         /\ GrownInput(in, n, e).offset = in.offset
         /\ GrownInput(in, n, e).count = n
BY DEF InputType, GrownInput

\* What openTier makes of a tier folder that is there.
LEMMA OpenedTierType ==
  ASSUME TiersOnDiskOK, NEW t \in Tiers, NEW o \in Nat, <<t, o>> \in DOMAIN donutFile
  PROVE  OpenedTier(t, o) \in OpenTierType /\ OpenedTier(t, o) # NilTier
<1>1. donutFile[<<t, o>>] \in Seq(Nat)
  BY DEF TiersOnDiskOK
<1>2. [d \in 1 .. Len(donutFile[<<t, o>>]) |-> d - 1] \in Seq(Int)
  BY <1>1
<1> QED BY <1>1, <1>2 DEF OpenedTier, OpenTierType, NilTier, NoFolder

\* The values of what is not there have the types of what may be.
LEMMA NilValues ==
  /\ NilInput \in InputType
  /\ NilTier \in OpenTierType
  /\ NoJob \in JobType
BY DEF NilInput, InputType, NilTier, OpenTierType, NoFolder, NoJob, JobType

Refilled(donut, S, U) == [donut EXCEPT !.suffix = S, !.updates = U]
Filled(donut, S, o) == [donut EXCEPT !.suffix = S, !.order = o]
Ordered(donut, o, U) == [donut EXCEPT !.order = o, !.updates = U]
Iced(donut) == [donut EXCEPT !.iced = TRUE]

\* A donut folder starts well-typed and empty.
LEMMA NewDonutOK ==
  /\ DonutOK(NewDonut)
  /\ NewDonut.suffix = {} /\ NewDonut.updates = {}
BY DEF NewDonut, DonutOK

\* Changing the suffix and update files of a donut keeps its type.
LEMMA RefilledFacts ==
  ASSUME NEW donut, DonutOK(donut), NEW S \in SUBSET EntryType, NEW U \in SUBSET UpdateType
  PROVE  /\ DonutOK(Refilled(donut, S, U))
         /\ Refilled(donut, S, U).suffix = S
BY DEF DonutOK, Refilled

\* So does changing its suffix files and its HashesOrder.bin.
LEMMA FilledFacts ==
  ASSUME NEW donut, DonutOK(donut), NEW S \in SUBSET EntryType, NEW o,
         o \in [DOMAIN o -> Hashes \cup {PastEnd, Dangling}]
  PROVE  /\ DonutOK(Filled(donut, S, o))
         /\ Filled(donut, S, o).suffix = S
BY DEF DonutOK, Filled

\* Rewriting HashesOrder.bin keeps a donut's type and its entries.
LEMMA OrderedFacts ==
  ASSUME NEW donut, DonutOK(donut), NEW o,
         o \in [DOMAIN o -> Hashes \cup {PastEnd, Dangling}], NEW U \in SUBSET UpdateType
  PROVE  /\ DonutOK(Ordered(donut, o, U))
         /\ Ordered(donut, o, U).suffix = donut.suffix
BY DEF DonutOK, Ordered

\* Icing a donut keeps its type and its entries.
LEMMA IcedFacts ==
  ASSUME NEW donut, DonutOK(donut)
  PROVE  /\ DonutOK(Iced(donut))
         /\ Iced(donut).suffix = donut.suffix
BY DEF DonutOK, Iced

\* What recording a tier in memory and then in TierOffsets.txt does to both.
LEMMA TierRecorded ==
  ASSUME tiersInfo \in TiersInfoType, NEW t \in Tiers, NEW o \in Nat,
         tierOffsets = OnFile(tiersInfo),
         tiersInfo' = WithTier(tiersInfo, t, o), tierOffsets' = OnFile(tiersInfo')
  PROVE  /\ tiersInfo' \in TiersInfoType /\ tierOffsets' \in TierOffsetsType
         /\ tierOffsets.input = tiersInfo.input /\ tiersInfo'.input = tiersInfo.input
         /\ tierOffsets'.input = tierOffsets.input
         /\ tiersInfo'.present[t] /\ tiersInfo'.offset[t] = o /\ tierOffsets'.tier[t] = o
         /\ \A u \in Tiers \ {t} :
              /\ tiersInfo'.present[u] = tiersInfo.present[u]
              /\ tiersInfo'.offset[u] = tiersInfo.offset[u]
              /\ tierOffsets'.tier[u] = tierOffsets.tier[u]
<1>1. /\ tiersInfo' \in TiersInfoType /\ tiersInfo'.input = tiersInfo.input
      /\ tiersInfo'.present[t] /\ tiersInfo'.offset[t] = o
      /\ \A u \in Tiers \ {t} : /\ tiersInfo'.present[u] = tiersInfo.present[u]
                                /\ tiersInfo'.offset[u] = tiersInfo.offset[u]
  BY DEF WithTier, TiersInfoType
<1>2. /\ tierOffsets.input = tiersInfo.input
      /\ \A u \in Tiers : tierOffsets.tier[u] =
           IF tiersInfo.present[u] THEN tiersInfo.offset[u] ELSE Absent
  BY OnFileFacts
<1>3. /\ tierOffsets' \in TierOffsetsType /\ tierOffsets'.input = tiersInfo'.input
      /\ \A u \in Tiers : tierOffsets'.tier[u] =
           IF tiersInfo'.present[u] THEN tiersInfo'.offset[u] ELSE Absent
  BY <1>1, OnFileFacts
<1> QED BY ZenonT(30), <1>1, <1>2, <1>3

\* What a process that ends leaves: nothing but the disk (Close, Crash, panics).
LEMMA ForgetStep ==
  ASSUME Inductive, Forget, UNCHANGED <<tierOffsets, donutFile, donuts>>,
         faults' \in 0 .. MaxFaults, interrupted' \in BOOLEAN, stored' = stored,
         InputsOK', HashesOf(inputs') = HashesOf(inputs),
         \A o \in DOMAIN inputs' :
           inputs'[o].suffix # {} => o <= tierOffsets.input
  PROVE  Inductive'
<1>1. TypeOK'
  <2>1. TiersOnDiskOK'
    BY DEF TiersOnDiskOK, DonutOK
  <2>2. MemoryOK'
    BY NilValues DEF MemoryOK, Forget
  <2>3. ControlOK'
    BY NilValues DEF ControlOK, Forget, FreezeSteps, DonutSteps
  <2> QED BY <2>1, <2>2, <2>3
<1>2. JobFits' /\ MemoryOnDisk' /\ InputFolders' /\ Offsets' /\ TiersNewer' /\ JobNewer'
  BY DEF Forget, JobFits, MemoryOnDisk, InputFolders, Offsets, TiersNewer, JobNewer, Up,
         InputInHand, Baking, DonutSteps, BakeInputSteps, BakeTierSteps
<1>3. OpenTiers' /\ DonutsListed' /\ AllSources' /\ NothingDroppedEarly'
  BY DEF Forget, OpenTiers, DonutsListed, AllSources, NothingDroppedEarly, DonutSteps,
         SlotSteps, BakeInputSteps, BakeTierSteps
<1>4. Durable'
  BY DEF Durable, OnDisk
<1> QED BY <1>1, <1>2, <1>3, <1>4

\* While a donut is made, its folder is the last one that its tier lists, and is
\* none of the donuts it is made of.
LEMMA BakeContext ==
  ASSUME Inductive, pc \in SlotSteps
  PROVE  /\ job \in JobType /\ job.tier \in Tiers /\ job.off \in Nat /\ job.count > 0
         /\ TierFolder \in DOMAIN donutFile /\ job.count = Len(donutFile[TierFolder])
         /\ Slot \in Tiers \X Nat \X Int /\ <<Slot[1], Slot[2]>> = TierFolder
         /\ Slot[1] = job.tier /\ Slot[3] = job.count - 1
         /\ Slot \notin Sources
<1>1. job \in JobType /\ job.tier \in Tiers /\ job.off \in Nat /\ job.count \in Nat
  BY DEF ControlOK, JobType, DonutSteps, SlotSteps, BakeInputSteps, BakeTierSteps
<1>2. /\ TierFolder \in DOMAIN donutFile /\ job.count = Len(donutFile[TierFolder])
      /\ job.count > 0
  BY DEF DonutsListed
<1>3. tiersInfo.offset[job.tier] \in Nat
  BY <1>1 DEF MemoryOK, TiersInfoType
<1>4. Slot \in Tiers \X Nat \X Int /\ <<Slot[1], Slot[2]>> = TierFolder
      /\ Slot[1] = job.tier /\ Slot[3] = job.count - 1
  BY SMTT(40), <1>1, <1>3 DEF Slot, TierFolder
<1>5. Slot \notin Sources
  BY <1>1 DEF Slot, Sources, Source
<1> QED BY <1>1, <1>2, <1>4, <1>5

\* The folder of the donut being made is one that its tier lists.
LEMMA SlotListed ==
  ASSUME Inductive, pc \in SlotSteps
  PROVE  /\ Slot \in Tiers \X Nat \X Int /\ <<Slot[1], Slot[2]>> \in DOMAIN donutFile
         /\ Slot[3] \in 0 .. Len(donutFile[<<Slot[1], Slot[2]>>]) - 1
<1>1. /\ TierFolder \in DOMAIN donutFile /\ Len(donutFile[TierFolder]) \in Nat
      /\ job.count = Len(donutFile[TierFolder]) /\ job.count > 0
      /\ <<Slot[1], Slot[2]>> = TierFolder /\ Slot[3] = job.count - 1
  BY BakeContext DEF JobType
<1>2. Slot[3] \in 0 .. Len(donutFile[TierFolder]) - 1
  BY <1>1
<1> QED BY <1>1, <1>2, BakeContext, Zenon

\* An AppendHash that returns an error leaves its memory as it is, and on disk at
\* most a donut folder that is not whole.
LEMMA GiveUpStep ==
  ASSUME Inductive, pc \notin {"down", "freezeSwitch"}, GiveUp,
         UNCHANGED <<tierOffsets, inputs, donutFile>>,
         \A s \in DOMAIN donuts' :
           DonutOK(donuts'[s]) /\ (s \in DOMAIN donuts \/ (s = Slot /\ pc \in SlotSteps)),
         HashesOf(donuts) \subseteq HashesOf(donuts')
  PROVE  Inductive'
<1>1. \A s \in DOMAIN donuts' :
        /\ s \in Tiers \X Nat \X Int
        /\ <<s[1], s[2]>> \in DOMAIN donutFile
        /\ s[3] \in 0 .. Len(donutFile[<<s[1], s[2]>>]) - 1
  <2> TAKE s \in DOMAIN donuts'
  <2>1. CASE s \in DOMAIN donuts
    BY <2>1 DEF TiersOnDiskOK, DonutsListed
  <2>2. CASE s = Slot /\ pc \in SlotSteps
    BY <2>2, SlotListed
  <2> QED BY <2>1, <2>2
<1>2. TypeOK'
  <2>1. tierOffsets' \in TierOffsetsType /\ InputsOK' /\ MemoryOK'
    BY DEF GiveUp, memory, InputsOK, MemoryOK
  <2>2. TiersOnDiskOK'
    BY <1>1 DEF TiersOnDiskOK, DonutOK
  <2>3. ControlOK'
    BY NilValues DEF GiveUp, ControlOK, DonutSteps
  <2> QED BY <2>1, <2>2, <2>3
<1>3. JobFits' /\ MemoryOnDisk' /\ InputFolders'
  BY DEF GiveUp, memory, JobFits, MemoryOnDisk, InputFolders, Up, InputInHand, Baking,
     DonutSteps, BakeInputSteps, BakeTierSteps, ControlOK, FreezeSteps
<1>4. Offsets' /\ TiersNewer' /\ JobNewer'
  BY DEF GiveUp, memory, Offsets, TiersNewer, JobNewer, Baking, DonutSteps
<1>5. OpenTiers' /\ AllSources' /\ NothingDroppedEarly'
  BY DEF GiveUp, memory, OpenTiers, AllSources, NothingDroppedEarly,
     DonutSteps, SlotSteps, BakeInputSteps, BakeTierSteps
<1>6. DonutsListed'
  BY <1>1 DEF GiveUp, DonutsListed, DonutSteps, SlotSteps, BakeInputSteps, BakeTierSteps
<1>7. Durable'
  BY DEF GiveUp, Durable, OnDisk
<1> QED BY <1>2, <1>3, <1>4, <1>5, <1>6, <1>7

\* Most errors leave the disk as it is, too.
LEMMA FailStep ==
  ASSUME Inductive, pc \notin {"down", "freezeSwitch"}, Fail
  PROVE  Inductive'
<1>1. \A s \in DOMAIN donuts' : DonutOK(donuts'[s]) /\ s \in DOMAIN donuts
  BY DEF Fail, disk, TiersOnDiskOK
<1>2. HashesOf(donuts) \subseteq HashesOf(donuts')
  BY DEF Fail, disk
<1> QED BY <1>1, <1>2, GiveUpStep DEF Fail, disk

\* CakeFactory.Create makes a cake that satisfies the invariant.
LEMMA InitInductive ==
  ASSUME Init
  PROVE  Inductive
<1>1. tierOffsets \in TierOffsetsType /\ tierOffsets.input = 0
      /\ \A t \in Tiers : tierOffsets.tier[t] = Absent
  BY DEF Init, TierOffsetsType
<1>2. TypeOK
  <2>1. InputsOK
    BY DEF Init, InputsOK, InputFolderType, NewInput
  <2>2. TiersOnDiskOK
    BY DEF Init, TiersOnDiskOK
  <2>3. MemoryOK
    BY <1>1, NilValues, FromFileFacts DEF Init, MemoryOK
  <2>4. ControlOK
    <3>1. faults \in 0 .. MaxFaults
      BY DEF Init
    <3> QED BY <3>1, NilValues DEF Init, ControlOK, DonutSteps
  <2> QED BY <1>1, <2>1, <2>2, <2>3, <2>4
<1>3. JobFits /\ MemoryOnDisk /\ InputFolders /\ TiersNewer /\ JobNewer
  BY <1>1 DEF Init, JobFits, MemoryOnDisk, InputFolders, TiersNewer, JobNewer, Up,
     InputInHand, Baking, DonutSteps, BakeInputSteps, BakeTierSteps
<1>4. Offsets
  BY <1>1 DEF Init, Offsets, Baking, DonutSteps, NewInput, Absent
<1>5. OpenTiers /\ DonutsListed /\ AllSources /\ NothingDroppedEarly
  BY DEF Init, OpenTiers, DonutsListed, AllSources, NothingDroppedEarly, DonutSteps,
     SlotSteps, BakeInputSteps, BakeTierSteps
<1>6. Durable
  BY DEF Init, Durable
<1> QED BY <1>2, <1>3, <1>4, <1>5, <1>6

\* CakeFactory.Open reads from disk a memory that agrees with it.
LEMMA OpenStep ==
  ASSUME Inductive, Open
  PROVE  Inductive'
<1>1. /\ tiersInfo' \in TiersInfoType /\ OnFile(tiersInfo') = tierOffsets
      /\ tiersInfo'.input = tierOffsets.input
      /\ \A t \in Tiers :
           /\ tiersInfo'.present[t] <=> tierOffsets.tier[t] # Absent
           /\ tierOffsets.tier[t] # Absent => tiersInfo'.offset[t] = tierOffsets.tier[t]
  BY FromFileFacts DEF Open
<1>2. tierOffsets.input \in DOMAIN inputs /\ input'.offset = tierOffsets.input
  BY DEF Open, Openable, InputReadable, OpenedInput
<1>3. \A t \in Tiers : tierOffsets.tier[t] # Absent =>
        /\ tierOffsets.tier[t] \in Nat
        /\ <<t, tierOffsets.tier[t]>> \in DOMAIN donutFile
        /\ open'[t] = OpenedTier(t, tierOffsets.tier[t])
        /\ open'[t] \in OpenTierType
  BY OpenedTierType DEF Open, Openable, TierReadable, TierOffsetsType
<1>4. \A t \in Tiers : tierOffsets.tier[t] = Absent => open'[t] = NilTier
  BY DEF Open
<1>5. TypeOK'
  <2>1. InputsOK' /\ TiersOnDiskOK' /\ tierOffsets' \in TierOffsetsType
    BY DEF Open, disk, InputsOK, TiersOnDiskOK, DonutOK
  <2>2. input' \in InputType
    BY <1>2 DEF Open, OpenedInput, InputType, InputsOK, InputFolderType, NoFolder
  <2>3. open' = [t \in Tiers |-> open'[t]]
    BY DEF Open
  <2>4. \A t \in Tiers : open'[t] \in OpenTierType
    BY <1>3, <1>4, NilValues
  <2>5. MemoryOK'
    BY <1>1, <2>2, <2>3, <2>4 DEF MemoryOK
  <2>6. ControlOK'
    BY DEF Open, ghost, ControlOK, DonutSteps, FreezeSteps
  <2> QED BY <2>1, <2>5, <2>6
<1>6. JobFits' /\ MemoryOnDisk' /\ InputFolders' /\ JobNewer'
  BY <1>1, <1>2 DEF Open, disk, JobFits, MemoryOnDisk, InputFolders, JobNewer, Up,
     InputInHand, Baking, DonutSteps, BakeInputSteps, BakeTierSteps
<1>7. Offsets' /\ TiersNewer'
  BY DEF Open, disk, Offsets, TiersNewer, Baking, DonutSteps
<1>8. OpenTiers'
  BY <1>1, <1>3, <1>4 DEF Open, disk, OpenTiers, OpenedTier, DonutSteps
<1>9. DonutsListed' /\ AllSources' /\ NothingDroppedEarly'
  BY DEF Open, disk, DonutsListed, AllSources, NothingDroppedEarly, SlotSteps,
     BakeInputSteps, BakeTierSteps
<1>10. Durable'
  BY DEF Open, disk, ghost, Durable, OnDisk
<1> QED BY <1>5, <1>6, <1>7, <1>8, <1>9, <1>10

\* Cake.Close changes nothing on disk.
LEMMA CloseStep ==
  ASSUME Inductive, Close
  PROVE  Inductive'
<1>1. InputsOK' /\ HashesOf(inputs') = HashesOf(inputs)
  BY DEF Close, disk, InputsOK
<1> QED BY <1>1, ForgetStep DEF Close, disk, ghost, ControlOK, Offsets

\* A crash changes nothing on disk.
LEMMA CrashStep ==
  ASSUME Inductive, Crash
  PROVE  Inductive'
<1>1. InputsOK' /\ HashesOf(inputs') = HashesOf(inputs)
  BY DEF Crash, disk, InputsOK
<1>2. faults' \in 0 .. MaxFaults
  BY DEF Crash, ControlOK
<1> QED BY <1>1, <1>2, ForgetStep DEF Crash, disk, Offsets

\* AppendHash adds its hash to the input folder that TierOffsets.txt names.
LEMMA AppendHashStep ==
  ASSUME Inductive, NEW gpi \in Hashes, AppendHash(gpi)
  PROVE  Inductive'
<1> DEFINE current == input.offset
           localPi == gpi - current
<1>1. /\ pc = "idle" /\ tierOffsets = OnFile(tiersInfo) /\ current \in DOMAIN inputs
      /\ current = tierOffsets.input /\ current \in Nat
      /\ inputs[current] \in InputFolderType /\ input \in InputType
  BY OnFileFacts DEF AppendHash, Presentable, MemoryOnDisk, Up, InputsOK, MemoryOK
<1>2. localPi \in Nat
  BY <1>1 DEF AppendHash, Presentable, InputType
<1>3. Entry(gpi, localPi) \in EntryType
  BY <1>2 DEF Entry, EntryType
<1>4. /\ DOMAIN inputs' = DOMAIN inputs
      /\ inputs'[current] \in InputFolderType
      /\ inputs'[current].suffix = inputs[current].suffix \cup {Entry(gpi, localPi)}
      /\ \A o \in DOMAIN inputs \ {current} : inputs'[o] = inputs[o]
  <2>1. /\ DOMAIN inputs' = DOMAIN inputs
        /\ inputs'[current] = Grown(inputs[current], localPi + 1, Entry(gpi, localPi))
        /\ \A o \in DOMAIN inputs \ {current} : inputs'[o] = inputs[o]
    BY <1>1 DEF AppendHash, Grown
  <2>2. localPi + 1 \in Nat
    BY <1>2
  <2> HIDE DEF current, localPi
  <2>3. /\ Grown(inputs[current], localPi + 1, Entry(gpi, localPi)) \in InputFolderType
        /\ Grown(inputs[current], localPi + 1, Entry(gpi, localPi)).suffix
             = inputs[current].suffix \cup {Entry(gpi, localPi)}
    BY <1>1, <1>3, <2>2, FolderGrows
  <2> QED BY <2>1, <2>3
<1>5. TypeOK'
  <2>1. tierOffsets' \in TierOffsetsType /\ TiersOnDiskOK'
    BY DEF AppendHash, TiersOnDiskOK, DonutOK
  <2>2. InputsOK'
    BY <1>4 DEF InputsOK
  <2>3. input' \in InputType
    <3>1. input' = GrownInput(input, localPi + 1, Entry(gpi, localPi))
      BY DEF AppendHash, GrownInput
    <3> QED BY <1>1, <1>2, <1>3, <3>1, OpenInputGrows
  <2>4. MemoryOK'
    BY <2>3 DEF AppendHash, MemoryOK
  <2>5. ControlOK'
    BY DEF AppendHash, ControlOK, DonutSteps, FreezeSteps
  <2> QED BY <2>1, <2>2, <2>4, <2>5
<1>6. JobFits' /\ MemoryOnDisk' /\ InputFolders' /\ TiersNewer' /\ JobNewer'
  <2>1. input'.offset = input.offset /\ input'.count = localPi + 1
    BY <1>1 DEF AppendHash, InputType
  <2> QED BY <1>1, <1>4, <2>1 DEF AppendHash, JobFits, MemoryOnDisk, InputFolders, TiersNewer,
       JobNewer, Up, InputInHand, Baking, DonutSteps, BakeInputSteps, BakeTierSteps
<1>7. Offsets'
  BY <1>1, <1>4 DEF AppendHash, Offsets, Baking, DonutSteps
<1>8. OpenTiers' /\ DonutsListed' /\ AllSources' /\ NothingDroppedEarly'
  BY DEF AppendHash, OpenTiers, DonutsListed, AllSources, NothingDroppedEarly, DonutSteps,
     SlotSteps, BakeInputSteps, BakeTierSteps
<1>9. Durable'
  <2>1. \A o \in DOMAIN inputs : HashesIn(inputs[o].suffix) \subseteq HashesIn(inputs'[o].suffix)
    BY <1>4, HashesInMonotonic
  <2>2. HashesOf(inputs) \subseteq HashesOf(inputs')
    BY <1>4, <2>1, HashesGrow
  <2>3. gpi \in HashesOf(inputs')
    <3>1. Entry(gpi, localPi) \in inputs'[current].suffix /\ Entry(gpi, localPi).hash = gpi
      BY <1>4 DEF Entry
    <3> QED BY <1>1, <1>4, <3>1, HashesOfMember
  <2> QED BY <2>2, <2>3 DEF AppendHash, Durable, OnDisk
<1> QED BY <1>5, <1>6, <1>7, <1>8, <1>9

\* An append that panics in ID16.WriteID has only lengthened HashesOrder.bin.
LEMMA AppendTooLargeStep ==
  ASSUME Inductive, NEW gpi \in Hashes, AppendTooLarge(gpi)
  PROVE  Inductive'
<1> DEFINE current == input.offset
           localPi == gpi - current
<1>1. /\ current \in DOMAIN inputs /\ current \in Nat /\ inputs[current] \in InputFolderType
  BY DEF AppendTooLarge, Presentable, MemoryOnDisk, Up, InputsOK
<1>2. localPi \in Nat
  BY <1>1 DEF AppendTooLarge
<1>3. /\ DOMAIN inputs' = DOMAIN inputs
      /\ inputs'[current] \in InputFolderType
      /\ \A o \in DOMAIN inputs \ {current} : inputs'[o] = inputs[o]
      /\ inputs'[current].suffix = inputs[current].suffix
  <2>1. DOMAIN inputs' = DOMAIN inputs
        /\ inputs'[current] = Counted(inputs[current], localPi + 1)
        /\ \A o \in DOMAIN inputs \ {current} : inputs'[o] = inputs[o]
    BY <1>1 DEF AppendTooLarge, Counted
  <2>2. localPi + 1 \in Nat
    BY <1>2
  <2> HIDE DEF current, localPi
  <2> QED BY ZenonT(60), <1>1, <2>1, <2>2, FolderFacts
<1>4. \A o \in DOMAIN inputs : inputs'[o].suffix = inputs[o].suffix
  BY <1>3
<1>5. InputsOK'
  BY <1>3 DEF InputsOK
<1>6. HashesOf(inputs') = HashesOf(inputs)
  BY <1>3, <1>4 DEF HashesOf
<1> QED BY <1>3, <1>4, <1>5, <1>6, ForgetStep DEF AppendTooLarge, Panic, ControlOK, Offsets

\* The folder that CreateInputTierFiles truncates is beyond the current offset,
\* so that nothing was appended to it.
LEMMA FreezeCreateStep ==
  ASSUME Inductive, FreezeCreate
  PROVE  Inductive'
<1>1. /\ pc = "freezeCreate" /\ tierOffsets.input = tiersInfo.input /\ tiersInfo.input \in Nat
      /\ input.offset = tiersInfo.input /\ input.offset \in DOMAIN inputs
      /\ NextOffset \in Nat /\ NextOffset > tierOffsets.input
  <2>1. pc = "freezeCreate" /\ tierOffsets.input = tiersInfo.input /\ tiersInfo.input \in Nat
    BY OnFileFacts DEF FreezeCreate, MemoryOnDisk, Up, MemoryOK, TiersInfoType
  <2>2. input.count = Cap
    BY <2>1 DEF JobFits
  <2> QED BY <2>1, <2>2 DEF NextOffset, MemoryOnDisk, Up
<1>2. /\ DOMAIN inputs' = DOMAIN inputs \cup {NextOffset}
      /\ inputs'[NextOffset] = NewInput
      /\ \A o \in DOMAIN inputs \ {NextOffset} : inputs'[o] = inputs[o]
  <2>1. /\ DOMAIN inputs' = DOMAIN inputs \cup {NextOffset}
        /\ \A o \in DOMAIN inputs \cup {NextOffset} :
             inputs'[o] = IF o = NextOffset THEN NewInput ELSE inputs[o]
    BY DEF FreezeCreate, Put
  <2> QED BY <2>1
<1>3. NewInput \in InputFolderType /\ NewInput.suffix = {}
  BY DEF NewInput, InputFolderType
<1>4. TypeOK'
  <2>1. tierOffsets' \in TierOffsetsType /\ TiersOnDiskOK' /\ MemoryOK'
    BY DEF FreezeCreate, memory, TiersOnDiskOK, DonutOK, MemoryOK
  <2>2. InputsOK'
    BY <1>1, <1>2, <1>3 DEF InputsOK
  <2>3. ControlOK'
    BY DEF FreezeCreate, ghost, ControlOK, DonutSteps, FreezeSteps
  <2> QED BY <2>1, <2>2, <2>3
<1>5. JobFits' /\ MemoryOnDisk' /\ InputFolders'
  BY <1>1, <1>2 DEF FreezeCreate, memory, JobFits, MemoryOnDisk, InputFolders, Up, NextOffset,
     InputInHand, Baking, DonutSteps, BakeInputSteps, BakeTierSteps
<1>6. Offsets' /\ TiersNewer' /\ JobNewer'
  BY <1>2, <1>3 DEF FreezeCreate, Offsets, TiersNewer, JobNewer, Baking, DonutSteps
<1>7. OpenTiers' /\ DonutsListed' /\ AllSources' /\ NothingDroppedEarly'
  BY DEF FreezeCreate, memory, OpenTiers, DonutsListed, AllSources, NothingDroppedEarly,
     DonutSteps, SlotSteps, BakeInputSteps, BakeTierSteps
<1>8. Durable'
  <2>1. NextOffset \in DOMAIN inputs => inputs[NextOffset].suffix = {}
    BY <1>1 DEF Offsets
  <2>2. \A o \in DOMAIN inputs : HashesIn(inputs[o].suffix) \subseteq HashesIn(inputs'[o].suffix)
    BY <1>2, <2>1, HashesInMonotonic
  <2>3. HashesOf(inputs) \subseteq HashesOf(inputs')
    BY <1>2, <2>2, HashesGrow
  <2> QED BY <2>3 DEF FreezeCreate, ghost, Durable, OnDisk
<1> QED BY <1>4, <1>5, <1>6, <1>7, <1>8

\* TierOffsets.txt moves on to the new input folder.
LEMMA FreezeRecordStep ==
  ASSUME Inductive, FreezeRecord
  PROVE  Inductive'
<1>1. /\ pc = "freezeRecord" /\ tiersInfo \in TiersInfoType /\ tiersInfo.input \in Nat
      /\ tierOffsets.input = tiersInfo.input
      /\ \A t \in Tiers : tierOffsets.tier[t] =
           IF tiersInfo.present[t] THEN tiersInfo.offset[t] ELSE Absent
  <2>1. /\ pc = "freezeRecord" /\ tiersInfo \in TiersInfoType /\ tiersInfo.input \in Nat
        /\ tierOffsets = OnFile(tiersInfo)
    BY DEF FreezeRecord, MemoryOnDisk, Up, MemoryOK, TiersInfoType
  <2> QED BY <2>1, OnFileFacts
<1>2. NextOffset \in Nat /\ NextOffset > tiersInfo.input
  BY <1>1 DEF NextOffset, JobFits
<1>3. /\ tiersInfo' \in TiersInfoType /\ tiersInfo'.input = NextOffset
      /\ tiersInfo'.offset = tiersInfo.offset /\ tiersInfo'.present = tiersInfo.present
  BY <1>1, <1>2 DEF FreezeRecord, TiersInfoType
<1>4. /\ tierOffsets' \in TierOffsetsType /\ tierOffsets'.input = NextOffset
      /\ \A t \in Tiers : tierOffsets'.tier[t] = tierOffsets.tier[t]
      /\ tierOffsets' = OnFile(tiersInfo')
  <2>1. tierOffsets' = OnFile(tiersInfo')
    BY DEF FreezeRecord
  <2> QED BY <1>1, <1>3, <2>1, OnFileFacts
<1>5. /\ job' \in JobType /\ job'.tier = 0 /\ job'.off = tiersInfo.input /\ job'.prefix = 0
  <2>1. /\ job' = [NoJob EXCEPT !.off = tiersInfo.input]
    BY DEF FreezeRecord
  <2>2. job' = [tier |-> 0, off |-> tiersInfo.input, count |-> 0, offsets |-> <<>>,
                prefix |-> 0]
    BY <2>1 DEF NoJob
  <2> QED BY <1>1, <2>2 DEF JobType
<1>6. pc' = "freezeSwitch"
  BY DEF FreezeRecord
<1>7. UNCHANGED <<inputs, donutFile, donuts, input, open, stored, faults, interrupted>>
  BY DEF FreezeRecord, ghost
<1>8. TypeOK'
  <2>1. InputsOK' /\ TiersOnDiskOK'
    BY <1>7 DEF InputsOK, TiersOnDiskOK, DonutOK
  <2>2. MemoryOK'
    BY <1>3, <1>7 DEF MemoryOK
  <2>3. ControlOK'
    BY <1>5, <1>6, <1>7 DEF ControlOK, DonutSteps, FreezeSteps
  <2> QED BY <1>4, <2>1, <2>2, <2>3
<1>9. JobFits' /\ MemoryOnDisk' /\ InputFolders'
  BY <1>3, <1>4, <1>5, <1>6, <1>7, <1>1 DEF JobFits, MemoryOnDisk, InputFolders, Up,
     InputInHand, Baking, DonutSteps, BakeInputSteps, BakeTierSteps
<1>10. Offsets'
  <2>1. \A t \in Tiers : tierOffsets.tier[t] \in Int
    BY DEF TierOffsetsType, Absent
  <2>2. \A x \in DOMAIN donutFile : x[2] \in Nat
    BY DEF TiersOnDiskOK
  <2>3. DOMAIN inputs \subseteq Nat
    BY DEF InputsOK
  <2>4. \A o \in DOMAIN inputs : inputs[o].suffix # {} => o <= tierOffsets'.input
    <3> SUFFICES ASSUME NEW o \in DOMAIN inputs, inputs[o].suffix # {}
                 PROVE  o <= tierOffsets'.input
      OBVIOUS
    <3>1. o <= tiersInfo.input
      BY <1>1 DEF Offsets
    <3> QED BY <1>1, <1>2, <1>4, <2>3, <3>1
  <2>5. \A x \in DOMAIN donutFile : x[2] < tierOffsets'.input
    BY <1>1, <1>2, <1>4, <2>2 DEF Offsets
  <2>6. \A t \in Tiers : tierOffsets'.tier[t] < tierOffsets'.input
    <3> SUFFICES ASSUME NEW t \in Tiers
                 PROVE  tierOffsets'.tier[t] < tierOffsets'.input
      OBVIOUS
    <3>1. tierOffsets.tier[t] < tiersInfo.input
      BY <1>1 DEF Offsets
    <3> QED BY <1>1, <1>2, <1>4, <2>1, <3>1
  <2>7. job'.off < tierOffsets'.input
    BY <1>1, <1>2, <1>4, <1>5
  <2> QED BY <1>7, <2>4, <2>5, <2>6, <2>7 DEF Offsets
<1>11. TiersNewer'
  <2>1. \A t \in Tiers : tierOffsets'.tier[t] # Absent =>
          \A x \in DOMAIN donutFile : x[1] > t => x[2] < tierOffsets'.tier[t]
    BY <1>4 DEF TiersNewer
  <2>2. \A t \in Tiers : ~(t < job'.tier)
    BY <1>5
  <2> QED BY <1>7, <2>1, <2>2 DEF TiersNewer
<1>12. JobNewer'
  <2>1. \A x \in DOMAIN donutFile : x[2] < job'.off
    BY <1>1, <1>5 DEF Offsets
  <2> QED BY <1>7, <2>1 DEF JobNewer
<1>13. OpenTiers' /\ DonutsListed' /\ AllSources' /\ NothingDroppedEarly'
  BY <1>3, <1>6, <1>7 DEF OpenTiers, DonutsListed, AllSources, NothingDroppedEarly,
     DonutSteps, SlotSteps, BakeInputSteps, BakeTierSteps
<1>14. Durable'
  BY <1>7 DEF Durable, OnDisk
<1> QED BY <1>8, <1>9, <1>10, <1>11, <1>12, <1>13, <1>14

\* The new input folder, which is there, is opened.
LEMMA FreezeSwitchStep ==
  ASSUME Inductive, FreezeSwitch
  PROVE  Inductive'
<1>1. /\ pc = "freezeSwitch" /\ pc' = "freezeSeal" /\ tiersInfo.input \in DOMAIN inputs
      /\ tiersInfo.input \in Nat
  BY DEF FreezeSwitch, InputFolders, InputsOK
<1>2. input' \in InputType /\ input'.offset = tiersInfo.input
  BY <1>1 DEF FreezeSwitch, OpenedInput, InputType, InputsOK, InputFolderType
<1>3. UNCHANGED <<disk, tiersInfo, open, job, ghost>>
  BY DEF FreezeSwitch
<1>4. TypeOK'
  <2>1. tierOffsets' \in TierOffsetsType /\ InputsOK' /\ TiersOnDiskOK'
    BY <1>3 DEF disk, InputsOK, TiersOnDiskOK, DonutOK
  <2>2. MemoryOK'
    BY <1>2, <1>3 DEF MemoryOK
  <2>3. ControlOK'
    BY <1>1, <1>3 DEF ghost, ControlOK, DonutSteps, FreezeSteps
  <2> QED BY <2>1, <2>2, <2>3
<1>5. JobFits' /\ MemoryOnDisk' /\ InputFolders'
  BY <1>1, <1>2, <1>3 DEF disk, JobFits, MemoryOnDisk, InputFolders, Up, InputInHand, Baking,
     DonutSteps, BakeInputSteps, BakeTierSteps
<1>6. Offsets' /\ TiersNewer' /\ JobNewer'
  BY <1>1, <1>3 DEF disk, Offsets, TiersNewer, JobNewer, Baking, DonutSteps
<1>7. OpenTiers' /\ DonutsListed' /\ AllSources' /\ NothingDroppedEarly'
  BY <1>1, <1>3 DEF disk, OpenTiers, DonutsListed, AllSources, NothingDroppedEarly, DonutSteps,
     SlotSteps, BakeInputSteps, BakeTierSteps
<1>8. Durable'
  BY <1>3 DEF disk, ghost, Durable, OnDisk
<1> QED BY <1>4, <1>5, <1>6, <1>7, <1>8

\* The READONLY file takes no entry away.
LEMMA FreezeSealStep ==
  ASSUME Inductive, FreezeSeal
  PROVE  Inductive'
<1>1. /\ pc = "freezeSeal" /\ pc' = "newDonut" /\ job.off \in DOMAIN inputs /\ job.tier = 0
  BY DEF FreezeSeal, InputFolders, JobFits, InputInHand, Baking, DonutSteps
<1>2. /\ DOMAIN inputs' = DOMAIN inputs
      /\ \A o \in DOMAIN inputs : inputs'[o] = IF o = job.off THEN Sealed(inputs[o]) ELSE inputs[o]
  BY <1>1 DEF FreezeSeal, Sealed
<1>3. \A o \in DOMAIN inputs : inputs'[o] \in InputFolderType /\ inputs'[o].suffix = inputs[o].suffix
  <2>1. \A o \in DOMAIN inputs : inputs[o] \in InputFolderType
    BY DEF InputsOK
  <2>2. \A o \in DOMAIN inputs : /\ Sealed(inputs[o]) \in InputFolderType
                                 /\ Sealed(inputs[o]).suffix = inputs[o].suffix
    BY <2>1, 0 \in Nat, FolderFacts
  <2> QED BY <1>2, <2>1, <2>2
<1>4. UNCHANGED <<tierOffsets, donutFile, donuts, tiersInfo, input, open, job, stored, faults,
                  interrupted>>
  BY DEF FreezeSeal, memory, ghost
<1>5. TypeOK'
  <2>1. tierOffsets' \in TierOffsetsType /\ TiersOnDiskOK' /\ MemoryOK'
    BY <1>4 DEF TiersOnDiskOK, DonutOK, MemoryOK
  <2>2. InputsOK'
    BY <1>2, <1>3 DEF InputsOK
  <2>3. ControlOK'
    BY <1>1, <1>4 DEF ControlOK, DonutSteps
  <2> QED BY <2>1, <2>2, <2>3
<1>6. JobFits' /\ MemoryOnDisk' /\ InputFolders'
  BY <1>1, <1>2, <1>4 DEF JobFits, MemoryOnDisk, InputFolders, Up, InputInHand, Baking,
     DonutSteps, BakeInputSteps, BakeTierSteps
<1>7. Offsets' /\ TiersNewer' /\ JobNewer'
  BY <1>1, <1>2, <1>3, <1>4 DEF Offsets, TiersNewer, JobNewer, Baking, DonutSteps
<1>8. OpenTiers' /\ DonutsListed' /\ AllSources' /\ NothingDroppedEarly'
  BY <1>1, <1>4 DEF OpenTiers, DonutsListed, AllSources, NothingDroppedEarly, DonutSteps,
     SlotSteps, BakeInputSteps, BakeTierSteps
<1>9. Durable'
  <2>1. HashesOf(inputs) \subseteq HashesOf(inputs')
    BY <1>2, <1>3, HashesGrow
  <2> QED BY <1>4, <2>1 DEF Durable, OnDisk
<1> QED BY <1>5, <1>6, <1>7, <1>8, <1>9

\* A tier is recorded under the offset of the folder in hand, which is newer than
\* every folder of the tiers above.
LEMMA TierRecordStep ==
  ASSUME Inductive, TierRecord
  PROVE  Inductive'
<1> DEFINE t == job.tier
<1>1. /\ pc = "newDonut" /\ pc' = "tierFile" /\ t \in Tiers /\ open[t] = NilTier
      /\ job.off \in Nat
  BY DEF TierRecord, ControlOK, JobType
<1>2. UNCHANGED <<inputs, donutFile, donuts, input, open, job, stored, faults, interrupted>>
  BY DEF TierRecord, ghost
<1>3. /\ tiersInfo \in TiersInfoType /\ tierOffsets = OnFile(tiersInfo)
      /\ tiersInfo' = WithTier(tiersInfo, t, job.off) /\ tierOffsets' = OnFile(tiersInfo')
  BY <1>1 DEF TierRecord, MemoryOK, MemoryOnDisk, Up
<1>4. /\ tiersInfo' \in TiersInfoType /\ tierOffsets' \in TierOffsetsType
      /\ tiersInfo'.input = tiersInfo.input /\ tierOffsets'.input = tierOffsets.input
      /\ tiersInfo'.present[t] /\ tiersInfo'.offset[t] = job.off
      /\ tierOffsets'.tier[t] = job.off
      /\ \A u \in Tiers \ {t} :
           /\ tiersInfo'.present[u] = tiersInfo.present[u]
           /\ tiersInfo'.offset[u] = tiersInfo.offset[u]
           /\ tierOffsets'.tier[u] = tierOffsets.tier[u]
  <2> HIDE DEF t
  <2> QED BY <1>1, <1>3, TierRecorded
<1>5. \A x \in DOMAIN donutFile : x[1] >= t => x[2] < job.off
  BY <1>1 DEF JobNewer, Baking
<1>6. TypeOK'
  <2>1. InputsOK' /\ TiersOnDiskOK'
    BY <1>2 DEF InputsOK, TiersOnDiskOK, DonutOK
  <2>2. MemoryOK'
    BY <1>2, <1>4 DEF MemoryOK
  <2>3. ControlOK'
    BY <1>1, <1>2 DEF ControlOK, DonutSteps
  <2> QED BY <1>4, <2>1, <2>2, <2>3
<1>7. JobFits' /\ MemoryOnDisk' /\ InputFolders'
  BY <1>1, <1>2, <1>3, <1>4 DEF JobFits, MemoryOnDisk, InputFolders, Up, InputInHand, Baking,
     DonutSteps, BakeInputSteps, BakeTierSteps
<1>8. Offsets'
  BY <1>1, <1>2, <1>4 DEF Offsets, Baking
<1>9. TiersNewer'
  <2>1. \A u \in Tiers : tierOffsets'.tier[u] # Absent =>
          \A x \in DOMAIN donutFile : x[1] > u => x[2] < tierOffsets'.tier[u]
    <3> TAKE u \in Tiers
    <3>1. CASE u = t
      <4> \A x \in DOMAIN donutFile : x[1] \in Int
        BY DEF TiersOnDiskOK
      <4> QED BY <1>1, <1>4, <1>5, <3>1
    <3>2. CASE u # t
      BY <1>4, <3>2 DEF TiersNewer
    <3> QED BY <3>1, <3>2
  <2>2. \A u \in Tiers : u < t => ~tiersInfo'.present[u]
    <3> TAKE u \in Tiers
    <3> HAVE u < t
    <3>1. ~tiersInfo.present[u]
      BY <1>1 DEF TiersNewer, Baking
    <3>2. u # t
      BY <1>1
    <3> QED BY <1>4, <3>1, <3>2
  <2> QED BY <1>2, <2>1, <2>2 DEF TiersNewer
<1>10. JobNewer'
  BY <1>2, <1>5 DEF JobNewer
<1>11. OpenTiers'
  <2>1. \A u \in Tiers : open[u] # NilTier =>
          /\ tiersInfo'.present[u]
          /\ <<u, tiersInfo'.offset[u]>> \in DOMAIN donutFile =>
               open[u].offsets = donutFile[<<u, tiersInfo'.offset[u]>>]
    <3> TAKE u \in Tiers
    <3> HAVE open[u] # NilTier
    <3>1. u # t
      BY <1>1
    <3>2. tiersInfo'.present[u] = tiersInfo.present[u] /\ tiersInfo'.offset[u] = tiersInfo.offset[u]
      BY <1>4, <3>1
    <3> QED BY <3>2 DEF OpenTiers
  <2> QED BY <1>1, <1>2, <1>4, <2>1 DEF OpenTiers, DonutSteps
<1>12. DonutsListed' /\ AllSources' /\ NothingDroppedEarly'
  BY <1>1, <1>2 DEF DonutsListed, AllSources, NothingDroppedEarly, SlotSteps, BakeInputSteps,
     BakeTierSteps
<1>13. Durable'
  BY <1>2 DEF Durable, OnDisk
<1> QED BY <1>6, <1>7, <1>8, <1>9, <1>10, <1>11, <1>12, <1>13

\* DonutOffsets.txt is started in a folder that was not there before.
LEMMA TierFileStep ==
  ASSUME Inductive, TierFile
  PROVE  Inductive'
<1> DEFINE t == job.tier
           folder == <<job.tier, job.off>>
<1>1. /\ pc = "tierFile" /\ pc' = "newDonut" /\ t \in Tiers /\ job.off \in Nat
      /\ open[t] = NilTier /\ tiersInfo.offset[t] = job.off /\ tiersInfo.present[t]
  BY DEF TierFile, ControlOK, JobType, OpenTiers, DonutSteps
<1>2. UNCHANGED <<tierOffsets, inputs, donuts, tiersInfo, input, job, stored, faults,
                  interrupted>>
  BY DEF TierFile, ghost
<1>3. \A x \in DOMAIN donutFile : x[1] >= t => x[2] < job.off
  BY <1>1 DEF JobNewer, Baking, DonutSteps
<1>4. folder \notin DOMAIN donutFile
  <2>1. folder[1] >= t /\ ~(folder[2] < job.off)
    BY <1>1
  <2> HIDE DEF folder
  <2> QED BY <1>3, <2>1
<1>5. /\ DOMAIN donutFile' = DOMAIN donutFile \cup {folder}
      /\ donutFile'[folder] = <<>>
      /\ \A x \in DOMAIN donutFile : donutFile'[x] = donutFile[x]
  <2>1. /\ DOMAIN donutFile' = DOMAIN donutFile \cup {folder}
        /\ \A x \in DOMAIN donutFile \cup {folder} :
             donutFile'[x] = IF x = folder THEN <<>> ELSE donutFile[x]
    BY DEF TierFile, Put
  <2> HIDE DEF folder
  <2> QED BY <1>4, <2>1
<1>6. /\ open' \in [Tiers -> OpenTierType]
      /\ open'[t] # NilTier /\ open'[t].offsets = <<>>
      /\ \A u \in Tiers \ {t} : open'[u] = open[u]
  <2>1. [NilTier EXCEPT !.folder = job.off]
          = [folder |-> job.off, offsets |-> <<>>, donuts |-> <<>>]
    BY DEF NilTier
  <2>2. open' = [open EXCEPT ![t] = [folder |-> job.off, offsets |-> <<>>, donuts |-> <<>>]]
    BY <2>1 DEF TierFile
  <2>3. [folder |-> job.off, offsets |-> <<>>, donuts |-> <<>>] \in OpenTierType
    BY <1>1 DEF OpenTierType
  <2>4. [folder |-> job.off, offsets |-> <<>>, donuts |-> <<>>] # NilTier
    BY <1>1 DEF NilTier, NoFolder
  <2> QED BY <1>1, <2>2, <2>3, <2>4 DEF MemoryOK
<1>7. TypeOK'
  <2>1. tierOffsets' \in TierOffsetsType /\ InputsOK'
    BY <1>2 DEF InputsOK
  <2>2. TiersOnDiskOK'
    <3>1. folder \in Tiers \X Nat /\ <<>> \in Seq(Nat)
      BY <1>1
    <3>2. \A x \in DOMAIN donutFile' : donutFile'[x] \in Seq(Nat)
      BY <1>5, <3>1 DEF TiersOnDiskOK
    <3> QED BY <1>2, <1>5, <3>1, <3>2 DEF TiersOnDiskOK, DonutOK
  <2>3. MemoryOK'
    BY <1>2, <1>6 DEF MemoryOK
  <2>4. ControlOK'
    BY <1>1, <1>2 DEF ControlOK, DonutSteps
  <2> QED BY <2>1, <2>2, <2>3, <2>4
<1>8. JobFits' /\ MemoryOnDisk' /\ InputFolders'
  BY <1>1, <1>2 DEF JobFits, MemoryOnDisk, InputFolders, Up, InputInHand, Baking,
     DonutSteps, BakeInputSteps, BakeTierSteps
<1>9. Offsets'
  BY <1>1, <1>2, <1>5 DEF Offsets, Baking, DonutSteps
<1>10. TiersNewer'
  <2>1. \A u \in Tiers : u < t => ~tiersInfo.present[u]
    BY <1>1 DEF TiersNewer, Baking, DonutSteps
  <2>2. \A u \in Tiers : tierOffsets.tier[u] # Absent => tiersInfo.present[u]
    BY <1>1, OnFileFacts DEF MemoryOnDisk, Up, MemoryOK
  <2>3. \A u \in Tiers : tierOffsets.tier[u] # Absent => ~(t > u)
    BY <1>1, <2>1, <2>2
  <2>4. \A u \in Tiers : tierOffsets.tier[u] # Absent =>
          \A x \in DOMAIN donutFile' : x[1] > u => x[2] < tierOffsets.tier[u]
    BY <1>1, <1>5, <2>3 DEF TiersNewer
  <2> QED BY <1>2, <2>1, <2>4 DEF TiersNewer
<1>11. JobNewer'
  <2>1. ASSUME NEW x \in DOMAIN donutFile', x[1] >= t
        PROVE  \/ x[2] < job.off
               \/ /\ x[1] = t /\ x[2] = job.off
                  /\ tiersInfo.offset[x[1]] = job.off /\ open'[x[1]] # NilTier
    <3>1. CASE x \in DOMAIN donutFile
      BY <1>3, <2>1, <3>1
    <3>2. CASE x = folder
      BY <1>1, <1>6, <3>2
    <3> QED BY <1>5, <3>1, <3>2
  <2> QED BY <1>2, <2>1 DEF JobNewer
<1>12. OpenTiers'
  <2>1. \A u \in Tiers : open'[u] # NilTier =>
          /\ tiersInfo.present[u]
          /\ <<u, tiersInfo.offset[u]>> \in DOMAIN donutFile' =>
               open'[u].offsets = donutFile'[<<u, tiersInfo.offset[u]>>]
    <3> TAKE u \in Tiers
    <3>1. CASE u = t
      BY <1>1, <1>5, <1>6, <3>1
    <3>2. CASE u # t
      <4>1. <<u, tiersInfo.offset[u]>> # folder
        BY <3>2
      <4> HIDE DEF folder
      <4> QED BY <1>5, <1>6, <3>2, <4>1 DEF OpenTiers
    <3> QED BY <3>1, <3>2
  <2> QED BY <1>1, <1>2, <2>1 DEF OpenTiers, DonutSteps
<1>13. DonutsListed'
  BY <1>1, <1>2, <1>4, <1>5 DEF DonutsListed, SlotSteps, BakeInputSteps, BakeTierSteps
<1>14. AllSources' /\ NothingDroppedEarly'
  <2>1. <<t - 1, job.off>> # folder
    BY <1>1
  <2> HIDE DEF folder
  <2> QED BY <1>1, <1>2, <1>5, <2>1 DEF AllSources, NothingDroppedEarly, BakeTierSteps
<1>15. Durable'
  BY <1>2 DEF Durable, OnDisk
<1> QED BY <1>7, <1>8, <1>9, <1>10, <1>11, <1>12, <1>13, <1>14, <1>15

\* The donut that is registered next has no folder yet.
LEMMA DonutFolderStep ==
  ASSUME Inductive, DonutFolder
  PROVE  Inductive'
<1> DEFINE t == job.tier
           registered == Append(donutFile[TierFolder], job.off)
<1>1. /\ pc = "newDonut" /\ t \in Tiers /\ open[t] # NilTier /\ job.off \in Nat
      /\ job \in JobType /\ job.prefix = 0
      /\ TierFolder \in DOMAIN donutFile /\ donutFile[TierFolder] \in Seq(Nat)
      /\ pc' = IF t = 0 THEN "bakeInput" ELSE "bakePrefix"
  BY DEF DonutFolder, HasRoom, ControlOK, JobType, JobFits, TiersOnDiskOK
<1>2. UNCHANGED <<tierOffsets, inputs, donuts, tiersInfo, input, stored, faults, interrupted>>
  BY DEF DonutFolder, ghost
<1>3. /\ registered \in Seq(Nat) /\ Len(registered) = Len(donutFile[TierFolder]) + 1
      /\ Len(registered) \in Nat /\ Len(registered) > 0 /\ registered # <<>>
  <2>1. registered \in Seq(Nat)
    BY <1>1
  <2>2. Len(registered) = Len(donutFile[TierFolder]) + 1
    BY <1>1
  <2>3. Len(donutFile[TierFolder]) \in Nat
    BY <1>1
  <2> HIDE DEF registered
  <2> QED BY <2>1, <2>2, <2>3
<1>4. /\ DOMAIN donutFile' = DOMAIN donutFile
      /\ donutFile'[TierFolder] = registered
      /\ \A x \in DOMAIN donutFile \ {TierFolder} : donutFile'[x] = donutFile[x]
  BY <1>1 DEF DonutFolder
<1>5. /\ open' \in [Tiers -> OpenTierType]
      /\ open'[t] # NilTier /\ open'[t].offsets = registered
      /\ \A u \in Tiers \ {t} : open'[u] = open[u]
  <2>1. open' = [open EXCEPT ![t] = [open[t] EXCEPT !.offsets = registered]]
    BY DEF DonutFolder
  <2>2. open[t] \in OpenTierType
    BY <1>1 DEF MemoryOK
  <2>3. /\ [open[t] EXCEPT !.offsets = registered] \in OpenTierType
        /\ [open[t] EXCEPT !.offsets = registered].offsets = registered
    <3> HIDE DEF registered
    <3> QED BY <1>3, <2>2 DEF OpenTierType
  <2>4. [open[t] EXCEPT !.offsets = registered] # NilTier
    BY <1>3, <2>3 DEF NilTier
  <2> QED BY <1>1, <2>1, <2>3, <2>4 DEF MemoryOK
<1>6. /\ job' \in JobType /\ job'.tier = t /\ job'.off = job.off
      /\ job'.count = Len(registered) /\ job'.offsets = job.offsets /\ job'.prefix = 0
  <2>1. job' = [job EXCEPT !.count = Len(registered)]
    BY DEF DonutFolder
  <2> HIDE DEF registered
  <2> QED BY <1>1, <1>3, <2>1 DEF JobType
<1>7. TierFolder' = TierFolder /\ TierFolder = <<t, tiersInfo.offset[t]>>
  BY <1>2, <1>6 DEF TierFolder
<1>8. tiersInfo.present[t]
  BY <1>1 DEF OpenTiers
<1> HIDE DEF registered
<1>9. TypeOK'
  <2>1. tierOffsets' \in TierOffsetsType /\ InputsOK'
    BY <1>2 DEF InputsOK
  <2>2. TiersOnDiskOK'
    <3>1. \A x \in DOMAIN donutFile' : donutFile'[x] \in Seq(Nat)
      BY <1>3, <1>4 DEF TiersOnDiskOK
    <3> QED BY <1>2, <1>4, <3>1 DEF TiersOnDiskOK, DonutOK
  <2>3. MemoryOK'
    BY <1>2, <1>5 DEF MemoryOK
  <2>4. ControlOK'
    BY <1>1, <1>2, <1>6 DEF ControlOK, DonutSteps
  <2> QED BY <2>1, <2>2, <2>3, <2>4
<1>10. JobFits' /\ MemoryOnDisk' /\ InputFolders'
  BY <1>1, <1>2, <1>6 DEF JobFits, MemoryOnDisk, InputFolders, Up, InputInHand, Baking,
     DonutSteps, BakeInputSteps, BakeTierSteps
<1>11. Offsets' /\ TiersNewer'
  BY <1>1, <1>2, <1>4, <1>6 DEF Offsets, TiersNewer, Baking, DonutSteps
<1>12. JobNewer'
  BY <1>1, <1>2, <1>4, <1>5, <1>6 DEF JobNewer, Baking
<1>13. OpenTiers'
  <2>1. \A u \in Tiers : open'[u] # NilTier =>
          /\ tiersInfo.present[u]
          /\ <<u, tiersInfo.offset[u]>> \in DOMAIN donutFile' =>
               open'[u].offsets = donutFile'[<<u, tiersInfo.offset[u]>>]
    <3> TAKE u \in Tiers
    <3>1. CASE u = t
      BY <1>4, <1>5, <1>7, <1>8, <3>1
    <3>2. CASE u # t
      <4>1. <<u, tiersInfo.offset[u]>> # TierFolder
        BY <1>7, <3>2
      <4> QED BY <1>4, <1>5, <3>2, <4>1 DEF OpenTiers
    <3> QED BY <3>1, <3>2
  <2> QED BY <1>1, <1>2, <1>5, <1>6, <1>8, <2>1 DEF OpenTiers, DonutSteps
<1>14. DonutsListed'
  <2>1. \A s \in DOMAIN donuts : s[3] \in 0 .. Len(donutFile'[<<s[1], s[2]>>]) - 1
    <3> TAKE s \in DOMAIN donuts
    <3>1. <<s[1], s[2]>> \in DOMAIN donutFile /\ s[3] \in 0 .. Len(donutFile[<<s[1], s[2]>>]) - 1
      BY DEF DonutsListed
    <3>2. CASE <<s[1], s[2]>> = TierFolder
      <4>3. Len(donutFile[TierFolder]) \in Nat
        BY <1>1
      <4>1. s[3] \in 0 .. Len(donutFile[TierFolder]) - 1
        BY <3>1, <3>2, Zenon
      <4>2. s[3] \in 0 .. Len(registered) - 1
        BY <1>3, <4>1, <4>3
      <4> QED BY <1>4, <3>2, <4>2, Zenon
    <3>3. CASE <<s[1], s[2]>> # TierFolder
      BY <1>4, <3>1, <3>3
    <3> QED BY <3>2, <3>3
  <2>2. TierFolder' \in DOMAIN donutFile' /\ job'.count = Len(donutFile'[TierFolder'])
        /\ job'.count > 0
    BY <1>1, <1>3, <1>4, <1>6, <1>7
  <2>3. \A s \in DOMAIN donuts : <<s[1], s[2]>> \in DOMAIN donutFile'
    BY <1>4 DEF DonutsListed
  <2> QED BY <1>2, <2>1, <2>2, <2>3 DEF DonutsListed
<1>15. AllSources'
  <2>1. <<t - 1, job.off>> # TierFolder
    BY <1>1, <1>7
  <2> QED BY <1>1, <1>4, <1>6, <2>1 DEF AllSources
<1>16. NothingDroppedEarly'
  <2>1. Slot' = <<t, tiersInfo.offset[t], Len(donutFile[TierFolder])>>
    BY <1>1, <1>2, <1>3, <1>6 DEF Slot
  <2>2. Slot' \notin DOMAIN donuts
    <3> SUFFICES ASSUME Slot' \in DOMAIN donuts
                 PROVE  FALSE
      OBVIOUS
    <3>1. Slot'[3] \in 0 .. Len(donutFile[<<Slot'[1], Slot'[2]>>]) - 1
      BY DEF DonutsListed
    <3>2. Slot'[3] \in 0 .. Len(donutFile[TierFolder]) - 1
      BY <1>7, <2>1, <3>1
    <3>3. Slot'[3] = Len(donutFile[TierFolder]) /\ Len(donutFile[TierFolder]) \in Nat
      BY <1>1, <2>1
    <3> QED BY <3>2, <3>3
  <2>3. t > 0 => \A s \in DOMAIN donuts : \A e \in donuts[s].suffix :
          PrefixOf[t - 1][e.hash] \in Nat
    <3> SUFFICES ASSUME t > 0, NEW s \in DOMAIN donuts, NEW e \in donuts[s].suffix
                 PROVE  PrefixOf[t - 1][e.hash] \in Nat
      OBVIOUS
    <3>1. t - 1 \in Tiers
      BY <1>1
    <3>2. e.hash \in Hashes
      BY DEF TiersOnDiskOK, DonutOK, EntryType
    <3> QED BY <3>1, <3>2
  <2>4. pc' = "bakePrefix" => t > 0
    BY <1>1
  <2>6. pc' = "bakePrefix" => \A s \in DOMAIN donuts' : \A e \in donuts'[s].suffix :
          PrefixOf[job'.tier - 1][e.hash] >= job'.prefix
    BY <1>2, <1>6, <2>3, <2>4
  <2>7. pc' \in {"bakeInput", "bakePrefix"} /\ job'.prefix = 0
    BY <1>1, <1>6
  <2> QED BY <1>2, <2>2, <2>6, <2>7 DEF NothingDroppedEarly, PrefixOfEntry
<1>17. Durable'
  BY <1>2 DEF Durable, OnDisk
<1> QED BY <1>9, <1>10, <1>11, <1>12, <1>13, <1>14, <1>15, <1>16, <1>17

\* A tier with its first donut is opened again, under that donut's offset.
LEMMA PublishFirstStep ==
  ASSUME Inductive, PublishFirst
  PROVE  Inductive'
<1> DEFINE t == job.tier
           folder == <<job.tier, job.off>>
<1>1. /\ pc = "publish" /\ pc' = "idle" /\ job' = NoJob /\ t \in Tiers /\ job.off \in Nat
      /\ open[t] # NilTier
      /\ interrupted' \in BOOLEAN
  <2>1. pc = "publish" /\ t \in Tiers /\ job.off \in Nat /\ job.count = 1
    BY DEF PublishFirst, ControlOK, JobType, DonutSteps
  <2>2. pc' = "idle" /\ job' = NoJob
    BY <2>1 DEF PublishFirst, Return
  <2>3. open[t] # NilTier
    BY <2>1 DEF OpenTiers, DonutSteps
  <2>4. interrupted' \in BOOLEAN
    BY DEF PublishFirst, ControlOK
  <2> QED BY <2>1, <2>2, <2>3, <2>4
<1>2. UNCHANGED <<inputs, donutFile, donuts, input, stored, faults>>
  BY DEF PublishFirst
<1>3. /\ tiersInfo \in TiersInfoType /\ tierOffsets = OnFile(tiersInfo)
      /\ tiersInfo' = WithTier(tiersInfo, t, job.off) /\ tierOffsets' = OnFile(tiersInfo')
  BY <1>1 DEF PublishFirst, MemoryOK, MemoryOnDisk, Up
<1>4. /\ tiersInfo' \in TiersInfoType /\ tierOffsets' \in TierOffsetsType
      /\ tiersInfo'.input = tiersInfo.input /\ tierOffsets'.input = tierOffsets.input
      /\ tiersInfo'.present[t] /\ tiersInfo'.offset[t] = job.off
      /\ tierOffsets'.tier[t] = job.off
      /\ \A u \in Tiers \ {t} :
           /\ tiersInfo'.present[u] = tiersInfo.present[u]
           /\ tiersInfo'.offset[u] = tiersInfo.offset[u]
           /\ tierOffsets'.tier[u] = tierOffsets.tier[u]
  <2> HIDE DEF t
  <2> QED BY <1>1, <1>3, TierRecorded
\* Reopened or not, the tier knows the donuts that its folder lists.
<1>5. /\ open' \in [Tiers -> OpenTierType]
      /\ \A u \in Tiers \ {t} : open'[u] = open[u]
      /\ folder \in DOMAIN donutFile => open'[t].offsets = donutFile[folder]
  <2>1. CASE TierReadable(t, job.off)
    <3>1. folder \in DOMAIN donutFile
      BY <2>1 DEF TierReadable
    <3>2. OpenedTier(t, job.off) \in OpenTierType
      BY <1>1, <3>1, OpenedTierType
    <3>3. OpenedTier(t, job.off).offsets = donutFile[folder]
      BY DEF OpenedTier
    <3>4. open' = [open EXCEPT ![t] = OpenedTier(t, job.off)]
      BY <2>1 DEF PublishFirst
    <3> QED BY <1>1, <3>2, <3>3, <3>4 DEF MemoryOK
  <2>2. CASE ~TierReadable(t, job.off)
    <3>1. open' = open
      BY <2>2 DEF PublishFirst
    <3>2. folder \in DOMAIN donutFile => open[t].offsets = donutFile[folder]
      <4> HAVE folder \in DOMAIN donutFile
      <4>1. folder[1] >= t /\ ~(folder[2] < job.off) /\ folder[1] = t
        BY <1>1
      <4>2. tiersInfo.offset[t] = job.off
        <5> HIDE DEF folder
        <5> QED BY <1>1, <4>1 DEF JobNewer, Baking, DonutSteps
      <4>3. <<t, tiersInfo.offset[t]>> = folder
        BY <4>2
      <4> QED BY <1>1, <4>3 DEF OpenTiers
    <3> QED BY <3>1, <3>2 DEF MemoryOK
  <2> QED BY <2>1, <2>2
<1>6. TypeOK'
  <2>1. InputsOK' /\ TiersOnDiskOK'
    BY <1>2 DEF InputsOK, TiersOnDiskOK, DonutOK
  <2>2. MemoryOK'
    BY <1>2, <1>4, <1>5 DEF MemoryOK
  <2>3. ControlOK'
    BY <1>1, <1>2, NilValues DEF ControlOK, DonutSteps
  <2> QED BY <1>4, <2>1, <2>2, <2>3
<1>7. JobFits' /\ MemoryOnDisk' /\ InputFolders'
  BY <1>1, <1>2, <1>3, <1>4 DEF JobFits, MemoryOnDisk, InputFolders, Up, InputInHand, Baking,
     DonutSteps, BakeInputSteps, BakeTierSteps
<1>8. Offsets'
  BY <1>1, <1>2, <1>4 DEF Offsets, Baking, DonutSteps
<1>9. TiersNewer'
  <2>1. \A u \in Tiers : tierOffsets'.tier[u] # Absent =>
          \A x \in DOMAIN donutFile : x[1] > u => x[2] < tierOffsets'.tier[u]
    <3> TAKE u \in Tiers
    <3>1. CASE u = t
      <4>1. \A x \in DOMAIN donutFile : x[1] \in Int
        BY DEF TiersOnDiskOK
      <4>2. \A x \in DOMAIN donutFile : x[1] > t => x[2] < job.off
        <5> TAKE x \in DOMAIN donutFile
        <5> HAVE x[1] > t
        <5>1. x[1] >= t /\ x[1] # t
          BY <1>1, <4>1
        <5> QED BY <1>1, <5>1 DEF JobNewer, Baking, DonutSteps
      <4> QED BY <1>4, <3>1, <4>2
    <3>2. CASE u # t
      BY <1>4, <3>2 DEF TiersNewer
    <3> QED BY <3>1, <3>2
  <2> QED BY <1>1, <1>2, <2>1 DEF TiersNewer, Baking, DonutSteps
<1>10. JobNewer'
  BY <1>1 DEF JobNewer, Baking, DonutSteps
<1>11. OpenTiers'
  <2>1. \A u \in Tiers : open'[u] # NilTier =>
          /\ tiersInfo'.present[u]
          /\ <<u, tiersInfo'.offset[u]>> \in DOMAIN donutFile =>
               open'[u].offsets = donutFile[<<u, tiersInfo'.offset[u]>>]
    <3> TAKE u \in Tiers
    <3>1. CASE u = t
      BY <1>4, <1>5, <3>1
    <3>2. CASE u # t
      <4>1. /\ tiersInfo'.present[u] = tiersInfo.present[u]
            /\ tiersInfo'.offset[u] = tiersInfo.offset[u] /\ open'[u] = open[u]
        BY <1>4, <1>5, <3>2
      <4> QED BY <4>1 DEF OpenTiers
    <3> QED BY <3>1, <3>2
  <2> QED BY <1>1, <1>2, <2>1 DEF OpenTiers, DonutSteps
<1>12. DonutsListed' /\ AllSources' /\ NothingDroppedEarly'
  BY <1>1, <1>2 DEF DonutsListed, AllSources, NothingDroppedEarly, SlotSteps, BakeInputSteps,
     BakeTierSteps
<1>13. Durable'
  BY <1>2 DEF Durable, OnDisk
<1> QED BY <1>6, <1>7, <1>8, <1>9, <1>10, <1>11, <1>12, <1>13

\* A further donut joins an open tier.
LEMMA PublishNextStep ==
  ASSUME Inductive, PublishNext
  PROVE  Inductive'
<1> DEFINE t == job.tier
<1>1. /\ pc = "publish" /\ t \in Tiers /\ open[t] # NilTier /\ job \in JobType
      /\ (pc' = "freezeTier" /\ job' = job) \/ (pc' = "idle" /\ job' = NoJob)
  BY DEF PublishNext, Return, ControlOK, DonutSteps, OpenTiers
<1>2. UNCHANGED <<tierOffsets, inputs, donutFile, donuts, tiersInfo, input, stored, faults,
                  interrupted>>
  BY DEF PublishNext, disk, ghost
<1>3. /\ open' \in [Tiers -> OpenTierType]
      /\ open'[t] # NilTier /\ open'[t].offsets = open[t].offsets
      /\ \A u \in Tiers \ {t} : open'[u] = open[u]
  <2> DEFINE now == [open[t] EXCEPT !.donuts = Append(open[t].donuts, job.count - 1)]
  <2>1. open' = [open EXCEPT ![t] = now]
    BY DEF PublishNext, Published
  <2>2. open[t] \in OpenTierType /\ job.count - 1 \in Int
    BY <1>1 DEF MemoryOK, JobType
  <2>3. /\ Append(open[t].donuts, job.count - 1) \in Seq(Int)
        /\ Append(open[t].donuts, job.count - 1) # <<>>
    <3>1. open[t].donuts \in Seq(Int)
      BY <2>2 DEF OpenTierType
    <3>2. Append(open[t].donuts, job.count - 1) \in Seq(Int)
      BY <2>2, <3>1
    <3>3. Len(Append(open[t].donuts, job.count - 1)) = Len(open[t].donuts) + 1
      BY <2>2, <3>1
    <3>4. Len(open[t].donuts) \in Nat /\ Len(<<>>) = 0
      BY <3>1
    <3>5. Append(open[t].donuts, job.count - 1) # <<>>
      <4> DEFINE longer == Append(open[t].donuts, job.count - 1)
      <4>1. Len(longer) # 0
        BY <3>3, <3>4
      <4> HIDE DEF longer
      <4>2. longer # <<>>
        BY <3>4, <4>1
      <4> QED BY <4>2 DEF longer
    <3> QED BY <3>2, <3>5
  <2>4. now \in OpenTierType /\ now.offsets = open[t].offsets
        /\ now.donuts = Append(open[t].donuts, job.count - 1)
    BY <2>2, <2>3 DEF OpenTierType
  <2>5. now # NilTier
    BY <2>3, <2>4 DEF NilTier
  <2> HIDE DEF now
  <2> QED BY <1>1, <2>1, <2>4, <2>5 DEF MemoryOK
<1>4. TypeOK'
  <2>1. tierOffsets' \in TierOffsetsType /\ InputsOK' /\ TiersOnDiskOK'
    BY <1>2 DEF InputsOK, TiersOnDiskOK, DonutOK
  <2>2. MemoryOK'
    BY <1>2, <1>3 DEF MemoryOK
  <2>3. ControlOK'
    BY <1>1, <1>2, NilValues DEF ControlOK, DonutSteps
  <2> QED BY <2>1, <2>2, <2>3
<1>5. JobFits' /\ MemoryOnDisk' /\ InputFolders'
  BY <1>1, <1>2 DEF JobFits, MemoryOnDisk, InputFolders, Up, InputInHand, Baking,
     DonutSteps, BakeInputSteps, BakeTierSteps
<1>6. Offsets' /\ TiersNewer'
  BY <1>1, <1>2 DEF Offsets, TiersNewer, Baking, DonutSteps
<1>7. JobNewer'
  BY <1>1, <1>2, <1>3 DEF JobNewer, Baking, DonutSteps
<1>8. OpenTiers'
  <2>1. \A u \in Tiers : open'[u] # NilTier => open[u] # NilTier /\ open'[u].offsets = open[u].offsets
    BY <1>1, <1>3
  <2> QED BY <1>1, <1>2, <1>3, <2>1 DEF OpenTiers, DonutSteps
<1>9. DonutsListed' /\ AllSources' /\ NothingDroppedEarly'
  BY <1>1, <1>2 DEF DonutsListed, AllSources, NothingDroppedEarly, SlotSteps, BakeInputSteps,
     BakeTierSteps
<1>10. Durable'
  BY <1>2 DEF Durable, OnDisk
<1> QED BY <1>4, <1>5, <1>6, <1>7, <1>8, <1>9, <1>10

\* A frozen tier is handed on with all its donuts, and is newer than every folder
\* of the tiers above.
LEMMA FreezeTierStep ==
  ASSUME Inductive, FreezeTier
  PROVE  Inductive'
<1> DEFINE t == job.tier
           off == tiersInfo.offset[job.tier]
<1>1. /\ pc = "freezeTier" /\ pc' = "newDonut" /\ t \in Tiers
      /\ open[t] # NilTier /\ open[t] \in OpenTierType /\ tiersInfo.present[t]
      /\ tiersInfo \in TiersInfoType /\ off \in Nat
  BY DEF FreezeTier, ControlOK, DonutSteps, OpenTiers, MemoryOK, TiersInfoType
<1>2. UNCHANGED <<inputs, donutFile, donuts, input, stored, faults, interrupted>>
  BY DEF FreezeTier, ghost
<1>3. /\ tiersInfo' \in TiersInfoType /\ tiersInfo'.input = tiersInfo.input
      /\ tiersInfo'.offset = tiersInfo.offset /\ ~tiersInfo'.present[t]
      /\ \A u \in Tiers \ {t} : tiersInfo'.present[u] = tiersInfo.present[u]
  <2>1. tiersInfo' = WithoutTier(tiersInfo, t)
    BY DEF FreezeTier
  <2> HIDE DEF t
  <2> QED BY <1>1, <2>1, WithoutTierFacts
<1>4. /\ tierOffsets.input = tiersInfo.input
      /\ \A u \in Tiers : tierOffsets.tier[u] =
           IF tiersInfo.present[u] THEN tiersInfo.offset[u] ELSE Absent
  <2>1. tierOffsets = OnFile(tiersInfo)
    BY <1>1 DEF MemoryOnDisk, Up
  <2> QED BY <1>1, <2>1, OnFileFacts
<1>5. /\ tierOffsets' = OnFile(tiersInfo') /\ tierOffsets' \in TierOffsetsType
      /\ tierOffsets'.input = tierOffsets.input /\ tierOffsets'.tier[t] = Absent
      /\ \A u \in Tiers \ {t} : tierOffsets'.tier[u] = tierOffsets.tier[u]
  <2>1. tierOffsets' = OnFile(tiersInfo')
    BY DEF FreezeTier
  <2>2. /\ tierOffsets' \in TierOffsetsType /\ tierOffsets'.input = tiersInfo'.input
        /\ \A u \in Tiers : tierOffsets'.tier[u] =
             IF tiersInfo'.present[u] THEN tiersInfo'.offset[u] ELSE Absent
    BY <1>3, <2>1, OnFileFacts
  <2>3. \A u \in Tiers \ {t} : tierOffsets'.tier[u] = tierOffsets.tier[u]
    BY <1>3, <1>4, <2>2
  <2> QED BY <1>1, <1>3, <1>4, <2>1, <2>2, <2>3
<1>6. /\ open' \in [Tiers -> OpenTierType] /\ open'[t] = NilTier
      /\ \A u \in Tiers \ {t} : open'[u] = open[u]
  BY <1>1, NilValues DEF FreezeTier, MemoryOK
<1>7. /\ job' \in JobType /\ job'.tier = t + 1 /\ job'.off = off
      /\ job'.offsets = open[t].offsets /\ job'.prefix = 0
  <2>1. job' = [tier |-> t + 1, off |-> off, count |-> 0, offsets |-> open[t].offsets,
                prefix |-> 0]
    BY DEF FreezeTier
  <2>2. open[t].offsets \in Seq(Nat) /\ t + 1 \in 0 .. NTiers
    BY <1>1 DEF OpenTierType
  <2> HIDE DEF off
  <2> QED BY <1>1, <2>1, <2>2 DEF JobType
<1>8. tierOffsets.tier[t] = off /\ tierOffsets.tier[t] # Absent
  BY <1>1, <1>4 DEF Absent
<1>9. TypeOK'
  <2>1. InputsOK' /\ TiersOnDiskOK'
    BY <1>2 DEF InputsOK, TiersOnDiskOK, DonutOK
  <2>2. MemoryOK'
    BY <1>2, <1>3, <1>6 DEF MemoryOK
  <2>3. ControlOK'
    BY <1>1, <1>2, <1>7 DEF ControlOK, DonutSteps
  <2> QED BY <1>5, <2>1, <2>2, <2>3
<1>10. JobFits' /\ MemoryOnDisk' /\ InputFolders'
  <2>1. job'.tier # 0
    BY <1>1, <1>7
  <2> QED BY <1>1, <1>2, <1>3, <1>5, <1>7, <2>1 DEF JobFits, MemoryOnDisk, InputFolders, Up,
       InputInHand, BakeInputSteps, BakeTierSteps
<1>11. Offsets'
  <2>1. tierOffsets.input \in Nat /\ off < tierOffsets.input
    BY <1>1, <1>8 DEF Offsets, TierOffsetsType
  <2>2. \A u \in Tiers : tierOffsets'.tier[u] < tierOffsets'.input
    <3> TAKE u \in Tiers
    <3>1. CASE u = t
      BY <1>5, <2>1, <3>1 DEF Absent
    <3>2. CASE u # t
      BY <1>5, <3>2 DEF Offsets
    <3> QED BY <3>1, <3>2
  <2> QED BY <1>2, <1>5, <1>7, <2>1, <2>2 DEF Offsets
<1>12. TiersNewer'
  <2>1. \A u \in Tiers : u < t + 1 => ~tiersInfo'.present[u]
    <3> TAKE u \in Tiers
    <3> HAVE u < t + 1
    <3>1. CASE u = t
      BY <1>3, <3>1
    <3>2. CASE u # t
      <4>1. u < t
        BY <1>1, <3>2
      <4>2. ~tiersInfo.present[u]
        BY <1>1, <4>1 DEF TiersNewer, Baking, DonutSteps
      <4> QED BY <1>3, <3>2, <4>2
    <3> QED BY <3>1, <3>2
  <2>2. \A u \in Tiers : tierOffsets'.tier[u] # Absent =>
          u # t /\ tierOffsets'.tier[u] = tierOffsets.tier[u]
    BY <1>5
  <2> QED BY <1>2, <1>7, <2>1, <2>2 DEF TiersNewer
<1>13. JobNewer'
  <2>1. \A x \in DOMAIN donutFile : x[1] >= t + 1 => x[2] < off
    <3> TAKE x \in DOMAIN donutFile
    <3> HAVE x[1] >= t + 1
    <3>1. x[1] > t
      BY <1>1 DEF TiersOnDiskOK
    <3> QED BY <1>1, <1>8, <3>1 DEF TiersNewer
  <2> QED BY <1>2, <1>7, <2>1 DEF JobNewer
<1>14. OpenTiers'
  <2>1. \A u \in Tiers : open'[u] # NilTier =>
          u # t /\ open'[u] = open[u] /\ tiersInfo'.present[u] = tiersInfo.present[u]
    BY <1>3, <1>6
  <2>2. \A u \in Tiers : open'[u] # NilTier =>
          /\ tiersInfo'.present[u]
          /\ <<u, tiersInfo'.offset[u]>> \in DOMAIN donutFile =>
               open'[u].offsets = donutFile[<<u, tiersInfo'.offset[u]>>]
    <3> TAKE u \in Tiers
    <3> HAVE open'[u] # NilTier
    <3>1. /\ open'[u] = open[u] /\ tiersInfo'.present[u] = tiersInfo.present[u]
          /\ tiersInfo'.offset[u] = tiersInfo.offset[u]
      BY <1>3, <2>1
    <3> QED BY <3>1 DEF OpenTiers
  <2> QED BY <1>1, <1>2, <2>2 DEF OpenTiers, DonutSteps
<1>15. AllSources'
  <2>1. <<t, off>> \in DOMAIN donutFile => open[t].offsets = donutFile[<<t, off>>]
    BY <1>1 DEF OpenTiers
  <2>2. job'.tier - 1 = t
    BY <1>1, <1>7
  <2>3. Len(open[t].offsets) \in Nat
    BY <1>1 DEF OpenTierType
  <2>4. <<t, off>> \in DOMAIN donutFile => Len(donutFile[<<t, off>>]) <= Len(open[t].offsets)
    BY <2>1, <2>3
  <2> HIDE DEF off
  <2> QED BY <1>2, <1>7, <2>2, <2>4 DEF AllSources
<1>16. DonutsListed' /\ NothingDroppedEarly'
  BY <1>1, <1>2 DEF DonutsListed, NothingDroppedEarly, SlotSteps, BakeInputSteps, BakeTierSteps
<1>17. Durable'
  BY <1>2 DEF Durable, OnDisk
<1> QED BY <1>9, <1>10, <1>11, <1>12, <1>13, <1>14, <1>15, <1>16, <1>17

(*****************************************************************************)
(* BakeFrozenInputTier, BakeFrozenTierToDonutFolder and IceTheDonut          *)
(*****************************************************************************)
\* A bake writes to no donut folder but the one that is being made.
LEMMA NewDonutListed ==
  ASSUME Inductive, pc \in SlotSteps,
         UNCHANGED <<donutFile, memory, job>>, DOMAIN donuts' \subseteq DOMAIN donuts \cup {Slot}
  PROVE  DonutsListed'
<1>1. \A s \in DOMAIN donuts' :
        /\ <<s[1], s[2]>> \in DOMAIN donutFile
        /\ s[3] \in 0 .. Len(donutFile[<<s[1], s[2]>>]) - 1
  <2> TAKE s \in DOMAIN donuts'
  <2>1. CASE s \in DOMAIN donuts
    BY <2>1 DEF DonutsListed
  <2>2. CASE s = Slot
    BY <2>2, SlotListed
  <2> QED BY <2>1, <2>2
<1> QED BY <1>1, BakeContext DEF DonutsListed, TierFolder, memory

\* The new donut gets every entry of the frozen input folder, and overwrites none.
LEMMA BakeInputStep ==
  ASSUME Inductive, BakeInput
  PROVE  Inductive'
<1> DEFINE frozen == inputs[job.off]
           order == [l \in 0 .. frozen.count - 1 |-> Resolved(frozen.suffix, l)]
           made == [NewDonut EXCEPT !.suffix = frozen.suffix, !.order = order]
<1>1. /\ pc = "bakeInput" /\ pc' = "removeInput" /\ job.tier = 0
      /\ job.off \in DOMAIN inputs /\ frozen \in InputFolderType /\ Slot \notin DOMAIN donuts
  BY DEF BakeInput, JobFits, BakeInputSteps, InputFolders, InputInHand, Baking, DonutSteps,
     InputsOK, NothingDroppedEarly
<1>2. UNCHANGED <<tierOffsets, inputs, donutFile, tiersInfo, input, open, job, stored, faults,
                  interrupted>>
  BY DEF BakeInput, memory, ghost
<1>3. /\ DOMAIN donuts' = DOMAIN donuts \cup {Slot}
      /\ donuts'[Slot] = made
      /\ \A s \in DOMAIN donuts : donuts'[s] = donuts[s]
  <2>1. /\ DOMAIN donuts' = DOMAIN donuts \cup {Slot}
        /\ \A s \in DOMAIN donuts \cup {Slot} :
             donuts'[s] = IF s = Slot THEN made ELSE donuts[s]
    BY DEF BakeInput, Put
  <2> HIDE DEF made
  <2> QED BY <1>1, <2>1
<1>4. DonutOK(made) /\ made.suffix = frozen.suffix
  <2>1. \A l \in 0 .. frozen.count - 1 :
          Resolved(frozen.suffix, l) \in Hashes \cup {PastEnd, Dangling}
    BY <1>1 DEF Resolved, InputFolderType, EntryType
  <2>2. order \in [DOMAIN order -> Hashes \cup {PastEnd, Dangling}]
    BY <2>1
  <2>3. frozen.suffix \in SUBSET EntryType
    BY <1>1 DEF InputFolderType
  <2>4. made = Filled(NewDonut, frozen.suffix, order)
    BY DEF Filled
  <2> HIDE DEF frozen, order, made
  <2> QED BY <2>2, <2>3, <2>4, NewDonutOK, FilledFacts
<1> HIDE DEF made, frozen
<1>5. TypeOK'
  <2>1. tierOffsets' \in TierOffsetsType /\ InputsOK' /\ MemoryOK'
    BY <1>2 DEF InputsOK, MemoryOK
  <2>2. TiersOnDiskOK'
    <3>1. Slot \in Tiers \X Nat \X Int
      BY <1>1, BakeContext DEF SlotSteps, BakeInputSteps
    <3>2. \A s \in DOMAIN donuts' : DonutOK(donuts'[s])
      BY <1>3, <1>4 DEF TiersOnDiskOK
    <3> QED BY <1>2, <1>3, <3>1, <3>2 DEF TiersOnDiskOK, DonutOK
  <2>3. ControlOK'
    BY <1>1, <1>2 DEF ControlOK, DonutSteps
  <2> QED BY <1>2, <2>1, <2>2, <2>3
<1>6. JobFits' /\ MemoryOnDisk' /\ InputFolders'
  BY <1>1, <1>2 DEF JobFits, MemoryOnDisk, InputFolders, Up, InputInHand, Baking, DonutSteps,
     BakeInputSteps, BakeTierSteps
<1>7. Offsets' /\ TiersNewer' /\ JobNewer' /\ OpenTiers'
  BY <1>1, <1>2 DEF Offsets, TiersNewer, JobNewer, OpenTiers, Baking, DonutSteps
<1>8. DonutsListed'
  BY <1>1, <1>2, <1>3, NewDonutListed DEF SlotSteps, BakeInputSteps, memory
<1>9. AllSources' /\ NothingDroppedEarly'
  <2>1. Slot' = Slot
    BY <1>2 DEF Slot
  <2> QED BY <1>1, <1>2, <1>3, <1>4, <2>1 DEF AllSources, NothingDroppedEarly, BakeTierSteps, frozen
<1>10. Durable'
  <2>1. HashesOf(donuts) \subseteq HashesOf(donuts')
    BY <1>3, HashesGrow
  <2> QED BY <1>2, <2>1 DEF Durable, OnDisk
<1> QED BY <1>5, <1>6, <1>7, <1>8, <1>9, <1>10

\* The frozen input folder is removed when the donut has all its entries.
LEMMA RemoveInputStep ==
  ASSUME Inductive, RemoveInput
  PROVE  Inductive'
<1>1. /\ pc = "removeInput" /\ pc' = "ice" /\ job.tier = 0 /\ job.off < tierOffsets.input
      /\ tierOffsets.input = tiersInfo.input /\ input.offset = tiersInfo.input
      /\ job.off \in Nat
  <2>1. pc = "removeInput" /\ pc' = "ice"
    BY DEF RemoveInput
  <2> QED BY <2>1, OnFileFacts DEF JobFits, BakeInputSteps, Offsets, Baking, DonutSteps,
       MemoryOnDisk, Up, MemoryOK, ControlOK, JobType
<1>2. /\ DOMAIN inputs' = DOMAIN inputs \ {job.off}
      /\ \A o \in DOMAIN inputs' : inputs'[o] = inputs[o]
  BY DEF RemoveInput, Drop, Restrict
<1>3. UNCHANGED <<tierOffsets, donutFile, donuts, tiersInfo, input, open, job, stored, faults,
                  interrupted>>
  BY DEF RemoveInput, memory, ghost
<1>4. TypeOK'
  <2>1. tierOffsets' \in TierOffsetsType /\ TiersOnDiskOK' /\ MemoryOK'
    BY <1>3 DEF TiersOnDiskOK, DonutOK, MemoryOK
  <2>2. InputsOK'
    BY <1>2 DEF InputsOK
  <2>3. ControlOK'
    BY <1>1, <1>3 DEF ControlOK, DonutSteps
  <2> QED BY <2>1, <2>2, <2>3
<1>5. JobFits' /\ InputFolders'
  BY <1>1, <1>3 DEF JobFits, InputFolders, BakeInputSteps, BakeTierSteps
<1>6. MemoryOnDisk'
  BY <1>1, <1>2, <1>3 DEF MemoryOnDisk, Up
<1>7. Offsets' /\ TiersNewer' /\ JobNewer' /\ OpenTiers'
  BY <1>1, <1>2, <1>3 DEF Offsets, TiersNewer, JobNewer, OpenTiers, Baking, DonutSteps
<1>8. DonutsListed' /\ AllSources' /\ NothingDroppedEarly'
  BY <1>1, <1>3 DEF DonutsListed, AllSources, NothingDroppedEarly, SlotSteps, BakeInputSteps,
     BakeTierSteps, TierFolder
<1>9. Durable'
  <2> SUFFICES ASSUME NEW h \in stored
               PROVE  h \in HashesOf(inputs') \cup HashesOf(donuts)
    BY <1>3 DEF Durable, OnDisk
  <2>1. CASE h \in HashesOf(donuts)
    BY <2>1
  <2>2. CASE h \in HashesOf(inputs)
    <3>1. PICK o \in DOMAIN inputs : h \in HashesIn(inputs[o].suffix)
      BY <2>2 DEF HashesOf
    <3>2. CASE o = job.off
      BY <1>1, <3>1, <3>2 DEF NothingDroppedEarly, HashesOf
    <3>3. CASE o # job.off
      BY <1>2, <3>1, <3>3 DEF HashesOf
    <3> QED BY <3>2, <3>3
  <2> QED BY <2>1, <2>2 DEF Durable, OnDisk
<1> QED BY <1>4, <1>5, <1>6, <1>7, <1>8, <1>9

\* Icing a donut leaves its entries alone.
LEMMA IceStep ==
  ASSUME Inductive, Ice
  PROVE  Inductive'
<1>1. pc = "ice" /\ pc' = "publish"
  BY DEF Ice
<1>2. /\ DOMAIN donuts' = DOMAIN donuts
      /\ \A s \in DOMAIN donuts : donuts'[s] = IF s = Slot THEN Iced(donuts[s]) ELSE donuts[s]
  BY DEF Ice, Iced
<1>3. \A s \in DOMAIN donuts : DonutOK(donuts'[s]) /\ donuts'[s].suffix = donuts[s].suffix
  BY <1>2, IcedFacts DEF TiersOnDiskOK
<1>4. UNCHANGED <<tierOffsets, inputs, donutFile, tiersInfo, input, open, job, stored, faults,
                  interrupted>>
  BY DEF Ice, memory, ghost
<1>5. TypeOK'
  <2>1. tierOffsets' \in TierOffsetsType /\ InputsOK' /\ MemoryOK'
    BY <1>4 DEF InputsOK, MemoryOK
  <2>2. TiersOnDiskOK'
    BY <1>2, <1>3, <1>4 DEF TiersOnDiskOK, DonutOK
  <2>3. ControlOK'
    BY <1>1, <1>4 DEF ControlOK, DonutSteps
  <2> QED BY <2>1, <2>2, <2>3
<1>6. JobFits' /\ MemoryOnDisk' /\ InputFolders'
  BY <1>1, <1>4 DEF JobFits, MemoryOnDisk, InputFolders, Up, BakeInputSteps, BakeTierSteps
<1>7. Offsets' /\ TiersNewer' /\ JobNewer' /\ OpenTiers'
  BY <1>1, <1>4 DEF Offsets, TiersNewer, JobNewer, OpenTiers, Baking, DonutSteps
<1>8. DonutsListed' /\ AllSources' /\ NothingDroppedEarly'
  BY <1>1, <1>2, <1>4 DEF DonutsListed, AllSources, NothingDroppedEarly, SlotSteps, BakeInputSteps,
     BakeTierSteps, TierFolder
<1>9. Durable'
  <2>1. HashesOf(donuts) \subseteq HashesOf(donuts')
    BY <1>2, <1>3, HashesGrow
  <2> QED BY <1>4, <2>1 DEF Durable, OnDisk
<1> QED BY <1>5, <1>6, <1>7, <1>8, <1>9
\* While a tier is baked, there is a tier below, with local indices to rebase.
LEMMA BakeTierContext ==
  ASSUME Inductive, pc \in BakeTierSteps
  PROVE  /\ job.tier > 0 /\ job.tier - 1 \in Tiers /\ job.prefix \in Nat
         /\ job.offsets \in Seq(Nat)
         /\ \A d \in 1 .. Len(job.offsets) : job.offsets[d] \in Nat
         /\ \A h \in Hashes : PrefixOf[job.tier - 1][h] \in Nat
<1>1. job \in JobType /\ job.tier \in Tiers /\ job.tier > 0
  BY DEF JobFits, ControlOK, DonutSteps, BakeTierSteps
<1>2. job.tier - 1 \in Tiers
  BY <1>1
<1>3. job.offsets \in Seq(Nat) /\ job.prefix \in Nat
  BY <1>1 DEF JobType
<1>4. \A d \in 1 .. Len(job.offsets) : job.offsets[d] \in Nat
  BY <1>3
<1>5. \A h \in Hashes : PrefixOf[job.tier - 1][h] \in Nat
  BY <1>2
<1> QED BY <1>1, <1>2, <1>3, <1>4, <1>5

\* Copying the suffix files of one prefix adds the entries of the sources to the new
\* donut; the ones it holds already have smaller prefixes, and stay.
LEMMA CopiedFacts ==
  ASSUME Inductive, pc = "bakePrefix", NEW n \in Nat, n <= Len(job.offsets),
         \A d \in 1 .. n : Exists(d)
  PROVE  /\ DonutOK(Copied(n))
         /\ Slot \in DOMAIN donuts =>
              HashesIn(donuts[Slot].suffix) \subseteq HashesIn(Copied(n).suffix)
         /\ \A e \in Copied(n).suffix : PrefixOfEntry(e) <= job.prefix
         /\ \A d \in 1 .. n :
              HashesIn(OfPrefix(donuts[Source(d)].suffix)) \subseteq HashesIn(Copied(n).suffix)
<1> DEFINE all == 1 .. n
           made == IF job.prefix = 0 THEN NewDonut ELSE donuts[Slot]
           suffix == Kept(made.suffix) \cup UNION {Moved(d) : d \in all}
           updates == made.updates \cup UNION {Updates(d) : d \in all}
<1>1. pc \in BakeTierSteps /\ pc \in SlotSteps
  BY DEF BakeTierSteps, SlotSteps
<1>2. Copied(n) = Refilled(made, suffix, updates)
  BY DEF Copied, Refilled
<1>3. DonutOK(made)
  <2>1. CASE job.prefix = 0
    BY <2>1, NewDonutOK
  <2>2. CASE job.prefix # 0
    BY <1>1, <2>2, BakeTierContext DEF NothingDroppedEarly, TiersOnDiskOK
  <2> QED BY <2>1, <2>2
<1>4. \A d \in all : DonutOK(donuts[Source(d)]) /\ job.offsets[d] \in Nat
  <2> TAKE d \in all
  <2>1. DonutOK(donuts[Source(d)])
    BY DEF Exists, TiersOnDiskOK
  <2>2. d \in 1 .. Len(job.offsets)
    BY <1>1, BakeTierContext
  <2>3. job.offsets[d] \in Nat
    BY <1>1, <2>2, BakeTierContext
  <2> QED BY <2>1, <2>3
<1>5. suffix \in SUBSET EntryType /\ updates \in SUBSET UpdateType
  <2>1. ASSUME NEW d \in all
        PROVE  Moved(d) \subseteq EntryType /\ Updates(d) \subseteq UpdateType
    <3>1. donuts[Source(d)].suffix \in SUBSET EntryType
      BY <1>4 DEF DonutOK
    <3>2. \A e \in EntryType : Entry(e.hash, Rebased(d, e.pi)) \in EntryType
      <4>1. job.offsets[d] \in Nat /\ job.off \in Nat
        BY <1>1, <1>4, BakeContext
      <4>2. \A pi \in Int : Rebased(d, pi) \in Int
        BY <4>1 DEF Rebased
      <4> QED BY <4>2 DEF Entry, EntryType
    <3>3. OfPrefix(donuts[Source(d)].suffix) \subseteq EntryType
      BY <3>1 DEF OfPrefix
    <3>4. Moved(d) \subseteq EntryType
      BY <3>2, <3>3 DEF Moved
    <3>5. \A e \in EntryType : [donut |-> d, pi |-> e.pi, hash |-> e.hash] \in UpdateType
      BY DEF EntryType, UpdateType
    <3>6. Updates(d) \subseteq UpdateType
      BY <3>3, <3>5 DEF Updates
    <3> QED BY <3>4, <3>6
  <2>2. Kept(made.suffix) \subseteq EntryType /\ made.updates \subseteq UpdateType
    BY <1>3 DEF Kept, DonutOK
  <2> QED BY <2>1, <2>2
<1>6. DonutOK(Copied(n)) /\ Copied(n).suffix = suffix
  <2> HIDE DEF made, suffix, updates
  <2>1. DonutOK(Refilled(made, suffix, updates)) /\ Refilled(made, suffix, updates).suffix = suffix
    BY <1>3, <1>5, RefilledFacts
  <2> QED BY <1>2, <2>1, Zenon
\* What the folder held of other prefixes stays; of this prefix, it held nothing.
<1>7. /\ Slot \in DOMAIN donuts => HashesIn(donuts[Slot].suffix) \subseteq HashesIn(suffix)
      /\ \A e \in Kept(made.suffix) : PrefixOfEntry(e) < job.prefix
  <2>1. CASE job.prefix = 0
    BY <1>1, <2>1, NewDonutOK DEF NothingDroppedEarly, Kept
  <2>2. CASE job.prefix # 0
    <3>1. Slot \in DOMAIN donuts /\ \A e \in donuts[Slot].suffix : PrefixOfEntry(e) < job.prefix
      BY <1>1, <2>2, BakeTierContext DEF NothingDroppedEarly
    <3>2. donuts[Slot].suffix \in SUBSET EntryType
      BY <1>3, <2>2 DEF DonutOK
    <3>3. \A e \in donuts[Slot].suffix : PrefixOfEntry(e) \in Nat
      BY <1>1, <3>2, BakeTierContext DEF PrefixOfEntry, EntryType
    <3>4. Kept(donuts[Slot].suffix) = donuts[Slot].suffix
      BY <1>1, <3>1, <3>3, BakeTierContext DEF Kept, OfPrefix
    <3>5. donuts[Slot].suffix \subseteq suffix
      BY <2>2, <3>4
    <3> QED BY <2>2, <3>1, <3>4, <3>5, HashesInMonotonic
  <2> QED BY <2>1, <2>2
<1>8. \A d \in all : \A e \in OfPrefix(donuts[Source(d)].suffix) : e.hash \in HashesIn(suffix)
  <2> TAKE d \in all
  <2> TAKE e \in OfPrefix(donuts[Source(d)].suffix)
  <2>1. Entry(e.hash, Rebased(d, e.pi)) \in suffix
    BY DEF Moved
  <2>2. Entry(e.hash, Rebased(d, e.pi)).hash = e.hash
    BY DEF Entry
  <2> QED BY <2>1, <2>2 DEF HashesIn
<1>9. \A e \in suffix : PrefixOfEntry(e) <= job.prefix
  <2> TAKE e \in suffix
  <2>1. PrefixOfEntry(e) \in Nat /\ job.prefix \in Nat
    BY <1>1, <1>5, BakeTierContext DEF PrefixOfEntry, EntryType
  <2>2. CASE e \in Kept(made.suffix)
    BY <1>7, <2>1, <2>2
  <2>3. CASE e \in UNION {Moved(d) : d \in all}
    <3>1. PrefixOfEntry(e) = job.prefix
      BY <2>3 DEF Moved, OfPrefix, PrefixOfEntry, Entry
    <3> QED BY <2>1, <3>1
  <2> QED BY <2>2, <2>3
<1> HIDE DEF suffix
<1> QED BY <1>6, <1>7, <1>8, <1>9 DEF HashesIn

\* Baking a prefix adds the sources' entries of that prefix to the new donut; the
\* ones it holds already have smaller prefixes, and stay.
LEMMA BakePrefixStep ==
  ASSUME Inductive, BakePrefix
  PROVE  Inductive'
<1> DEFINE copied == Copied(Len(job.offsets))
<1>1. /\ pc = "bakePrefix" /\ pc' = "dropPrefix" /\ pc \in BakeTierSteps /\ pc \in SlotSteps
      /\ \A d \in 1 .. Len(job.offsets) : Exists(d)
  BY DEF BakePrefix, BakeTierSteps, SlotSteps
<1>2. UNCHANGED <<tierOffsets, inputs, donutFile, tiersInfo, input, open, job, stored, faults,
                  interrupted>>
  BY DEF BakePrefix, memory, ghost
<1>3. /\ DOMAIN donuts' = DOMAIN donuts \cup {Slot}
      /\ donuts'[Slot] = copied
      /\ \A s \in DOMAIN donuts \ {Slot} : donuts'[s] = donuts[s]
  <2>1. /\ DOMAIN donuts' = DOMAIN donuts \cup {Slot}
        /\ \A s \in DOMAIN donuts \cup {Slot} :
             donuts'[s] = IF s = Slot THEN copied ELSE donuts[s]
    BY DEF BakePrefix, Put
  <2> HIDE DEF copied
  <2> QED BY <2>1
<1>4. /\ DonutOK(copied)
      /\ Slot \in DOMAIN donuts => HashesIn(donuts[Slot].suffix) \subseteq HashesIn(copied.suffix)
      /\ \A e \in copied.suffix : PrefixOfEntry(e) <= job.prefix
      /\ \A d \in 1 .. Len(job.offsets) :
           HashesIn(OfPrefix(donuts[Source(d)].suffix)) \subseteq HashesIn(copied.suffix)
  <2>1. Len(job.offsets) \in Nat /\ Len(job.offsets) <= Len(job.offsets)
    BY <1>1, BakeTierContext
  <2> QED BY <1>1, <2>1, CopiedFacts, Zenon
<1> HIDE DEF copied
<1>5. /\ Slot \in Tiers \X Nat \X Int /\ Slot \notin Sources
      /\ Slot' = Slot /\ Sources' = Sources
  BY <1>1, <1>2, BakeContext DEF Slot, Sources, Source
<1>6. TypeOK'
  <2>1. tierOffsets' \in TierOffsetsType /\ InputsOK' /\ MemoryOK'
    BY <1>2 DEF InputsOK, MemoryOK
  <2>2. TiersOnDiskOK'
    <3>1. \A s \in DOMAIN donuts' : DonutOK(donuts'[s])
      BY <1>3, <1>4 DEF TiersOnDiskOK
    <3> QED BY <1>2, <1>3, <1>5, <3>1 DEF TiersOnDiskOK, DonutOK
  <2>3. ControlOK'
    BY <1>1, <1>2 DEF ControlOK, DonutSteps
  <2> QED BY <1>2, <2>1, <2>2, <2>3
<1>7. JobFits' /\ MemoryOnDisk' /\ InputFolders'
  BY <1>1, <1>2 DEF JobFits, MemoryOnDisk, InputFolders, Up, InputInHand, Baking, DonutSteps,
     BakeInputSteps, BakeTierSteps
<1>8. Offsets' /\ TiersNewer' /\ JobNewer' /\ OpenTiers'
  BY <1>1, <1>2 DEF Offsets, TiersNewer, JobNewer, OpenTiers, Baking, DonutSteps
<1>9. DonutsListed' /\ AllSources'
  BY <1>1, <1>2, <1>3, NewDonutListed DEF AllSources, BakeTierSteps, memory
<1>10. NothingDroppedEarly'
  <2>1. \A s \in Sources \cap DOMAIN donuts' : s \in DOMAIN donuts /\ donuts'[s] = donuts[s]
    BY <1>3, <1>5
  <2>2. \A s \in Sources : HashesIn(OfPrefix(donuts[s].suffix)) \subseteq HashesIn(copied.suffix)
    BY <1>4 DEF Sources
  <2>3. \A s \in Sources \cap DOMAIN donuts : \A e \in donuts[s].suffix : PrefixOfEntry(e) >= job.prefix
    BY <1>1 DEF NothingDroppedEarly
  <2> QED BY ZenonT(40), <1>1, <1>2, <1>3, <1>4, <1>5, <2>1, <2>2, <2>3
       DEF NothingDroppedEarly, PrefixOfEntry, OfPrefix
<1>11. Durable'
  <2>1. \A s \in DOMAIN donuts : HashesIn(donuts[s].suffix) \subseteq HashesIn(donuts'[s].suffix)
    BY <1>3, <1>4
  <2>2. HashesOf(donuts) \subseteq HashesOf(donuts')
    BY <1>3, <2>1, HashesGrow
  <2> QED BY <1>2, <2>2 DEF Durable, OnDisk
<1> QED BY <1>6, <1>7, <1>8, <1>9, <1>10, <1>11

\* A bake that breaks off in the middle of a prefix has removed no file of it.
LEMMA BakeTierFailsStep ==
  ASSUME Inductive, BakeTierFails
  PROVE  Inductive'
<1>1. PICK d \in 1 .. Len(job.offsets) :
        /\ \A c \in 1 .. d - 1 : Exists(c)
        /\ donuts' = IF d = 1 THEN donuts ELSE Put(donuts, Slot, Copied(d - 1))
  BY DEF BakeTierFails
<1>2. pc = "bakePrefix" /\ pc \in SlotSteps /\ d - 1 \in Nat /\ d - 1 <= Len(job.offsets)
  <2>1. pc = "bakePrefix" /\ pc \in BakeTierSteps
    BY DEF BakeTierFails, BakeTierSteps
  <2>2. job.offsets \in Seq(Nat)
    BY <2>1, BakeTierContext
  <2> QED BY <1>1, <2>1, <2>2 DEF SlotSteps
<1>3. /\ \A s \in DOMAIN donuts' : DonutOK(donuts'[s]) /\ s \in DOMAIN donuts \cup {Slot}
      /\ HashesOf(donuts) \subseteq HashesOf(donuts')
  <2>1. CASE d = 1
    BY <1>1, <2>1 DEF TiersOnDiskOK
  <2>2. CASE d # 1
    <3> DEFINE copied == Copied(d - 1)
    <3>1. /\ DonutOK(copied)
          /\ Slot \in DOMAIN donuts =>
               HashesIn(donuts[Slot].suffix) \subseteq HashesIn(copied.suffix)
      BY <1>1, <1>2, CopiedFacts
    <3>2. /\ DOMAIN donuts' = DOMAIN donuts \cup {Slot}
          /\ \A s \in DOMAIN donuts \cup {Slot} :
               donuts'[s] = IF s = Slot THEN copied ELSE donuts[s]
      BY <1>1, <2>2 DEF Put
    <3> HIDE DEF copied
    <3>3. \A s \in DOMAIN donuts : HashesIn(donuts[s].suffix) \subseteq HashesIn(donuts'[s].suffix)
      BY <3>1, <3>2
    <3>4. HashesOf(donuts) \subseteq HashesOf(donuts')
      BY <3>2, <3>3, HashesGrow
    <3> QED BY <3>1, <3>2, <3>4 DEF TiersOnDiskOK
  <2> QED BY <2>1, <2>2
<1> QED BY <1>2, <1>3, GiveUpStep DEF BakeTierFails

\* Writing HashesOrder.bin, or the beginning of it, leaves the entries alone.
LEMMA OrderWritten ==
  ASSUME Inductive, pc = "bakeOrder", NEW n \in Nat, NEW U \in SUBSET donuts[Slot].updates,
         donuts' = [donuts EXCEPT ![Slot].order = Concatenated(n), ![Slot].updates = U]
  PROVE  /\ DOMAIN donuts' = DOMAIN donuts
         /\ \A s \in DOMAIN donuts :
              DonutOK(donuts'[s]) /\ donuts'[s].suffix = donuts[s].suffix
<1>1. Slot \in DOMAIN donuts
  BY DEF NothingDroppedEarly
<1>2. /\ DOMAIN donuts' = DOMAIN donuts
      /\ \A s \in DOMAIN donuts : donuts'[s] =
           IF s = Slot THEN Ordered(donuts[s], Concatenated(n), U) ELSE donuts[s]
  BY DEF Ordered
<1>3. donuts[Slot].updates \subseteq UpdateType
  BY <1>1 DEF TiersOnDiskOK, DonutOK
<1>4. Concatenated(n) \in [DOMAIN Concatenated(n) -> Hashes \cup {PastEnd, Dangling}]
  <2>1. \A d, l : Pointer(d, l) \in Hashes \cup {PastEnd, Dangling}
    BY <1>3 DEF Pointer, UpdateType
  <2> QED BY <2>1 DEF Concatenated
<1>5. \A s \in DOMAIN donuts : DonutOK(donuts'[s]) /\ donuts'[s].suffix = donuts[s].suffix
  <2> TAKE s \in DOMAIN donuts
  <2>1. DonutOK(donuts[s])
    BY DEF TiersOnDiskOK
  <2>2. /\ DonutOK(Ordered(donuts[s], Concatenated(n), U))
        /\ Ordered(donuts[s], Concatenated(n), U).suffix = donuts[s].suffix
    <3>1. U \in SUBSET UpdateType
      BY <1>3
    <3> QED BY <1>4, <2>1, <3>1, OrderedFacts
  <2> QED BY <1>2, <2>1, <2>2
<1> QED BY <1>2, <1>5

\* Rewriting HashesOrder.bin leaves the entries alone.
LEMMA BakeOrderStep ==
  ASSUME Inductive, BakeOrder
  PROVE  Inductive'
<1>1. /\ pc = "bakeOrder" /\ pc' = "removeTier" /\ pc \in BakeTierSteps /\ pc \in SlotSteps
      /\ Slot \in DOMAIN donuts
  BY DEF BakeOrder, BakeTierSteps, SlotSteps, NothingDroppedEarly
<1>2. UNCHANGED <<tierOffsets, inputs, donutFile, tiersInfo, input, open, job, stored, faults,
                  interrupted>>
  BY DEF BakeOrder, memory, ghost
<1>3. /\ DOMAIN donuts' = DOMAIN donuts
      /\ \A s \in DOMAIN donuts :
           DonutOK(donuts'[s]) /\ donuts'[s].suffix = donuts[s].suffix
  <2>1. Len(job.offsets) \in Nat
    BY <1>1, BakeTierContext
  <2>2. donuts' = [donuts EXCEPT ![Slot].order = Concatenated(Len(job.offsets)), ![Slot].updates = {}]
    BY DEF BakeOrder
  <2>3. {} \in SUBSET donuts[Slot].updates
    OBVIOUS
  <2> QED BY <1>1, <2>1, <2>2, <2>3, OrderWritten
<1>4. TypeOK'
  <2>1. tierOffsets' \in TierOffsetsType /\ InputsOK' /\ MemoryOK'
    BY <1>2 DEF InputsOK, MemoryOK
  <2>2. TiersOnDiskOK'
    BY <1>2, <1>3 DEF TiersOnDiskOK, DonutOK
  <2>3. ControlOK'
    BY <1>1, <1>2 DEF ControlOK, DonutSteps
  <2> QED BY <1>2, <2>1, <2>2, <2>3
<1>5. JobFits' /\ MemoryOnDisk' /\ InputFolders'
  BY <1>1, <1>2 DEF JobFits, MemoryOnDisk, InputFolders, Up, InputInHand, Baking, DonutSteps,
     BakeInputSteps, BakeTierSteps
<1>6. Offsets' /\ TiersNewer' /\ JobNewer' /\ OpenTiers'
  BY <1>1, <1>2 DEF Offsets, TiersNewer, JobNewer, OpenTiers, Baking, DonutSteps
<1>7. DonutsListed' /\ AllSources'
  BY <1>1, <1>2, <1>3, NewDonutListed DEF AllSources, BakeTierSteps, memory
<1>8. NothingDroppedEarly'
  <2>1. Slot' = Slot /\ Sources' = Sources
    BY <1>2 DEF Slot, Sources, Source
  <2> QED BY <1>1, <1>3, <2>1 DEF NothingDroppedEarly
<1>9. Durable'
  <2>1. HashesOf(donuts) \subseteq HashesOf(donuts')
    BY <1>3, HashesGrow
  <2> QED BY <1>2, <2>1 DEF Durable, OnDisk
<1> QED BY <1>4, <1>5, <1>6, <1>7, <1>8, <1>9

\* A bake that breaks off in HashesOrder.bin has copied every entry.
LEMMA BakeOrderFailsStep ==
  ASSUME Inductive, BakeOrderFails
  PROVE  Inductive'
<1>1. PICK d \in 1 .. Len(job.offsets) :
        donuts' = [donuts EXCEPT ![Slot].order = Concatenated(d - 1), ![Slot].updates = Unread(d)]
  BY DEF BakeOrderFails
<1>2. pc = "bakeOrder" /\ d - 1 \in Nat /\ Unread(d) \in SUBSET donuts[Slot].updates
  BY <1>1 DEF BakeOrderFails, Unread
<1>3. /\ DOMAIN donuts' = DOMAIN donuts
      /\ \A s \in DOMAIN donuts :
           DonutOK(donuts'[s]) /\ donuts'[s].suffix = donuts[s].suffix
  BY <1>1, <1>2, OrderWritten
<1>4. HashesOf(donuts) \subseteq HashesOf(donuts')
  BY <1>3, HashesGrow
<1> QED BY <1>2, <1>3, <1>4, GiveUpStep DEF BakeOrderFails

\* A source loses the entries of a prefix after the new donut got their hashes.
LEMMA DropPrefixStep ==
  ASSUME Inductive, DropPrefix
  PROVE  Inductive'
<1>1. /\ pc = "dropPrefix" /\ pc' \in {"bakeOrder", "bakePrefix"}
      /\ pc \in BakeTierSteps /\ pc \in SlotSteps
      /\ pc' = "bakeOrder" => job.prefix + 1 = PrefixCount[job.tier - 1]
      /\ Slot \in DOMAIN donuts /\ job \in JobType
  BY DEF DropPrefix, NextPrefix, BakeTierSteps, SlotSteps, NothingDroppedEarly, ControlOK
<1>2. UNCHANGED <<tierOffsets, inputs, donutFile, tiersInfo, input, open, stored, faults,
                  interrupted>>
  BY DEF DropPrefix, memory, ghost
<1>3. /\ job' \in JobType /\ job'.tier = job.tier /\ job'.off = job.off
      /\ job'.count = job.count /\ job'.offsets = job.offsets /\ job'.prefix = job.prefix + 1
  <2>1. job' = [job EXCEPT !.prefix = job.prefix + 1]
    BY DEF DropPrefix, NextPrefix
  <2>2. job.prefix + 1 \in Nat
    BY <1>1, BakeTierContext
  <2>3. job' \in JobType
    BY <1>1, <2>1, <2>2 DEF JobType
  <2> QED BY <1>1, <2>1, <2>3 DEF JobType
<1>4. /\ Slot' = Slot /\ Sources' = Sources /\ TierFolder' = TierFolder
      /\ \A e : PrefixOfEntry(e)' = PrefixOfEntry(e)
      /\ Slot \notin Sources
  BY <1>1, <1>2, <1>3, BakeContext DEF Slot, Sources, Source, TierFolder, PrefixOfEntry
<1>5. /\ DOMAIN donuts' = DOMAIN donuts
      /\ \A s \in DOMAIN donuts \ Sources : donuts'[s] = donuts[s]
      /\ \A s \in DOMAIN donuts \cap Sources :
           /\ DonutOK(donuts'[s])
           /\ donuts'[s].suffix = donuts[s].suffix \ OfPrefix(donuts[s].suffix)
  <2>1. /\ DOMAIN donuts' = DOMAIN donuts
        /\ \A s \in DOMAIN donuts : donuts'[s] =
             IF s \in Sources THEN [donuts[s] EXCEPT !.suffix = @ \ OfPrefix(@)] ELSE donuts[s]
    BY DEF DropPrefix
  <2>2. ASSUME NEW s \in DOMAIN donuts
        PROVE  LET left == [donuts[s] EXCEPT !.suffix = @ \ OfPrefix(@)]
               IN  DonutOK(left) /\ left.suffix = donuts[s].suffix \ OfPrefix(donuts[s].suffix)
    <3>1. DonutOK(donuts[s])
      BY DEF TiersOnDiskOK
    <3> QED BY <3>1 DEF DonutOK
  <2> QED BY <2>1, <2>2
<1>6. \A s \in DOMAIN donuts : DonutOK(donuts'[s]) /\ donuts'[s].suffix \subseteq donuts[s].suffix
  BY <1>5 DEF TiersOnDiskOK
\* A source has nothing left of a prefix up to the one just removed.
<1>7. \A s \in Sources \cap DOMAIN donuts : \A e \in donuts'[s].suffix :
        PrefixOfEntry(e) \in Nat /\ PrefixOfEntry(e) >= job.prefix + 1
             /\ PrefixOfEntry(e) < PrefixCount[job.tier - 1]
  <2> TAKE s \in Sources \cap DOMAIN donuts
  <2> TAKE e \in donuts'[s].suffix
  <2>1. e \in donuts[s].suffix /\ e \notin OfPrefix(donuts[s].suffix)
    BY <1>5
  <2>2. PrefixOfEntry(e) >= job.prefix /\ PrefixOfEntry(e) # job.prefix
    BY <1>1, <2>1 DEF NothingDroppedEarly, OfPrefix
  <2>3. e.hash \in Hashes
    BY <2>1 DEF TiersOnDiskOK, DonutOK, EntryType
  <2>4. PrefixOfEntry(e) \in Nat /\ PrefixOfEntry(e) < PrefixCount[job.tier - 1]
    BY <1>1, <2>3, BakeTierContext DEF PrefixOfEntry
  <2>5. job.prefix \in Nat
    BY <1>1, BakeTierContext
  <2> QED BY <2>2, <2>4, <2>5
<1>8. TypeOK'
  <2>1. tierOffsets' \in TierOffsetsType /\ InputsOK' /\ MemoryOK'
    BY <1>2 DEF InputsOK, MemoryOK
  <2>2. TiersOnDiskOK'
    BY <1>2, <1>5, <1>6 DEF TiersOnDiskOK, DonutOK
  <2>3. ControlOK'
    <3>1. job.tier \in Tiers
      BY <1>1, BakeContext
    <3> QED BY <1>1, <1>2, <1>3, <3>1 DEF ControlOK, DonutSteps
  <2> QED BY <2>1, <2>2, <2>3
<1>9. JobFits' /\ MemoryOnDisk' /\ InputFolders'
  BY <1>1, <1>2, <1>3 DEF JobFits, MemoryOnDisk, InputFolders, Up, InputInHand, Baking,
     DonutSteps, BakeInputSteps, BakeTierSteps
<1>10. Offsets' /\ TiersNewer' /\ JobNewer' /\ OpenTiers'
  BY <1>1, <1>2, <1>3 DEF Offsets, TiersNewer, JobNewer, OpenTiers, Baking, DonutSteps
<1>11. DonutsListed' /\ AllSources'
  BY <1>1, <1>2, <1>3, <1>4, <1>5 DEF DonutsListed, AllSources, SlotSteps, BakeTierSteps
<1>12. NothingDroppedEarly'
  <2>1. Slot \in DOMAIN donuts' /\ donuts'[Slot] = donuts[Slot]
    BY <1>1, <1>4, <1>5
  <2>2. CASE pc' = "bakePrefix"
    <3>1. \A e \in donuts[Slot].suffix : PrefixOfEntry(e) < job.prefix + 1
      <4> TAKE e \in donuts[Slot].suffix
      <4>1. PrefixOfEntry(e) <= job.prefix
        BY <1>1 DEF NothingDroppedEarly
      <4>2. e.hash \in Hashes
        BY <1>1 DEF TiersOnDiskOK, DonutOK, EntryType
      <4>3. PrefixOfEntry(e) \in Nat /\ job.prefix \in Nat
        BY <1>1, <4>2, BakeTierContext DEF PrefixOfEntry
      <4> QED BY <4>1, <4>3
    <3>2. job'.prefix > 0
      BY <1>1, <1>3, BakeTierContext
    <3> QED BY <1>3, <1>4, <1>5, <1>7, <2>1, <2>2, <3>1, <3>2 DEF NothingDroppedEarly
  <2>3. CASE pc' = "bakeOrder"
    <3>1. \A s \in Sources \cap DOMAIN donuts : donuts'[s].suffix = {}
      <4> SUFFICES ASSUME NEW s \in Sources \cap DOMAIN donuts, NEW e \in donuts'[s].suffix
                   PROVE  FALSE
        OBVIOUS
      <4>1. PrefixOfEntry(e) \in Nat /\ PrefixOfEntry(e) >= job.prefix + 1
              /\ PrefixOfEntry(e) < job.prefix + 1
        BY <1>1, <1>7, <2>3
      <4>2. job.prefix \in Nat
        BY <1>1, BakeTierContext
      <4> QED BY <4>1, <4>2
    <3> QED BY <1>4, <1>5, <2>1, <2>3, <3>1 DEF NothingDroppedEarly
  <2> QED BY <1>1, <2>2, <2>3
<1>13. Durable'
  <2> SUFFICES ASSUME NEW h \in HashesOf(donuts)
               PROVE  h \in HashesOf(donuts')
    BY <1>2 DEF Durable, OnDisk
  <2>1. PICK s \in DOMAIN donuts : \E e \in donuts[s].suffix : e.hash = h
    BY HashesOfMember
  <2>2. PICK e \in donuts[s].suffix : e.hash = h
    BY <2>1
  <2>3. CASE s \notin Sources
    BY <1>5, <2>2, <2>3, HashesOfMember
  <2>4. CASE s \in Sources /\ e \notin OfPrefix(donuts[s].suffix)
    BY <1>5, <2>2, <2>4, HashesOfMember
  <2>5. CASE s \in Sources /\ e \in OfPrefix(donuts[s].suffix)
    <3>1. h \in HashesIn(donuts[Slot].suffix)
      BY ZenonT(30), <1>1, <2>2, <2>5 DEF NothingDroppedEarly, HashesIn
    <3> QED BY <1>1, <1>4, <1>5, <3>1 DEF HashesOf
  <2> QED BY <2>3, <2>4, <2>5
<1> QED BY <1>8, <1>9, <1>10, <1>11, <1>12, <1>13

\* The tier folder that is removed holds nothing but emptied sources: every donut
\* in it was listed when the bake started.
LEMMA RemoveTierStep ==
  ASSUME Inductive, RemoveTier
  PROVE  Inductive'
<1> DEFINE folder == <<job.tier - 1, job.off>>
<1>1. /\ pc = "removeTier" /\ pc' = "ice" /\ pc \in BakeTierSteps /\ pc \in SlotSteps
      /\ job.tier > 0
  BY DEF RemoveTier, BakeTierSteps, SlotSteps, JobFits
<1>2. UNCHANGED <<tierOffsets, inputs, tiersInfo, input, open, job, stored, faults,
                  interrupted>>
  BY DEF RemoveTier, memory, ghost
<1>3. /\ DOMAIN donutFile' = DOMAIN donutFile \ {folder}
      /\ \A x \in DOMAIN donutFile' : donutFile'[x] = donutFile[x]
  BY DEF RemoveTier, Drop, Restrict
<1>4. /\ DOMAIN donuts' = {s \in DOMAIN donuts : <<s[1], s[2]>> # folder}
      /\ \A s \in DOMAIN donuts' : donuts'[s] = donuts[s]
  BY DEF RemoveTier, Drop, Restrict
<1>5. TierFolder # folder /\ TierFolder' = TierFolder
  BY <1>1, <1>2, BakeContext DEF TierFolder
<1>6. TypeOK'
  <2>1. tierOffsets' \in TierOffsetsType /\ InputsOK' /\ MemoryOK'
    BY <1>2 DEF InputsOK, MemoryOK
  <2>2. TiersOnDiskOK'
    BY <1>3, <1>4 DEF TiersOnDiskOK, DonutOK
  <2>3. ControlOK'
    BY <1>1, <1>2 DEF ControlOK, DonutSteps
  <2> QED BY <1>2, <2>1, <2>2, <2>3
<1>7. JobFits' /\ MemoryOnDisk' /\ InputFolders'
  BY <1>1, <1>2 DEF JobFits, MemoryOnDisk, InputFolders, Up, BakeInputSteps, BakeTierSteps,
     InputInHand
<1>8. Offsets' /\ TiersNewer' /\ JobNewer' /\ OpenTiers'
  BY <1>1, <1>2, <1>3 DEF Offsets, TiersNewer, JobNewer, OpenTiers, Baking, DonutSteps
<1>9. DonutsListed'
  <2>1. \A s \in DOMAIN donuts' :
          /\ <<s[1], s[2]>> \in DOMAIN donutFile'
          /\ s[3] \in 0 .. Len(donutFile'[<<s[1], s[2]>>]) - 1
    <3> TAKE s \in DOMAIN donuts'
    <3>1. <<s[1], s[2]>> \in DOMAIN donutFile'
      BY <1>3, <1>4 DEF DonutsListed
    <3>2. donutFile'[<<s[1], s[2]>>] = donutFile[<<s[1], s[2]>>]
      BY <1>3, <3>1
    <3>3. s[3] \in 0 .. Len(donutFile[<<s[1], s[2]>>]) - 1
      BY <1>4 DEF DonutsListed
    <3> QED BY <3>1, <3>2, <3>3
  <2>2. TierFolder \in DOMAIN donutFile' /\ donutFile'[TierFolder] = donutFile[TierFolder]
    BY <1>1, <1>3, <1>5, BakeContext
  <2> QED BY <1>1, <1>2, <1>5, <2>1, <2>2, BakeContext DEF DonutsListed
<1>10. AllSources' /\ NothingDroppedEarly'
  BY <1>1 DEF AllSources, NothingDroppedEarly, BakeTierSteps
<1>11. Durable'
  <2> SUFFICES ASSUME NEW h \in HashesOf(donuts)
               PROVE  h \in HashesOf(donuts')
    BY <1>2 DEF Durable, OnDisk
  <2>1. PICK s \in DOMAIN donuts : \E e \in donuts[s].suffix : e.hash = h
    BY HashesOfMember
  \* The folder that goes holds nothing but emptied sources.
  <2>2. <<s[1], s[2]>> # folder
    <3> SUFFICES ASSUME <<s[1], s[2]>> = folder
                 PROVE  FALSE
      OBVIOUS
    <3>1. folder \in DOMAIN donutFile /\ s[3] \in 0 .. Len(donutFile[folder]) - 1
      BY DEF DonutsListed
    <3>2. Len(donutFile[folder]) <= Len(job.offsets)
      BY <1>1, <3>1 DEF AllSources
    <3>3. Len(donutFile[folder]) \in Nat /\ Len(job.offsets) \in Nat
      BY SMTT(40), <1>1, <3>1, BakeTierContext DEF TiersOnDiskOK
    <3>4. s[3] + 1 \in 1 .. Len(job.offsets)
      BY <3>1, <3>2, <3>3
    <3>5. s = Source(s[3] + 1)
      <4>1. s \in Tiers \X Nat \X Int
        BY DEF TiersOnDiskOK
      <4>2. s[1] = job.tier - 1 /\ s[2] = job.off
        OBVIOUS
      <4> QED BY <4>1, <4>2 DEF Source
    <3>6. s \in Sources
      BY <3>4, <3>5 DEF Sources
    <3> QED BY <1>1, <2>1, <3>6 DEF NothingDroppedEarly
  <2>3. s \in DOMAIN donuts' /\ donuts'[s] = donuts[s]
    <3> HIDE DEF folder
    <3> QED BY <1>4, <2>2
  <2> QED BY <2>1, <2>3, HashesOfMember
<1> QED BY <1>6, <1>7, <1>8, <1>9, <1>10, <1>11

(*****************************************************************************)
(* The invariant                                                             *)
(*****************************************************************************)
HIDE DEF Tiers, Hashes, Inductive, TypeOK

\* The errors AppendHash returns in the middle of the pipeline.
LEMMA ErrorStep ==
  ASSUME Inductive, DonutRefused \/ BakeInputFails
  PROVE  Inductive'
BY FailStep DEF DonutRefused, BakeInputFails

\* The index that is out of range when the last tier is full.
LEMMA TopTierPanicStep ==
  ASSUME Inductive, TopTierPanic
  PROVE  Inductive'
<1>1. InputsOK' /\ HashesOf(inputs') = HashesOf(inputs)
  BY DEF TopTierPanic, disk, Inductive, TypeOK, InputsOK
<1> QED BY <1>1, ForgetStep DEF TopTierPanic, Panic, disk, Inductive, TypeOK, ControlOK, Offsets

\* Nothing changes.
LEMMA StutterStep ==
  ASSUME Inductive, UNCHANGED vars
  PROVE  Inductive'
<1>1. TypeOK'
  BY DEF vars, disk, memory, ghost, Inductive, TypeOK, InputsOK, TiersOnDiskOK, DonutOK, MemoryOK,
     ControlOK
<1>2. JobFits' /\ MemoryOnDisk' /\ InputFolders'
  BY DEF vars, disk, memory, Inductive, JobFits, MemoryOnDisk, InputFolders, NextOffset, Up,
     InputInHand, Baking
<1>3. Offsets' /\ TiersNewer' /\ JobNewer'
  BY DEF vars, disk, memory, Inductive, Offsets, TiersNewer, JobNewer, Baking
<1>4. OpenTiers' /\ DonutsListed' /\ AllSources'
  BY DEF vars, disk, memory, Inductive, OpenTiers, DonutsListed, TierFolder, AllSources
<1>5. NothingDroppedEarly'
  <2>1. NothingDroppedEarly /\ UNCHANGED <<inputs, donuts, tiersInfo, pc, job>>
    BY DEF vars, disk, memory, Inductive
  <2>2. Sources' = Sources /\ Slot' = Slot
    BY <2>1 DEF Sources, Source, Slot
  <2>3. \A e : PrefixOfEntry(e)' = PrefixOfEntry(e)
    BY <2>1 DEF PrefixOfEntry
  <2>4. \A S : OfPrefix(S)' = OfPrefix(S)
    BY <2>1, <2>3 DEF OfPrefix, PrefixOfEntry
  <2> QED BY <2>1, <2>2, <2>3, <2>4 DEF NothingDroppedEarly
<1>6. Durable'
  BY DEF vars, disk, memory, ghost, Inductive, Durable, OnDisk
<1> QED BY <1>1, <1>2, <1>3, <1>4, <1>5, <1>6 DEF Inductive

\* Every step of the cake keeps the invariant.
LEMMA NextInductive ==
  ASSUME Inductive, [Next]_vars
  PROVE  Inductive'
<1>1. CASE Open \/ Close \/ Crash
  BY <1>1, OpenStep, CloseStep, CrashStep
<1>2. CASE \E gpi \in Hashes : AppendHash(gpi) \/ AppendTooLarge(gpi)
  BY <1>2, AppendHashStep, AppendTooLargeStep
<1>3. CASE Freeze
  BY <1>3, FreezeCreateStep, FreezeRecordStep, FreezeSwitchStep, FreezeSealStep DEF Freeze
<1>4. CASE NewDonutFolder
  BY <1>4, TierRecordStep, TierFileStep, DonutFolderStep, ErrorStep, TopTierPanicStep
     DEF NewDonutFolder
<1>5. CASE Bake
  BY <1>5, BakeInputStep, RemoveInputStep, BakePrefixStep, BakeTierFailsStep,
     DropPrefixStep, BakeOrderStep, BakeOrderFailsStep, RemoveTierStep, ErrorStep DEF Bake
<1>6. CASE Publish
  BY <1>6, IceStep, PublishFirstStep, PublishNextStep, FreezeTierStep DEF Publish
<1>7. CASE UNCHANGED vars
  BY <1>7, StutterStep
<1> QED BY <1>1, <1>2, <1>3, <1>4, <1>5, <1>6, <1>7 DEF Next, Pipeline

\* Whatever the sizes, the order of appends, restarts and crashes: the parts of the
\* invariant hold together in every reachable state (the pipeline of AppendHash
\* and what it leaves on disk when it dies).
THEOREM InductiveInvariant == Spec => []Inductive
<1>1. Init => Inductive
  BY InitInductive
<1>2. Inductive /\ [Next]_vars => Inductive'
  BY NextInductive
<1> QED BY <1>1, <1>2, PTL DEF Spec

\* Every variable of the cake has its type in every reachable state.
THEOREM TypeCorrectness == Spec => []TypeOK
<1>1. Inductive => TypeOK
  BY DEF Inductive
<1> QED BY <1>1, InductiveInvariant, PTL

\* No hash is lost from disk, for any number of tiers, donuts, entries, prefixes,
\* gaps and crashes: what AppendHash wrote is in some folder ever after.
THEOREM Durability == Spec => []Durable
<1>1. Inductive => Durable
  BY DEF Inductive
<1> QED BY <1>1, InductiveInvariant, PTL

(*****************************************************************************)
(* The input offset in TierOffsets.txt: it names an input folder that is     *)
(* there and not sealed, and moves only past everything stored.              *)
(*****************************************************************************)
USE DEF Tiers, Hashes, Inductive, TypeOK

\* A step that leaves the input folders and their offset alone, or ends the process.
LEMMA AheadUntouched ==
  ASSUME InputAhead, UNCHANGED <<inputs, stored>>, tierOffsets'.input = tierOffsets.input,
         Up' => Up /\ input' = input
  PROVE  InputAhead'
BY DEF InputAhead

\* While a cake is open, its input offset is the one in TierOffsets.txt, except
\* between recording a new input folder and opening it.
LEMMA CurrentOffset ==
  ASSUME Inductive, Up
  PROVE  /\ tierOffsets.input = tiersInfo.input /\ tiersInfo.input \in Nat
         /\ input.offset \in DOMAIN inputs /\ input.offset \in Nat
         /\ pc # "freezeSwitch" => input.offset = tierOffsets.input
BY OnFileFacts DEF MemoryOnDisk, MemoryOK, TiersInfoType, InputsOK

\* An input folder is named by a number and counts its entries.
LEMMA InputCounts ==
  ASSUME Inductive, NEW o \in DOMAIN inputs
  PROVE  /\ o \in Nat /\ inputs[o] \in InputFolderType /\ inputs[o].count \in Nat
BY DEF InputsOK, InputFolderType

\* AppendHash counts past the index it stores, which is after all others.
LEMMA AppendHashAhead ==
  ASSUME Inductive, InputAhead, NEW gpi \in Hashes, AppendHash(gpi)
  PROVE  InputAhead'
<1> DEFINE current == input.offset
           localPi == gpi - current
<1>1. /\ pc = "idle" /\ Up /\ current = tierOffsets.input /\ current \in DOMAIN inputs
      /\ current \in Nat /\ input.count = inputs[current].count /\ input.count \in Nat
      /\ inputs[current] \in InputFolderType /\ input \in InputType
  <2>1. pc = "idle" /\ Up
    BY DEF AppendHash, Presentable, Up
  <2> QED BY <2>1, CurrentOffset, InputCounts DEF InputAhead, MemoryOK
<1>2. localPi \in Nat /\ gpi \in Nat /\ current + input.count <= gpi /\ current + localPi = gpi
  <2>1. Presentable(gpi)
    BY DEF AppendHash
  <2>2. current + input.count <= gpi /\ gpi \in Nat
    BY <2>1, SizesAssumption DEF Presentable, Hashes
  <2> QED BY SMTT(40), <1>1, <2>2
<1>3. /\ DOMAIN inputs' = DOMAIN inputs /\ stored' = stored \cup {gpi}
      /\ inputs'[current].count = localPi + 1
      /\ inputs'[current].readonly = inputs[current].readonly
      /\ \A o \in DOMAIN inputs \ {current} : inputs'[o] = inputs[o]
      /\ input'.count = localPi + 1 /\ input'.offset = current
      /\ tierOffsets' = tierOffsets
  <2>1. /\ DOMAIN inputs' = DOMAIN inputs
        /\ inputs'[current] = Grown(inputs[current], localPi + 1, Entry(gpi, localPi))
        /\ \A o \in DOMAIN inputs \ {current} : inputs'[o] = inputs[o]
    BY <1>1 DEF AppendHash, Grown
  <2>2. input' = GrownInput(input, localPi + 1, Entry(gpi, localPi))
    BY DEF AppendHash, GrownInput
  <2> HIDE DEF localPi
  <2>3. /\ Grown(inputs[current], localPi + 1, Entry(gpi, localPi)).count = localPi + 1
        /\ Grown(inputs[current], localPi + 1, Entry(gpi, localPi)).readonly
             = inputs[current].readonly
    BY <1>1 DEF Grown, InputFolderType
  <2>4. /\ GrownInput(input, localPi + 1, Entry(gpi, localPi)).count = localPi + 1
        /\ GrownInput(input, localPi + 1, Entry(gpi, localPi)).offset = current
    BY <1>1 DEF GrownInput, InputType
  <2>5. stored' = stored \cup {gpi} /\ tierOffsets' = tierOffsets
    BY DEF AppendHash
  <2> QED BY <2>1, <2>2, <2>3, <2>4, <2>5
<1> HIDE DEF current, localPi
<1>4. stored \subseteq Hashes
  BY DEF ControlOK
<1>5. \A h \in stored' : h < current + (localPi + 1)
  <2> TAKE h \in stored'
  <2>1. CASE h \in stored
    <3>1. h < current + input.count /\ h \in Int
      BY <1>1, <1>4, <2>1 DEF InputAhead
    <3> QED BY <1>1, <1>2, <3>1
  <2>2. CASE h = gpi
    BY <1>1, <1>2, <2>2
  <2> QED BY <1>3, <2>1, <2>2
<1> QED BY <1>1, <1>3, <1>5 DEF InputAhead

\* An append that panics has lengthened HashesOrder.bin, so it counts further still.
LEMMA AppendTooLargeAhead ==
  ASSUME Inductive, InputAhead, NEW gpi \in Hashes, AppendTooLarge(gpi)
  PROVE  InputAhead'
<1> DEFINE current == input.offset
           localPi == gpi - current
<1>1. /\ pc = "idle" /\ Up /\ current = tierOffsets.input /\ current \in DOMAIN inputs
      /\ current \in Nat /\ input.count = inputs[current].count /\ input.count \in Nat
      /\ inputs[current] \in InputFolderType
  <2>1. pc = "idle" /\ Up
    BY DEF AppendTooLarge, Presentable, Up
  <2> QED BY <2>1, CurrentOffset, InputCounts DEF InputAhead
<1>2. localPi \in Nat /\ current + input.count <= gpi /\ input.count < localPi + 1
  <2>1. Presentable(gpi)
    BY DEF AppendTooLarge
  <2>2. current + input.count <= gpi /\ gpi \in Nat
    BY <2>1, SizesAssumption DEF Presentable, Hashes
  <2> DEFINE n == input.count
  <2>3. current \in Nat /\ n \in Nat /\ gpi \in Nat /\ current + n <= gpi
    BY <1>1, <2>2
  <2>4. current + n <= gpi /\ n < gpi - current + 1 /\ gpi - current \in Nat
    <3> HIDE DEF current, n
    <3> QED BY <2>3
  <2> QED BY <2>4
<1>3. /\ DOMAIN inputs' = DOMAIN inputs /\ stored' = stored /\ ~Up'
      /\ inputs'[current] = Counted(inputs[current], localPi + 1)
      /\ \A o \in DOMAIN inputs \ {current} : inputs'[o] = inputs[o]
      /\ tierOffsets' = tierOffsets
  BY <1>1 DEF AppendTooLarge, Counted, Panic, Forget, Up
<1> HIDE DEF current, localPi
<1>4. inputs'[current].count = localPi + 1 /\ inputs'[current].readonly = inputs[current].readonly
  BY <1>1, <1>3 DEF Counted, InputFolderType
<1>5. \A h \in stored : h < current + (localPi + 1)
  <2> TAKE h \in stored
  <2>1. h < current + input.count /\ h \in Int
    BY <1>1 DEF InputAhead, ControlOK
  <2> QED BY <1>1, <1>2, <2>1
<1> QED BY <1>1, <1>3, <1>4, <1>5 DEF InputAhead

\* FreezeInputTierForBaking goes on at the end of a full input tier: the new folder
\* is empty and not sealed, and the one it seals is no longer the current one.
LEMMA FreezeAhead ==
  ASSUME Inductive, InputAhead, Freeze
  PROVE  InputAhead'
<1>1. CASE FreezeCreate
  <2>1. /\ pc = "freezeCreate" /\ Up /\ Up' /\ input.count = Cap /\ input' = input
        /\ tierOffsets' = tierOffsets /\ stored' = stored
        /\ input.offset = tierOffsets.input /\ input.offset \in Nat
        /\ NextOffset = tierOffsets.input + Cap
    BY <1>1, CurrentOffset DEF FreezeCreate, Up, JobFits, memory, ghost, NextOffset
  <2>2. /\ DOMAIN inputs' = DOMAIN inputs \cup {NextOffset}
        /\ \A o \in DOMAIN inputs \cup {NextOffset} :
             inputs'[o] = IF o = NextOffset THEN NewInput ELSE inputs[o]
    BY <1>1 DEF FreezeCreate, Put
  <2>3. ~NewInput.readonly /\ NextOffset # tierOffsets.input
    BY <2>1 DEF NewInput
  <2> QED BY <2>1, <2>2, <2>3 DEF InputAhead
<1>2. CASE FreezeRecord
  <2>1. /\ pc = "freezeRecord" /\ Up /\ input.count = Cap /\ input' = input
        /\ inputs' = inputs /\ stored' = stored /\ tiersInfo'.input = NextOffset
        /\ tierOffsets' = OnFile(tiersInfo')
    BY <1>2 DEF FreezeRecord, Up, JobFits, ghost, MemoryOK, TiersInfoType
  <2>2. /\ tierOffsets'.input = NextOffset /\ NextOffset \in DOMAIN inputs
        /\ NextOffset = tierOffsets.input + Cap /\ input.offset = tierOffsets.input
        /\ tierOffsets.input \in Nat
    BY <2>1, CurrentOffset DEF OnFile, InputFolders, NextOffset
  <2>3. \A o \in DOMAIN inputs : inputs[o].readonly => o < NextOffset
    <3> TAKE o \in DOMAIN inputs
    <3>1. o \in Nat
      BY InputCounts
    <3> QED BY <2>2, <3>1 DEF InputAhead
  <2>4. \A h \in stored : h < NextOffset + inputs[NextOffset].count
    <3> TAKE h \in stored
    <3>1. h \in Int /\ inputs[NextOffset].count \in Nat
      BY <2>2, InputCounts DEF ControlOK
    <3>2. h < tierOffsets.input + Cap
      BY <2>1, <2>2 DEF InputAhead
    <3> QED BY <2>2, <3>1, <3>2
  <2> QED BY <2>1, <2>2, <2>3, <2>4 DEF InputAhead
<1>3. CASE FreezeSwitch
  <2>1. /\ inputs' = inputs /\ stored' = stored /\ tierOffsets' = tierOffsets
        /\ input'.offset = tiersInfo.input /\ input'.count = inputs[tiersInfo.input].count
    BY <1>3 DEF FreezeSwitch, disk, ghost, OpenedInput
  <2> QED BY <2>1 DEF InputAhead
<1>4. CASE FreezeSeal
  <2>1. /\ pc = "freezeSeal" /\ Up /\ stored' = stored /\ tierOffsets' = tierOffsets
        /\ input' = input /\ job.off < tierOffsets.input
    BY <1>4 DEF FreezeSeal, Up, memory, ghost, Offsets, Baking
  <2>2. /\ DOMAIN inputs' = DOMAIN inputs
        /\ \A o \in DOMAIN inputs :
             inputs'[o] = IF o = job.off THEN Sealed(inputs[o]) ELSE inputs[o]
    BY <1>4 DEF FreezeSeal, Sealed
  <2>3. \A o \in DOMAIN inputs : Sealed(inputs[o]).count = inputs[o].count
    <3> TAKE o \in DOMAIN inputs
    <3>1. inputs[o] \in InputFolderType
      BY InputCounts
    <3> QED BY <3>1 DEF Sealed, InputFolderType
  <2>4. input.offset \in DOMAIN inputs
    BY <2>1, CurrentOffset
  <2>5. \A o \in DOMAIN inputs : inputs'[o].count = inputs[o].count
    BY <2>2, <2>3
  <2>6. \A o \in DOMAIN inputs : inputs'[o].readonly => o < tierOffsets.input
    BY <2>1, <2>2 DEF InputAhead
  <2> QED BY <2>1, <2>2, <2>4, <2>5, <2>6 DEF InputAhead
<1> QED BY <1>1, <1>2, <1>3, <1>4 DEF Freeze

\* The input folder that a bake removes is not the current one.
LEMMA RemoveInputAhead ==
  ASSUME Inductive, InputAhead, RemoveInput
  PROVE  InputAhead'
<1>1. /\ pc = "removeInput" /\ Up /\ stored' = stored /\ tierOffsets' = tierOffsets
      /\ input' = input /\ job.off < tierOffsets.input
  BY DEF RemoveInput, Up, memory, ghost, Offsets, Baking, DonutSteps
<1>2. /\ DOMAIN inputs' = DOMAIN inputs \ {job.off}
      /\ \A o \in DOMAIN inputs' : inputs'[o] = inputs[o]
  BY DEF RemoveInput, Drop, Restrict
<1>3. input.offset = tierOffsets.input /\ tierOffsets.input \in Nat
  BY <1>1, CurrentOffset
<1> QED BY <1>1, <1>2, <1>3 DEF InputAhead

\* The tiers are none of the input tier's business.
LEMMA OtherStepsAhead ==
  ASSUME Inductive, InputAhead, NewDonutFolder \/ (Bake /\ ~RemoveInput) \/ Publish
  PROVE  InputAhead'
<1>1. Up
  BY DEF Up, NewDonutFolder, TierRecord, TierFile, DonutFolder, DonutRefused, TopTierPanic,
     Bake, BakeInput, BakeInputFails, BakePrefix, BakeTierFails, DropPrefix, BakeOrder,
     BakeOrderFails, RemoveTier, Publish, Ice, PublishFirst, PublishNext, FreezeTier
<1>2. inputs' = inputs /\ stored' = stored /\ (Up' => input' = input)
  <2>1. CASE NewDonutFolder
    BY <2>1 DEF NewDonutFolder, TierRecord, TierFile, DonutFolder, DonutRefused, TopTierPanic,
       Fail, GiveUp, Panic, Forget, disk, memory, ghost, Up
  <2>2. CASE Bake /\ ~RemoveInput
    BY <2>2 DEF Bake, BakeInput, BakeInputFails, BakePrefix, BakeTierFails, DropPrefix,
       BakeOrder, BakeOrderFails, RemoveTier, Fail, GiveUp, disk, memory, ghost
  <2>3. CASE Publish
    BY <2>3 DEF Publish, Ice, PublishFirst, PublishNext, FreezeTier, disk, memory, ghost
  <2> QED BY <2>1, <2>2, <2>3
<1>3. tierOffsets'.input = tierOffsets.input
  <2>1. CASE tierOffsets' = tierOffsets
    BY <2>1
  <2>2. CASE tierOffsets' = OnFile(tiersInfo') /\ tiersInfo'.input = tiersInfo.input
    BY <1>1, <2>2, CurrentOffset DEF OnFile
  <2>3. \/ tierOffsets' = tierOffsets
        \/ tierOffsets' = OnFile(tiersInfo') /\ tiersInfo'.input = tiersInfo.input
    <3>1. CASE TierRecord \/ PublishFirst \/ FreezeTier
      BY <3>1 DEF TierRecord, PublishFirst, FreezeTier, WithTier, WithoutTier, MemoryOK,
         TiersInfoType
    <3>2. CASE ~(TierRecord \/ PublishFirst \/ FreezeTier)
      BY <3>2 DEF NewDonutFolder, TierFile, DonutFolder, DonutRefused, TopTierPanic,
         Bake, BakeInput, BakeInputFails, BakePrefix, BakeTierFails, DropPrefix, BakeOrder,
         BakeOrderFails, RemoveTier, Publish, Ice, PublishNext, Fail, disk
    <3> QED BY <3>1, <3>2
  <2> QED BY <2>1, <2>2, <2>3
<1> QED BY <1>1, <1>2, <1>3, AheadUntouched

\* CakeFactory.Open counts the entries of the folder that TierOffsets.txt names.
LEMMA OpenCloseCrashAhead ==
  ASSUME Inductive, InputAhead, Open \/ Close \/ Crash
  PROVE  InputAhead'
<1>1. CASE Open
  <2>1. /\ inputs' = inputs /\ stored' = stored /\ tierOffsets' = tierOffsets
        /\ input'.offset = tierOffsets.input /\ input'.count = inputs[tierOffsets.input].count
    BY <1>1 DEF Open, disk, ghost, OpenedInput
  <2> QED BY <2>1 DEF InputAhead
<1>2. CASE Close \/ Crash
  BY <1>2, AheadUntouched DEF Close, Crash, Forget, disk, ghost, Up
<1> QED BY <1>1, <1>2

\* Every step of the cake keeps the input tier ahead.
LEMMA NextAhead ==
  ASSUME Inductive, InputAhead, [Next]_vars
  PROVE  InputAhead'
<1>1. CASE UNCHANGED vars
  BY <1>1, AheadUntouched DEF vars, disk, memory, ghost, Up
<1> QED BY <1>1, OpenCloseCrashAhead, AppendHashAhead, AppendTooLargeAhead, FreezeAhead,
     RemoveInputAhead, OtherStepsAhead DEF Next, Pipeline, Bake

\* The current input folder is there and counts past every hash that AppendHash
\* stored, and every sealed folder is older, whatever crashes between the steps of
\* FreezeInputTierForBaking.
THEOREM InputStaysAhead == Spec => []InputAhead
<1>1. Init => InputAhead
  <2> SUFFICES ASSUME Init PROVE InputAhead
    OBVIOUS
  <2>1. /\ tierOffsets.input = 0 /\ DOMAIN inputs = {0} /\ ~inputs[0].readonly
        /\ pc = "down" /\ stored = {}
    BY DEF Init, NewInput
  <2> QED BY <2>1 DEF InputAhead, Up
<1>2. Inductive /\ InputAhead /\ [Next]_vars => InputAhead'
  BY NextAhead
<1> HIDE DEF Inductive, TypeOK
<1> QED BY <1>1, <1>2, InductiveInvariant, PTL DEF Spec

\* TierOffsets.txt never names an input folder with a READONLY file, for which
\* OpenInputTier would panic: FreezeInputTierForBaking records before it seals.
THEOREM InputNeverSealed == Spec => []CurrentInputNotSealed
<1>1. Inductive /\ InputAhead => CurrentInputNotSealed
  <2> SUFFICES ASSUME Inductive, InputAhead PROVE CurrentInputNotSealed
    OBVIOUS
  <2>1. tierOffsets.input \in Nat
    BY DEF TierOffsetsType
  <2> QED BY <2>1 DEF InputAhead, CurrentInputNotSealed
<1> HIDE DEF Inductive, TypeOK
<1> QED BY <1>1, InputStaysAhead, InductiveInvariant, PTL

\* Only FreezeInputTierForBaking changes the input offset.
LEMMA OffsetStep ==
  ASSUME Inductive, InputAhead, Next, tierOffsets'.input # tierOffsets.input
  PROVE  /\ tierOffsets'.input > tierOffsets.input
         /\ \A h \in stored : h < tierOffsets'.input
<1>1. CASE FreezeRecord
  <2>1. /\ pc = "freezeRecord" /\ Up /\ input.count = Cap /\ tiersInfo'.input = NextOffset
        /\ tierOffsets' = OnFile(tiersInfo')
    BY <1>1 DEF FreezeRecord, Up, JobFits, MemoryOK, TiersInfoType
  <2>2. /\ tierOffsets'.input = tierOffsets.input + Cap /\ input.offset = tierOffsets.input
        /\ tierOffsets.input \in Nat
    BY <2>1, CurrentOffset DEF OnFile, NextOffset
  <2>3. \A h \in stored : h < tierOffsets.input + Cap
    BY <2>1, <2>2 DEF InputAhead
  <2> QED BY <2>2, <2>3
<1>2. CASE ~FreezeRecord
  <2>1. tierOffsets'.input = tierOffsets.input
    <3>1. CASE tierOffsets' = tierOffsets
      BY <3>1
    <3>2. CASE tierOffsets' = OnFile(tiersInfo') /\ tiersInfo'.input = tiersInfo.input /\ Up
      BY <3>2, CurrentOffset DEF OnFile
    <3>3. CASE TierRecord \/ PublishFirst \/ FreezeTier
      BY <3>2, <3>3 DEF TierRecord, PublishFirst, FreezeTier, WithTier, WithoutTier, MemoryOK,
         TiersInfoType, Up
    <3>4. CASE ~(TierRecord \/ PublishFirst \/ FreezeTier)
      BY <1>2, <3>1, <3>4 DEF Next, Open, Close, Crash, AppendHash, AppendTooLarge, Pipeline,
         Freeze, FreezeCreate, FreezeSwitch, FreezeSeal, NewDonutFolder, TierFile, DonutFolder,
         DonutRefused, TopTierPanic, Bake, BakeInput, BakeInputFails, RemoveInput, BakePrefix,
         BakeTierFails, DropPrefix, BakeOrder, BakeOrderFails, RemoveTier, Publish, Ice,
         PublishNext, Fail, disk
    <3> QED BY <3>3, <3>4
  <2> QED BY <2>1
<1> QED BY <1>1, <1>2

\* The input offset in TierOffsets.txt only grows, to an index above every stored
\* hash: FreezeInputTierForBaking never hands an index out twice.
THEOREM OffsetsAdvance == Spec => InputOffsetAdvances
<1> DEFINE Advance == tierOffsets'.input # tierOffsets.input =>
             /\ tierOffsets'.input > tierOffsets.input
             /\ \A h \in stored : h < tierOffsets'.input
<1>1. Inductive /\ InputAhead /\ [Next]_vars => [Advance]_vars
  BY OffsetStep
<1> HIDE DEF Inductive, TypeOK, Advance
<1>2. Spec => [][Advance]_vars
  BY <1>1, InputStaysAhead, InductiveInvariant, PTL DEF Spec
<1> QED BY <1>2 DEF InputOffsetAdvances, Advance

=============================================================================
