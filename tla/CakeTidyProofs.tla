---------------------------- MODULE CakeTidyProofs ----------------------------
(*****************************************************************************)
(* What leads back from the files to what was presented, and that nothing    *)
(* else is on disk.                                                          *)
(*****************************************************************************)
EXTENDS CakeProofs
USE SizesAssumption, PrefixAssumption DEF Tiers, Hashes, Inductive, TypeOK

(***************************************************************************)
(* Traced is inductive with Inductive: through every copy, regrouping and  *)
(* removal, the files lead back from each entry to the index it was        *)
(* presented with.                                                         *)
(***************************************************************************)
\* A folder's entries hold hashes that are on disk.
LEMMA EntryOnDisk ==
  /\ \A o \in DOMAIN inputs : HashesIn(inputs[o].suffix) \subseteq OnDisk
  /\ \A s \in DOMAIN donuts : HashesIn(donuts[s].suffix) \subseteq OnDisk
BY DEF OnDisk, HashesOf

\* What is on disk is stored if the entries of each folder are.
LEMMA StoredOnly ==
  ASSUME NEW f, NEW S, \A x \in DOMAIN f : HashesIn(f[x].suffix) \subseteq S
  PROVE  HashesOf(f) \subseteq S
BY DEF HashesOf

\* Steps that are about the input tier only.
LEMMA InputStepTraced ==
  ASSUME Traced, OnlyStored', UNCHANGED <<donutFile, donuts, open>>,
         tierOffsets'.tier = tierOffsets.tier, tiersInfo'.offset = tiersInfo.offset,
         pc' \in {"idle", "newDonut"} \cup FreezeSteps, pc' = "newDonut" => job'.tier = 0,
         \A o \in DOMAIN inputs' : \A e \in inputs'[o].suffix : e.hash = e.pi + o,
         \A e \in input'.entries : e.hash = e.pi + input'.offset
  PROVE  Traced'
<1>1. Indexed'
  BY DEF Traced, Indexed, DonutOffset
<1>2. JobIndexed' /\ OrderWithin'
  BY DEF Traced, JobIndexed, OrderWithin, Recorded, FreezeSteps, SlotSteps, BakeInputSteps,
     BakeTierSteps
<1>3. InService'
  BY DEF Traced, InService, FreezeSteps, SlotSteps, BakeInputSteps, BakeTierSteps, Up
<1> QED BY <1>1, <1>2, <1>3 DEF Traced

\* A tier that can be opened has all the donuts that its DonutOffsets.txt lists.
LEMMA OpenedDonuts ==
  ASSUME Inductive, NEW t, NEW o, TierReadable(t, o)
  PROVE  /\ OpenedTier(t, o).folder = o
         /\ \A d \in DOMAIN OpenedTier(t, o).donuts :
              <<t, o, OpenedTier(t, o).donuts[d]>> \in DOMAIN donuts
<1> DEFINE listed == donutFile[<<t, o>>]
           opened == OpenedTier(t, o)
<1>1. listed \in Seq(Nat) /\ \A k \in 0 .. Len(listed) - 1 : <<t, o, k>> \in DOMAIN donuts
  BY DEF TierReadable, DonutReadable, TiersOnDiskOK
<1>2. opened.folder = o /\ opened.donuts = [d \in 1 .. Len(listed) |-> d - 1]
  BY DEF OpenedTier
<1> HIDE DEF listed, opened
<1>3. Len(listed) \in Nat
  BY <1>1
<1>4. \A d \in DOMAIN opened.donuts : opened.donuts[d] \in 0 .. Len(listed) - 1
  BY <1>2, <1>3
<1>5. \A d \in DOMAIN opened.donuts : <<t, o, opened.donuts[d]>> \in DOMAIN donuts
  BY <1>1, <1>4
<1> QED BY <1>2, <1>5 DEF opened

\* CakeFactory.Open reads the input folder and the recorded tiers as they are.
LEMMA OpenTraced ==
  ASSUME Inductive, Traced, Open
  PROVE  Traced'
<1>1. /\ UNCHANGED <<disk, stored>> /\ pc' = "idle"
      /\ input' = OpenedInput(tierOffsets.input) /\ tierOffsets.input \in DOMAIN inputs
  BY DEF Open, ghost, Openable, InputReadable
<1>2. input'.offset = tierOffsets.input /\ input'.entries = inputs[tierOffsets.input].suffix
  BY <1>1 DEF OpenedInput
<1>3. OnlyStored'
  BY <1>1, <1>2, EntryOnDisk DEF Traced, OnlyStored, OnDisk, disk
<1>4. Indexed' /\ JobIndexed' /\ OrderWithin'
  BY <1>1, <1>2 DEF disk, Traced, Indexed, DonutOffset, JobIndexed, OrderWithin, Recorded, SlotSteps,
     BakeInputSteps, BakeTierSteps
<1>5. \A t \in Tiers : open'[t] # NilTier =>
        /\ open'[t].folder = tiersInfo'.offset[t]
        /\ \A d \in DOMAIN open'[t].donuts :
             <<t, open'[t].folder, open'[t].donuts[d]>> \in DOMAIN donuts
  <2> SUFFICES ASSUME NEW t \in Tiers, open'[t] # NilTier
               PROVE  /\ open'[t].folder = tiersInfo'.offset[t]
                      /\ \A d \in DOMAIN open'[t].donuts :
                           <<t, open'[t].folder, open'[t].donuts[d]>> \in DOMAIN donuts
    OBVIOUS
  <2> DEFINE o == tierOffsets.tier[t]
  <2>1. o # Absent /\ open'[t] = OpenedTier(t, o) /\ TierReadable(t, o)
    BY DEF Open, Openable
  <2>2. tiersInfo'.offset[t] = o
    BY <2>1, FromFileFacts DEF Open
  <2> HIDE DEF o
  <2> QED BY <2>1, <2>2, OpenedDonuts
<1>6. \A t \in Tiers : open'[t] = NilTier => DOMAIN open'[t].donuts = {}
  BY DEF NilTier
<1>7. InService'
  BY <1>1, <1>5, <1>6 DEF disk, InService, Up, SlotSteps, BakeInputSteps, BakeTierSteps
<1> QED BY <1>3, <1>4, <1>7 DEF Traced

\* When the process ends, nothing but the disk is left.
LEMMA ForgetTraced ==
  ASSUME Traced, Forget, UNCHANGED <<tierOffsets, donutFile, donuts, stored>>,
         DOMAIN inputs' = DOMAIN inputs,
         \A o \in DOMAIN inputs : inputs'[o].suffix = inputs[o].suffix
  PROVE  Traced'
<1>1. pc' = "down" /\ input' = NilInput /\ \A t \in Tiers : open'[t] = NilTier
  BY DEF Forget
<1>2. HashesIn(NilInput.entries) = {} /\ NilInput.entries = {}
  BY DEF NilInput, HashesIn
<1>3. HashesOf(inputs') = HashesOf(inputs)
  BY DEF HashesOf
<1>4. OnlyStored'
  BY <1>1, <1>2, <1>3 DEF Traced, OnlyStored, OnDisk
<1>5. Indexed' /\ JobIndexed' /\ OrderWithin'
  BY <1>1, <1>2 DEF Traced, Indexed, DonutOffset, JobIndexed, OrderWithin, Recorded, SlotSteps,
     BakeInputSteps, BakeTierSteps
<1>6. InService'
  BY <1>1 DEF InService, Up, SlotSteps, BakeInputSteps, BakeTierSteps, NilTier
<1> QED BY <1>4, <1>5, <1>6 DEF Traced

\* Close, a crash and the panic of the last tier change nothing on disk; an append
\* that panics changes the count of an input folder only.
LEMMA EndTraced ==
  ASSUME Inductive, Traced,
         Close \/ Crash \/ TopTierPanic \/ \E gpi \in Hashes : AppendTooLarge(gpi)
  PROVE  Traced'
<1>1. CASE Close \/ Crash \/ TopTierPanic
  BY <1>1, ForgetTraced DEF Close, Crash, TopTierPanic, Panic, disk, ghost
<1>2. ASSUME NEW gpi \in Hashes, AppendTooLarge(gpi)
      PROVE  Traced'
  <2> DEFINE current == input.offset
             localPi == gpi - current
  <2>1. /\ pc = "idle" /\ Up /\ current \in DOMAIN inputs
        /\ current \in Nat /\ inputs[current] \in InputFolderType
    <3>1. pc = "idle" /\ Up
      BY <1>2 DEF AppendTooLarge, Presentable, Up
    <3> QED BY <3>1, CurrentOffset, InputCounts
  <2>2. localPi + 1 \in Nat
    BY <1>2, <2>1 DEF AppendTooLarge
  <2>3. /\ DOMAIN inputs' = DOMAIN inputs
        /\ inputs'[current] = Counted(inputs[current], localPi + 1)
        /\ \A o \in DOMAIN inputs \ {current} : inputs'[o] = inputs[o]
    BY <1>2, <2>1 DEF AppendTooLarge, Counted
  <2> HIDE DEF current, localPi
  <2>4. Counted(inputs[current], localPi + 1).suffix = inputs[current].suffix
    BY <2>1, <2>2, FolderFacts
  <2>5. inputs'[current].suffix = inputs[current].suffix
    BY <2>3, <2>4, Zenon
  <2> QED BY <1>2, <2>3, <2>5, ForgetTraced DEF AppendTooLarge, Panic
<1> QED BY <1>1, <1>2

\* AppendHash stores the hash with the local index that is its own in this folder.
LEMMA AppendHashTraced ==
  ASSUME Inductive, Traced, NEW gpi \in Hashes, AppendHash(gpi)
  PROVE  Traced'
<1> DEFINE current == input.offset
           localPi == gpi - current
           new == Entry(gpi, localPi)
<1>1. /\ pc = "idle" /\ Up /\ current \in DOMAIN inputs /\ current \in Nat
      /\ inputs[current] \in InputFolderType /\ input \in InputType
  <2>1. pc = "idle" /\ Up
    BY DEF AppendHash, Presentable, Up
  <2> QED BY <2>1, CurrentOffset, InputCounts DEF MemoryOK
<1>2. gpi \in Nat /\ localPi + current = gpi
  BY <1>1
<1>3. /\ DOMAIN inputs' = DOMAIN inputs
      /\ inputs'[current] = Grown(inputs[current], localPi + 1, new)
      /\ \A o \in DOMAIN inputs \ {current} : inputs'[o] = inputs[o]
      /\ input' = GrownInput(input, localPi + 1, new)
      /\ stored' = stored \cup {gpi}
      /\ UNCHANGED <<tierOffsets, donutFile, donuts, tiersInfo, open>>
      /\ pc' \in {"idle", "freezeCreate"}
  BY <1>1 DEF AppendHash, Grown, GrownInput
<1>4. new.hash = gpi /\ new.pi = localPi
  BY DEF Entry
<1> HIDE DEF localPi, new, current
<1>5. /\ inputs'[current].suffix = inputs[current].suffix \cup {new}
      /\ input'.entries = input.entries \cup {new} /\ input'.offset = current
  BY <1>1, <1>3 DEF Grown, GrownInput, InputFolderType, InputType, current
<1>6. OnlyStored'
  <2>1. \A o \in DOMAIN inputs' : HashesIn(inputs'[o].suffix) \subseteq stored'
    <3>1. \A o \in DOMAIN inputs : HashesIn(inputs[o].suffix) \subseteq stored
      BY EntryOnDisk DEF Traced, OnlyStored
    <3>2. HashesIn(inputs'[current].suffix) \subseteq HashesIn(inputs[current].suffix) \cup {gpi}
      BY <1>4, <1>5 DEF HashesIn
    <3> QED BY <1>1, <1>3, <3>1, <3>2
  <2>2. HashesOf(inputs') \subseteq stored'
    BY <2>1, StoredOnly
  <2>3. HashesOf(donuts') \subseteq stored' /\ HashesIn(input'.entries) \subseteq stored'
    BY <1>3, <1>4, <1>5 DEF Traced, OnlyStored, OnDisk, HashesIn
  <2> QED BY <2>2, <2>3 DEF OnlyStored, OnDisk
<1>7. \A o \in DOMAIN inputs' : \A e \in inputs'[o].suffix : e.hash = e.pi + o
  <2>1. new.hash = new.pi + current
    BY <1>2, <1>4
  <2>2. \A o \in DOMAIN inputs : \A e \in inputs[o].suffix : e.hash = e.pi + o
    BY DEF Traced, Indexed
  <2> QED BY <1>1, <1>3, <1>5, <2>1, <2>2, Zenon
<1>8. \A e \in input'.entries : e.hash = e.pi + input'.offset
  BY <1>2, <1>4, <1>5 DEF Traced, Indexed, current
<1> QED BY <1>3, <1>6, <1>7, <1>8, InputStepTraced DEF FreezeSteps

\* FreezeInputTierForBaking makes an empty folder and opens it.
LEMMA FreezeTraced ==
  ASSUME Inductive, Traced, Freeze
  PROVE  Traced'
<1>1. CASE FreezeCreate
  <2>1. /\ DOMAIN inputs' = DOMAIN inputs \cup {NextOffset}
        /\ \A o \in DOMAIN inputs' :
             inputs'[o].suffix = IF o = NextOffset THEN {} ELSE inputs[o].suffix
    BY <1>1 DEF FreezeCreate, Put, NewInput
  <2>2. UNCHANGED <<tierOffsets, donutFile, donuts, tiersInfo, open, input, stored>>
        /\ pc' = "freezeRecord"
    BY <1>1 DEF FreezeCreate, memory, ghost
  <2>3. \A o \in DOMAIN inputs' : HashesIn(inputs'[o].suffix) \subseteq stored
    BY <2>1, EntryOnDisk DEF Traced, OnlyStored, HashesIn
  <2>4. OnlyStored'
    BY <2>2, <2>3, StoredOnly DEF Traced, OnlyStored, OnDisk
  <2> QED BY <2>1, <2>2, <2>4, InputStepTraced DEF FreezeSteps, Traced, Indexed
<1>2. CASE FreezeRecord
  <2>1. /\ UNCHANGED <<inputs, donutFile, donuts, open, input, stored>> /\ pc' = "freezeSwitch"
        /\ tierOffsets' = OnFile(tiersInfo') /\ tierOffsets = OnFile(tiersInfo)
        /\ tiersInfo'.offset = tiersInfo.offset /\ tiersInfo'.present = tiersInfo.present
    BY <1>2 DEF FreezeRecord, ghost, MemoryOK, TiersInfoType, MemoryOnDisk, Up
  <2>2. tierOffsets'.tier = tierOffsets.tier
    BY <2>1 DEF OnFile
  <2> QED BY <2>1, <2>2, InputStepTraced DEF FreezeSteps, Traced, Indexed, OnlyStored, OnDisk
<1>3. CASE FreezeSwitch
  <2>1. /\ UNCHANGED <<tierOffsets, inputs, donutFile, donuts, open, tiersInfo, stored>>
        /\ pc' = "freezeSeal" /\ tiersInfo.input \in DOMAIN inputs
        /\ input'.offset = tiersInfo.input /\ input'.entries = inputs[tiersInfo.input].suffix
    BY <1>3 DEF FreezeSwitch, disk, ghost, OpenedInput, InputFolders
  <2>2. OnlyStored'
    BY <2>1, EntryOnDisk DEF Traced, OnlyStored, OnDisk
  <2> QED BY <2>1, <2>2, InputStepTraced DEF FreezeSteps, Traced, Indexed
<1>4. CASE FreezeSeal
  <2>1. /\ UNCHANGED <<tierOffsets, donutFile, donuts, tiersInfo, open, input, stored, job>>
        /\ pc' = "newDonut" /\ job.tier = 0
    BY <1>4 DEF FreezeSeal, memory, ghost, JobFits
  <2>2. /\ DOMAIN inputs' = DOMAIN inputs
        /\ \A o \in DOMAIN inputs :
             inputs'[o] = IF o = job.off THEN Sealed(inputs[o]) ELSE inputs[o]
    BY <1>4 DEF FreezeSeal, Sealed
  <2>3. \A o \in DOMAIN inputs : Sealed(inputs[o]).suffix = inputs[o].suffix
    BY InputCounts, FolderFacts
  <2>4. \A o \in DOMAIN inputs : inputs'[o].suffix = inputs[o].suffix
    BY <2>2, <2>3
  <2>5. OnlyStored'
    BY <2>1, <2>2, <2>4 DEF Traced, OnlyStored, OnDisk, HashesOf
  <2> QED BY <2>1, <2>2, <2>4, <2>5, InputStepTraced DEF Traced, Indexed
<1> QED BY <1>1, <1>2, <1>3, <1>4 DEF Freeze

\* A bake leaves everything as traced if it does so with every donut.
LEMMA BakeTraced ==
  ASSUME Inductive, Traced, pc \in SlotSteps,
         UNCHANGED <<tierOffsets, inputs, donutFile, tiersInfo, input, open, stored>>,
         DOMAIN donuts \subseteq DOMAIN donuts',
         \A s \in DOMAIN donuts' :
           /\ HashesIn(donuts'[s].suffix) \subseteq stored
           /\ \A e \in donuts'[s].suffix : e.hash = e.pi + DonutOffset(s)
           /\ Recorded(s) => LeadsWithin(donuts'[s]),
         \/ pc' = "idle"
         \/ /\ job'.tier = job.tier /\ job'.off = job.off /\ job'.count = job.count
            /\ job'.offsets = job.offsets /\ pc' \in SlotSteps
            /\ pc' \in BakeTierSteps => pc \in BakeTierSteps
            /\ pc' \in {"bakePrefix", "dropPrefix", "bakeOrder"} => UpdatesWithin(donuts'[Slot])
  PROVE  Traced'
<1>1. OnlyStored'
  <2>1. HashesOf(donuts') \subseteq stored
    BY StoredOnly
  <2> QED BY <2>1 DEF Traced, OnlyStored, OnDisk
<1>2. Indexed'
  BY DEF Traced, Indexed, DonutOffset
<1>3. pc' \in SlotSteps => TierFolder' = TierFolder /\ Slot' = Slot
  BY DEF TierFolder, Slot, SlotSteps, BakeTierSteps, BakeInputSteps
<1>4. JobIndexed'
  BY <1>3 DEF Traced, JobIndexed, SlotSteps, BakeInputSteps, BakeTierSteps
<1>5. OrderWithin'
  <2>1. \A s \in DOMAIN donuts' : Recorded(s)' => LeadsWithin(donuts[s])'
    BY DEF Recorded, LeadsWithin
  <2>2. pc' \in {"dropPrefix", "bakeOrder", "bakePrefix"} => UpdatesWithin(donuts[Slot])'
    BY <1>3 DEF UpdatesWithin, SlotSteps, BakeTierSteps
  <2> QED BY <2>1, <2>2 DEF OrderWithin
<1>6. InService'
  BY DEF Traced, InService, Up, SlotSteps, BakeInputSteps, BakeTierSteps
<1> QED BY <1>1, <1>2, <1>4, <1>5, <1>6 DEF Traced

\* An error that leaves the disk as it is.
LEMMA FailTraced ==
  ASSUME Inductive, Traced, DonutRefused \/ BakeInputFails
  PROVE  Traced'
<1>1. /\ UNCHANGED <<tierOffsets, inputs, donutFile, donuts, tiersInfo, input, open, stored>>
      /\ pc' = "idle"
  BY DEF DonutRefused, BakeInputFails, Fail, GiveUp, disk, memory
<1>2. OnlyStored'
  BY <1>1 DEF Traced, OnlyStored, OnDisk
<1> QED BY <1>1, <1>2, InputStepTraced DEF Traced, Indexed

\* A donut folder that a bake leaves alone stays traced.
LEMMA DonutTraced ==
  ASSUME Traced, NEW s \in DOMAIN donuts
  PROVE  /\ HashesIn(donuts[s].suffix) \subseteq stored
         /\ \A e \in donuts[s].suffix : e.hash = e.pi + DonutOffset(s)
         /\ Recorded(s) => LeadsWithin(donuts[s])
BY EntryOnDisk DEF Traced, OnlyStored, Indexed, OrderWithin

\* The donut being made has the offset of the folder in hand.
LEMMA SlotOffset ==
  ASSUME Inductive, Traced, pc \in SlotSteps
  PROVE  DonutOffset(Slot) = job.off
<1>1. /\ TierFolder \in DOMAIN donutFile /\ job.count = Len(donutFile[TierFolder])
      /\ job.count \in Nat /\ <<Slot[1], Slot[2]>> = TierFolder /\ Slot[3] = job.count - 1
  BY BakeContext DEF JobType
<1>2. Slot[3] + 1 = job.count
  BY <1>1
<1> QED BY <1>1, <1>2 DEF Traced, JobIndexed, DonutOffset

\* An input folder becomes a donut as it is: BakeFrozenInputTier copies its files.
LEMMA BakeInputTraced ==
  ASSUME Inductive, Traced, BakeInput
  PROVE  Traced'
<1> DEFINE frozen == inputs[job.off]
           order == [l \in 0 .. frozen.count - 1 |-> Resolved(frozen.suffix, l)]
           made == [NewDonut EXCEPT !.suffix = frozen.suffix, !.order = order]
<1>1. /\ pc = "bakeInput" /\ pc' = "removeInput" /\ pc \in SlotSteps /\ pc' \in SlotSteps
      /\ job.off \in DOMAIN inputs /\ job' = job
      /\ UNCHANGED <<tierOffsets, inputs, donutFile, tiersInfo, input, open, stored>>
  BY DEF BakeInput, JobFits, BakeInputSteps, InputFolders, InputInHand, Baking, DonutSteps,
     SlotSteps, memory, ghost
<1>2. /\ DOMAIN donuts' = DOMAIN donuts \cup {Slot}
      /\ \A s \in DOMAIN donuts' : donuts'[s] = IF s = Slot THEN made ELSE donuts[s]
  BY DEF BakeInput, Put
<1>3. made.suffix = frozen.suffix /\ made.order = order
  BY DEF NewDonut
<1>4. LeadsWithin(made)
  <2>1. \A l : Resolved(frozen.suffix, l) = PastEnd
               \/ Resolved(frozen.suffix, l) \in HashesIn(frozen.suffix)
    BY DEF Resolved, HashesIn
  <2>2. PastEnd \notin Hashes
    BY DEF PastEnd
  <2> QED BY <1>3, <2>1, <2>2 DEF LeadsWithin
<1> HIDE DEF made
<1>5. HashesIn(made.suffix) \subseteq stored /\ \A e \in made.suffix : e.hash = e.pi + job.off
  BY <1>1, <1>3, EntryOnDisk DEF Traced, OnlyStored, Indexed
<1> HIDE DEF frozen
<1>6. \A s \in DOMAIN donuts' :
        /\ HashesIn(donuts'[s].suffix) \subseteq stored
        /\ \A e \in donuts'[s].suffix : e.hash = e.pi + DonutOffset(s)
        /\ Recorded(s) => LeadsWithin(donuts'[s])
  <2> TAKE s \in DOMAIN donuts'
  <2>1. CASE s = Slot
    BY <1>1, <1>2, <1>4, <1>5, <2>1, SlotOffset
  <2>2. CASE s # Slot
    BY <1>2, <2>2, DonutTraced
  <2> QED BY <2>1, <2>2
<1> QED BY <1>1, <1>2, <1>6, BakeTraced DEF BakeTierSteps

\* Removing the input folder that was baked.
LEMMA RemoveInputTraced ==
  ASSUME Inductive, Traced, RemoveInput
  PROVE  Traced'
<1>1. /\ DOMAIN inputs' = DOMAIN inputs \ {job.off}
      /\ \A o \in DOMAIN inputs' : inputs'[o] = inputs[o]
  BY DEF RemoveInput, Drop, Restrict
<1>2. /\ UNCHANGED <<tierOffsets, donutFile, donuts, tiersInfo, input, open, job, stored>>
      /\ pc = "removeInput" /\ pc' = "ice"
  BY DEF RemoveInput, memory, ghost
<1>3. HashesOf(inputs') \subseteq HashesOf(inputs)
  BY <1>1 DEF HashesOf
<1>4. OnlyStored'
  BY <1>2, <1>3 DEF Traced, OnlyStored, OnDisk
<1>5. Indexed'
  BY <1>1, <1>2 DEF Traced, Indexed, DonutOffset
<1>6. TierFolder' = TierFolder /\ Slot' = Slot
  BY <1>2 DEF TierFolder, Slot
<1>7. JobIndexed' /\ OrderWithin'
  BY <1>2, <1>6 DEF Traced, JobIndexed, OrderWithin, Recorded, SlotSteps, BakeInputSteps,
     BakeTierSteps
<1>8. InService'
  BY <1>2 DEF Traced, InService, Up, SlotSteps, BakeInputSteps
<1> QED BY <1>4, <1>5, <1>7, <1>8 DEF Traced

\* The sources of a bake are the donuts of a folder that is not recorded any more,
\* whose offsets are those in hand.
LEMMA SourceFacts ==
  ASSUME Inductive, Traced, pc \in BakeTierSteps, NEW d \in 1 .. Len(job.offsets),
         Source(d) \in DOMAIN donuts
  PROVE  DonutOffset(Source(d)) = job.offsets[d] /\ ~Recorded(Source(d))
<1> DEFINE t == job.tier - 1
           folder == <<t, job.off>>
<1>1. t \in Tiers /\ job.tier > 0 /\ job.tier \in Nat /\ job.off \in Nat /\ Len(job.offsets) \in Nat
  BY BakeTierContext, BakeContext DEF SlotSteps, JobType
<1>2. /\ Source(d)[1] = t /\ Source(d)[2] = job.off /\ Source(d)[3] + 1 = d
  BY <1>1 DEF Source
<1>3. folder \in DOMAIN donutFile
  BY <1>2 DEF DonutsListed
<1>4. donutFile[folder] = job.offsets
  BY <1>1, <1>3 DEF Traced, JobIndexed
<1>5. ~tiersInfo.present[t]
  BY <1>1 DEF TiersNewer, Baking, DonutSteps, BakeTierSteps
<1>6. tierOffsets.tier[t] = Absent
  BY <1>1, <1>5, OnFileFacts DEF MemoryOnDisk, MemoryOK, Up, BakeTierSteps
<1> HIDE DEF t
<1> QED BY <1>1, <1>2, <1>4, <1>6 DEF DonutOffset, Recorded, Absent

\* The entries that a bake copies are rebased from the offset of their source to
\* that of the new donut.
LEMMA CopiedTraced ==
  ASSUME Inductive, Traced, pc = "bakePrefix", NEW n \in Nat, n <= Len(job.offsets),
         \A d \in 1 .. n : Exists(d)
  PROVE  /\ HashesIn(Copied(n).suffix) \subseteq stored
         /\ \A e \in Copied(n).suffix : e.hash = e.pi + DonutOffset(Slot)
         /\ Recorded(Slot) => LeadsWithin(Copied(n))
         /\ UpdatesWithin(Copied(n))
<1> DEFINE all == 1 .. n
           made == IF job.prefix = 0 THEN NewDonut ELSE donuts[Slot]
           suffix == Kept(made.suffix) \cup UNION {Moved(d) : d \in all}
           updates == made.updates \cup UNION {Updates(d) : d \in all}
           copied == Copied(n)
<1>1. pc \in BakeTierSteps /\ pc \in SlotSteps
  BY DEF BakeTierSteps, SlotSteps
<1>2. job.prefix # 0 => Slot \in DOMAIN donuts
  BY <1>1, BakeTierContext DEF NothingDroppedEarly
<1>3. DonutOK(made)
  BY <1>2, NewDonutOK DEF TiersOnDiskOK
<1>4. copied.suffix = suffix /\ copied.updates = updates /\ copied.order = made.order
  BY <1>3 DEF Copied, DonutOK
<1>5. /\ job.prefix # 0 => HashesIn(made.suffix) \subseteq HashesIn(copied.suffix)
      /\ \A d \in all : HashesIn(OfPrefix(donuts[Source(d)].suffix)) \subseteq HashesIn(copied.suffix)
  BY <1>2, CopiedFacts
<1>6. \A d \in all : /\ Source(d) \in DOMAIN donuts /\ job.offsets[d] \in Nat
                     /\ DonutOffset(Source(d)) = job.offsets[d]
  BY <1>1, SourceFacts, BakeTierContext DEF Exists
<1>7. DonutOffset(Slot) = job.off /\ job.off \in Nat
  BY <1>1, SlotOffset, BakeContext
<1>8. \A e \in made.suffix : e.hash \in stored /\ e.hash = e.pi + job.off
  <2>1. CASE job.prefix = 0
    BY <2>1, NewDonutOK
  <2>2. CASE job.prefix # 0
    BY <1>2, <1>7, <2>2, DonutTraced DEF HashesIn
  <2> QED BY <2>1, <2>2
<1>9. ASSUME NEW d \in all, NEW e \in Moved(d)
      PROVE  e.hash \in stored /\ e.hash = e.pi + job.off
  <2>1. PICK old \in donuts[Source(d)].suffix : e = Entry(old.hash, Rebased(d, old.pi))
    BY DEF Moved, OfPrefix
  <2>2. old \in EntryType
    BY <1>6 DEF TiersOnDiskOK, DonutOK
  <2>3. old.hash \in stored /\ old.hash = old.pi + job.offsets[d] /\ old.pi \in Int
    BY <1>6, <2>2, DonutTraced DEF HashesIn, EntryType
  <2>4. e.hash = old.hash /\ e.pi = old.pi + job.offsets[d] - job.off
    BY <2>1 DEF Entry, Rebased
  <2> QED BY <1>6, <1>7, <2>3, <2>4
<1>10. \A e \in suffix : e.hash \in stored /\ e.hash = e.pi + job.off
  BY <1>8, <1>9 DEF Kept
<1>11. Recorded(Slot) => LeadsWithin(copied)
  <2>1. CASE job.prefix = 0
    BY <1>4, <2>1 DEF LeadsWithin, NewDonut
  <2>2. CASE job.prefix # 0
    BY <1>2, <1>4, <1>5, <2>2, DonutTraced DEF LeadsWithin
  <2> QED BY <2>1, <2>2
<1>12. UpdatesWithin(copied)
  <2>1. \A u \in made.updates : u.hash \in HashesIn(copied.suffix)
    <3>1. CASE job.prefix = 0
      BY <3>1, NewDonutOK
    <3>2. CASE job.prefix # 0
      <4>1. UpdatesWithin(donuts[Slot])
        BY <1>1, <3>2, BakeTierContext DEF Traced, OrderWithin
      <4> QED BY <1>5, <3>2, <4>1 DEF UpdatesWithin
    <3> QED BY <3>1, <3>2
  <2>2. ASSUME NEW d \in all, NEW u \in Updates(d)
        PROVE  u.hash \in HashesIn(copied.suffix)
    <3>1. u.hash \in HashesIn(OfPrefix(donuts[Source(d)].suffix))
      BY DEF Updates, HashesIn
    <3> QED BY <1>5, <3>1
  <2> HIDE DEF copied
  <2> QED BY <1>4, <2>1, <2>2 DEF UpdatesWithin
<1> HIDE DEF suffix, copied
<1>13. HashesIn(copied.suffix) \subseteq stored
  BY <1>4, <1>10 DEF HashesIn
<1> QED BY <1>4, <1>7, <1>10, <1>11, <1>12, <1>13 DEF copied

\* Copying the suffix files of a prefix to the new donut.
LEMMA BakePrefixTraced ==
  ASSUME Inductive, Traced, BakePrefix \/ BakeTierFails
  PROVE  Traced'
<1>1. /\ pc = "bakePrefix" /\ pc \in SlotSteps /\ pc \in BakeTierSteps
      /\ UNCHANGED <<tierOffsets, inputs, donutFile, tiersInfo, input, open, stored>>
      /\ pc' = "idle" \/ (pc' = "dropPrefix" /\ job' = job)
  BY DEF BakePrefix, BakeTierFails, GiveUp, SlotSteps, BakeTierSteps, memory, ghost
<1>2. Len(job.offsets) \in Nat
  BY <1>1, BakeTierContext
<1>3. \/ donuts' = donuts /\ pc' = "idle"
      \/ \E n \in 0 .. Len(job.offsets) :
           donuts' = Put(donuts, Slot, Copied(n)) /\ \A d \in 1 .. n : Exists(d)
  <2>1. CASE BakePrefix
    BY <1>2, <2>1 DEF BakePrefix
  <2>2. CASE BakeTierFails
    <3>1. PICK d \in 1 .. Len(job.offsets) :
            /\ \A c \in 1 .. d - 1 : Exists(c)
            /\ donuts' = IF d = 1 THEN donuts ELSE Put(donuts, Slot, Copied(d - 1))
      BY <2>2 DEF BakeTierFails
    <3>2. d - 1 \in 0 .. Len(job.offsets)
      BY <1>2
    <3>3. pc' = "idle"
      BY <2>2 DEF BakeTierFails, GiveUp
    <3> QED BY <3>1, <3>2, <3>3
  <2> QED BY <2>1, <2>2
<1>4. CASE donuts' = donuts /\ pc' = "idle"
  BY <1>1, <1>4, DonutTraced, BakeTraced
<1>5. ASSUME NEW n \in 0 .. Len(job.offsets), donuts' = Put(donuts, Slot, Copied(n)),
             \A d \in 1 .. n : Exists(d)
      PROVE  Traced'
  <2> DEFINE copied == Copied(n)
  <2>1. /\ DOMAIN donuts' = DOMAIN donuts \cup {Slot}
        /\ \A s \in DOMAIN donuts' : donuts'[s] = IF s = Slot THEN copied ELSE donuts[s]
    BY <1>5 DEF Put
  <2>2. /\ HashesIn(copied.suffix) \subseteq stored
        /\ \A e \in copied.suffix : e.hash = e.pi + DonutOffset(Slot)
        /\ Recorded(Slot) => LeadsWithin(copied)
        /\ UpdatesWithin(copied)
    <3>1. n \in Nat /\ n <= Len(job.offsets)
      BY <1>2
    <3> QED BY <1>1, <1>5, <3>1, CopiedTraced
  <2> HIDE DEF copied
  <2>3. \A s \in DOMAIN donuts' :
          /\ HashesIn(donuts'[s].suffix) \subseteq stored
          /\ \A e \in donuts'[s].suffix : e.hash = e.pi + DonutOffset(s)
          /\ Recorded(s) => LeadsWithin(donuts'[s])
    <3> TAKE s \in DOMAIN donuts'
    <3>1. CASE s = Slot
      BY <2>1, <2>2, <3>1
    <3>2. CASE s # Slot
      BY <2>1, <3>2, DonutTraced
    <3> QED BY <3>1, <3>2
  <2> QED BY <1>1, <2>1, <2>2, <2>3, BakeTraced DEF SlotSteps, BakeTierSteps
<1> QED BY <1>3, <1>4, <1>5

\* The sources of a bake are out of service, so what they lose is not missed.
LEMMA DropPrefixTraced ==
  ASSUME Inductive, Traced, DropPrefix
  PROVE  Traced'
<1>1. /\ pc = "dropPrefix" /\ pc \in SlotSteps /\ pc \in BakeTierSteps
      /\ pc' \in {"bakePrefix", "bakeOrder"} /\ Slot \in DOMAIN donuts /\ job \in JobType
      /\ UNCHANGED <<tierOffsets, inputs, donutFile, tiersInfo, input, open, stored>>
  BY DEF DropPrefix, SlotSteps, BakeTierSteps, NothingDroppedEarly, ControlOK, memory, ghost
<1>2. /\ job'.tier = job.tier /\ job'.off = job.off
      /\ job'.count = job.count /\ job'.offsets = job.offsets
  <2>1. job' = [job EXCEPT !.prefix = NextPrefix]
    BY DEF DropPrefix
  <2> QED BY <1>1, <2>1 DEF JobType
<1>3. /\ DOMAIN donuts' = DOMAIN donuts
      /\ \A s \in DOMAIN donuts \ Sources : donuts'[s] = donuts[s]
      /\ \A s \in DOMAIN donuts \cap Sources : donuts'[s].suffix \subseteq donuts[s].suffix
  <2>1. /\ DOMAIN donuts' = DOMAIN donuts
        /\ \A s \in DOMAIN donuts : donuts'[s] =
             IF s \in Sources THEN [donuts[s] EXCEPT !.suffix = @ \ OfPrefix(@)] ELSE donuts[s]
    BY DEF DropPrefix
  <2>2. \A s \in DOMAIN donuts :
          [donuts[s] EXCEPT !.suffix = @ \ OfPrefix(@)].suffix \subseteq donuts[s].suffix
    BY DEF TiersOnDiskOK, DonutOK
  <2> QED BY <2>1, <2>2
<1>4. Slot \notin Sources
  BY <1>1, BakeContext
<1>5. \A s \in DOMAIN donuts' :
        /\ HashesIn(donuts'[s].suffix) \subseteq stored
        /\ \A e \in donuts'[s].suffix : e.hash = e.pi + DonutOffset(s)
        /\ Recorded(s) => LeadsWithin(donuts'[s])
  <2> TAKE s \in DOMAIN donuts'
  <2>1. CASE s \in Sources
    <3>1. ~Recorded(s)
      BY <1>1, <1>3, <2>1, SourceFacts DEF Sources
    <3>2. HashesIn(donuts'[s].suffix) \subseteq HashesIn(donuts[s].suffix)
      BY <1>3, <2>1, HashesInMonotonic
    <3> QED BY <1>3, <2>1, <3>1, <3>2, DonutTraced
  <2>2. CASE s \notin Sources
    BY <1>3, <2>2, DonutTraced
  <2> QED BY <2>1, <2>2
<1>6. UpdatesWithin(donuts'[Slot])
  BY <1>1, <1>3, <1>4 DEF Traced, OrderWithin
<1> QED BY <1>1, <1>2, <1>3, <1>5, <1>6, BakeTraced DEF SlotSteps, BakeTierSteps

\* HashesOrder.bin is written from updates that lead to the new donut's own hashes,
\* whatever the order files of the sources say.
LEMMA BakeOrderTraced ==
  ASSUME Inductive, Traced, BakeOrder \/ BakeOrderFails
  PROVE  Traced'
<1>1. /\ pc = "bakeOrder" /\ pc \in SlotSteps /\ pc \in BakeTierSteps /\ Slot \in DOMAIN donuts
      /\ pc' = "idle" \/ (pc' = "removeTier" /\ job' = job)
      /\ UNCHANGED <<tierOffsets, inputs, donutFile, tiersInfo, input, open, stored>>
  BY DEF BakeOrder, BakeOrderFails, GiveUp, SlotSteps, BakeTierSteps, NothingDroppedEarly,
     memory, ghost
<1>2. PICK n \in Nat, U \in SUBSET donuts[Slot].updates :
        donuts' = [donuts EXCEPT ![Slot].order = Concatenated(n), ![Slot].updates = U]
  <2>1. Len(job.offsets) \in Nat
    BY <1>1, BakeTierContext
  <2>2. CASE BakeOrder
    BY <2>1, <2>2 DEF BakeOrder
  <2>3. CASE BakeOrderFails
    <3>1. PICK d \in 1 .. Len(job.offsets) :
            donuts' = [donuts EXCEPT ![Slot].order = Concatenated(d - 1), ![Slot].updates = Unread(d)]
      BY <2>3 DEF BakeOrderFails
    <3>2. d - 1 \in Nat /\ Unread(d) \in SUBSET donuts[Slot].updates
      BY DEF Unread
    <3> QED BY <3>1, <3>2
  <2> QED BY <2>2, <2>3
<1>3. /\ DOMAIN donuts' = DOMAIN donuts
      /\ \A s \in DOMAIN donuts : donuts'[s] =
           IF s = Slot THEN Ordered(donuts[s], Concatenated(n), U) ELSE donuts[s]
  BY <1>1, <1>2 DEF Ordered
<1>4. /\ Ordered(donuts[Slot], Concatenated(n), U).suffix = donuts[Slot].suffix
      /\ Ordered(donuts[Slot], Concatenated(n), U).order = Concatenated(n)
  BY <1>1 DEF TiersOnDiskOK, DonutOK, Ordered
<1>5. LeadsWithin(Ordered(donuts[Slot], Concatenated(n), U))
  <2>1. UpdatesWithin(donuts[Slot])
    BY <1>1 DEF Traced, OrderWithin
  <2>2. \A d, l : Pointer(d, l) = Dangling \/ Pointer(d, l) \in HashesIn(donuts[Slot].suffix)
    BY <2>1 DEF Pointer, UpdatesWithin
  <2>3. \A i \in DOMAIN Concatenated(n) :
          Concatenated(n)[i] = Dangling \/ Concatenated(n)[i] \in HashesIn(donuts[Slot].suffix)
    BY <2>2 DEF Concatenated
  <2>4. Dangling \notin Hashes
    BY DEF Dangling
  <2> QED BY <1>4, <2>3, <2>4 DEF LeadsWithin
<1>6. \A s \in DOMAIN donuts' :
        /\ HashesIn(donuts'[s].suffix) \subseteq stored
        /\ \A e \in donuts'[s].suffix : e.hash = e.pi + DonutOffset(s)
        /\ Recorded(s) => LeadsWithin(donuts'[s])
  <2> TAKE s \in DOMAIN donuts'
  <2>1. CASE s = Slot
    BY <1>3, <1>4, <1>5, <2>1, DonutTraced
  <2>2. CASE s # Slot
    BY <1>3, <2>2, DonutTraced
  <2> QED BY <2>1, <2>2
<1>7. CASE pc' = "idle"
  BY <1>1, <1>3, <1>6, <1>7, BakeTraced
<1>8. CASE pc' = "removeTier"
  BY <1>1, <1>3, <1>6, <1>8, BakeTraced DEF SlotSteps, BakeTierSteps
<1> QED BY <1>1, <1>7, <1>8

\* Icing a donut leaves its HashesOrder.bin alone, too.
LEMMA IceTraced ==
  ASSUME Inductive, Traced, Ice
  PROVE  Traced'
<1>1. /\ pc = "ice" /\ pc' = "publish" /\ job' = job
      /\ UNCHANGED <<tierOffsets, inputs, donutFile, tiersInfo, input, open, stored>>
  BY DEF Ice, memory, ghost
<1>2. /\ DOMAIN donuts' = DOMAIN donuts
      /\ \A s \in DOMAIN donuts : donuts'[s] = IF s = Slot THEN Iced(donuts[s]) ELSE donuts[s]
  BY DEF Ice, Iced
<1>3. \A s \in DOMAIN donuts :
        donuts'[s].suffix = donuts[s].suffix /\ donuts'[s].order = donuts[s].order
  <2>1. \A s \in DOMAIN donuts :
          Iced(donuts[s]).suffix = donuts[s].suffix /\ Iced(donuts[s]).order = donuts[s].order
    BY DEF TiersOnDiskOK, DonutOK, Iced
  <2> QED BY <1>2, <2>1
<1>4. \A s \in DOMAIN donuts' :
        /\ HashesIn(donuts'[s].suffix) \subseteq stored
        /\ \A e \in donuts'[s].suffix : e.hash = e.pi + DonutOffset(s)
        /\ Recorded(s) => LeadsWithin(donuts'[s])
  BY <1>2, <1>3, DonutTraced DEF LeadsWithin
<1> QED BY <1>1, <1>2, <1>4, BakeTraced DEF SlotSteps, BakeTierSteps

\* The tier folder that is removed is one that is not in service.
LEMMA RemoveTierTraced ==
  ASSUME Inductive, Traced, RemoveTier
  PROVE  Traced'
<1> DEFINE folder == <<job.tier - 1, job.off>>
<1>1. /\ pc = "removeTier" /\ pc' = "ice" /\ pc \in BakeTierSteps /\ pc \in SlotSteps
      /\ UNCHANGED <<tierOffsets, inputs, tiersInfo, input, open, job, stored>>
  BY DEF RemoveTier, BakeTierSteps, SlotSteps, memory, ghost
<1>2. /\ DOMAIN donutFile' = DOMAIN donutFile \ {folder}
      /\ \A x \in DOMAIN donutFile' : donutFile'[x] = donutFile[x]
  BY DEF RemoveTier, Drop, Restrict
<1>3. /\ DOMAIN donuts' = {s \in DOMAIN donuts : <<s[1], s[2]>> # folder}
      /\ \A s \in DOMAIN donuts' : donuts'[s] = donuts[s]
  BY DEF RemoveTier, Drop, Restrict
<1>4. /\ TierFolder \in DOMAIN donutFile' /\ TierFolder' = TierFolder
      /\ donutFile'[TierFolder] = donutFile[TierFolder]
  <2>1. TierFolder # folder
    BY <1>1, BakeContext, BakeTierContext DEF TierFolder
  <2> QED BY <1>1, <1>2, <2>1, BakeContext DEF TierFolder
<1>5. job.tier - 1 \in Tiers /\ ~tiersInfo.present[job.tier - 1]
  <2>1. job.tier - 1 \in Tiers /\ job.tier - 1 < job.tier
    BY <1>1, BakeTierContext, BakeContext
  <2> QED BY <1>1, <2>1 DEF TiersNewer, Baking, DonutSteps, BakeTierSteps
<1>6. open[job.tier - 1] = NilTier
  BY <1>5 DEF OpenTiers
<1>7. OnlyStored'
  <2>1. HashesOf(donuts') \subseteq HashesOf(donuts)
    BY <1>3 DEF HashesOf
  <2> QED BY <1>1, <2>1 DEF Traced, OnlyStored, OnDisk
<1>8. \A s \in DOMAIN donuts' : DonutOffset(s)' = DonutOffset(s)
  BY <1>2, <1>3 DEF DonutOffset, DonutsListed
<1>9. Indexed'
  BY <1>1, <1>3, <1>8 DEF Traced, Indexed
<1>10. JobIndexed' /\ OrderWithin'
  BY <1>1, <1>3, <1>4 DEF Traced, JobIndexed, OrderWithin, Recorded, LeadsWithin, SlotSteps,
     BakeTierSteps
<1>11. InService'
  <2>1. \A t \in Tiers : \A d \in DOMAIN open[t].donuts :
          <<t, open[t].folder, open[t].donuts[d]>> \in DOMAIN donuts'
    <3> TAKE t \in Tiers
    <3> TAKE d \in DOMAIN open[t].donuts
    <3>1. t # job.tier - 1
      BY <1>6 DEF NilTier
    <3>2. <<t, open[t].folder, open[t].donuts[d]>> \in DOMAIN donuts
      BY DEF Traced, InService
    <3> QED BY <1>3, <3>1, <3>2
  <2>2. \A t \in Tiers : <<t, tiersInfo.offset[t]>> \notin DOMAIN donutFile =>
          <<t, tiersInfo.offset[t]>> \notin DOMAIN donutFile'
    BY <1>2
  <2>3. Up' /\ Up
    BY <1>1 DEF Up
  <2> QED BY <1>1, <2>1, <2>2, <2>3 DEF Traced, InService, SlotSteps
<1> QED BY <1>7, <1>9, <1>10, <1>11 DEF Traced

\* TierOffsets.txt has the offsets of the tiers that are present.
LEMMA RecordedTiers ==
  ASSUME Inductive, Up
  PROVE  \A t \in Tiers : tierOffsets.tier[t] =
           IF tiersInfo.present[t] THEN tiersInfo.offset[t] ELSE Absent
BY OnFileFacts DEF MemoryOnDisk, MemoryOK

\* While no tier is open where a donut is to be added, there is no folder that is
\* named by the one in hand.
LEMMA NoSuchFolder ==
  ASSUME Inductive, Baking, job.tier \in Tiers, open[job.tier] = NilTier
  PROVE  /\ <<job.tier, job.off>> \notin DOMAIN donutFile
         /\ \A s \in DOMAIN donuts : s[1] = job.tier => s[2] # job.off
<1>1. <<job.tier, job.off>> \notin DOMAIN donutFile
  <2> DEFINE x == <<job.tier, job.off>>
  <2>1. job.off \in Nat /\ job.tier \in Nat /\ x[1] = job.tier /\ x[2] = job.off
    BY DEF ControlOK, JobType
  <2> HIDE DEF x
  <2>2. x \notin DOMAIN donutFile
    BY <2>1 DEF JobNewer
  <2> QED BY <2>2 DEF x
<1> QED BY <1>1 DEF DonutsListed

\* A tier that is recorded anew has no donuts yet.
LEMMA TierRecordTraced ==
  ASSUME Inductive, Traced, TierRecord
  PROVE  Traced'
<1> DEFINE t == job.tier
<1>1. /\ pc = "newDonut" /\ pc' = "tierFile" /\ t \in Tiers /\ open[t] = NilTier
      /\ UNCHANGED <<inputs, donutFile, donuts, input, open, job, stored>>
  BY DEF TierRecord, ghost
<1>2. /\ tiersInfo'.offset[t] = job.off
      /\ \A u \in Tiers \ {t} : /\ tiersInfo'.offset[u] = tiersInfo.offset[u]
                                /\ tierOffsets'.tier[u] = tierOffsets.tier[u]
      /\ tierOffsets'.tier[t] = job.off
  <2>1. tiersInfo \in TiersInfoType /\ tierOffsets = OnFile(tiersInfo) /\ job.off \in Nat
    BY <1>1 DEF MemoryOK, MemoryOnDisk, Up, ControlOK, JobType
  <2>2. tiersInfo' = WithTier(tiersInfo, t, job.off) /\ tierOffsets' = OnFile(tiersInfo')
    BY DEF TierRecord
  <2> HIDE DEF t
  <2> QED BY <1>1, <2>1, <2>2, TierRecorded
<1>3. OnlyStored' /\ Indexed' /\ JobIndexed'
  BY <1>1 DEF Traced, OnlyStored, OnDisk, Indexed, DonutOffset, JobIndexed, SlotSteps,
     BakeInputSteps, BakeTierSteps
<1>4. OrderWithin'
  <2>1. \A s \in DOMAIN donuts : Recorded(s)' => LeadsWithin(donuts[s])'
    <3> TAKE s \in DOMAIN donuts
    <3>1. s[1] \in Tiers
      BY DEF TiersOnDiskOK
    <3>2. CASE s[1] = t
      BY <1>1, <1>2, <3>2, NoSuchFolder DEF Recorded, Baking
    <3>3. CASE s[1] # t
      BY <1>1, <1>2, <3>1, <3>3 DEF Traced, OrderWithin, Recorded, LeadsWithin
    <3> QED BY <3>2, <3>3
  <2> QED BY <1>1, <2>1 DEF OrderWithin
<1>5. InService'
  BY <1>1, <1>2 DEF Traced, InService, Up, SlotSteps, BakeInputSteps, BakeTierSteps
<1> QED BY <1>3, <1>4, <1>5 DEF Traced

\* The folder made for a tier is a new one, and empty.
LEMMA TierFileTraced ==
  ASSUME Inductive, Traced, TierFile
  PROVE  Traced'
<1> DEFINE t == job.tier
           folder == <<job.tier, job.off>>
           made == [NilTier EXCEPT !.folder = job.off]
<1>1. /\ pc = "tierFile" /\ pc' = "newDonut" /\ t \in Tiers /\ open[t] = NilTier
      /\ tiersInfo.offset[t] = job.off
      /\ UNCHANGED <<tierOffsets, inputs, donuts, tiersInfo, input, job, stored>>
  BY DEF TierFile, ghost, ControlOK, DonutSteps, OpenTiers
<1>2. folder \notin DOMAIN donutFile /\ \A s \in DOMAIN donuts : <<s[1], s[2]>> # folder
  BY <1>1, NoSuchFolder DEF Baking, DonutSteps
<1>3. /\ DOMAIN donutFile' = DOMAIN donutFile \cup {folder}
      /\ \A x \in DOMAIN donutFile : donutFile'[x] = donutFile[x]
  <2>1. /\ DOMAIN donutFile' = DOMAIN donutFile \cup {folder}
        /\ \A x \in DOMAIN donutFile' :
             donutFile'[x] = IF x = folder THEN <<>> ELSE donutFile[x]
    BY DEF TierFile, Put
  <2> QED BY <1>2, <2>1
<1>4. /\ made.folder = job.off /\ made.donuts = <<>>
      /\ \A u \in Tiers : open'[u] = IF u = t THEN made ELSE open[u]
  BY <1>1 DEF TierFile, MemoryOK, NilTier
<1>5. OnlyStored'
  BY <1>1 DEF Traced, OnlyStored, OnDisk
<1>6. \A s \in DOMAIN donuts : DonutOffset(s)' = DonutOffset(s)
  BY <1>3 DEF DonutOffset, DonutsListed
<1>7. Indexed' /\ OrderWithin'
  BY <1>1, <1>6 DEF Traced, Indexed, OrderWithin, Recorded, LeadsWithin
<1>8. JobIndexed'
  <2>1. CASE t > 0
    <3>1. <<t - 1, job.off>> # folder
      BY <1>1
    <3>2. <<t - 1, job.off>> \in DOMAIN donutFile => donutFile[<<t - 1, job.off>>] = job.offsets
      BY <1>1, <2>1 DEF Traced, JobIndexed
    <3> QED BY <1>1, <1>3, <3>1, <3>2 DEF JobIndexed, SlotSteps, BakeInputSteps, BakeTierSteps
  <2>2. CASE ~(t > 0)
    BY <1>1, <2>2 DEF JobIndexed, SlotSteps, BakeInputSteps, BakeTierSteps
  <2> QED BY <2>1, <2>2
<1> HIDE DEF made
<1>9. InService'
  <2>1. \A u \in Tiers \ {t} : <<u, tiersInfo.offset[u]>> \notin DOMAIN donutFile =>
          <<u, tiersInfo.offset[u]>> \notin DOMAIN donutFile'
    BY <1>3
  <2>2. \A u \in Tiers : open'[u] # NilTier =>
          \/ open'[u].folder = tiersInfo.offset[u]
          \/ open'[u].donuts = <<>> /\ <<u, tiersInfo.offset[u]>> \notin DOMAIN donutFile'
    BY <1>1, <1>4, <2>1 DEF Traced, InService
  <2>3. \A u \in Tiers : \A d \in DOMAIN open'[u].donuts :
          <<u, open'[u].folder, open'[u].donuts[d]>> \in DOMAIN donuts
    <3>1. DOMAIN made.donuts = {}
      BY <1>4
    <3> QED BY <1>1, <1>4, <3>1 DEF Traced, InService
  <2> QED BY <1>1, <2>2, <2>3 DEF InService, Up, SlotSteps, BakeInputSteps, BakeTierSteps
<1> QED BY <1>5, <1>7, <1>8, <1>9 DEF Traced

\* The donut folder that is registered comes after all those in service, and takes
\* the offset in hand.
LEMMA DonutFolderTraced ==
  ASSUME Inductive, Traced, DonutFolder
  PROVE  Traced'
<1> DEFINE t == job.tier
           folder == TierFolder
           listed == donutFile[folder]
           registered == Append(listed, job.off)
<1>1. /\ pc = "newDonut" /\ t \in Tiers /\ open[t] # NilTier /\ job.off \in Nat
      /\ job \in JobType /\ folder \in DOMAIN donutFile /\ listed \in Seq(Nat)
      /\ pc' = "bakeInput" \/ (pc' = "bakePrefix" /\ t > 0)
      /\ UNCHANGED <<tierOffsets, inputs, donuts, tiersInfo, input, stored>>
  BY DEF DonutFolder, HasRoom, ControlOK, JobType, TiersOnDiskOK, ghost
<1>2. job.prefix = 0
  BY <1>1 DEF JobFits
<1>3. /\ Len(listed) \in Nat /\ Len(registered) = Len(listed) + 1
      /\ registered[Len(listed) + 1] = job.off
      /\ \A i \in 1 .. Len(listed) : registered[i] = listed[i]
  <2> HIDE DEF listed, folder
  <2> QED BY <1>1
<1>4. /\ DOMAIN donutFile' = DOMAIN donutFile /\ donutFile'[folder] = registered
      /\ \A x \in DOMAIN donutFile \ {folder} : donutFile'[x] = donutFile[x]
  BY <1>1 DEF DonutFolder
<1>5. \A u \in Tiers : /\ open'[u].folder = open[u].folder /\ open'[u].donuts = open[u].donuts
                       /\ u # t => open'[u] = open[u]
  <2>1. open' = [open EXCEPT ![t] = [open[t] EXCEPT !.offsets = registered]]
    BY DEF DonutFolder
  <2>2. \A u \in Tiers : open[u] \in OpenTierType
    BY DEF MemoryOK
  <2>3. /\ [open[t] EXCEPT !.offsets = registered].folder = open[t].folder
        /\ [open[t] EXCEPT !.offsets = registered].donuts = open[t].donuts
    BY <1>1, <2>2 DEF OpenTierType
  <2> QED BY <1>1, <2>1, <2>3 DEF MemoryOK
<1>6. /\ job'.tier = t /\ job'.off = job.off /\ job'.count = Len(registered)
      /\ job'.offsets = job.offsets /\ job'.prefix = 0
  <2>1. job' = [job EXCEPT !.count = Len(registered)]
    BY DEF DonutFolder
  <2> HIDE DEF registered
  <2> QED BY <1>1, <1>2, <2>1 DEF JobType
<1>7. folder' = folder /\ folder = <<t, tiersInfo.offset[t]>>
  BY <1>1, <1>6 DEF TierFolder
<1> HIDE DEF folder, listed, registered
<1>8. OnlyStored'
  BY <1>1 DEF Traced, OnlyStored, OnDisk
<1>9. \A s \in DOMAIN donuts : DonutOffset(s)' = DonutOffset(s)
  <2> TAKE s \in DOMAIN donuts
  <2>1. <<s[1], s[2]>> \in DOMAIN donutFile /\ s[3] \in 0 .. Len(donutFile[<<s[1], s[2]>>]) - 1
    BY DEF DonutsListed
  <2>2. CASE <<s[1], s[2]>> = folder
    <3>1. s[3] \in 0 .. Len(listed) - 1
      BY <2>1, <2>2 DEF listed
    <3>2. s[3] + 1 \in 1 .. Len(listed)
      BY <1>3, <3>1
    <3> QED BY <1>3, <1>4, <2>2, <3>2 DEF DonutOffset, listed
  <2>3. CASE <<s[1], s[2]>> # folder
    BY <1>4, <2>1, <2>3 DEF DonutOffset
  <2> QED BY <2>2, <2>3
<1>10. Indexed'
  BY <1>1, <1>9 DEF Traced, Indexed
<1>11. JobIndexed'
  <2>1. donutFile'[TierFolder'][job'.count] = job'.off
    BY <1>3, <1>4, <1>6, <1>7 DEF folder
  <2>2. t > 0 /\ <<t - 1, job.off>> \in DOMAIN donutFile =>
          donutFile'[<<t - 1, job.off>>] = job.offsets
    <3>1. t > 0 => <<t - 1, job.off>> # folder
      BY <1>1, <1>7
    <3> QED BY <1>1, <1>4, <3>1 DEF Traced, JobIndexed
  <2> QED BY <1>1, <1>4, <1>6, <2>1, <2>2 DEF JobIndexed
<1>12. OrderWithin'
  BY <1>1, <1>6 DEF Traced, OrderWithin, Recorded, LeadsWithin
<1>13. InService'
  <2>1. open[t].folder = tiersInfo.offset[t]
    BY <1>1, <1>7 DEF Traced, InService
  <2>2. \A d \in DOMAIN open[t].donuts : open[t].donuts[d] # Len(listed)
    <3> TAKE d \in DOMAIN open[t].donuts
    <3>1. <<t, tiersInfo.offset[t], open[t].donuts[d]>> \in DOMAIN donuts
      BY <1>1, <2>1 DEF Traced, InService
    <3>2. open[t].donuts[d] \in 0 .. Len(listed) - 1
      BY <1>7, <3>1 DEF DonutsListed, listed
    <3> QED BY <1>3, <3>2
  <2>3. \A u \in Tiers : open'[u] # NilTier =>
          \/ open'[u].folder = tiersInfo.offset[u]
          \/ open'[u].donuts = <<>> /\ <<u, tiersInfo.offset[u]>> \notin DOMAIN donutFile'
    BY <1>1, <1>4, <1>5 DEF Traced, InService
  <2>4. \A u \in Tiers : \A d \in DOMAIN open'[u].donuts :
          <<u, open'[u].folder, open'[u].donuts[d]>> \in DOMAIN donuts'
    BY <1>1, <1>5 DEF Traced, InService
  <2>5. \A d \in DOMAIN open'[t].donuts : open'[t].donuts[d] # job'.count - 1
    <3>1. job'.count - 1 = Len(listed)
      BY <1>3, <1>6
    <3> QED BY <1>1, <1>5, <2>2, <3>1
  <2> QED BY <1>1, <1>6, <2>3, <2>4, <2>5 DEF InService, Up
<1> QED BY <1>8, <1>10, <1>11, <1>12, <1>13 DEF Traced

\* A full tier that is frozen hands its offsets to the bake.
LEMMA FreezeTierTraced ==
  ASSUME Inductive, Traced, FreezeTier
  PROVE  Traced'
<1> DEFINE t == job.tier
<1>1. /\ pc = "freezeTier" /\ pc' = "newDonut" /\ t \in Tiers /\ open[t] # NilTier
      /\ tiersInfo.present[t]
      /\ UNCHANGED <<inputs, donutFile, donuts, input, stored>>
  BY DEF FreezeTier, ControlOK, DonutSteps, OpenTiers, ghost
<1>2. /\ tiersInfo'.offset = tiersInfo.offset /\ tierOffsets'.tier[t] = Absent
      /\ \A u \in Tiers \ {t} : tierOffsets'.tier[u] = tierOffsets.tier[u]
  <2>1. tiersInfo \in TiersInfoType
    BY DEF MemoryOK
  <2>2. tierOffsets' = OnFile(tiersInfo')
    BY DEF FreezeTier
  <2>3. tiersInfo' = WithoutTier(tiersInfo, t)
    BY DEF FreezeTier
  <2> HIDE DEF t
  <2>4. /\ tiersInfo' \in TiersInfoType /\ tiersInfo'.offset = tiersInfo.offset
        /\ ~tiersInfo'.present[t]
        /\ \A u \in Tiers \ {t} : tiersInfo'.present[u] = tiersInfo.present[u]
    BY <1>1, <2>1, <2>3, WithoutTierFacts
  <2>5. \A u \in Tiers : tierOffsets'.tier[u] =
          IF tiersInfo'.present[u] THEN tiersInfo'.offset[u] ELSE Absent
    BY <2>2, <2>4, OnFileFacts
  <2>6. \A u \in Tiers : tierOffsets.tier[u] =
          IF tiersInfo.present[u] THEN tiersInfo.offset[u] ELSE Absent
    BY <1>1, RecordedTiers DEF Up
  <2> QED BY <1>1, <2>4, <2>5, <2>6
<1>3. \A u \in Tiers : open'[u] = IF u = t THEN NilTier ELSE open[u]
  BY DEF FreezeTier, MemoryOK
<1>4. /\ job'.tier = t + 1 /\ job'.off = tiersInfo.offset[t] /\ job'.offsets = open[t].offsets
  BY DEF FreezeTier
<1>5. OnlyStored' /\ Indexed'
  BY <1>1 DEF Traced, OnlyStored, OnDisk, Indexed, DonutOffset
<1>6. JobIndexed'
  <2>1. job'.tier - 1 = t
    BY <1>1, <1>4
  <2> QED BY <1>1, <1>4, <2>1 DEF JobIndexed, OpenTiers, SlotSteps, BakeInputSteps, BakeTierSteps
<1>7. OrderWithin'
  <2>1. \A s \in DOMAIN donuts : Recorded(s)' => Recorded(s)
    <3> TAKE s \in DOMAIN donuts
    <3>1. s[1] \in Tiers /\ s[2] \in Nat
      BY DEF TiersOnDiskOK
    <3>2. CASE s[1] = t
      BY <1>2, <3>1, <3>2 DEF Recorded, Absent
    <3>3. CASE s[1] # t
      BY <1>2, <3>1, <3>3 DEF Recorded
    <3> QED BY <3>2, <3>3
  <2> QED BY <1>1, <2>1 DEF Traced, OrderWithin, LeadsWithin
<1>8. InService'
  <2>1. DOMAIN NilTier.donuts = {}
    BY DEF NilTier
  <2>2. \A u \in Tiers : open'[u] # NilTier =>
          \/ open'[u].folder = tiersInfo.offset[u]
          \/ open'[u].donuts = <<>> /\ <<u, tiersInfo.offset[u]>> \notin DOMAIN donutFile
    BY <1>3 DEF Traced, InService
  <2>3. \A u \in Tiers : \A d \in DOMAIN open'[u].donuts :
          <<u, open'[u].folder, open'[u].donuts[d]>> \in DOMAIN donuts
    BY <1>3, <2>1 DEF Traced, InService
  <2> QED BY <1>1, <1>2, <2>2, <2>3 DEF InService, Up, SlotSteps, BakeInputSteps, BakeTierSteps
<1> QED BY <1>5, <1>6, <1>7, <1>8 DEF Traced

\* A sequence without positions is the empty one.
LEMMA NoElements ==
  ASSUME NEW S, NEW q \in Seq(S), DOMAIN q = {}
  PROVE  q = <<>>
<1>1. Len(q) \in Nat /\ DOMAIN q = 1 .. Len(q)
  OBVIOUS
<1>2. Len(q) = 0
  BY <1>1
<1> QED BY <1>2

\* The first donut of a tier puts in service the folder that the tier has, if there is
\* one by the name in hand; else it leaves the tier without donuts.
LEMMA PublishFirstTraced ==
  ASSUME Inductive, Traced, PublishFirst
  PROVE  Traced'
<1> DEFINE t == job.tier
           folder == <<job.tier, job.off>>
<1>1. /\ pc = "publish" /\ t \in Tiers /\ job.count = 1 /\ job.off \in Nat
      /\ UNCHANGED <<inputs, donutFile, donuts, input, stored>>
  BY DEF PublishFirst, ControlOK, JobType, DonutSteps
<1>2. pc' = "idle"
  BY <1>1 DEF PublishFirst, Return
<1>3. tiersInfo.present[t] /\ open[t] # NilTier
  BY <1>1 DEF OpenTiers, DonutSteps
<1>4. /\ tiersInfo'.offset[t] = job.off
      /\ \A u \in Tiers \ {t} : /\ tiersInfo'.offset[u] = tiersInfo.offset[u]
                                /\ tierOffsets'.tier[u] = tierOffsets.tier[u]
      /\ tierOffsets'.tier[t] = job.off
  <2>1. tiersInfo \in TiersInfoType /\ tierOffsets = OnFile(tiersInfo)
    BY <1>1 DEF MemoryOK, MemoryOnDisk, Up
  <2>2. tiersInfo' = WithTier(tiersInfo, t, job.off) /\ tierOffsets' = OnFile(tiersInfo')
    BY DEF PublishFirst
  <2> HIDE DEF t
  <2> QED BY <1>1, <2>1, <2>2, TierRecorded
<1>5. folder \in DOMAIN donutFile => tiersInfo.offset[t] = job.off /\ tierOffsets.tier[t] = job.off
  <2> SUFFICES ASSUME folder \in DOMAIN donutFile
               PROVE  tiersInfo.offset[t] = job.off /\ tierOffsets.tier[t] = job.off
    OBVIOUS
  <2>1. folder[1] = t /\ folder[2] = job.off /\ t >= t
    BY <1>1
  <2> HIDE DEF folder
  <2>2. Baking /\ Up
    BY <1>1 DEF Baking, DonutSteps, Up
  <2>3. ~(folder[2] < job.off)
    BY <1>1, <2>1
  <2>4. tiersInfo.offset[t] = job.off
    BY <2>1, <2>2, <2>3 DEF JobNewer
  <2> QED BY <1>1, <1>3, <2>2, <2>4, RecordedTiers
<1>6. OnlyStored' /\ Indexed' /\ JobIndexed'
  BY <1>1, <1>2 DEF Traced, OnlyStored, OnDisk, Indexed, DonutOffset, JobIndexed, SlotSteps,
     BakeInputSteps, BakeTierSteps
<1>7. OrderWithin'
  <2>1. \A s \in DOMAIN donuts : Recorded(s)' => Recorded(s)
    <3> TAKE s \in DOMAIN donuts
    <3>1. s[1] \in Tiers /\ <<s[1], s[2]>> \in DOMAIN donutFile
      BY DEF TiersOnDiskOK, DonutsListed
    <3>2. CASE s[1] = t
      BY <1>4, <1>5, <3>1, <3>2 DEF Recorded
    <3>3. CASE s[1] # t
      BY <1>4, <3>1, <3>3 DEF Recorded
    <3> QED BY <3>2, <3>3
  <2> QED BY <1>1, <1>2, <2>1 DEF Traced, OrderWithin, LeadsWithin
<1>8. /\ \A u \in Tiers \ {t} : open'[u] = open[u]
      /\ open'[t] = open[t] \/ (open'[t] = OpenedTier(t, job.off) /\ TierReadable(t, job.off))
  BY <1>1 DEF PublishFirst, MemoryOK
\* A tier that is not reopened has the one donut folder that has not been in service.
<1>9. \/ open'[t].folder = job.off
      \/ open'[t].donuts = <<>> /\ folder \notin DOMAIN donutFile
  <2>1. CASE open'[t] = OpenedTier(t, job.off) /\ TierReadable(t, job.off)
    BY <2>1, OpenedDonuts
  <2>2. CASE open'[t] = open[t] /\ folder \in DOMAIN donutFile
    BY <1>1, <1>3, <1>5, <2>2 DEF Traced, InService
  <2>3. CASE open'[t] = open[t] /\ folder \notin DOMAIN donutFile
    <3>1. TierFolder \in DOMAIN donutFile /\ Len(donutFile[TierFolder]) = 1
      BY <1>1, BakeContext DEF SlotSteps
    <3>2. open[t].folder = tiersInfo.offset[t]
      BY <1>1, <1>3, <3>1 DEF Traced, InService, TierFolder
    <3>3. \A d \in DOMAIN open[t].donuts :
            open[t].donuts[d] \in 0 .. Len(donutFile[TierFolder]) - 1 /\ open[t].donuts[d] # 0
      <4> TAKE d \in DOMAIN open[t].donuts
      <4>1. <<t, tiersInfo.offset[t], open[t].donuts[d]>> \in DOMAIN donuts
        BY <1>1, <3>2 DEF Traced, InService
      <4>2. open[t].donuts[d] \in 0 .. Len(donutFile[TierFolder]) - 1
        BY <4>1 DEF DonutsListed, TierFolder
      <4>3. open[t].donuts[d] # 0
        BY <1>1 DEF Traced, InService, SlotSteps
      <4> QED BY <4>2, <4>3
    <3>4. DOMAIN open[t].donuts = {}
      BY <3>1, <3>3
    <3>5. open[t].donuts \in Seq(Int)
      BY <1>1 DEF MemoryOK, OpenTierType
    <3>6. open[t].donuts = <<>>
      BY <3>4, <3>5, NoElements
    <3> QED BY <2>3, <3>6
  <2> QED BY <1>8, <2>1, <2>2, <2>3
<1>10. \A u \in Tiers : \A d \in DOMAIN open'[u].donuts :
         <<u, open'[u].folder, open'[u].donuts[d]>> \in DOMAIN donuts
  <2> SUFFICES ASSUME NEW u \in Tiers
               PROVE  \A d \in DOMAIN open'[u].donuts :
                        <<u, open'[u].folder, open'[u].donuts[d]>> \in DOMAIN donuts
    OBVIOUS
  <2>1. CASE open'[u] = open[u]
    BY <2>1 DEF Traced, InService
  <2>2. CASE open'[u] # open[u]
    <3>1. u = t /\ open'[u] = OpenedTier(t, job.off) /\ TierReadable(t, job.off)
      BY <1>8, <2>2
    <3> DEFINE opened == OpenedTier(t, job.off)
    <3>2. /\ opened.folder = job.off
          /\ \A d \in DOMAIN opened.donuts : <<t, job.off, opened.donuts[d]>> \in DOMAIN donuts
      BY <3>1, OpenedDonuts
    <3>3. open'[u] = opened
      BY <3>1
    <3> HIDE DEF opened
    <3> QED BY <3>1, <3>2, <3>3
  <2> QED BY <2>1, <2>2
<1>11. InService'
  <2>1. \A u \in Tiers : open'[u] # NilTier =>
          \/ open'[u].folder = tiersInfo'.offset[u]
          \/ open'[u].donuts = <<>> /\ <<u, tiersInfo'.offset[u]>> \notin DOMAIN donutFile
    <3> SUFFICES ASSUME NEW u \in Tiers, open'[u] # NilTier
                 PROVE  \/ open'[u].folder = tiersInfo'.offset[u]
                        \/ /\ open'[u].donuts = <<>>
                           /\ <<u, tiersInfo'.offset[u]>> \notin DOMAIN donutFile
      OBVIOUS
    <3>1. CASE u = t
      BY <1>4, <1>9, <3>1
    <3>2. CASE u # t
      BY <1>4, <1>8, <3>2 DEF Traced, InService
    <3> QED BY <3>1, <3>2
  <2> QED BY <1>1, <1>2, <1>10, <2>1 DEF InService, Up, SlotSteps, BakeInputSteps, BakeTierSteps
<1> QED BY <1>6, <1>7, <1>11 DEF Traced

\* The donut that is put in service has been there since it was baked.
LEMMA PublishNextTraced ==
  ASSUME Inductive, Traced, PublishNext
  PROVE  Traced'
<1> DEFINE t == job.tier
           now == Append(open[t].donuts, job.count - 1)
<1>1. /\ pc = "publish" /\ t \in Tiers /\ job.count \in Nat /\ pc' \in {"freezeTier", "idle"}
      /\ <<t, open[t].folder, job.count - 1>> \in DOMAIN donuts
      /\ UNCHANGED <<tierOffsets, inputs, donutFile, donuts, tiersInfo, input, stored>>
  BY DEF PublishNext, Return, DonutReadable, ControlOK, JobType, DonutSteps, disk, ghost
<1>2. open[t] # NilTier /\ TierFolder \in DOMAIN donutFile
  BY <1>1, BakeContext DEF OpenTiers, DonutSteps, SlotSteps
<1>3. open[t].folder = tiersInfo.offset[t]
  BY <1>1, <1>2 DEF Traced, InService, TierFolder
<1>4. /\ open'[t].folder = open[t].folder /\ open'[t].donuts = now
      /\ \A u \in Tiers \ {t} : open'[u] = open[u]
  <2>1. open' = [open EXCEPT ![t] = [open[t] EXCEPT !.donuts = now]]
    BY DEF PublishNext, Published
  <2>2. open[t] \in OpenTierType
    BY <1>1 DEF MemoryOK
  <2> HIDE DEF now
  <2>3. /\ [open[t] EXCEPT !.donuts = now].folder = open[t].folder
        /\ [open[t] EXCEPT !.donuts = now].donuts = now
    BY <2>2 DEF OpenTierType
  <2> QED BY <1>1, <2>1, <2>3 DEF MemoryOK
<1>5. \A d \in DOMAIN now : now[d] = job.count - 1 \/ \E c \in DOMAIN open[t].donuts : now[d] = open[t].donuts[c]
  <2> DEFINE was == open[t].donuts
             new == job.count - 1
  <2>1. was \in Seq(Int) /\ new \in Int
    <3>1. open[t] \in OpenTierType
      BY <1>1 DEF MemoryOK
    <3> QED BY <1>1, <3>1 DEF OpenTierType
  <2> HIDE DEF was, new
  <2>2. \A d \in DOMAIN Append(was, new) :
          Append(was, new)[d] = new \/ \E c \in DOMAIN was : Append(was, new)[d] = was[c]
    BY <2>1
  <2> QED BY <2>2 DEF was, new
<1> HIDE DEF now
<1>6. OnlyStored' /\ Indexed' /\ JobIndexed' /\ OrderWithin'
  BY <1>1 DEF Traced, OnlyStored, OnDisk, Indexed, DonutOffset, JobIndexed, OrderWithin, Recorded,
     LeadsWithin, SlotSteps, BakeInputSteps, BakeTierSteps
<1>7. InService'
  <2>1. \A u \in Tiers : open'[u] # NilTier =>
          \/ open'[u].folder = tiersInfo.offset[u]
          \/ open'[u].donuts = <<>> /\ <<u, tiersInfo.offset[u]>> \notin DOMAIN donutFile
    BY <1>3, <1>4 DEF Traced, InService
  <2>2. \A u \in Tiers : \A d \in DOMAIN open'[u].donuts :
          <<u, open'[u].folder, open'[u].donuts[d]>> \in DOMAIN donuts
    <3> SUFFICES ASSUME NEW u \in Tiers, NEW d \in DOMAIN open'[u].donuts
                 PROVE  <<u, open'[u].folder, open'[u].donuts[d]>> \in DOMAIN donuts
      OBVIOUS
    <3>1. CASE u = t
      BY <1>1, <1>4, <1>5, <3>1 DEF Traced, InService
    <3>2. CASE u # t
      BY <1>4, <3>2 DEF Traced, InService
    <3> QED BY <3>1, <3>2
  <2> QED BY <1>1, <2>1, <2>2 DEF InService, Up, SlotSteps, BakeInputSteps, BakeTierSteps
<1> QED BY <1>6, <1>7 DEF Traced

\* Nothing changes.
LEMMA StutterTraced ==
  ASSUME Traced, UNCHANGED vars
  PROVE  Traced'
BY DEF vars, disk, memory, ghost, Traced, OnlyStored, OnDisk, Indexed, DonutOffset, JobIndexed,
   TierFolder, OrderWithin, Recorded, LeadsWithin, UpdatesWithin, Slot, InService, Up

\* Every step of the cake keeps its files traced.
LEMMA NextTraced ==
  ASSUME Inductive, Traced, [Next]_vars
  PROVE  Traced'
<1>1. CASE Open \/ Close \/ Crash
  BY <1>1, OpenTraced, EndTraced
<1>2. CASE \E gpi \in Hashes : AppendHash(gpi) \/ AppendTooLarge(gpi)
  BY <1>2, AppendHashTraced, EndTraced
<1>3. CASE Freeze
  BY <1>3, FreezeTraced
<1>4. CASE NewDonutFolder
  BY <1>4, TierRecordTraced, TierFileTraced, DonutFolderTraced, FailTraced, EndTraced
     DEF NewDonutFolder
<1>5. CASE Bake
  BY <1>5, BakeInputTraced, RemoveInputTraced, BakePrefixTraced, DropPrefixTraced,
     BakeOrderTraced, RemoveTierTraced, FailTraced DEF Bake
<1>6. CASE Publish
  BY <1>6, IceTraced, PublishFirstTraced, PublishNextTraced, FreezeTierTraced DEF Publish
<1>7. CASE UNCHANGED vars
  BY <1>7, StutterTraced
<1> QED BY <1>1, <1>2, <1>3, <1>4, <1>5, <1>6, <1>7 DEF Next, Pipeline

\* A new cake has nothing to trace.
LEMMA InitTraced ==
  ASSUME Init
  PROVE  Traced
<1>1. /\ DOMAIN inputs = {0} /\ inputs[0].suffix = {} /\ input.entries = {}
      /\ DOMAIN donuts = {} /\ pc = "down" /\ \A t \in Tiers : open[t] = NilTier
  BY DEF Init, NewInput, NilInput
<1>2. OnlyStored
  BY <1>1 DEF OnlyStored, OnDisk, HashesOf, HashesIn
<1>3. Indexed /\ JobIndexed /\ OrderWithin
  BY <1>1 DEF Indexed, JobIndexed, OrderWithin, SlotSteps, BakeInputSteps, BakeTierSteps
<1>4. InService
  BY <1>1 DEF InService, Up, NilTier, SlotSteps, BakeInputSteps, BakeTierSteps
<1> QED BY <1>2, <1>3, <1>4 DEF Traced

\* From every entry on disk, in every reachable state, its files lead back to the index
\* that its hash was presented with: the copies of BakeFrozenInputTier, the rebased
\* indices of BakeFrozenTier and the DonutOffsets.txt they go by agree, whatever the
\* sizes, gaps, errors and crashes.
THEOREM FilesTraced == Spec => []Traced
<1>1. Init => Traced
  BY InitTraced
<1>2. Inductive /\ Traced /\ [Next]_vars => Traced'
  BY NextTraced
<1> HIDE DEF Inductive, TypeOK
<1> QED BY <1>1, <1>2, InductiveInvariant, PTL DEF Spec

(*****************************************************************************)
(* What the traced files are good for: the answers of LookupHash are the     *)
(* indices that were presented, the donuts they are read from do not change, *)
(* and the folders implement the append-only index that a caller is promised. *)
(*****************************************************************************)
\* A donut in service is in a folder that is recorded, and its open tier has the
\* offsets that the folder lists.
LEMMA ServedFacts ==
  ASSUME Inductive, Traced, NEW x \in Served
  PROVE  LET t == x[1]  d == x[2]  tier == open[t]
         IN  /\ Up /\ t \in Tiers /\ d \in 1 .. Donuts /\ d \in DOMAIN tier.donuts
             /\ tier # NilTier /\ tier.folder = tierOffsets.tier[t]
             /\ <<t, tier.folder, tier.donuts[d]>> \in DOMAIN donuts
             /\ tier.offsets = donutFile[<<t, tier.folder>>]
<1> DEFINE t == x[1]
           d == x[2]
           tier == open[t]
<1>1. t \in Tiers /\ d \in 1 .. Donuts /\ d <= Len(tier.donuts)
  BY DEF Served
<1>2. d \in DOMAIN tier.donuts
  <2>1. tier.donuts \in Seq(Int)
    BY <1>1 DEF MemoryOK, OpenTierType
  <2> DEFINE q == tier.donuts
  <2> HIDE DEF q
  <2>2. Len(q) \in Nat /\ DOMAIN q = 1 .. Len(q)
    BY <2>1 DEF q
  <2>3. d \in Nat /\ d >= 1
    BY <1>1
  <2> HIDE DEF d
  <2> QED BY <1>1, <2>2, <2>3 DEF q
<1>3. tier # NilTier
  BY <1>2 DEF NilTier
<1>4. Up
  BY <1>1, <1>3 DEF Traced, InService
<1>5. tier.folder = tiersInfo.offset[t]
  <2>1. tier.donuts # <<>>
    BY <1>2
  <2> QED BY <1>1, <1>3, <2>1 DEF Traced, InService
<1>6. tiersInfo.present[t]
  BY <1>1, <1>3 DEF OpenTiers
<1>7. tier.folder = tierOffsets.tier[t]
  BY <1>1, <1>4, <1>5, <1>6, RecordedTiers
<1>8. <<t, tier.folder, tier.donuts[d]>> \in DOMAIN donuts
  BY <1>1, <1>2 DEF Traced, InService
<1>9. <<t, tier.folder>> \in DOMAIN donutFile
  BY <1>8 DEF DonutsListed
<1>10. tier.offsets = donutFile[<<t, tier.folder>>]
  BY <1>1, <1>3, <1>5, <1>9 DEF OpenTiers
<1> QED BY <1>1, <1>2, <1>3, <1>4, <1>7, <1>8, <1>10

\* An index that a donut answers is a candidate that VerifyHash found to lead to the
\* hash, counted from the donut's offset.
LEMMA AnswerOf ==
  ASSUME NEW t, NEW d, NEW h \in Hashes, NEW r \in DonutAnswers(t, d, h), r \in Hashes
  PROVE  \E c \in Candidates(<<t, open[t].folder, open[t].donuts[d]>>, h) :
           /\ c # NoMatch /\ r = c + open[t].offsets[d]
           /\ "same" \in Verified(<<t, open[t].folder, d - 1>>, h, c)
<1>1. NoMatch \notin Hashes /\ Error \notin Hashes
  BY DEF NoMatch, Error
<1>2. \A s, c : Verified(s, h, c) \subseteq {"same", "differs", "error"}
  BY DEF Verified
<1> DEFINE files == <<t, open[t].folder, d - 1>>
           answer(c, v) == CASE v = "error" -> Error
                             [] v = "same" -> c + open[t].offsets[d]
                             [] v = "differs" -> NoMatch
           answers(c) == IF c = NoMatch THEN {NoMatch}
                         ELSE {answer(c, v) : v \in Verified(files, h, c)}
<1>3. PICK c \in Candidates(<<t, open[t].folder, open[t].donuts[d]>>, h) : r \in answers(c)
  BY DEF DonutAnswers
<1>4. c # NoMatch /\ r \in {answer(c, v) : v \in Verified(files, h, c)}
  BY <1>1, <1>3
<1>5. PICK v \in Verified(files, h, c) : r = answer(c, v)
  BY <1>4
<1>6. v = "same" /\ r = c + open[t].offsets[d]
  BY <1>1, <1>2, <1>5
<1> QED BY <1>3, <1>4, <1>5, <1>6

\* VerifyHash finds a hash in a donut of a recorded folder only if it is there.
LEMMA VerifiedIsThere ==
  ASSUME Inductive, Traced, NEW s, Recorded(s), NEW h \in Hashes, NEW c,
         "same" \in Verified(s, h, c)
  PROVE  s \in DOMAIN donuts /\ h \in HashesIn(donuts[s].suffix)
<1>1. s \in DOMAIN donuts /\ c \in DOMAIN donuts[s].order
  BY DEF Verified
<1>2. CASE donuts[s].order[c] \in Hashes
  <2>1. donuts[s].order[c] = h
    BY <1>1, <1>2 DEF Verified
  <2> QED BY <1>1, <1>2, <2>1, DonutTraced DEF LeadsWithin
<1>3. CASE donuts[s].order[c] \notin Hashes
  BY <1>1, <1>3 DEF Verified
<1> QED BY <1>1, <1>2, <1>3

\* The only candidates for a hash that a donut holds are its own indices.
LEMMA OwnCandidate ==
  ASSUME NEW s, NEW h, h \in HashesIn(donuts[s].suffix), NEW c \in Candidates(s, h)
  PROVE  \E e \in donuts[s].suffix : e.hash = h /\ e.pi = c
<1> DEFINE own == {e.pi : e \in {x \in donuts[s].suffix : x.hash = h}}
<1>1. PICK e \in donuts[s].suffix : e.hash = h
  BY DEF HashesIn
<1>2. e.pi \in own
  BY <1>1
<1>3. c \in own
  BY <1>2 DEF Candidates
<1> QED BY <1>3

\* A donut answers with an index only for a hash it holds, and with no other index
\* than the presented one if its icing is that of the folder it is verified in.
LEMMA DonutSound ==
  ASSUME Inductive, Traced, NEW x \in Served, NEW h \in Hashes,
         NEW r \in DonutAnswers(x[1], x[2], h), r \in Hashes
  PROVE  h \in stored /\ (r = h \/ Misnumbered(x))
<1> DEFINE t == x[1]
           d == x[2]
           tier == open[t]
           files == <<t, tier.folder, d - 1>>
           icing == <<t, tier.folder, tier.donuts[d]>>
<1>1. PICK c \in Candidates(icing, h) :
        r = c + tier.offsets[d] /\ "same" \in Verified(files, h, c)
  BY AnswerOf
<1>2. /\ t \in Tiers /\ d \in Int /\ tier.folder = tierOffsets.tier[t]
      /\ tier.offsets = donutFile[<<t, tier.folder>>]
  BY ServedFacts
<1>3. Recorded(files)
  BY <1>2 DEF Recorded
<1> HIDE DEF files
<1>4. files \in DOMAIN donuts /\ h \in HashesIn(donuts[files].suffix)
  BY <1>1, <1>3, VerifiedIsThere
<1>5. h \in stored
  BY <1>4, DonutTraced
<1>6. CASE ~Misnumbered(x)
  <2>1. icing = files
    BY <1>6 DEF Misnumbered, files
  <2> HIDE DEF icing
  <2>2. PICK e \in donuts[files].suffix : e.hash = h /\ e.pi = c
    <3>1. c \in Candidates(files, h)
      BY <1>1, <2>1
    <3>2. h \in HashesIn(donuts[files].suffix)
      BY <1>4
    <3>3. \A s, k : k \in HashesIn(donuts[s].suffix) =>
            \A b \in Candidates(s, k) : \E e \in donuts[s].suffix : e.hash = k /\ e.pi = b
      BY OwnCandidate
    <3> QED BY <3>1, <3>2, <3>3
  <2>3. h = c + DonutOffset(files)
    BY <1>4, <2>2, DonutTraced
  <2>4. DonutOffset(files) = tier.offsets[d]
    <3>1. d - 1 + 1 = d
      BY <1>2
    <3> HIDE DEF d
    <3> QED BY <1>2, <3>1 DEF DonutOffset, files
  <2> QED BY <1>1, <1>5, <2>3, <2>4
<1> QED BY <1>5, <1>6

\* An answer of the tiers other than "no match" is that of a donut the lookup reaches.
LEMMA TierAnswer ==
  ASSUME NEW h, NEW r \in LookupTiers(h), r # NoMatch
  PROVE  \E x \in Reached(h) : r \in DonutAnswers(x[1], x[2], h)
<1>1. \/ r \in UNION {DonutAnswers(x[1], x[2], h) \ {NoMatch} : x \in Reached(h)}
      \/ r \in {NoMatch}
  BY DEF LookupTiers
<1> QED BY <1>1

\* An answer of Cake.LookupHash that is an index is the input tier's or some donut's.
LEMMA LookupAnswer ==
  ASSUME NEW h \in Hashes, NEW r \in LookupHash(h), r \in Hashes
  PROVE  \/ \E e \in input.entries : e.hash = h /\ r = e.pi + input.offset
         \/ \E x \in Served : r \in DonutAnswers(x[1], x[2], h)
<1>1. NoMatch \notin Hashes
  BY DEF NoMatch
<1> DEFINE own == {e \in input.entries : e.hash = h}
<1>2. CASE own # {}
  BY <1>2 DEF LookupHash
<1>3. CASE own = {}
  <2>1. r \in LookupTiers(h)
    BY <1>3 DEF LookupHash
  <2>2. \E x \in Reached(h) : r \in DonutAnswers(x[1], x[2], h)
    BY <1>1, <2>1, TierAnswer
  <2> QED BY <2>2 DEF Reached
<1> QED BY <1>2, <1>3

\* The files lead each answer back to the index it was presented with.
LEMMA LookupSoundTraced ==
  ASSUME Inductive, Traced
  PROVE  LookupSound
<1> SUFFICES ASSUME NEW h \in Hashes, NEW r \in LookupHash(h), r \in Hashes
             PROVE  /\ h \in stored
                    /\ r = h \/ \E x \in Served :
                                  Misnumbered(x) /\ r \in DonutAnswers(x[1], x[2], h)
  BY DEF LookupSound
<1>1. CASE \E e \in input.entries : e.hash = h /\ r = e.pi + input.offset
  BY <1>1 DEF Traced, OnlyStored, Indexed, HashesIn
<1>2. CASE \E x \in Served : r \in DonutAnswers(x[1], x[2], h)
  BY <1>2, DonutSound
<1> QED BY <1>1, <1>2, LookupAnswer

\* An index that LookupHash answers is the one that the hash was presented with, whatever
\* the sizes, the prefixes, the trees' mistakes, the gaps, errors and crashes, but for
\* the donuts that came after one that was never made.
THEOREM LookupsSound == Spec => []LookupSound
<1>1. Inductive /\ Traced => LookupSound
  BY LookupSoundTraced
<1> HIDE DEF Inductive, TypeOK
<1> QED BY <1>1, InductiveInvariant, FilesTraced, PTL

\* A bake writes to the donut it is making, and removes what it takes from donuts of
\* the tier below; no donut in service is one of them.
LEMMA ServedAside ==
  ASSUME Inductive, Traced, NEW x \in Served, pc \in SlotSteps
  PROVE  LET slot == <<x[1], open[x[1]].folder, open[x[1]].donuts[x[2]]>>
         IN  slot # Slot /\ (job.tier > 0 => slot[1] # job.tier - 1)
<1> DEFINE t == x[1]
           slot == <<t, open[t].folder, open[t].donuts[x[2]]>>
<1>1. t \in Tiers /\ x[2] \in DOMAIN open[t].donuts /\ open[t] # NilTier
  BY ServedFacts
<1>2. job.tier \in Tiers
  BY BakeContext
<1>3. slot # Slot
  BY <1>1 DEF Traced, InService, Slot
<1>4. job.tier > 0 => open[job.tier - 1] = NilTier
  <2> SUFFICES ASSUME job.tier > 0 PROVE open[job.tier - 1] = NilTier
    OBVIOUS
  <2>1. Baking
    BY DEF Baking, SlotSteps, BakeInputSteps, BakeTierSteps, DonutSteps
  <2>2. job.tier - 1 \in Tiers /\ job.tier - 1 < job.tier
    BY <1>2
  <2>3. ~tiersInfo.present[job.tier - 1]
    BY <2>1, <2>2 DEF TiersNewer
  <2> QED BY <2>2, <2>3 DEF OpenTiers
<1> QED BY <1>1, <1>3, <1>4

\* A step leaves a donut in service as it is.
LEMMA ServedKept ==
  ASSUME Inductive, Traced, Next, NEW x \in Served
  PROVE  LET slot == <<x[1], open[x[1]].folder, open[x[1]].donuts[x[2]]>>
         IN  slot \in DOMAIN donuts' /\ donuts'[slot] = donuts[slot]
<1> DEFINE slot == <<x[1], open[x[1]].folder, open[x[1]].donuts[x[2]]>>
<1> SUFFICES slot \in DOMAIN donuts' /\ donuts'[slot] = donuts[slot]
  OBVIOUS
<1>1. slot \in DOMAIN donuts
  BY ServedFacts
<1>2. CASE UNCHANGED donuts
  BY <1>1, <1>2
<1>3. CASE BakeInput \/ BakePrefix \/ BakeTierFails \/ BakeOrder \/ BakeOrderFails \/ Ice
  <2>1. pc \in SlotSteps
    BY <1>3 DEF BakeInput, BakePrefix, BakeTierFails, BakeOrder, BakeOrderFails, Ice, SlotSteps,
       BakeInputSteps, BakeTierSteps
  <2>2. slot # Slot
    BY <2>1, ServedAside
  <2> HIDE DEF slot
  <2>3. CASE \E made : donuts' = Put(donuts, Slot, made)
    BY <1>1, <2>2, <2>3 DEF Put
  <2>4. CASE BakeOrder \/ BakeOrderFails \/ Ice
    BY <1>1, <2>2, <2>4 DEF BakeOrder, BakeOrderFails, Ice
  <2>5. CASE BakeInput \/ BakePrefix \/ BakeTierFails
    BY <1>2, <2>3, <2>5 DEF BakeInput, BakePrefix, BakeTierFails
  <2> QED BY <1>3, <2>4, <2>5
<1>4. CASE DropPrefix \/ RemoveTier
  <2>1. pc \in SlotSteps /\ job.tier > 0
    BY <1>4 DEF DropPrefix, RemoveTier, SlotSteps, BakeTierSteps, JobFits
  <2>2. slot[1] # job.tier - 1
    BY <2>1, ServedAside
  <2> HIDE DEF slot
  <2>3. CASE DropPrefix
    <3>1. slot \notin Sources
      BY <2>2 DEF Sources, Source
    <3> QED BY <1>1, <2>3, <3>1 DEF DropPrefix
  <2>4. CASE RemoveTier
    BY <1>1, <2>2, <2>4 DEF RemoveTier, Drop, Restrict
  <2> QED BY <1>4, <2>3, <2>4
<1>5. UNCHANGED donuts \/ DropPrefix \/ RemoveTier
        \/ BakeInput \/ BakePrefix \/ BakeTierFails \/ BakeOrder \/ BakeOrderFails \/ Ice
  BY DEF Next, Open, Close, Crash, AppendHash, AppendTooLarge, Pipeline, Freeze, FreezeCreate,
     FreezeRecord, FreezeSwitch, FreezeSeal, NewDonutFolder, TierRecord, TierFile, DonutFolder,
     DonutRefused, TopTierPanic, Bake, BakeInputFails, RemoveInput, Publish, PublishFirst,
     PublishNext, FreezeTier, Fail, disk
<1> QED BY <1>2, <1>3, <1>4, <1>5

\* The files that a lookup reads in the donuts of an open tier never change under it:
\* a tier is out of service before BakeFrozenTier takes it apart, and a donut is in
\* service only after it is iced.
THEOREM ServedStaysImmutable == Spec => ServedImmutable
<1> DEFINE Immutable == \A x \in Served :
             LET slot == <<x[1], open[x[1]].folder, open[x[1]].donuts[x[2]]>>
             IN  open'[x[1]] # NilTier => slot \in DOMAIN donuts' /\ donuts'[slot] = donuts[slot]
<1>1. Inductive /\ Traced /\ [Next]_vars => [Immutable]_vars
  BY ServedKept
<1> HIDE DEF Inductive, TypeOK, Immutable
<1>2. Spec => [][Immutable]_vars
  BY <1>1, InductiveInvariant, FilesTraced, PTL DEF Spec
<1> QED BY <1>2 DEF ServedImmutable, Immutable

\* Only AppendHash stores anything, and then a hash that is after all others.
LEMMA StoredStep ==
  ASSUME Inductive, InputAhead, [Next]_vars, stored' # stored
  PROVE  \E gpi \in Hashes \ stored : stored' = stored \cup {gpi} /\ \A h \in stored : h < gpi
<1>1. PICK gpi \in Hashes : AppendHash(gpi)
  BY DEF vars, ghost, Next, Open, Close, Crash, AppendTooLarge, Panic, Pipeline, Freeze,
     FreezeCreate, FreezeRecord, FreezeSwitch, FreezeSeal, NewDonutFolder, TierRecord, TierFile,
     DonutFolder, DonutRefused, TopTierPanic, Bake, BakeInput, BakeInputFails, RemoveInput,
     BakePrefix, BakeTierFails, DropPrefix, BakeOrder, BakeOrderFails, RemoveTier, Publish, Ice,
     PublishFirst, PublishNext, FreezeTier, Fail, GiveUp
<1>2. /\ pc = "idle" /\ Up /\ input.offset + input.count <= gpi /\ stored' = stored \cup {gpi}
  BY <1>1 DEF AppendHash, Presentable, Up
<1>3. \A h \in stored : h < input.offset + input.count
  BY <1>2, CurrentOffset DEF InputAhead
<1>4. input.offset \in Nat /\ input.count \in Nat /\ stored \subseteq Int
  BY <1>2, CurrentOffset, InputCounts DEF InputAhead, ControlOK
<1>5. \A h \in stored : h < gpi
  BY <1>2, <1>3, <1>4
<1>6. gpi \notin stored
  BY <1>5
<1> QED BY <1>2, <1>5, <1>6

\* The folders of a cake implement the append-only index of HashIndex, through every
\* bake, error, crash and restart: a hash goes in once, with a later index than all
\* others, and is neither changed nor lost.
THEOREM ArchiveImplemented == Spec => ArchiveSpec
<1> DEFINE index == [h \in OnDisk |-> h]
<1>1. Init => Archive!Init
  <2> SUFFICES ASSUME Init PROVE OnDisk = {}
    BY DEF Archive!Init
  <2> QED BY DEF Init, NewInput, OnDisk, HashesOf, HashesIn
<1>2. ASSUME Inductive, Traced, InputAhead, Inductive', Traced', [Next]_vars
      PROVE  Archive!Next \/ UNCHANGED index
  <2>1. OnDisk = stored /\ OnDisk' = stored' /\ stored' \subseteq Hashes
    BY <1>2 DEF Traced, OnlyStored, Durable, ControlOK
  <2>2. CASE stored' = stored
    BY <2>1, <2>2
  <2>3. CASE stored' # stored
    <3>1. PICK gpi \in Hashes \ stored :
            stored' = stored \cup {gpi} /\ \A h \in stored : h < gpi
      BY <1>2, <2>3, StoredStep
    <3>2. Archive!Append(gpi)
      BY <2>1, <3>1 DEF Archive!Append
    <3> QED BY <2>1, <3>1, <3>2 DEF Archive!Next
  <2> QED BY <2>2, <2>3
<1> HIDE DEF Inductive, TypeOK
<1> QED BY <1>1, <1>2, InductiveInvariant, FilesTraced, InputStaysAhead, PTL
        DEF Spec, ArchiveSpec, Archive!Spec

(***************************************************************************)
(* Tidy is inductive with Inductive, Traced and InputAhead: as long as no  *)
(* AppendHash broke off, every folder in the cake is accounted for by the  *)
(* records or by the step that AppendHash is at. So bakes clean up after   *)
(* themselves, and what is on disk is what memory has.                     *)
(***************************************************************************)
InputSteps == {"idle"} \cup FreezeSteps

\* A step past the freezing of the input tier that leaves the input folders alone.
LEMMA InputSideKept ==
  ASSUME InputsTidy, InputTidy, UNCHANGED <<inputs, input>>,
         tierOffsets'.input = tierOffsets.input, FrozenInputs' = FrozenInputs,
         pc \notin {"down", "freezeCreate", "freezeRecord", "freezeSwitch"},
         pc' \notin {"freezeRecord", "freezeSwitch"}
  PROVE  InputsTidy' /\ InputTidy'
<1>1. NewInputs = {} /\ NewInputs' = {}
  BY DEF NewInputs
<1>2. InputsTidy'
  BY <1>1 DEF InputsTidy
<1>3. InputTidy'
  BY DEF InputTidy, OpenedInput, Up
<1> QED BY <1>2, <1>3

\* Where AppendHash has no frozen tier in hand, the folders are those recorded.
LEMMA NothingFrozen ==
  ASSUME pc \notin {"newDonut", "tierFile"} \cup BakeTierSteps \/ job.tier = 0
  PROVE  FrozenFolders = {}
BY DEF FrozenFolders

\* A step of the input tier: the tiers above it are not in the making.
LEMMA FilesKeptTidy ==
  ASSUME FoldersTidy, DonutsTidy, NamedByFirst,
         UNCHANGED <<donutFile, donuts>>, tierOffsets'.tier = tierOffsets.tier,
         pc \in {"down"} \cup InputSteps, pc' \in {"down", "newDonut"} \cup InputSteps,
         pc' = "newDonut" => job'.tier = 0
  PROVE  FoldersTidy' /\ DonutsTidy' /\ NamedByFirst'
<1> USE DEF InputSteps, FreezeSteps, SlotSteps, BakeInputSteps, BakeTierSteps
<1>1. FoldersTidy'
  BY DEF FoldersTidy, RecordedFolders, NotYetMade, FrozenFolders
<1>2. DonutsTidy'
  BY DEF DonutsTidy, NotYetBaked, NotYetIced
<1>3. NamedByFirst'
  BY DEF NamedByFirst
<1> QED BY <1>1, <1>2, <1>3

\* It leaves the tiers in memory as they are, too.
LEMMA TierSideKept ==
  ASSUME FoldersTidy, DonutsTidy, NamedByFirst, MemoryTidy,
         UNCHANGED <<donutFile, donuts, open>>, tierOffsets'.tier = tierOffsets.tier,
         tiersInfo'.offset = tiersInfo.offset, tiersInfo'.present = tiersInfo.present,
         pc \in InputSteps, pc' \in {"newDonut"} \cup InputSteps,
         pc' = "newDonut" => job'.tier = 0
  PROVE  FoldersTidy' /\ DonutsTidy' /\ NamedByFirst' /\ MemoryTidy'
<1>1. MemoryTidy'
  BY DEF MemoryTidy, Unpublished, Up, InputSteps, FreezeSteps, SlotSteps, BakeInputSteps, BakeTierSteps
<1> QED BY <1>1, FilesKeptTidy

\* Numbering from 0 on: nothing to number, and one more.
LEMMA NumberedFacts ==
  /\ Numbered(0) = <<>>
  /\ \A n \in Nat : Append(Numbered(n), n) = Numbered(n + 1)
<1>1. \A n \in Nat : Numbered(n) \in Seq(Int) /\ Len(Numbered(n)) = n
  BY DEF Numbered
<1>2. Numbered(0) = <<>>
  <2>1. Numbered(0) \in Seq(Int) /\ DOMAIN Numbered(0) = {}
    BY DEF Numbered
  <2> QED BY <2>1, NoElements
<1>3. ASSUME NEW n \in Nat
      PROVE  Append(Numbered(n), n) = Numbered(n + 1)
  BY <1>1 DEF Numbered
<1> QED BY <1>2, <1>3

\* CakeFactory.Open brings what is recorded into memory.
LEMMA OpenTidy ==
  ASSUME Inductive, AllTidy, Open
  PROVE  AllTidy'
<1> USE DEF FreezeSteps, SlotSteps, BakeInputSteps, BakeTierSteps
<1>1. /\ pc = "down" /\ pc' = "idle" /\ UNCHANGED <<tierOffsets, inputs, donutFile, donuts, job>>
      /\ tiersInfo' = FromFile(tierOffsets)
      /\ input' = OpenedInput(tierOffsets.input)
  BY DEF Open, disk
<1>2. InputsTidy' /\ InputTidy'
  BY <1>1 DEF AllTidy, InputsTidy, InputTidy, NewInputs, FrozenInputs, InputInHand, Baking,
     DonutSteps, OpenedInput
<1>3. FoldersTidy' /\ DonutsTidy' /\ NamedByFirst'
  BY <1>1, FilesKeptTidy DEF AllTidy, InputSteps
<1>4. ASSUME NEW t \in Tiers
      PROVE  /\ open'[t] = NilTier <=> ~tiersInfo'.present[t]
             /\ open'[t] # NilTier =>
                  /\ open'[t].folder = tiersInfo'.offset[t]
                  /\ <<t, tiersInfo'.offset[t]>> \in DOMAIN donutFile
                  /\ open'[t].donuts = Numbered(Len(open'[t].offsets))
  <2> DEFINE o == tierOffsets.tier[t]
  <2>1. /\ tiersInfo'.present[t] <=> o # Absent
        /\ o # Absent => tiersInfo'.offset[t] = o
    BY <1>1, FromFileFacts
  <2>2. CASE o = Absent
    BY <2>1, <2>2 DEF Open
  <2>3. CASE o # Absent
    <3>1. open'[t] = OpenedTier(t, o) /\ TierReadable(t, o)
      BY <2>3 DEF Open, Openable
    <3>2. o \in Nat /\ <<t, o>> \in DOMAIN donutFile
      BY <2>3, <3>1 DEF TierOffsetsType, TierReadable
    <3>3. OpenedTier(t, o) # NilTier
      BY <3>2, OpenedTierType
    <3>4. /\ OpenedTier(t, o).folder = o /\ OpenedTier(t, o).offsets = donutFile[<<t, o>>]
          /\ OpenedTier(t, o).donuts = Numbered(Len(donutFile[<<t, o>>]))
      BY DEF OpenedTier, Numbered
    <3> HIDE DEF o
    <3> QED BY <2>1, <2>3, <3>1, <3>2, <3>3, <3>4
  <2> QED BY <2>2, <2>3
<1>5. MemoryTidy'
  <2>1. \A t \in Tiers : Len(open'[t].offsets) \in Nat => Len(open'[t].offsets) - 0 = Len(open'[t].offsets)
    OBVIOUS
  <2>2. \A t \in Tiers : open'[t] \in OpenTierType
    BY OpenStep DEF MemoryOK
  <2>3. \A t \in Tiers : Len(open'[t].offsets) - 0 = Len(open'[t].offsets)
    BY <2>1, <2>2 DEF OpenTierType
  <2> QED BY <1>1, <1>4, <2>3 DEF MemoryTidy, Unpublished
<1> QED BY <1>2, <1>3, <1>5 DEF AllTidy

\* Close leaves the files, with nothing in hand.
LEMMA CloseTidy ==
  ASSUME Inductive, AllTidy, Close
  PROVE  AllTidy'
<1> USE DEF FreezeSteps, SlotSteps, BakeInputSteps, BakeTierSteps
<1>1. /\ pc = "idle" /\ pc' = "down" /\ UNCHANGED <<tierOffsets, inputs, donutFile, donuts>>
  BY DEF Close, Forget, disk
<1>2. InputsTidy' /\ InputTidy'
  BY <1>1 DEF AllTidy, InputsTidy, InputTidy, NewInputs, FrozenInputs, InputInHand, Baking,
     DonutSteps, OpenedInput, Up
<1>3. FoldersTidy' /\ DonutsTidy' /\ NamedByFirst'
  BY <1>1, FilesKeptTidy DEF AllTidy, InputSteps
<1>4. MemoryTidy'
  BY <1>1 DEF MemoryTidy, Up
<1> QED BY <1>2, <1>3, <1>4 DEF AllTidy

\* AppendHash writes the last entry of the current folder, and notices when that
\* makes it full.
LEMMA AppendHashTidy ==
  ASSUME Inductive, AllTidy, NEW gpi \in Hashes, AppendHash(gpi)
  PROVE  AllTidy'
<1> DEFINE current == tierOffsets.input
           localPi == gpi - input.offset
           new == Entry(gpi, localPi)
<1>1. /\ pc = "idle" /\ pc' \in {"idle", "freezeCreate"} /\ Presentable(gpi)
      /\ pc' = "freezeCreate" <=> localPi + 1 = Cap
      /\ UNCHANGED <<tierOffsets, donutFile, donuts, tiersInfo, open, job>>
  BY DEF AppendHash, Presentable
<1>2. /\ current = input.offset /\ current \in Nat /\ current \in DOMAIN inputs
      /\ inputs[current] \in InputFolderType
  <2>1. Up
    BY <1>1 DEF Up
  <2> QED BY <1>1, <2>1, CurrentOffset, InputCounts
<1>3. /\ input = OpenedInput(current) /\ input.count = inputs[current].count
      /\ input.count \in Nat
      /\ MaxGap = 0 => input.count < Cap
      /\ \A e \in inputs[current].suffix : e.pi < input.count
  <2>1. input = OpenedInput(current)
    BY <1>1 DEF AllTidy, InputTidy, Up
  <2>2. input.count = inputs[current].count
    BY <2>1 DEF OpenedInput
  <2>3. MaxGap = 0 => input.count < Cap
    BY <1>1, <2>2 DEF AllTidy, InputTidy
  <2>4. \A e \in inputs[current].suffix : e.pi < input.count
    BY <2>2 DEF AllTidy, InputTidy
  <2> QED BY <1>2, <2>1, <2>2, <2>3, <2>4 DEF InputFolderType
<1>4. /\ DOMAIN inputs' = DOMAIN inputs
      /\ inputs'[current] = Grown(inputs[current], localPi + 1, new)
      /\ input' = GrownInput(input, localPi + 1, new)
  BY <1>2 DEF AppendHash, Grown, GrownInput
<1>5. /\ localPi \in Nat /\ input.count <= localPi
      /\ MaxGap = 0 => localPi = input.count
  <2>1. gpi \in Nat /\ MaxGap \in Nat /\ input.offset + input.count <= gpi
        /\ gpi <= input.offset + input.count + MaxGap
    BY <1>1 DEF Presentable
  <2> DEFINE n == input.count
             o == input.offset
  <2>2. o \in Nat /\ n \in Nat
    BY <1>2, <1>3
  <2>3. gpi \in Nat /\ MaxGap \in Nat /\ o + n <= gpi /\ gpi <= o + n + MaxGap
    BY <2>1
  <2> HIDE DEF n, o
  <2>4. gpi - o \in Nat /\ n <= gpi - o
    BY <2>2, <2>3
  <2>5. MaxGap = 0 => gpi - o = n
    BY <2>2, <2>3
  <2> QED BY <2>4, <2>5 DEF n, o
<1>6. new.pi = localPi
  BY DEF Entry
<1> HIDE DEF current, localPi, new
<1>7. /\ inputs'[current].count = localPi + 1
      /\ inputs'[current].suffix = inputs[current].suffix \cup {new}
      /\ input'.offset = current /\ input'.count = localPi + 1
      /\ input'.entries = input.entries \cup {new}
  BY <1>2, <1>3, <1>4 DEF Grown, GrownInput, InputFolderType, OpenedInput
<1>8. input' = [offset |-> current, count |-> inputs'[current].count,
                entries |-> inputs'[current].suffix]
  <2>1. input.entries = inputs[current].suffix
    BY <1>3 DEF OpenedInput
  <2>2. input' = [offset |-> input'.offset, count |-> input'.count, entries |-> input'.entries]
    BY <1>3, <1>4 DEF GrownInput, OpenedInput
  <2> QED BY <1>7, <2>1, <2>2
<1>9. InputTidy'
  <2>1. \E e \in inputs'[current].suffix : e.pi = inputs'[current].count - 1
    <3>1. new \in inputs'[current].suffix
      BY <1>7
    <3>2. new.pi = inputs'[current].count - 1
      BY <1>5, <1>6, <1>7
    <3> QED BY <3>1, <3>2
  <2>2. \A e \in inputs'[current].suffix : e.pi < inputs'[current].count
    <3> SUFFICES ASSUME NEW e \in inputs'[current].suffix
                 PROVE  e.pi < inputs'[current].count
      OBVIOUS
    <3>1. CASE e = new
      BY <1>5, <1>6, <1>7, <3>1
    <3>2. CASE e \in inputs[current].suffix
      <4>1. e.pi < input.count /\ e.pi \in Int
        BY <1>2, <1>3, <3>2 DEF InputFolderType, EntryType
      <4>2. input.count \in Nat /\ localPi \in Nat /\ input.count <= localPi
        BY <1>3, <1>5
      <4>3. e.pi < localPi + 1
        BY <4>1, <4>2
      <4> QED BY <1>7, <4>3
    <3> QED BY <1>7, <3>1, <3>2
  <2>3. MaxGap = 0 => \/ inputs'[current].count < Cap
                      \/ inputs'[current].count = Cap /\ pc' = "freezeCreate"
    BY <1>1, <1>3, <1>5, <1>7
  <2> QED BY <1>1, <1>8, <2>1, <2>2, <2>3 DEF InputTidy, OpenedInput, current
<1>10. InputsTidy'
  BY <1>1, <1>4 DEF AllTidy, InputsTidy, NewInputs, FrozenInputs, InputInHand, Baking, DonutSteps
<1>11. FoldersTidy' /\ DonutsTidy' /\ NamedByFirst' /\ MemoryTidy'
  BY <1>1, TierSideKept DEF AllTidy, InputSteps, FreezeSteps
<1> QED BY <1>9, <1>10, <1>11 DEF AllTidy

\* The next input folder is empty, and comes after the current one.
LEMMA FreezeCreateTidy ==
  ASSUME Inductive, AllTidy, FreezeCreate
  PROVE  AllTidy'
<1> DEFINE current == tierOffsets.input
           next == NextOffset
<1>1. /\ pc = "freezeCreate" /\ pc' = "freezeRecord" /\ NextOffset' = next
      /\ UNCHANGED <<tierOffsets, donutFile, donuts, tiersInfo, input, open, job>>
  BY DEF FreezeCreate, memory, NextOffset
<1>2. current \in DOMAIN inputs /\ next # current
  <2>1. Up
    BY <1>1 DEF Up
  <2>2. tiersInfo.input = current /\ current \in Nat /\ current \in DOMAIN inputs
    BY <1>1, <2>1, CurrentOffset DEF MemoryOnDisk
  <2>3. input.count = Cap /\ Cap \in Nat \ {0}
    BY <1>1 DEF JobFits
  <2> HIDE DEF current
  <2> QED BY <2>2, <2>3 DEF NextOffset
<1>3. /\ DOMAIN inputs' = DOMAIN inputs \cup {next} /\ inputs'[next] = NewInput
      /\ inputs'[current] = inputs[current]
  BY <1>2 DEF FreezeCreate, Put
<1> HIDE DEF next
<1>4. InputsTidy'
  BY <1>1, <1>3 DEF AllTidy, InputsTidy, NewInputs, FrozenInputs, InputInHand, Baking, DonutSteps
<1>5. InputTidy'
  BY <1>1, <1>3 DEF AllTidy, InputTidy, OpenedInput, Up
<1>6. FoldersTidy' /\ DonutsTidy' /\ NamedByFirst' /\ MemoryTidy'
  BY <1>1, TierSideKept DEF AllTidy, InputSteps, FreezeSteps
<1> QED BY <1>4, <1>5, <1>6 DEF AllTidy

\* The full folder is in hand as soon as the next one is recorded.
LEMMA FreezeRecordTidy ==
  ASSUME Inductive, AllTidy, FreezeRecord
  PROVE  AllTidy'
<1> DEFINE current == tierOffsets.input
           next == NextOffset
<1>1. /\ pc = "freezeRecord" /\ pc' = "freezeSwitch" /\ Up
      /\ UNCHANGED <<inputs, donutFile, donuts, input, open>>
      /\ job'.off = tiersInfo.input /\ job'.tier = 0
  BY DEF FreezeRecord, NoJob, Up
<1>2. tiersInfo \in TiersInfoType /\ tierOffsets = OnFile(tiersInfo)
  BY <1>1 DEF MemoryOK, MemoryOnDisk
<1>3. /\ tiersInfo'.input = next /\ tiersInfo'.offset = tiersInfo.offset
      /\ tiersInfo'.present = tiersInfo.present
  BY <1>2 DEF FreezeRecord, TiersInfoType
<1>4. /\ tiersInfo.input = current
      /\ tierOffsets'.input = next /\ tierOffsets'.tier = tierOffsets.tier
  BY <1>2, <1>3 DEF FreezeRecord, OnFile
<1>5. DOMAIN inputs = {current, next} /\ inputs[next] = NewInput
  BY <1>1 DEF AllTidy, InputsTidy, NewInputs, FrozenInputs, InputInHand, Baking, DonutSteps
<1> HIDE DEF next
<1>6. InputsTidy'
  BY <1>1, <1>4, <1>5 DEF InputsTidy, NewInputs, FrozenInputs, InputInHand, Baking, DonutSteps
<1>7. InputTidy'
  BY <1>1, <1>4, <1>5 DEF InputTidy, NewInput
<1>8. FoldersTidy' /\ DonutsTidy' /\ NamedByFirst' /\ MemoryTidy'
  BY <1>1, <1>3, <1>4, TierSideKept DEF AllTidy, InputSteps, FreezeSteps
<1> QED BY <1>6, <1>7, <1>8 DEF AllTidy

\* Opening the next folder and sealing the full one keep both where they are.
LEMMA SwitchAndSealTidy ==
  ASSUME Inductive, AllTidy, FreezeSwitch \/ FreezeSeal
  PROVE  AllTidy'
<1>1. /\ pc \in {"freezeSwitch", "freezeSeal"} /\ pc' \in {"freezeSeal", "newDonut"}
      /\ UNCHANGED <<tierOffsets, donutFile, donuts, tiersInfo, open, job>>
      /\ job.tier = 0
  BY DEF FreezeSwitch, FreezeSeal, disk, memory, JobFits
<1>2. tierOffsets.input = tiersInfo.input /\ job.off < tierOffsets.input /\ tierOffsets.input \in Nat
  <2>1. Up
    BY <1>1 DEF Up
  <2> QED BY <1>1, <2>1, CurrentOffset DEF MemoryOnDisk, Offsets, Baking
<1>3. /\ DOMAIN inputs' = DOMAIN inputs
      /\ inputs'[tierOffsets.input] = inputs[tierOffsets.input]
      /\ input' = IF pc = "freezeSwitch" THEN OpenedInput(tierOffsets.input) ELSE input
  <2>1. CASE FreezeSwitch
    BY <1>2, <2>1 DEF FreezeSwitch, disk
  <2>2. CASE FreezeSeal
    <3>1. job.off # tierOffsets.input
      BY <1>2 DEF ControlOK, JobType
    <3> QED BY <2>2, <3>1 DEF FreezeSeal, memory
  <2> QED BY <2>1, <2>2
<1>4. InputsTidy'
  BY <1>1, <1>3 DEF AllTidy, InputsTidy, NewInputs, FrozenInputs, InputInHand, Baking, DonutSteps
<1>5. InputTidy'
  BY <1>1, <1>3 DEF AllTidy, InputTidy, OpenedInput, Up
<1>6. FoldersTidy' /\ DonutsTidy' /\ NamedByFirst' /\ MemoryTidy'
  BY <1>1, TierSideKept DEF AllTidy, InputSteps, FreezeSteps
<1> QED BY <1>4, <1>5, <1>6 DEF AllTidy

\* The recorded tiers are those that memory says are present.
LEMMA RecordedFolder ==
  ASSUME Inductive, Up, NEW t \in Tiers, NEW o
  PROVE  <<t, o>> \in RecordedFolders <=> tiersInfo.present[t] /\ o = tiersInfo.offset[t]
<1>1. /\ tierOffsets.tier[t] = IF tiersInfo.present[t] THEN tiersInfo.offset[t] ELSE Absent
      /\ tiersInfo.offset[t] # Absent
  BY RecordedTiers DEF MemoryOK, TiersInfoType, Absent
<1> QED BY <1>1 DEF RecordedFolders

\* A tier is recorded where there was none, and there is no folder in its way.
LEMMA TierRecordTidy ==
  ASSUME Inductive, AllTidy, TierRecord
  PROVE  AllTidy'
<1> DEFINE t == job.tier
<1>1. /\ pc = "newDonut" /\ pc' = "tierFile" /\ t \in Tiers /\ open[t] = NilTier
      /\ Up /\ job.off \in Nat
      /\ UNCHANGED <<inputs, donutFile, donuts, input, open, job>>
  BY DEF TierRecord, Up, ControlOK, JobType
<1>2. /\ tierOffsets'.input = tierOffsets.input /\ tierOffsets.tier[t] = Absent
      /\ tierOffsets'.tier[t] = job.off /\ tiersInfo'.present[t] /\ tiersInfo'.offset[t] = job.off
      /\ \A u \in Tiers \ {t} : /\ tiersInfo'.present[u] = tiersInfo.present[u]
                                /\ tiersInfo'.offset[u] = tiersInfo.offset[u]
                                /\ tierOffsets'.tier[u] = tierOffsets.tier[u]
  <2>1. tiersInfo \in TiersInfoType /\ tierOffsets = OnFile(tiersInfo)
    BY <1>1 DEF MemoryOK, MemoryOnDisk
  <2>2. tiersInfo' = WithTier(tiersInfo, t, job.off) /\ tierOffsets' = OnFile(tiersInfo')
    BY DEF TierRecord
  <2>3. ~tiersInfo.present[t]
    BY <1>1 DEF AllTidy, MemoryTidy
  <2>4. tierOffsets.tier[t] = Absent
    BY <1>1, <2>3, RecordedTiers
  <2> HIDE DEF t
  <2> QED BY <1>1, <2>1, <2>2, <2>4, TierRecorded
<1>3. InputsTidy' /\ InputTidy'
  BY <1>1, <1>2, InputSideKept DEF AllTidy, FrozenInputs, InputInHand, Baking, DonutSteps
<1> DEFINE new == <<t, job.off>>
<1>4. RecordedFolders' = RecordedFolders \cup {new} /\ new \notin DOMAIN donutFile
  <2>1. RecordedFolders' = RecordedFolders \cup {new}
    <3>1. job.off # Absent
      BY <1>1 DEF Absent
    <3>2. \A x : x \in RecordedFolders <=>
                  \E u \in Tiers : tierOffsets.tier[u] # Absent /\ x = <<u, tierOffsets.tier[u]>>
      BY DEF RecordedFolders
    <3>3. \A x : x \in RecordedFolders' <=>
                  \E u \in Tiers : tierOffsets'.tier[u] # Absent /\ x = <<u, tierOffsets'.tier[u]>>
      BY DEF RecordedFolders
    <3> HIDE DEF t
    <3>4. ASSUME NEW x \in RecordedFolders'
          PROVE  x \in RecordedFolders \/ x = <<t, job.off>>
      <4>1. PICK u \in Tiers : tierOffsets'.tier[u] # Absent /\ x = <<u, tierOffsets'.tier[u]>>
        BY <3>3
      <4>2. CASE u # t
        BY <1>2, <3>2, <4>1, <4>2
      <4> QED BY <1>2, <4>1, <4>2
    <3>5. ASSUME NEW x \in RecordedFolders
          PROVE  x \in RecordedFolders'
      <4>1. PICK u \in Tiers : tierOffsets.tier[u] # Absent /\ x = <<u, tierOffsets.tier[u]>>
        BY <3>2
      <4>2. u # t
        BY <1>2, <4>1
      <4> QED BY <1>2, <3>3, <4>1, <4>2
    <3>6. <<t, job.off>> \in RecordedFolders'
      BY <1>1, <1>2, <3>1, <3>3
    <3> QED BY <3>4, <3>5, <3>6
  <2> QED BY <1>1, <2>1, NoSuchFolder DEF Baking
<1>5. FoldersTidy'
  <2>1. NotYetMade = {} /\ NotYetMade' = {new} /\ FrozenFolders' = FrozenFolders
    BY <1>1, <1>2 DEF NotYetMade, TierFolder, FrozenFolders
  <2>2. DOMAIN donutFile = RecordedFolders \cup FrozenFolders
    BY <2>1 DEF AllTidy, FoldersTidy
  <2> HIDE DEF new
  <2> QED BY <1>1, <1>4, <2>1, <2>2 DEF FoldersTidy
<1>6. DonutsTidy'
  BY <1>1 DEF AllTidy, DonutsTidy, NotYetBaked, NotYetIced, SlotSteps, BakeInputSteps, BakeTierSteps
<1>7. NamedByFirst'
  BY <1>1, <1>4 DEF AllTidy, NamedByFirst
<1>8. MemoryTidy'
  BY <1>1, <1>2 DEF AllTidy, MemoryTidy, Unpublished, SlotSteps, BakeInputSteps, BakeTierSteps
<1> QED BY <1>3, <1>5, <1>6, <1>7, <1>8 DEF AllTidy

\* What MemoryTidy says of a tier that nothing is being made in.
LEMMA SettledTier ==
  ASSUME AllTidy, Up, NEW u \in Tiers, Unpublished(u) = 0, ~ (pc = "tierFile" /\ u = job.tier)
  PROVE  /\ open[u] = NilTier <=> ~tiersInfo.present[u]
         /\ open[u] # NilTier =>
              /\ open[u].folder = tiersInfo.offset[u]
              /\ <<u, tiersInfo.offset[u]>> \in DOMAIN donutFile
              /\ open[u].donuts = Numbered(Len(open[u].offsets) - 0)
BY DEF AllTidy, MemoryTidy

\* The recorded tier gets its folder, with no donuts in it.
LEMMA TierFileTidy ==
  ASSUME Inductive, AllTidy, TierFile
  PROVE  AllTidy'
<1> DEFINE t == job.tier
           new == <<t, job.off>>
<1>1. /\ pc = "tierFile" /\ pc' = "newDonut" /\ t \in Tiers /\ Up /\ open[t] = NilTier
      /\ tiersInfo.present[t] /\ tiersInfo.offset[t] = job.off /\ TierFolder = new
      /\ UNCHANGED <<tierOffsets, inputs, donuts, tiersInfo, input, job>>
  BY DEF TierFile, Up, OpenTiers, TierFolder, ControlOK, DonutSteps
<1>2. /\ DOMAIN donutFile' = DOMAIN donutFile \cup {new} /\ donutFile'[new] = <<>>
      /\ \A x \in DOMAIN donutFile' \ {new} : donutFile'[x] = donutFile[x]
  BY DEF TierFile, Put
<1>3. /\ open'[t] # NilTier /\ open'[t].folder = job.off /\ open'[t].offsets = <<>>
      /\ open'[t].donuts = <<>>
      /\ \A u \in Tiers \ {t} : open'[u] = open[u]
  <2>1. open'[t] = [NilTier EXCEPT !.folder = job.off] /\ \A u \in Tiers \ {t} : open'[u] = open[u]
    BY <1>1 DEF TierFile, MemoryOK
  <2>2. job.off # NilTier.folder
    BY DEF ControlOK, JobType, NilTier, NoFolder
  <2> QED BY <2>1, <2>2 DEF NilTier
<1>4. InputsTidy' /\ InputTidy'
  BY <1>1, InputSideKept DEF AllTidy, FrozenInputs, InputInHand, Baking, DonutSteps
<1>5. FoldersTidy'
  <2>1. new \in RecordedFolders
    BY <1>1, RecordedFolder
  <2>2. NotYetMade = {new} /\ NotYetMade' = {} /\ FrozenFolders' = FrozenFolders
        /\ RecordedFolders' = RecordedFolders
    BY <1>1 DEF NotYetMade, FrozenFolders, RecordedFolders
  <2> HIDE DEF new
  <2> QED BY <1>2, <2>1, <2>2 DEF AllTidy, FoldersTidy
<1>6. DonutsTidy'
  <2>1. \A x \in DOMAIN donutFile' : \A d \in 1 .. Len(donutFile'[x]) :
          <<x[1], x[2], d - 1>> \in DOMAIN donuts
    <3> SUFFICES ASSUME NEW x \in DOMAIN donutFile', NEW d \in 1 .. Len(donutFile'[x])
                 PROVE  <<x[1], x[2], d - 1>> \in DOMAIN donuts
      OBVIOUS
    <3>1. x # new
      <4>1. Len(donutFile'[new]) = 0
        BY <1>2
      <4> HIDE DEF new
      <4> QED BY <4>1
    <3> QED BY <1>1, <1>2, <3>1
            DEF AllTidy, DonutsTidy, NotYetBaked
  <2> QED BY <1>1, <2>1
          DEF AllTidy, DonutsTidy, NotYetBaked, NotYetIced, SlotSteps, BakeInputSteps, BakeTierSteps
<1>7. NamedByFirst'
  BY <1>1, <1>2 DEF AllTidy, NamedByFirst
<1>8. MemoryTidy'
  <2>1. Len(<<>>) - 0 = 0 /\ Numbered(0) = <<>>
    BY NumberedFacts
  <2>2. ASSUME NEW u \in Tiers \ {t}
        PROVE  /\ open'[u] = NilTier <=> ~tiersInfo'.present[u]
               /\ open'[u] # NilTier =>
                    /\ open'[u].folder = tiersInfo'.offset[u]
                    /\ <<u, tiersInfo'.offset[u]>> \in DOMAIN donutFile'
                    /\ open'[u].donuts = Numbered(Len(open'[u].offsets) - 0)
    <3>1. Unpublished(u) = 0 /\ u # job.tier
      BY <1>1 DEF Unpublished
    <3>2. open'[u] = open[u] /\ tiersInfo' = tiersInfo
      BY <1>1, <1>3
    <3>3. DOMAIN donutFile \subseteq DOMAIN donutFile'
      BY <1>2
    <3> QED BY <1>1, <3>1, <3>2, <3>3, SettledTier
  <2>3. open'[t].donuts = Numbered(Len(open'[t].offsets) - 0)
    BY <1>3, <2>1
  <2>4. <<t, tiersInfo'.offset[t]>> \in DOMAIN donutFile'
    BY <1>1, <1>2
  <2> QED BY <1>1, <1>3, <2>2, <2>3, <2>4
          DEF MemoryTidy, Unpublished, SlotSteps, BakeInputSteps, BakeTierSteps
<1> QED BY <1>4, <1>5, <1>6, <1>7, <1>8 DEF AllTidy

\* Appending to a sequence leaves its first element where it is, or makes it.
LEMMA AppendFacts ==
  ASSUME NEW q \in Seq(Nat), NEW e \in Nat
  PROVE  /\ Len(q) \in Nat /\ Len(Append(q, e)) = Len(q) + 1
         /\ Append(q, e) # <<>>
         /\ Append(q, e)[1] = IF q = <<>> THEN e ELSE q[1]
<1>1. Len(q) \in Nat /\ Len(Append(q, e)) = Len(q) + 1
  OBVIOUS
<1>2. Append(q, e) # <<>>
  <2>1. Len(<<>>) = 0 /\ Len(Append(q, e)) # 0
    BY <1>1
  <2> QED BY <2>1, Zenon
<1>3. CASE q = <<>>
  BY <1>1, <1>2, <1>3
<1>4. CASE q # <<>>
  <2>1. 1 \in 1 .. Len(q)
    BY <1>4
  <2> QED BY <1>1, <1>2, <1>4, <2>1
<1> QED BY <1>3, <1>4

\* The folder in hand is listed as the last donut of its tier, which has no files yet.
LEMMA DonutListed ==
  ASSUME Inductive, DonutFolder
  PROVE  LET t == job.tier
             folder == TierFolder
             was == donutFile[folder]
             now == Append(was, job.off)
             slot == <<t, folder[2], Len(was)>>
         IN
         /\ /\ pc = "newDonut" /\ pc' \in {"bakeInput", "bakePrefix"} /\ t \in Tiers /\ Up
            /\ pc' = "bakeInput" <=> t = 0
            /\ open[t] # NilTier /\ folder \in DOMAIN donutFile
            /\ UNCHANGED <<tierOffsets, inputs, donuts, tiersInfo, input>>
         /\ /\ job'.tier = t /\ job'.off = job.off /\ job'.count = Len(now) /\ job'.prefix = 0
            /\ job.off \in Nat /\ TierFolder' = folder
         /\ was \in Seq(Nat) /\ open[t].offsets = was /\ open[t] \in OpenTierType
         /\ /\ DOMAIN donutFile' = DOMAIN donutFile /\ donutFile'[folder] = now
            /\ \A x \in DOMAIN donutFile \ {folder} : donutFile'[x] = donutFile[x]
         /\ /\ Len(was) \in Nat /\ Len(now) = Len(was) + 1
            /\ now # <<>> /\ now[1] = IF was = <<>> THEN job.off ELSE was[1]
         /\ Slot' = slot /\ slot \notin DOMAIN donuts
<1> DEFINE t == job.tier
           folder == TierFolder
           was == donutFile[folder]
           now == Append(was, job.off)
           slot == <<t, folder[2], Len(was)>>
<1>1. /\ pc = "newDonut" /\ pc' \in {"bakeInput", "bakePrefix"} /\ t \in Tiers /\ Up
      /\ pc' = "bakeInput" <=> t = 0
      /\ open[t] # NilTier /\ folder \in DOMAIN donutFile
      /\ UNCHANGED <<tierOffsets, inputs, donuts, tiersInfo, input>>
  BY DEF DonutFolder, HasRoom, Up
<1>2. /\ job'.tier = t /\ job'.off = job.off /\ job'.count = Len(now) /\ job'.prefix = 0
      /\ job.off \in Nat /\ TierFolder' = folder
  BY <1>1 DEF DonutFolder, TierFolder, JobFits, ControlOK, JobType
<1>3. was \in Seq(Nat) /\ open[t].offsets = was /\ open[t] \in OpenTierType
  BY <1>1 DEF OpenTiers, TierFolder, TiersOnDiskOK, MemoryOK
<1>4. /\ DOMAIN donutFile' = DOMAIN donutFile /\ donutFile'[folder] = now
      /\ \A x \in DOMAIN donutFile \ {folder} : donutFile'[x] = donutFile[x]
  BY <1>1 DEF DonutFolder
<1>5. /\ Len(was) \in Nat /\ Len(now) = Len(was) + 1
      /\ now # <<>> /\ now[1] = IF was = <<>> THEN job.off ELSE was[1]
  <2> HIDE DEF was
  <2> QED BY <1>2, <1>3, AppendFacts
<1>6. Slot' = slot /\ slot \notin DOMAIN donuts
  <2>1. Slot' = slot
    <3>1. Slot' = <<t, tiersInfo.offset[t], Len(now) - 1>>
      BY <1>1, <1>2 DEF Slot
    <3>2. Len(now) - 1 = Len(was) /\ folder[2] = tiersInfo.offset[t]
      BY <1>5 DEF TierFolder
    <3> QED BY <3>1, <3>2, Zenon
  <2>2. <<slot[1], slot[2]>> = folder /\ slot[3] = Len(was)
    BY DEF TierFolder
  <2> HIDE DEF slot, was, folder
  <2>3. slot \notin DOMAIN donuts
    <3> SUFFICES ASSUME slot \in DOMAIN donuts PROVE FALSE
      OBVIOUS
    <3>1. slot[3] \in 0 .. Len(donutFile[folder]) - 1
      BY <2>2 DEF DonutsListed
    <3> QED BY <1>5, <2>2, <3>1 DEF was
  <2> QED BY <2>1, <2>3
<1> QED BY <1>1, <1>2, <1>3, <1>4, <1>5, <1>6

\* A new donut is listed last in the folder of its tier, and is not baked yet.
LEMMA DonutFolderTidy ==
  ASSUME Inductive, AllTidy, DonutFolder
  PROVE  AllTidy'
<1> DEFINE t == job.tier
           folder == TierFolder
           was == donutFile[folder]
           now == Append(was, job.off)
           slot == <<t, folder[2], Len(was)>>
<1>1. /\ pc = "newDonut" /\ pc' \in {"bakeInput", "bakePrefix"} /\ t \in Tiers /\ Up
      /\ pc' = "bakeInput" <=> t = 0
      /\ open[t] # NilTier /\ folder \in DOMAIN donutFile
      /\ UNCHANGED <<tierOffsets, inputs, donuts, tiersInfo, input>>
  BY DonutListed
<1>2. /\ job'.tier = t /\ job'.off = job.off /\ job'.count = Len(now) /\ job'.prefix = 0
      /\ job.off \in Nat /\ TierFolder' = folder
  BY DonutListed
<1>3. was \in Seq(Nat) /\ open[t].offsets = was /\ open[t] \in OpenTierType
  BY DonutListed
<1>4. /\ DOMAIN donutFile' = DOMAIN donutFile /\ donutFile'[folder] = now
      /\ \A x \in DOMAIN donutFile \ {folder} : donutFile'[x] = donutFile[x]
  BY DonutListed
<1>5. /\ open'[t].folder = open[t].folder /\ open'[t].offsets = now
      /\ open'[t].donuts = open[t].donuts /\ open'[t] # NilTier
      /\ \A u \in Tiers \ {t} : open'[u] = open[u]
  <2>1. open' = [open EXCEPT ![t] = [open[t] EXCEPT !.offsets = now]]
    BY DEF DonutFolder
  <2> HIDE DEF now
  <2>2. /\ [open[t] EXCEPT !.offsets = now].folder = open[t].folder
        /\ [open[t] EXCEPT !.offsets = now].offsets = now
        /\ [open[t] EXCEPT !.offsets = now].donuts = open[t].donuts
    BY <1>3 DEF OpenTierType
  <2>3. now # <<>>
    BY <1>2, <1>3, AppendFacts DEF now
  <2> QED BY <1>1, <2>1, <2>2, <2>3 DEF MemoryOK, NilTier
<1>6. /\ Len(was) \in Nat /\ Len(now) = Len(was) + 1
      /\ now # <<>> /\ now[1] = IF was = <<>> THEN job.off ELSE was[1]
  BY DonutListed
<1>7. Slot' = slot /\ slot \notin DOMAIN donuts
  BY DonutListed
<1>8. InputsTidy' /\ InputTidy'
  <2>1. FrozenInputs' = FrozenInputs
    BY <1>1, <1>2 DEF FrozenInputs, InputInHand, Baking, DonutSteps
  <2> QED BY <1>1, <2>1, InputSideKept DEF AllTidy
<1>9. FoldersTidy'
  <2>1. /\ NotYetMade = {} /\ NotYetMade' = {} /\ FrozenFolders' = FrozenFolders
        /\ RecordedFolders' = RecordedFolders
    BY <1>1, <1>2 DEF NotYetMade, FrozenFolders, RecordedFolders, BakeTierSteps, TypeOK, ControlOK, JobType
  <2> QED BY <1>4, <2>1 DEF AllTidy, FoldersTidy
<1>10. DonutsTidy'
  <2> HIDE DEF folder, was, now, slot
  <2>1. /\ NotYetBaked' = {slot} /\ NotYetIced' = {slot} /\ NotYetBaked = {} /\ NotYetIced = {}
    BY <1>1, <1>2, <1>7 DEF NotYetBaked, NotYetIced, SlotSteps, BakeInputSteps, BakeTierSteps
  <2>2. ASSUME NEW x \in DOMAIN donutFile', NEW d \in 1 .. Len(donutFile'[x])
        PROVE  <<x[1], x[2], d - 1>> \in DOMAIN donuts \cup {slot}
    <3>1. CASE x # folder
      BY <1>4, <2>1, <3>1 DEF AllTidy, DonutsTidy
    <3>2. CASE x = folder /\ d # Len(now)
      <4>1. d \in 1 .. Len(was)
        BY <1>4, <1>6, <3>2
      <4> QED BY <1>1, <2>1, <3>2, <4>1 DEF AllTidy, DonutsTidy, was
    <3>3. CASE x = folder /\ d = Len(now)
      <4>1. d - 1 = Len(was) /\ x[1] = t /\ x[2] = folder[2]
        BY <1>6, <3>3 DEF folder, TierFolder
      <4> QED BY <4>1 DEF slot
    <3> QED BY <3>1, <3>2, <3>3
  <2>3. \A s \in DOMAIN donuts : donuts[s].iced <=> s # slot
    BY <1>7, <2>1 DEF AllTidy, DonutsTidy
  <2> QED BY <1>1, <2>1, <2>2, <2>3 DEF DonutsTidy
<1>11. NamedByFirst'
  <2>1. ASSUME NEW x \in DOMAIN donutFile, x # folder
        PROVE  donutFile[x] # <<>>
    <3> SUFFICES ASSUME donutFile[x] = <<>> PROVE FALSE
      OBVIOUS
    <3>1. x = <<t, job.off>>
      BY <2>1 DEF AllTidy, NamedByFirst
    <3>2. x \in RecordedFolders
      BY <1>1, <3>1 DEF AllTidy, FoldersTidy, FrozenFolders
    <3>3. x = folder
      BY <1>1, <3>1, <3>2, RecordedFolder DEF TierFolder
    <3> QED BY <2>1, <3>3
  <2>2. now # <<>> /\ now[1] = folder[2]
    <3>1. CASE was = <<>>
      <4>1. folder = <<t, job.off>>
        BY <1>1, <3>1 DEF AllTidy, NamedByFirst
      <4> QED BY <1>2, <1>6, <3>1, <4>1
    <3>2. CASE was # <<>>
      <4>1. was[1] = folder[2]
        BY <1>1, <3>2 DEF AllTidy, NamedByFirst
      <4> QED BY <1>6, <3>2, <4>1
    <3> QED BY <3>1, <3>2
  <2> HIDE DEF folder, now
  <2> QED BY <1>4, <2>1, <2>2 DEF AllTidy, NamedByFirst
<1>12. MemoryTidy'
  <2> USE DEF Unpublished, SlotSteps, BakeInputSteps, BakeTierSteps
  <2>1. /\ open[t].folder = tiersInfo.offset[t] /\ open[t].donuts = Numbered(Len(was))
        /\ tiersInfo.present[t]
    <3>1. open[t].donuts = Numbered(Len(was) - 0)
      BY <1>1, <1>3 DEF AllTidy, MemoryTidy
    <3>2. Len(was) - 0 = Len(was)
      BY <1>6
    <3> QED BY <1>1, <3>1, <3>2 DEF AllTidy, MemoryTidy
  <2> HIDE DEF was, now
  <2>2. open'[t].donuts = Numbered(Len(now) - 1)
    <3>1. Len(now) - 1 = Len(was)
      BY <1>6
    <3> QED BY <1>5, <2>1, <3>1
  <2>3. ASSUME NEW u \in Tiers \ {t}
        PROVE  /\ open'[u] = NilTier <=> ~tiersInfo'.present[u]
               /\ open'[u] # NilTier =>
                    /\ open'[u].folder = tiersInfo'.offset[u]
                    /\ <<u, tiersInfo'.offset[u]>> \in DOMAIN donutFile'
                    /\ open'[u].donuts = Numbered(Len(open'[u].offsets) - 0)
    BY <1>1, <1>4, <1>5 DEF AllTidy, MemoryTidy
  <2>4. <<t, tiersInfo.offset[t]>> \in DOMAIN donutFile'
    BY <1>1, <1>4 DEF TierFolder
  <2>5. \A u \in Tiers : Unpublished(u)' = IF u = t THEN 1 ELSE 0
    BY <1>1, <1>2
  <2>6. pc' # "tierFile" /\ tiersInfo' = tiersInfo
    BY <1>1
  <2> HIDE DEF Unpublished, t
  <2> QED BY <1>5, <2>1, <2>2, <2>3, <2>4, <2>5, <2>6 DEF MemoryTidy
<1> QED BY <1>8, <1>9, <1>10, <1>11, <1>12 DEF AllTidy

\* While a donut is baked and iced, its tier keeps it out of service.
LEMMA MakingKept ==
  ASSUME NamedByFirst, MemoryTidy, UNCHANGED <<donutFile, tiersInfo, open>>,
         job'.tier = job.tier, pc \in SlotSteps, pc' \in SlotSteps
  PROVE  NamedByFirst' /\ MemoryTidy'
<1> USE DEF SlotSteps, BakeInputSteps, BakeTierSteps
<1>1. NamedByFirst'
  BY DEF NamedByFirst
<1>2. \A t \in Tiers : Unpublished(t)' = Unpublished(t)
  BY DEF Unpublished
<1>3. MemoryTidy'
  BY <1>2 DEF MemoryTidy, Up
<1> QED BY <1>1, <1>3

\* A step of a bake that only writes donut folders, and has begun with the new one.
LEMMA BakeStepTidy ==
  ASSUME AllTidy, UNCHANGED <<tierOffsets, donutFile, tiersInfo, open>>,
         job'.tier = job.tier, Slot' = Slot, FrozenFolders' = FrozenFolders,
         pc \in SlotSteps \ {"publish"}, pc' \in SlotSteps \ {"publish", "bakeInput"},
         pc' = "bakePrefix" => job'.prefix # 0,
         DOMAIN donuts' = DOMAIN donuts \cup {Slot}, ~donuts'[Slot].iced,
         \A s \in DOMAIN donuts \ {Slot} : donuts'[s].iced = donuts[s].iced
  PROVE  FoldersTidy' /\ DonutsTidy' /\ NamedByFirst' /\ MemoryTidy'
<1>1. FoldersTidy'
  <2>1. NotYetMade = {} /\ NotYetMade' = {} /\ RecordedFolders' = RecordedFolders
    BY DEF NotYetMade, RecordedFolders, SlotSteps, BakeInputSteps, BakeTierSteps
  <2> QED BY <2>1 DEF AllTidy, FoldersTidy
<1>2. DonutsTidy'
  <2>1. NotYetBaked \subseteq {Slot} /\ NotYetBaked' = {} /\ NotYetIced = {Slot} /\ NotYetIced' = {Slot}
    BY DEF NotYetBaked, NotYetIced
  <2>2. \A s \in DOMAIN donuts \cup NotYetBaked : s \in DOMAIN donuts'
    BY <2>1
  <2>3. ASSUME NEW s \in DOMAIN donuts'
        PROVE  donuts'[s].iced <=> s \notin {Slot}
    BY <2>1, <2>3 DEF AllTidy, DonutsTidy
  <2> QED BY <2>1, <2>2, <2>3 DEF AllTidy, DonutsTidy
<1>3. NamedByFirst' /\ MemoryTidy'
  BY MakingKept DEF AllTidy
<1> QED BY <1>1, <1>2, <1>3

\* BakeFrozenInputTier begins the donut's folder.
LEMMA BakeInputTidy ==
  ASSUME Inductive, AllTidy, BakeInput
  PROVE  AllTidy'
<1> USE DEF SlotSteps, BakeInputSteps, BakeTierSteps
<1>1. /\ pc = "bakeInput" /\ pc' = "removeInput" /\ Slot' = Slot
      /\ UNCHANGED <<tierOffsets, inputs, donutFile, tiersInfo, input, open, job>>
  BY DEF BakeInput, memory, Slot
<1>2. /\ DOMAIN donuts' = DOMAIN donuts \cup {Slot} /\ ~donuts'[Slot].iced
      /\ \A s \in DOMAIN donuts \ {Slot} : donuts'[s] = donuts[s]
  BY DEF BakeInput, Put, NewDonut
<1>3. FoldersTidy' /\ DonutsTidy' /\ NamedByFirst' /\ MemoryTidy'
  BY <1>1, <1>2, BakeStepTidy DEF FrozenFolders
<1>4. InputsTidy' /\ InputTidy'
  BY <1>1, InputSideKept DEF AllTidy, FrozenInputs, InputInHand, Baking, DonutSteps
<1> QED BY <1>3, <1>4 DEF AllTidy

\* Then it removes the frozen input folder, which leaves the current one only.
LEMMA RemoveInputTidy ==
  ASSUME Inductive, AllTidy, RemoveInput
  PROVE  AllTidy'
<1> USE DEF SlotSteps, BakeInputSteps, BakeTierSteps
<1>1. /\ pc = "removeInput" /\ pc' = "ice" /\ Slot' = Slot /\ job.tier = 0
      /\ UNCHANGED <<tierOffsets, donutFile, donuts, tiersInfo, input, open, job>>
  BY DEF RemoveInput, memory, Slot, JobFits
<1>2. Slot \in DOMAIN donuts /\ ~donuts[Slot].iced
  BY <1>1 DEF NothingDroppedEarly, AllTidy, DonutsTidy, NotYetIced
<1>3. FoldersTidy' /\ DonutsTidy' /\ NamedByFirst' /\ MemoryTidy'
  BY <1>1, <1>2, BakeStepTidy DEF FrozenFolders
<1>4. job.off # tierOffsets.input
  BY <1>1 DEF Offsets, Baking, DonutSteps, ControlOK, JobType, TierOffsetsType
<1>5. DOMAIN inputs = {tierOffsets.input, job.off}
  BY <1>1 DEF AllTidy, InputsTidy, NewInputs, FrozenInputs, InputInHand, Baking, DonutSteps
<1>6. /\ DOMAIN inputs' = DOMAIN inputs \ {job.off}
      /\ \A o \in DOMAIN inputs' : inputs'[o] = inputs[o]
  BY DEF RemoveInput, Drop, Restrict
<1>7. InputsTidy'
  BY <1>1, <1>4, <1>5, <1>6 DEF InputsTidy, NewInputs, FrozenInputs, InputInHand
<1>8. InputTidy'
  BY <1>1, <1>4, <1>5, <1>6 DEF AllTidy, InputTidy, OpenedInput, Up
<1> QED BY <1>3, <1>7, <1>8 DEF AllTidy

\* BakeFrozenTierToDonutFolder copies into the new donut and drops from its sources.
LEMMA CopyTidy ==
  ASSUME Inductive, AllTidy, BakePrefix \/ DropPrefix
  PROVE  AllTidy'
<1> USE DEF SlotSteps, BakeInputSteps, BakeTierSteps
<1>1. /\ pc \in {"bakePrefix", "dropPrefix"} /\ pc' \in {"bakePrefix", "dropPrefix", "bakeOrder"}
      /\ UNCHANGED <<tierOffsets, inputs, donutFile, tiersInfo, input, open>>
  BY DEF BakePrefix, DropPrefix, memory
<1>2. /\ job'.tier = job.tier /\ job'.off = job.off /\ job'.count = job.count
      /\ pc' = "bakePrefix" => job'.prefix # 0
  <2>1. job \in JobType
    BY DEF ControlOK
  <2>2. CASE BakePrefix
    BY <2>2 DEF BakePrefix
  <2>3. CASE DropPrefix
    <3>1. job' = [job EXCEPT !.prefix = job.prefix + 1]
      BY <2>3 DEF DropPrefix, NextPrefix
    <3>2. job.prefix + 1 # 0
      BY <2>1 DEF JobType
    <3> QED BY <2>1, <3>1, <3>2 DEF JobType
  <2> QED BY <2>2, <2>3
<1>3. Slot' = Slot /\ FrozenFolders' = FrozenFolders /\ FrozenInputs' = FrozenInputs
  BY <1>1, <1>2 DEF Slot, FrozenFolders, FrozenInputs, InputInHand, Baking, DonutSteps
<1>4. Slot \in DOMAIN donuts => DonutOK(donuts[Slot]) /\ ~donuts[Slot].iced
  BY <1>1 DEF TiersOnDiskOK, AllTidy, DonutsTidy, NotYetIced
<1>5. /\ DOMAIN donuts' = DOMAIN donuts \cup {Slot} /\ ~donuts'[Slot].iced
      /\ \A s \in DOMAIN donuts \ {Slot} : donuts'[s].iced = donuts[s].iced
  <2>1. CASE BakePrefix
    <3> DEFINE made == IF job.prefix = 0 THEN NewDonut ELSE donuts[Slot]
               copied == Copied(Len(job.offsets))
    <3>1. pc = "bakePrefix"
      BY <2>1 DEF BakePrefix
    <3>2. job.prefix > 0 => Slot \in DOMAIN donuts
      BY <3>1 DEF NothingDroppedEarly
    <3>3. job.prefix \in Nat
      BY DEF ControlOK, JobType
    <3>4. DonutOK(made) /\ ~made.iced
      BY <1>4, <3>2, <3>3, NewDonutOK DEF NewDonut
    <3> HIDE DEF made
    <3>5. ~copied.iced
      BY <3>4 DEF Copied, DonutOK, made
    <3> HIDE DEF copied
    <3>6. donuts' = Put(donuts, Slot, copied)
      BY <2>1 DEF BakePrefix, copied
    <3> QED BY <3>5, <3>6 DEF Put
  <2>2. CASE DropPrefix
    <3>1. pc = "dropPrefix"
      BY <2>2 DEF DropPrefix
    <3>2. Slot \in DOMAIN donuts
      BY <3>1 DEF NothingDroppedEarly
    <3>3. \A s \in DOMAIN donuts : [donuts[s] EXCEPT !.suffix = @ \ OfPrefix(@)].iced = donuts[s].iced
      BY DEF TiersOnDiskOK, DonutOK
    <3>4. /\ DOMAIN donuts' = DOMAIN donuts
          /\ \A s \in DOMAIN donuts : donuts'[s].iced = donuts[s].iced
      BY <2>2, <3>3 DEF DropPrefix
    <3> QED BY <1>4, <3>2, <3>4
  <2> QED BY <2>1, <2>2
<1>6. FoldersTidy' /\ DonutsTidy' /\ NamedByFirst' /\ MemoryTidy'
  BY <1>1, <1>2, <1>3, <1>5, BakeStepTidy
<1>7. InputsTidy' /\ InputTidy'
  BY <1>1, <1>3, InputSideKept DEF AllTidy
<1> QED BY <1>6, <1>7 DEF AllTidy

\* The new HashesOrder.bin changes no folder but the new donut's.
LEMMA BakeOrderTidy ==
  ASSUME Inductive, AllTidy, BakeOrder
  PROVE  AllTidy'
<1> USE DEF SlotSteps, BakeInputSteps, BakeTierSteps
<1> DEFINE order == Concatenated(Len(job.offsets))
<1>1. /\ pc = "bakeOrder" /\ pc' = "removeTier" /\ Slot' = Slot
      /\ UNCHANGED <<tierOffsets, inputs, donutFile, tiersInfo, input, open, job>>
      /\ donuts' = [donuts EXCEPT ![Slot].order = order, ![Slot].updates = {}]
  BY DEF BakeOrder, memory, Slot
<1>2. Slot \in DOMAIN donuts /\ DonutOK(donuts[Slot]) /\ ~donuts[Slot].iced
  BY <1>1 DEF NothingDroppedEarly, TiersOnDiskOK, AllTidy, DonutsTidy, NotYetIced
<1> HIDE DEF order
<1>3. ~Ordered(donuts[Slot], order, {}).iced
  BY <1>2 DEF Ordered, DonutOK
<1>4. /\ DOMAIN donuts' = DOMAIN donuts /\ ~donuts'[Slot].iced
      /\ \A s \in DOMAIN donuts \ {Slot} : donuts'[s] = donuts[s]
  BY <1>1, <1>2, <1>3 DEF Ordered
<1>5. FoldersTidy' /\ DonutsTidy' /\ NamedByFirst' /\ MemoryTidy'
  BY <1>1, <1>2, <1>4, BakeStepTidy DEF FrozenFolders
<1>6. InputsTidy' /\ InputTidy'
  BY <1>1, InputSideKept DEF AllTidy, FrozenInputs, InputInHand, Baking, DonutSteps
<1> QED BY <1>5, <1>6 DEF AllTidy

\* BakeFrozenTier ends with the removal of the frozen folder, which no record names
\* any more, and of all its donuts.
LEMMA RemoveTierTidy ==
  ASSUME Inductive, AllTidy, RemoveTier
  PROVE  AllTidy'
<1> USE DEF SlotSteps, BakeInputSteps, BakeTierSteps
<1> DEFINE t == job.tier - 1
           folder == <<t, job.off>>
<1>1. /\ pc = "removeTier" /\ pc' = "ice" /\ Slot' = Slot /\ Up
      /\ UNCHANGED <<tierOffsets, inputs, tiersInfo, input, open, job>>
  BY DEF RemoveTier, memory, Slot, Up
<1>2. job.tier > 0 /\ t \in Tiers /\ ~tiersInfo.present[t]
  <2>1. job.tier > 0 /\ t \in Tiers /\ t < job.tier
    BY <1>1, BakeTierContext, BakeContext
  <2> QED BY <1>1, <2>1 DEF TiersNewer, Baking, DonutSteps
<1>3. /\ DOMAIN donutFile' = DOMAIN donutFile \ {folder}
      /\ \A x \in DOMAIN donutFile' : donutFile'[x] = donutFile[x]
  BY DEF RemoveTier, Drop, Restrict
<1>4. /\ DOMAIN donuts' = {s \in DOMAIN donuts : <<s[1], s[2]>> # folder}
      /\ \A s \in DOMAIN donuts' : donuts'[s] = donuts[s]
  BY DEF RemoveTier, Drop, Restrict
<1>5. InputsTidy' /\ InputTidy'
  <2>1. FrozenInputs' = FrozenInputs
    BY <1>1, <1>2 DEF FrozenInputs, InputInHand, Baking, DonutSteps
  <2> QED BY <1>1, <2>1, InputSideKept DEF AllTidy
<1>6. FoldersTidy'
  <2>1. folder \notin RecordedFolders
    BY <1>1, <1>2, RecordedFolder
  <2>2. /\ NotYetMade = {} /\ NotYetMade' = {} /\ RecordedFolders' = RecordedFolders
        /\ FrozenFolders = {folder} /\ FrozenFolders' = {}
    BY <1>1, <1>2 DEF NotYetMade, RecordedFolders, FrozenFolders
  <2> HIDE DEF folder
  <2> QED BY <1>3, <2>1, <2>2 DEF AllTidy, FoldersTidy
<1>7. DonutsTidy'
  <2>1. NotYetBaked = {} /\ NotYetBaked' = {} /\ NotYetIced' = NotYetIced
    BY <1>1 DEF NotYetBaked, NotYetIced
  <2>2. ASSUME NEW x \in DOMAIN donutFile', NEW d \in 1 .. Len(donutFile'[x])
        PROVE  <<x[1], x[2], d - 1>> \in DOMAIN donuts'
    <3>1. <<x[1], x[2], d - 1>> \in DOMAIN donuts
      BY <1>3, <2>1 DEF AllTidy, DonutsTidy
    <3>2. x \in Tiers \X Nat /\ x # folder
      BY <1>3 DEF TiersOnDiskOK
    <3>3. <<x[1], x[2]>> # folder
      BY <3>2
    <3> QED BY <1>4, <3>1, <3>3
  <2>3. \A s \in DOMAIN donuts' : donuts'[s].iced <=> s \notin NotYetIced
    BY <1>4 DEF AllTidy, DonutsTidy
  <2> QED BY <2>1, <2>2, <2>3 DEF DonutsTidy
<1>8. NamedByFirst'
  BY <1>1, <1>3 DEF AllTidy, NamedByFirst
<1>9. MemoryTidy'
  <2>1. \A u \in Tiers : tiersInfo.present[u] => <<u, tiersInfo.offset[u]>> # folder
    BY <1>2
  <2>2. \A u \in Tiers : Unpublished(u)' = Unpublished(u)
    BY <1>1 DEF Unpublished
  <2> HIDE DEF folder
  <2> QED BY <1>1, <1>3, <2>1, <2>2 DEF AllTidy, MemoryTidy
<1> QED BY <1>5, <1>6, <1>7, <1>8, <1>9 DEF AllTidy

\* IceTheDonut: then every donut is iced.
LEMMA IceTidy ==
  ASSUME Inductive, AllTidy, Ice
  PROVE  AllTidy'
<1> USE DEF SlotSteps, BakeInputSteps, BakeTierSteps
<1>1. /\ pc = "ice" /\ pc' = "publish"
      /\ UNCHANGED <<tierOffsets, inputs, donutFile, tiersInfo, input, open, job>>
  BY DEF Ice, memory
<1>2. /\ DOMAIN donuts' = DOMAIN donuts
      /\ \A s \in DOMAIN donuts : donuts'[s].iced
  <2>1. \A s \in DOMAIN donuts : donuts[s].iced <=> s # Slot
    BY <1>1 DEF AllTidy, DonutsTidy, NotYetIced
  <2>2. \A s \in DOMAIN donuts : DonutOK(donuts[s])
    BY DEF TiersOnDiskOK
  <2>3. \A s \in DOMAIN donuts : donuts'[s] = IF s = Slot THEN Iced(donuts[s]) ELSE donuts[s]
    BY DEF Ice, Iced
  <2>4. \A s \in DOMAIN donuts : Iced(donuts[s]).iced
    BY <2>2 DEF Iced, DonutOK
  <2> QED BY <2>1, <2>3, <2>4 DEF Ice
<1>3. InputsTidy' /\ InputTidy'
  BY <1>1, InputSideKept DEF AllTidy, FrozenInputs, InputInHand, Baking, DonutSteps
<1>4. FoldersTidy'
  BY <1>1 DEF AllTidy, FoldersTidy, NotYetMade, RecordedFolders, FrozenFolders
<1>5. DonutsTidy'
  BY <1>1, <1>2 DEF AllTidy, DonutsTidy, NotYetBaked, NotYetIced
<1>6. NamedByFirst' /\ MemoryTidy'
  BY <1>1, MakingKept DEF AllTidy
<1> QED BY <1>3, <1>4, <1>5, <1>6 DEF AllTidy

\* The folders of the tiers when a donut goes into service.
LEMMA PublishedFolders ==
  ASSUME AllTidy, pc = "publish", pc' \in {"freezeTier", "idle"}, UNCHANGED <<donutFile, donuts>>,
         \A u \in Tiers : tierOffsets'.tier[u] = tierOffsets.tier[u]
  PROVE  FoldersTidy' /\ DonutsTidy' /\ NamedByFirst'
<1> USE DEF SlotSteps, BakeInputSteps, BakeTierSteps
<1>1. /\ RecordedFolders' = RecordedFolders /\ FrozenFolders' = {} /\ FrozenFolders = {}
      /\ NotYetMade' = {} /\ NotYetMade = {}
  BY DEF RecordedFolders, FrozenFolders, NotYetMade
<1>2. FoldersTidy'
  BY <1>1 DEF AllTidy, FoldersTidy
<1>3. DonutsTidy'
  BY DEF AllTidy, DonutsTidy, NotYetBaked, NotYetIced
<1>4. NamedByFirst'
  BY DEF AllTidy, NamedByFirst
<1> QED BY <1>2, <1>3, <1>4

\* All donuts of the tier are in service.
LEMMA PublishedMemory ==
  ASSUME AllTidy, pc = "publish", pc' \in {"freezeTier", "idle"}, UNCHANGED donutFile,
         job.tier \in Tiers,
         \A u \in Tiers : /\ tiersInfo'.present[u] = tiersInfo.present[u]
                          /\ tiersInfo'.offset[u] = tiersInfo.offset[u],
         \A u \in Tiers \ {job.tier} : open'[u] = open[u],
         tiersInfo.present[job.tier], TierFolder \in DOMAIN donutFile,
         open'[job.tier] # NilTier, open'[job.tier].folder = tiersInfo.offset[job.tier],
         open'[job.tier].donuts = Numbered(Len(open'[job.tier].offsets) - 0)
  PROVE  MemoryTidy'
<1> DEFINE t == job.tier
<1>1. \A u \in Tiers : Unpublished(u)' = 0
  BY DEF Unpublished, SlotSteps, BakeInputSteps, BakeTierSteps
<1>2. \A u \in Tiers \ {t} : Unpublished(u) = 0
  BY DEF Unpublished
<1>3. <<t, tiersInfo.offset[t]>> \in DOMAIN donutFile
  BY DEF TierFolder
<1>4. ASSUME NEW u \in Tiers \ {t}
      PROVE  /\ open'[u] = NilTier <=> ~tiersInfo'.present[u]
             /\ open'[u] # NilTier =>
                  /\ open'[u].folder = tiersInfo'.offset[u]
                  /\ <<u, tiersInfo'.offset[u]>> \in DOMAIN donutFile'
                  /\ open'[u].donuts = Numbered(Len(open'[u].offsets) - 0)
  <2>1. Up /\ Unpublished(u) = 0
    BY <1>2 DEF Up
  <2>2. /\ open'[u] = open[u] /\ tiersInfo'.present[u] = tiersInfo.present[u]
        /\ tiersInfo'.offset[u] = tiersInfo.offset[u] /\ donutFile' = donutFile
    OBVIOUS
  <2> QED BY <2>1, <2>2, SettledTier
<1>5. /\ open'[t] # NilTier /\ open'[t].folder = tiersInfo'.offset[t] /\ tiersInfo'.present[t]
      /\ <<t, tiersInfo'.offset[t]>> \in DOMAIN donutFile'
      /\ open'[t].donuts = Numbered(Len(open'[t].offsets) - 0)
      /\ pc' # "tierFile"
  BY <1>3
<1> QED BY <1>1, <1>4, <1>5 DEF MemoryTidy

\* The first donut of a tier brings the offset that the tier is recorded at already.
LEMMA PublishFirstRecord ==
  ASSUME Inductive, Traced, AllTidy, PublishFirst
  PROVE  /\ tiersInfo.offset[job.tier] = job.off
         /\ tierOffsets'.input = tierOffsets.input
         /\ \A u \in Tiers : /\ tiersInfo'.present[u] = tiersInfo.present[u]
                             /\ tiersInfo'.offset[u] = tiersInfo.offset[u]
                             /\ tierOffsets'.tier[u] = tierOffsets.tier[u]
<1> USE DEF SlotSteps, BakeInputSteps, BakeTierSteps
<1> DEFINE t == job.tier
<1>1. pc = "publish" /\ t \in Tiers /\ Up /\ job.count = 1 /\ job.off \in Nat
  BY DEF PublishFirst, Up, ControlOK, DonutSteps, JobType
<1>2. /\ tiersInfo.present[t] /\ TierFolder \in DOMAIN donutFile
      /\ donutFile[TierFolder] \in Seq(Nat) /\ Len(donutFile[TierFolder]) = 1
  BY <1>1, BakeContext DEF OpenTiers, DonutSteps, TiersOnDiskOK
<1>3. tiersInfo.offset[t] = job.off
  <2>1. donutFile[TierFolder][1] = job.off
    BY <1>1 DEF Traced, JobIndexed
  <2>2. donutFile[TierFolder] # <<>>
    <3>1. Len(<<>>) = 0 /\ Len(donutFile[TierFolder]) # 0
      BY <1>2
    <3> QED BY <3>1, Zenon
  <2>3. donutFile[TierFolder][1] = TierFolder[2]
    BY <1>1, <1>2, <2>2 DEF AllTidy, NamedByFirst
  <2> QED BY <2>1, <2>3 DEF TierFolder
<1>4. /\ tierOffsets'.input = tierOffsets.input
      /\ \A u \in Tiers : /\ tiersInfo'.present[u] = tiersInfo.present[u]
                          /\ tiersInfo'.offset[u] = tiersInfo.offset[u]
                          /\ tierOffsets'.tier[u] = tierOffsets.tier[u]
  <2>1. tiersInfo \in TiersInfoType /\ tierOffsets = OnFile(tiersInfo)
    BY <1>1 DEF MemoryOK, MemoryOnDisk
  <2>2. tiersInfo' = WithTier(tiersInfo, t, job.off) /\ tierOffsets' = OnFile(tiersInfo')
    BY DEF PublishFirst
  <2>3. tierOffsets.tier[t] = job.off
    BY <1>1, <1>2, <1>3, RecordedTiers
  <2>4. tiersInfo.present[t] = TRUE /\ tiersInfo'.present[t] = TRUE
    BY <1>1, <1>2, <2>1, <2>2 DEF WithTier, TiersInfoType
  <2> HIDE DEF t
  <2>5. /\ tierOffsets'.input = tierOffsets.input
        /\ tiersInfo'.offset[t] = job.off /\ tierOffsets'.tier[t] = job.off
        /\ \A u \in Tiers \ {t} : /\ tiersInfo'.present[u] = tiersInfo.present[u]
                                  /\ tiersInfo'.offset[u] = tiersInfo.offset[u]
                                  /\ tierOffsets'.tier[u] = tierOffsets.tier[u]
    BY <1>1, <2>1, <2>2, TierRecorded
  <2> QED BY <1>3, <2>3, <2>4, <2>5
<1> QED BY <1>3, <1>4

\* So publishing it only puts it in service.
LEMMA PublishFirstTidy ==
  ASSUME Inductive, Traced, AllTidy, PublishFirst, ~interrupted'
  PROVE  AllTidy'
<1> USE DEF SlotSteps, BakeInputSteps, BakeTierSteps
<1> DEFINE t == job.tier
<1>1. /\ pc = "publish" /\ pc' \in {"freezeTier", "idle"} /\ t \in Tiers /\ Up /\ job.count = 1
      /\ job.off \in Nat
      /\ UNCHANGED <<inputs, donutFile, donuts, input>>
      /\ TierReadable(t, job.off) /\ open' = [open EXCEPT ![t] = OpenedTier(t, job.off)]
  BY DEF PublishFirst, Return, Up, ControlOK, DonutSteps, JobType
<1>2. tiersInfo.present[t] /\ TierFolder \in DOMAIN donutFile
  BY <1>1, BakeContext DEF OpenTiers, DonutSteps
<1>3. tiersInfo.offset[t] = job.off
  BY PublishFirstRecord
<1>4. /\ tierOffsets'.input = tierOffsets.input
      /\ \A u \in Tiers : /\ tiersInfo'.present[u] = tiersInfo.present[u]
                          /\ tiersInfo'.offset[u] = tiersInfo.offset[u]
                          /\ tierOffsets'.tier[u] = tierOffsets.tier[u]
  BY PublishFirstRecord
<1>5. InputsTidy' /\ InputTidy'
  <2>1. FrozenInputs = {} /\ FrozenInputs' = {}
    BY <1>1 DEF FrozenInputs, InputInHand, Baking, DonutSteps
  <2> QED BY <1>1, <1>4, <2>1, InputSideKept DEF AllTidy
<1>6. FoldersTidy' /\ DonutsTidy' /\ NamedByFirst'
  BY <1>1, <1>4, PublishedFolders
<1>7. MemoryTidy'
  <2>1. OpenedTier(t, job.off) # NilTier /\ <<t, job.off>> \in DOMAIN donutFile
    BY <1>1, OpenedTierType DEF TierReadable
  <2>2. /\ OpenedTier(t, job.off).folder = job.off
        /\ OpenedTier(t, job.off).offsets = donutFile[<<t, job.off>>]
        /\ OpenedTier(t, job.off).donuts = Numbered(Len(donutFile[<<t, job.off>>]))
    BY DEF OpenedTier, Numbered
  <2>3. donutFile[<<t, job.off>>] \in Seq(Nat)
    BY <2>1 DEF TiersOnDiskOK
  <2>4. Len(donutFile[<<t, job.off>>]) - 0 = Len(donutFile[<<t, job.off>>])
    BY <2>3
  <2>5. /\ open'[t] = OpenedTier(t, job.off)
        /\ \A u \in Tiers \ {t} : open'[u] = open[u]
    BY <1>1 DEF MemoryOK
  <2>6. /\ open'[t] # NilTier /\ open'[t].folder = tiersInfo.offset[t]
        /\ open'[t].donuts = Numbered(Len(open'[t].offsets) - 0)
    BY <1>3, <2>1, <2>2, <2>4, <2>5
  <2> QED BY <1>1, <1>2, <1>4, <2>5, <2>6, PublishedMemory
<1> QED BY <1>5, <1>6, <1>7 DEF AllTidy

\* A later donut joins those of its tier in service.
LEMMA PublishNextTidy ==
  ASSUME Inductive, AllTidy, PublishNext
  PROVE  AllTidy'
<1> USE DEF SlotSteps, BakeInputSteps, BakeTierSteps
<1> DEFINE t == job.tier
           now == Append(open[t].donuts, job.count - 1)
<1>1. /\ pc = "publish" /\ pc' \in {"freezeTier", "idle"} /\ t \in Tiers /\ Up
      /\ UNCHANGED <<tierOffsets, inputs, donutFile, donuts, tiersInfo, input>>
  BY DEF PublishNext, Return, Up, ControlOK, DonutSteps, disk
<1>2. /\ tiersInfo.present[t] /\ open[t] # NilTier /\ TierFolder \in DOMAIN donutFile
      /\ job.count = Len(donutFile[TierFolder]) /\ job.count - 1 \in Nat
      /\ open[t].offsets = donutFile[TierFolder] /\ open[t] \in OpenTierType
  <2>1. /\ job.count \in Nat /\ job.count > 0 /\ TierFolder \in DOMAIN donutFile
        /\ job.count = Len(donutFile[TierFolder])
    BY <1>1, BakeContext DEF JobType
  <2>2. tiersInfo.present[t] /\ open[t] # NilTier
    BY <1>1 DEF OpenTiers, DonutSteps
  <2>3. open[t].offsets = donutFile[TierFolder]
    BY <1>1, <2>1, <2>2 DEF OpenTiers, TierFolder
  <2>4. open[t] \in OpenTierType
    BY <1>1 DEF MemoryOK
  <2>5. job.count - 1 \in Nat
    BY <2>1
  <2> QED BY <2>1, <2>2, <2>3, <2>4, <2>5
<1>3. now = Numbered(job.count)
  <2>1. open[t].donuts = Numbered(job.count - 1)
    <3>1. Unpublished(t) = 1 /\ Len(open[t].offsets) = job.count
      BY <1>1, <1>2 DEF Unpublished
    <3> QED BY <1>1, <1>2, <3>1 DEF AllTidy, MemoryTidy
  <2>2. (job.count - 1) + 1 = job.count
    BY <1>2
  <2> QED BY <1>2, <2>1, <2>2, NumberedFacts
<1>4. /\ open'[t].folder = open[t].folder /\ open'[t].donuts = now
      /\ open'[t].offsets = open[t].offsets
      /\ \A u \in Tiers \ {t} : open'[u] = open[u]
  <2>1. open' = [open EXCEPT ![t] = [open[t] EXCEPT !.donuts = now]]
    BY DEF PublishNext, Published
  <2> HIDE DEF now
  <2>2. /\ [open[t] EXCEPT !.donuts = now].folder = open[t].folder
        /\ [open[t] EXCEPT !.donuts = now].donuts = now
        /\ [open[t] EXCEPT !.donuts = now].offsets = open[t].offsets
    BY <1>2 DEF OpenTierType
  <2> QED BY <1>1, <2>1, <2>2 DEF MemoryOK
<1> HIDE DEF now
<1>5. InputsTidy' /\ InputTidy'
  <2>1. FrozenInputs = {} /\ FrozenInputs' = {}
    BY <1>1 DEF FrozenInputs, InputInHand, Baking, DonutSteps
  <2> QED BY <1>1, <2>1, InputSideKept DEF AllTidy
<1>6. FoldersTidy' /\ DonutsTidy' /\ NamedByFirst'
  BY <1>1, PublishedFolders
<1>7. MemoryTidy'
  <2>1. open[t].folder = tiersInfo.offset[t]
    BY <1>1, <1>2 DEF AllTidy, MemoryTidy
  <2>2. open'[t].folder = tiersInfo.offset[t] /\ open'[t] # NilTier
    <3>1. tiersInfo.offset[t] # NilTier.folder
      BY <1>1 DEF MemoryOK, TiersInfoType, NilTier, NoFolder
    <3> QED BY <1>4, <2>1, <3>1
  <2>3. open'[t].donuts = Numbered(Len(open'[t].offsets) - 0)
    <3>1. Len(open'[t].offsets) = job.count /\ job.count - 0 = job.count
      BY <1>2, <1>4
    <3> QED BY <1>3, <1>4, <3>1
  <2> QED BY <1>1, <1>2, <1>4, <2>2, <2>3, PublishedMemory
<1> QED BY <1>5, <1>6, <1>7 DEF AllTidy

\* A frozen tier is not recorded any more, but in hand.
LEMMA FreezeTierTidy ==
  ASSUME Inductive, AllTidy, FreezeTier
  PROVE  AllTidy'
<1> USE DEF SlotSteps, BakeInputSteps, BakeTierSteps
<1> DEFINE t == job.tier
           folder == TierFolder
<1>1. /\ pc = "freezeTier" /\ pc' = "newDonut" /\ t \in Tiers /\ Up
      /\ tiersInfo.present[t] /\ folder = <<t, tiersInfo.offset[t]>>
      /\ job'.tier = t + 1 /\ job'.off = tiersInfo.offset[t] /\ job'.prefix = 0
      /\ UNCHANGED <<inputs, donutFile, donuts, input>>
  BY DEF FreezeTier, Up, ControlOK, DonutSteps, OpenTiers, TierFolder
<1>2. /\ open'[t] = NilTier
      /\ \A u \in Tiers \ {t} : open'[u] = open[u]
  BY <1>1 DEF FreezeTier, MemoryOK
<1>3. /\ tierOffsets'.input = tierOffsets.input /\ tiersInfo'.offset = tiersInfo.offset
      /\ ~tiersInfo'.present[t] /\ tierOffsets'.tier[t] = Absent
      /\ \A u \in Tiers \ {t} : /\ tiersInfo'.present[u] = tiersInfo.present[u]
                                /\ tierOffsets'.tier[u] = tierOffsets.tier[u]
  <2>1. tiersInfo \in TiersInfoType
    BY <1>1 DEF MemoryOK
  <2>2. tiersInfo' = WithoutTier(tiersInfo, t)
    BY DEF FreezeTier
  <2>6. t \in Tiers /\ tiersInfo.present[t]
    BY <1>1
  <2> HIDE DEF t, folder
  <2>3. /\ tiersInfo' \in TiersInfoType /\ tiersInfo'.input = tiersInfo.input
        /\ tiersInfo'.offset = tiersInfo.offset
        /\ ~tiersInfo'.present[t]
        /\ \A u \in Tiers \ {t} : tiersInfo'.present[u] = tiersInfo.present[u]
    <3>1. /\ WithoutTier(tiersInfo, t) \in TiersInfoType
          /\ WithoutTier(tiersInfo, t).input = tiersInfo.input
          /\ WithoutTier(tiersInfo, t).offset = tiersInfo.offset
          /\ ~WithoutTier(tiersInfo, t).present[t]
          /\ \A u \in Tiers \ {t} : WithoutTier(tiersInfo, t).present[u] = tiersInfo.present[u]
      BY <2>1, <2>6, WithoutTierFacts
    <3> QED BY <2>2, <3>1
  <2>4. /\ tierOffsets.input = tiersInfo.input
        /\ \A u \in Tiers : tierOffsets.tier[u] =
             IF tiersInfo.present[u] THEN tiersInfo.offset[u] ELSE Absent
    <3>1. tierOffsets = OnFile(tiersInfo)
      BY <1>1 DEF MemoryOnDisk
    <3> QED BY <2>1, <3>1, OnFileFacts
  <2>5. /\ tierOffsets'.input = tiersInfo'.input
        /\ \A u \in Tiers : tierOffsets'.tier[u] =
             IF tiersInfo'.present[u] THEN tiersInfo'.offset[u] ELSE Absent
    <3>1. tierOffsets' = OnFile(tiersInfo')
      BY DEF FreezeTier
    <3> QED BY <2>3, <3>1, OnFileFacts
  <2> QED BY <2>3, <2>4, <2>5, <2>6
<1>4. InputsTidy' /\ InputTidy'
  <2>1. FrozenInputs = {} /\ FrozenInputs' = {}
    BY <1>1 DEF FrozenInputs, InputInHand, Baking, DonutSteps
  <2> QED BY <1>1, <1>3, <2>1, InputSideKept DEF AllTidy
<1>5. FoldersTidy'
  <2>1. RecordedFolders = RecordedFolders' \cup {folder}
    <3>1. \A x : x \in RecordedFolders <=>
                  \E u \in Tiers : tierOffsets.tier[u] # Absent /\ x = <<u, tierOffsets.tier[u]>>
      BY DEF RecordedFolders
    <3>2. \A x : x \in RecordedFolders' <=>
                  \E u \in Tiers : tierOffsets'.tier[u] # Absent /\ x = <<u, tierOffsets'.tier[u]>>
      BY DEF RecordedFolders
    <3>3. tierOffsets.tier[t] = tiersInfo.offset[t]
      BY <1>1, RecordedTiers
    <3>4. folder \in RecordedFolders
      BY <1>1, RecordedFolder
    <3>5. ASSUME NEW x \in RecordedFolders, x # folder
          PROVE  x \in RecordedFolders'
      <4>1. PICK u \in Tiers : tierOffsets.tier[u] # Absent /\ x = <<u, tierOffsets.tier[u]>>
        BY <3>1
      <4>2. u # t
        BY <1>1, <3>3, <3>5, <4>1
      <4> QED BY <1>3, <3>2, <4>1, <4>2
    <3>6. ASSUME NEW x \in RecordedFolders'
          PROVE  x \in RecordedFolders
      <4>1. PICK u \in Tiers : tierOffsets'.tier[u] # Absent /\ x = <<u, tierOffsets'.tier[u]>>
        BY <3>2
      <4>2. u # t
        BY <1>3, <4>1
      <4> QED BY <1>3, <3>1, <4>1, <4>2
    <3> QED BY <3>4, <3>5, <3>6
  <2>2. /\ NotYetMade = {} /\ NotYetMade' = {} /\ FrozenFolders = {} /\ FrozenFolders' = {folder}
    <3>1. t \in Nat /\ (t + 1) - 1 = t /\ t + 1 > 0
      <4>1. t \in Nat
        BY <1>1
      <4> HIDE DEF t
      <4> QED BY <4>1
    <3>2. NotYetMade = {} /\ NotYetMade' = {} /\ FrozenFolders = {}
      BY <1>1 DEF NotYetMade, FrozenFolders
    <3>3. FrozenFolders' = {<<(t + 1) - 1, tiersInfo.offset[t]>>}
      BY <1>1, <3>1 DEF FrozenFolders
    <3> QED BY <1>1, <3>1, <3>2, <3>3
  <2> HIDE DEF folder
  <2> QED BY <1>1, <2>1, <2>2 DEF AllTidy, FoldersTidy
<1>6. DonutsTidy'
  BY <1>1 DEF AllTidy, DonutsTidy, NotYetBaked, NotYetIced
<1>7. NamedByFirst'
  BY <1>1 DEF AllTidy, NamedByFirst
<1>8. MemoryTidy'
  <2>1. \A u \in Tiers : Unpublished(u)' = 0 /\ Unpublished(u) = 0
    BY <1>1 DEF Unpublished
  <2>2. ASSUME NEW u \in Tiers \ {t}
        PROVE  /\ open'[u] = NilTier <=> ~tiersInfo'.present[u]
               /\ open'[u] # NilTier =>
                    /\ open'[u].folder = tiersInfo'.offset[u]
                    /\ <<u, tiersInfo'.offset[u]>> \in DOMAIN donutFile'
                    /\ open'[u].donuts = Numbered(Len(open'[u].offsets) - 0)
    <3>1. Unpublished(u) = 0
      BY <1>1 DEF Unpublished
    <3>2. /\ open[u] = NilTier <=> ~tiersInfo.present[u]
          /\ open[u] # NilTier =>
               /\ open[u].folder = tiersInfo.offset[u]
               /\ <<u, tiersInfo.offset[u]>> \in DOMAIN donutFile
               /\ open[u].donuts = Numbered(Len(open[u].offsets) - 0)
      BY <1>1, <3>1, SettledTier
    <3>3. open'[u] = open[u] /\ tiersInfo'.present[u] = tiersInfo.present[u]
      BY <1>2, <1>3
    <3> QED BY <1>1, <1>3, <3>2, <3>3
  <2>3. open'[t] = NilTier /\ ~tiersInfo'.present[t] /\ pc' # "tierFile"
    BY <1>1, <1>2, <1>3
  <2> QED BY <2>1, <2>2, <2>3 DEF MemoryTidy
<1> QED BY <1>4, <1>5, <1>6, <1>7, <1>8 DEF AllTidy

\* Nothing changes.
LEMMA StutterTidy ==
  ASSUME AllTidy, UNCHANGED vars
  PROVE  AllTidy'
<1> USE DEF vars, disk, memory, ghost, AllTidy
<1>1. InputsTidy'
  BY DEF InputsTidy, NewInputs, FrozenInputs, NextOffset, InputInHand, Baking
<1>2. FoldersTidy'
  BY DEF FoldersTidy, RecordedFolders, FrozenFolders, NotYetMade, TierFolder
<1>3. DonutsTidy' /\ NamedByFirst'
  BY DEF DonutsTidy, NotYetBaked, NotYetIced, Slot, NamedByFirst
<1>4. MemoryTidy' /\ InputTidy'
  BY DEF MemoryTidy, Unpublished, Up, InputTidy, OpenedInput
<1> QED BY <1>1, <1>2, <1>3, <1>4

\* Once an AppendHash broke off, that is remembered; a step that breaks it off says so.
LEMMA BreaksOff ==
  ASSUME [Next]_vars, ~interrupted'
  PROVE  /\ ~interrupted
         /\ ~(\/ Crash \/ TopTierPanic \/ DonutRefused
              \/ BakeInputFails \/ BakeTierFails \/ BakeOrderFails
              \/ \E gpi \in Hashes : AppendTooLarge(gpi))
<1>1. ~(\/ Crash \/ TopTierPanic \/ DonutRefused
        \/ BakeInputFails \/ BakeTierFails \/ BakeOrderFails
        \/ \E gpi \in Hashes : AppendTooLarge(gpi))
  BY DEF Crash, TopTierPanic, DonutRefused, BakeInputFails, BakeTierFails, BakeOrderFails,
     AppendTooLarge, Panic, Fail, GiveUp
<1>2. interrupted' = interrupted
  <2>1. CASE Open \/ Close \/ \E gpi \in Hashes : AppendHash(gpi)
    BY <2>1 DEF Open, Close, AppendHash, ghost
  <2>2. CASE Freeze
    BY <2>2 DEF Freeze, FreezeCreate, FreezeRecord, FreezeSwitch, FreezeSeal, ghost
  <2>3. CASE TierRecord \/ TierFile \/ DonutFolder
    BY <2>3 DEF TierRecord, TierFile, DonutFolder, ghost
  <2>4. CASE BakeInput \/ RemoveInput \/ BakePrefix \/ DropPrefix \/ BakeOrder \/ RemoveTier
    BY <2>4 DEF BakeInput, RemoveInput, BakePrefix, DropPrefix, BakeOrder, RemoveTier, ghost
  <2>5. CASE Publish
    BY <2>5 DEF Publish, Ice, PublishFirst, PublishNext, FreezeTier, ghost
  <2>6. CASE UNCHANGED vars
    BY <2>6 DEF vars, ghost
  <2> QED BY <1>1, <2>1, <2>2, <2>3, <2>4, <2>5, <2>6
          DEF Next, Pipeline, NewDonutFolder, Bake
<1> QED BY <1>1, <1>2

\* Every step that does not break off keeps the cake tidy.
LEMMA NextTidy ==
  ASSUME Inductive, Traced, Tidy, [Next]_vars
  PROVE  Tidy'
<1> SUFFICES ASSUME ~interrupted' PROVE AllTidy'
  BY DEF Tidy
<1>1. AllTidy
  BY BreaksOff DEF Tidy
<1>2. CASE Open \/ Close \/ \E gpi \in Hashes : AppendHash(gpi)
  BY <1>1, <1>2, OpenTidy, CloseTidy, AppendHashTidy
<1>3. CASE Freeze
  BY <1>1, <1>3, FreezeCreateTidy, FreezeRecordTidy, SwitchAndSealTidy DEF Freeze
<1>4. CASE TierRecord \/ TierFile \/ DonutFolder
  BY <1>1, <1>4, TierRecordTidy, TierFileTidy, DonutFolderTidy
<1>5. CASE BakeInput \/ RemoveInput \/ BakePrefix \/ DropPrefix \/ BakeOrder \/ RemoveTier
  BY <1>1, <1>5, BakeInputTidy, RemoveInputTidy, CopyTidy, BakeOrderTidy, RemoveTierTidy
<1>6. CASE Publish
  BY <1>1, <1>6, IceTidy, PublishFirstTidy, PublishNextTidy, FreezeTierTidy DEF Publish
<1>7. CASE UNCHANGED vars
  BY <1>1, <1>7, StutterTidy
<1> QED BY <1>2, <1>3, <1>4, <1>5, <1>6, <1>7, BreaksOff
        DEF Next, Pipeline, NewDonutFolder, Bake

\* CakeFactory.Create makes one empty input folder.
LEMMA InitTidy ==
  ASSUME Init
  PROVE  Tidy
<1>1. /\ DOMAIN inputs = {0} /\ inputs[0] = NewInput /\ tierOffsets.input = 0
      /\ DOMAIN donutFile = {} /\ DOMAIN donuts = {} /\ pc = "down" /\ job.tier = 0
      /\ \A t \in Tiers : tierOffsets.tier[t] = Absent
  BY DEF Init, NoJob
<1>2. InputsTidy
  BY <1>1 DEF InputsTidy, NewInputs, FrozenInputs, InputInHand, Baking, DonutSteps
<1>3. FoldersTidy
  <2>1. RecordedFolders = {} /\ FrozenFolders = {} /\ NotYetMade = {}
    BY <1>1 DEF RecordedFolders, FrozenFolders, NotYetMade
  <2> QED BY <1>1, <2>1 DEF FoldersTidy
<1>4. DonutsTidy /\ NamedByFirst /\ MemoryTidy
  BY <1>1 DEF DonutsTidy, NamedByFirst, MemoryTidy, Up
<1>5. InputTidy
  BY <1>1 DEF InputTidy, NewInput, Up
<1> QED BY <1>2, <1>3, <1>4, <1>5 DEF Tidy, AllTidy

\* In every reachable state before anything broke off, the folders in the cake and what
\* memory holds of them are those that TierOffsets.txt and the DonutOffsets.txt files
\* name, up to what the present step of AppendHash has in hand: however deep a cascade,
\* each bake removes what it was made from and nothing else.
THEOREM TidyInvariant == Spec => []Tidy
<1>1. Init => Tidy
  BY InitTidy
<1>2. Inductive /\ Traced /\ Tidy /\ [Next]_vars => Tidy'
  BY NextTidy
<1> HIDE DEF Inductive, TypeOK
<1> QED BY <1>1, <1>2, InductiveInvariant, FilesTraced, PTL DEF Spec

\* After each AppendHash that ran to its end, and after each restart between two of
\* them, the cake folder holds what the records name and nothing else, with any gaps.
THEOREM BakesCleanUp == Spec => []NoOrphans
<1>1. Inductive /\ Tidy => NoOrphans
  <2> SUFFICES ASSUME Inductive, AllTidy, Idle
               PROVE  /\ DOMAIN inputs = {tierOffsets.input}
                      /\ DOMAIN donutFile = RecordedFolders
                      /\ DOMAIN donuts = UNION {{<<x[1], x[2], d - 1>> : d \in 1 .. Len(donutFile[x])} :
                                                  x \in DOMAIN donutFile}
    BY DEF Tidy, NoOrphans, Undisturbed, RecordedFolders
  <2> USE DEF Idle, SlotSteps, BakeInputSteps, BakeTierSteps
  <2>1. DOMAIN inputs = {tierOffsets.input}
    BY DEF AllTidy, InputsTidy, NewInputs, FrozenInputs, InputInHand, Baking, DonutSteps
  <2>2. DOMAIN donutFile = RecordedFolders
    <3>1. NotYetMade = {} /\ FrozenFolders = {}
      BY DEF NotYetMade, FrozenFolders
    <3> QED BY <3>1 DEF AllTidy, FoldersTidy
  <2>3. ASSUME NEW s \in DOMAIN donuts
        PROVE  \E x \in DOMAIN donutFile : \E d \in 1 .. Len(donutFile[x]) : s = <<x[1], x[2], d - 1>>
    <3> DEFINE x == <<s[1], s[2]>>
    <3>1. /\ x \in DOMAIN donutFile /\ s[3] \in 0 .. Len(donutFile[x]) - 1
          /\ s = <<s[1], s[2], s[3]>>
      BY DEF DonutsListed, TiersOnDiskOK
    <3>2. Len(donutFile[x]) \in Nat
      BY <3>1 DEF TiersOnDiskOK
    <3>3. x[1] = s[1] /\ x[2] = s[2]
      OBVIOUS
    <3> HIDE DEF x
    <3>4. s[3] + 1 \in 1 .. Len(donutFile[x]) /\ (s[3] + 1) - 1 = s[3]
      BY <3>1, <3>2
    <3>5. s = <<x[1], x[2], (s[3] + 1) - 1>>
      BY <3>1, <3>3, <3>4
    <3> QED BY <3>1, <3>4, <3>5
  <2>4. ASSUME NEW x \in DOMAIN donutFile, NEW d \in 1 .. Len(donutFile[x])
        PROVE  <<x[1], x[2], d - 1>> \in DOMAIN donuts
    BY DEF AllTidy, DonutsTidy, NotYetBaked
  <2> DEFINE listed == UNION {{<<x[1], x[2], d - 1>> : d \in 1 .. Len(donutFile[x])} :
                                x \in DOMAIN donutFile}
  <2>5. \A s : s \in listed <=>
          \E x \in DOMAIN donutFile : \E d \in 1 .. Len(donutFile[x]) : s = <<x[1], x[2], d - 1>>
    OBVIOUS
  <2> HIDE DEF listed
  <2>6. DOMAIN donuts = listed
    <3>1. DOMAIN donuts \subseteq listed
      BY <2>3, <2>5
    <3>2. listed \subseteq DOMAIN donuts
      BY <2>4, <2>5
    <3> QED BY <3>1, <3>2
  <2> QED BY <2>1, <2>2, <2>6 DEF listed
<1> HIDE DEF Inductive, TypeOK
<1> QED BY <1>1, InductiveInvariant, TidyInvariant, PTL

\* The current input folder has no local index that reads back as "no match".
NoneAtCap == \A e \in inputs[tierOffsets.input].suffix : e.pi # Cap

\* Where a tier or a donut is recorded, but not there yet.
Unfinished ==
  {"tierFile", "bakeInput", "removeInput", "bakePrefix", "dropPrefix", "bakeOrder",
   "removeTier", "ice"}

\* A recorded tier that is not in the making is there, with all its donuts.
LEMMA RecordedReadable ==
  ASSUME Inductive, AllTidy, pc \notin Unfinished,
         NEW t \in Tiers, tierOffsets.tier[t] # Absent
  PROVE  TierReadable(t, tierOffsets.tier[t])
<1> USE DEF Unfinished, SlotSteps, BakeInputSteps, BakeTierSteps
<1> DEFINE o == tierOffsets.tier[t]
           x == <<t, o>>
<1>1. x \in DOMAIN donutFile
  <2>1. x \in RecordedFolders
    BY DEF RecordedFolders
  <2>2. NotYetMade = {}
    BY DEF NotYetMade
  <2> HIDE DEF x
  <2> QED BY <2>1, <2>2 DEF AllTidy, FoldersTidy
<1>2. Len(donutFile[x]) \in Nat
  BY <1>1 DEF TiersOnDiskOK
<1>3. NotYetBaked = {} /\ NotYetIced = {}
  BY DEF NotYetBaked, NotYetIced
<1>4. ASSUME NEW k \in 0 .. Len(donutFile[x]) - 1
      PROVE  DonutReadable(<<t, o, k>>)
  <2>1. x[1] = t /\ x[2] = o
    OBVIOUS
  <2> HIDE DEF x, o
  <2>2. k + 1 \in 1 .. Len(donutFile[x]) /\ (k + 1) - 1 = k
    BY <1>2
  <2>3. <<t, o, k>> \in DOMAIN donuts
    BY <1>1, <1>3, <2>1, <2>2 DEF AllTidy, DonutsTidy
  <2>4. donuts[<<t, o, k>>].iced
    BY <1>3, <2>3 DEF AllTidy, DonutsTidy
  <2> QED BY <2>3, <2>4 DEF DonutReadable
<1> QED BY <1>1, <1>4 DEF TierReadable

\* One in the making is not: its folder, or its newest donut, is not whole.
LEMMA UnfinishedUnreadable ==
  ASSUME Inductive, AllTidy, pc \in Unfinished
  PROVE  ~Openable
<1> USE DEF Unfinished, SlotSteps, BakeInputSteps, BakeTierSteps
<1> DEFINE t == job.tier
           o == tiersInfo.offset[t]
<1>1. Up /\ t \in Tiers /\ tiersInfo.present[t] /\ pc \in DonutSteps
  BY DEF Up, OpenTiers, ControlOK, DonutSteps
<1>2. tierOffsets.tier[t] = o /\ o # Absent
  BY <1>1, RecordedTiers DEF MemoryOK, TiersInfoType, Absent
<1>3. ~TierReadable(t, o)
  <2>1. CASE pc = "tierFile"
    <3>1. open[t] = NilTier /\ o = job.off
      BY <2>1 DEF OpenTiers
    <3> QED BY <1>1, <2>1, <3>1, NoSuchFolder DEF TierReadable, Baking
  <2>2. CASE pc # "tierFile"
    <3>1. pc \in SlotSteps \ {"publish"}
      BY <2>2
    <3>2. /\ <<t, o>> \in DOMAIN donutFile /\ job.count - 1 \in 0 .. Len(donutFile[<<t, o>>]) - 1
      <4>1. <<t, o>> \in DOMAIN donutFile /\ job.count = Len(donutFile[<<t, o>>]) /\ job.count > 0
            /\ job.count \in Nat
        BY <3>1, BakeContext DEF TierFolder, JobType
      <4> QED BY <4>1
    <3>3. NotYetIced = {<<t, o, job.count - 1>>}
      BY <3>1 DEF NotYetIced, Slot
    <3>4. ~DonutReadable(<<t, o, job.count - 1>>)
      BY <3>3 DEF AllTidy, DonutsTidy, DonutReadable
    <3> QED BY <3>2, <3>4 DEF TierReadable
  <2> QED BY <2>1, <2>2
<1> QED BY <1>1, <1>2, <1>3 DEF Openable

\* So a cake can be opened exactly where AppendHash has not recorded too much yet.
LEMMA OpenableUnlessUnfinished ==
  ASSUME Inductive, InputAhead, AllTidy, NoneAtCap
  PROVE  Openable <=> pc \notin Unfinished
<1>1. InputReadable(tierOffsets.input)
  <2>1. tierOffsets.input \in DOMAIN inputs /\ ~inputs[tierOffsets.input].readonly
    BY DEF InputAhead, TierOffsetsType
  <2> QED BY <2>1 DEF InputReadable, AllTidy, InputTidy, NoneAtCap
<1>2. pc \notin Unfinished => Openable
  BY <1>1, RecordedReadable DEF Openable
<1> QED BY <1>2, UnfinishedUnreadable

\* Memory is what CakeFactory.Open would read.
LEMMA MemoryReopens ==
  ASSUME Inductive, InputAhead, AllTidy, NoneAtCap, Idle
  PROVE  /\ Openable
         /\ tierOffsets = OnFile(tiersInfo)
         /\ input = OpenedInput(tierOffsets.input)
         /\ \A t \in Tiers :
              open[t] = IF tierOffsets.tier[t] = Absent THEN NilTier
                        ELSE OpenedTier(t, tierOffsets.tier[t])
<1> USE DEF Idle, SlotSteps, BakeInputSteps, BakeTierSteps
<1>1. Openable
  BY OpenableUnlessUnfinished DEF Unfinished
<1>2. tierOffsets = OnFile(tiersInfo) /\ input = OpenedInput(tierOffsets.input)
  BY DEF MemoryOnDisk, AllTidy, InputTidy, Up
<1>3. ASSUME NEW t \in Tiers
      PROVE  open[t] = IF tierOffsets.tier[t] = Absent THEN NilTier
                       ELSE OpenedTier(t, tierOffsets.tier[t])
  <2> DEFINE o == tierOffsets.tier[t]
  <2>1. /\ o = IF tiersInfo.present[t] THEN tiersInfo.offset[t] ELSE Absent
        /\ tiersInfo.offset[t] # Absent
    BY RecordedTiers DEF Up, MemoryOK, TiersInfoType, Absent
  <2>2. CASE ~tiersInfo.present[t]
    BY <2>1, <2>2 DEF AllTidy, MemoryTidy, Up
  <2>3. CASE tiersInfo.present[t]
    <3>1. o = tiersInfo.offset[t] /\ o # Absent /\ open[t] # NilTier /\ open[t] \in OpenTierType
      BY <2>1, <2>3 DEF AllTidy, MemoryTidy, Up, MemoryOK
    <3>2. /\ open[t].folder = o /\ <<t, o>> \in DOMAIN donutFile
          /\ open[t].donuts = Numbered(Len(open[t].offsets) - 0)
      BY <3>1 DEF AllTidy, MemoryTidy, Unpublished, Up
    <3>3. open[t].offsets = donutFile[<<t, o>>]
      BY <3>1, <3>2 DEF OpenTiers
    <3>4. Len(open[t].offsets) - 0 = Len(open[t].offsets)
      BY <3>1 DEF OpenTierType
    <3> HIDE DEF o
    <3>5. open[t].donuts = Numbered(Len(donutFile[<<t, o>>]))
      BY <3>2, <3>3, <3>4
    <3>6. open[t] = [folder |-> open[t].folder, offsets |-> open[t].offsets,
                     donuts |-> open[t].donuts]
      BY <3>1 DEF OpenTierType
    <3>7. open[t] = OpenedTier(t, o)
      BY <3>2, <3>3, <3>5, <3>6 DEF OpenedTier, Numbered
    <3> QED BY <3>1, <3>7 DEF o
  <2> QED BY <2>2, <2>3
<1> QED BY <1>1, <1>2, <1>3

\* With any gaps, unless a local index is the two bytes that mean "no match": a restart
\* between two calls is invisible, and one after a first crash depends on its place only.
THEOREM RestartsInvisible == Spec => [](NoneAtCap => ReopenFaithful /\ OpenAfterCrash)
<1>1. Inductive /\ InputAhead /\ Tidy => (NoneAtCap => ReopenFaithful /\ OpenAfterCrash)
  BY MemoryReopens, OpenableUnlessUnfinished
     DEF Tidy, ReopenFaithful, Undisturbed, OpenAfterCrash, Unfinished
<1> HIDE DEF Inductive, TypeOK
<1> QED BY <1>1, InductiveInvariant, InputStaysAhead, TidyInvariant, PTL

\* Without gaps a full input tier is frozen before it gets that far.
LEMMA NoGapsNoneAtCap ==
  ASSUME MaxGap = 0, Inductive, InputAhead, AllTidy
  PROVE  NoneAtCap
<1> DEFINE current == inputs[tierOffsets.input]
<1>1. current \in InputFolderType /\ current.count \in Nat
  BY InputCounts DEF InputAhead
<1>2. current.count <= Cap /\ \A e \in current.suffix : e.pi < current.count
  BY <1>1 DEF AllTidy, InputTidy
<1>3. \A e \in current.suffix : e.pi \in Int
  BY <1>1 DEF InputFolderType, EntryType
<1> HIDE DEF current
<1>4. \A e \in current.suffix : e.pi # Cap
  BY <1>1, <1>2, <1>3
<1> QED BY <1>4 DEF NoneAtCap, current

\* As long as indices are presented without gaps, Close followed by Open gives back what
\* was in memory: TiersInfo, the input tier, and every open tier with all its donuts.
THEOREM ReopensFaithfully == ASSUME MaxGap = 0 PROVE Spec => []ReopenFaithful
<1>1. Inductive /\ InputAhead /\ Tidy => ReopenFaithful
  BY NoGapsNoneAtCap, MemoryReopens DEF Tidy, ReopenFaithful, Undisturbed
<1> HIDE DEF Inductive, TypeOK
<1> QED BY <1>1, InductiveInvariant, InputStaysAhead, TidyInvariant, PTL

\* And a first crash leaves a cake that can be opened, exactly if it did not hit the
\* steps of newDonutFolder, bake and icing that follow the recording of a new donut.
THEOREM OpensAfterCrash == ASSUME MaxGap = 0 PROVE Spec => []OpenAfterCrash
<1>1. Inductive /\ InputAhead /\ Tidy => OpenAfterCrash
  BY NoGapsNoneAtCap, OpenableUnlessUnfinished DEF Tidy, OpenAfterCrash, Unfinished
<1> HIDE DEF Inductive, TypeOK
<1> QED BY <1>1, InductiveInvariant, InputStaysAhead, TidyInvariant, PTL

=============================================================================
