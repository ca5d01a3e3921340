--------------------------- MODULE CakeShareProofs ---------------------------
(*****************************************************************************)
(* Shared is inductive with Inductive, Traced, InputAhead and Tidy: while no *)
(* gap is presented and no AppendHash breaks off, the folders share out all  *)
(* indices, and the files of each donut lead to all of its share.  So every  *)
(* hash that was presented is found.  CountedUp, at the end, says how many   *)
(* donuts there are and where each begins: the cake counts like an odometer. *)
(*****************************************************************************)
EXTENDS CakeTidyProofs, FiniteSetTheorems, WellFoundedInduction
USE SizesAssumption, PrefixAssumption DEF Tiers, Hashes, Inductive, TypeOK

HandSteps == {"freezeSwitch", "freezeSeal", "newDonut", "tierFile"}

\* A nonempty set of natural numbers has a least element.
LEMMA LeastElement ==
  ASSUME NEW T, T \subseteq Nat, T # {}
  PROVE  \E x \in T : \A y \in T : x <= y
<1> DEFINE less == OpToRel(<, Nat)
<1>1. IsWellFoundedOn(less, Nat)
  BY NatLessThanWellFounded
<1>2. \A x, y \in Nat : <<y, x>> \in less <=> y < x
  BY DEF OpToRel
<1> HIDE DEF less
<1>3. PICK x \in T : \A y \in T : ~ (<<y, x>> \in less)
  BY <1>1, WFMin
<1>4. \A y \in T : x <= y
  <2> TAKE y \in T
  <2>1. x \in Nat /\ y \in Nat /\ ~ (y < x)
    BY <1>2, <1>3
  <2> QED BY <2>1
<1> QED BY <1>4

\* A property of 1 that carries over from each number to the next holds up to n.
LEMMA UpTo ==
  ASSUME NEW n \in Nat, NEW S, 1 \in S, \A d \in 1 .. n - 1 : d \in S => d + 1 \in S
  PROVE  1 .. n \subseteq S
<1> SUFFICES ASSUME (1 .. n) \ S # {} PROVE FALSE
  OBVIOUS
<1> DEFINE left == (1 .. n) \ S
<1>4. left \subseteq Nat /\ left # {}
  OBVIOUS
<1> HIDE DEF left
<1>5. PICK d \in left : \A e \in left : d <= e
  BY <1>4, LeastElement
<1>1. d \in (1 .. n) \ S /\ \A e \in (1 .. n) \ S : d <= e
  BY <1>5 DEF left
<1>2. d # 1 /\ d - 1 \in 1 .. n - 1 /\ d - 1 \notin (1 .. n) \ S
  BY <1>1
<1>3. d - 1 \in S /\ (d - 1) + 1 = d
  BY <1>1, <1>2
<1> QED BY <1>1, <1>2, <1>3

\* The types that the arithmetic of offsets needs.
LEMMA OffsetTypes ==
  ASSUME Inductive
  PROVE  /\ tierOffsets.input \in Nat
         /\ \A t \in Tiers : tierOffsets.tier[t] \in Nat \cup {Absent}
         /\ job.tier \in 0 .. NTiers /\ job.off \in Nat /\ job.prefix \in Nat
         /\ job.offsets \in Seq(Nat) /\ Len(job.offsets) \in Nat
         /\ \A x \in DOMAIN donutFile :
              x[1] \in Tiers /\ x[2] \in Nat /\ donutFile[x] \in Seq(Nat) /\ Len(donutFile[x]) \in Nat
         /\ \A t \in Tiers : tiersInfo.offset[t] \in Nat
<1>1. tierOffsets.input \in Nat /\ \A t \in Tiers : tierOffsets.tier[t] \in Nat \cup {Absent}
  BY DEF TierOffsetsType
<1>2. /\ job.tier \in 0 .. NTiers /\ job.off \in Nat /\ job.prefix \in Nat
      /\ job.offsets \in Seq(Nat) /\ Len(job.offsets) \in Nat
  BY DEF ControlOK, JobType
<1>3. \A x \in DOMAIN donutFile :
        x[1] \in Tiers /\ x[2] \in Nat /\ donutFile[x] \in Seq(Nat) /\ Len(donutFile[x]) \in Nat
  BY DEF TiersOnDiskOK
<1>4. \A t \in Tiers : tiersInfo.offset[t] \in Nat
  BY DEF MemoryOK, TiersInfoType
<1> QED BY <1>1, <1>2, <1>3, <1>4

\* Every donut has an offset, and so has the one about to be made.
LEMMA DonutOffsetType ==
  ASSUME Inductive, NEW s \in DOMAIN donuts \cup NotYetBaked
  PROVE  /\ <<s[1], s[2]>> \in DOMAIN donutFile
         /\ s[3] \in 0 .. Len(donutFile[<<s[1], s[2]>>]) - 1 /\ s[3] \in Nat
         /\ DonutOffset(s) \in Nat /\ s[1] \in Tiers /\ s[2] \in Nat
<1> DEFINE x == <<s[1], s[2]>>
           listed == donutFile[x]
<1>1. x \in DOMAIN donutFile /\ s[3] \in 0 .. Len(listed) - 1
  <2>1. CASE s \in DOMAIN donuts
    BY <2>1 DEF DonutsListed
  <2>2. CASE s \in NotYetBaked
    <3>1. s = Slot /\ pc \in SlotSteps
      BY <2>2 DEF NotYetBaked, SlotSteps, BakeInputSteps, BakeTierSteps
    <3> QED BY <3>1, SlotListed
  <2> QED BY <2>1, <2>2
<1>2. x[1] \in Tiers /\ x[2] \in Nat /\ listed \in Seq(Nat) /\ Len(listed) \in Nat
  BY <1>1, OffsetTypes
<1>3. s[1] \in Tiers /\ s[2] \in Nat
  BY <1>2
<1> HIDE DEF listed, x
<1>4. s[3] \in Nat /\ s[3] + 1 \in 1 .. Len(listed)
  BY <1>1, <1>2
<1>5. listed[s[3] + 1] \in Nat
  <2> DEFINE i == s[3] + 1
  <2>1. listed \in Seq(Nat) /\ i \in 1 .. Len(listed)
    BY <1>2, <1>4
  <2> HIDE DEF i
  <2>2. listed[i] \in Nat
    BY <2>1
  <2> QED BY <2>2 DEF i
<1> QED BY <1>1, <1>2, <1>3, <1>4, <1>5 DEF DonutOffset, listed, x

\* What a share is.
LEMMA ShareIs ==
  ASSUME NEW s
  PROVE  /\ Share(s) \subseteq Hashes
         /\ \A h \in Hashes : h \in Share(s) <=>
              /\ DonutOffset(s) <= h
              /\ \A d \in s[3] + 2 .. Len(donutFile[<<s[1], s[2]>>]) : h < donutFile[<<s[1], s[2]>>][d]
              /\ \A o \in Starts : o > s[2] => h < o
<1> DEFINE listed == donutFile[<<s[1], s[2]>>]
<1>1. \A o : o \in After(s) <=> \/ \E d \in s[3] + 2 .. Len(listed) : o = listed[d]
                                \/ o \in Starts /\ o > s[2]
  BY DEF After
<1> QED BY <1>1 DEF Share

\* A donut keeps its share as long as what is listed with it and what has an offset of
\* its own stay the same.
LEMMA ShareKept ==
  ASSUME NEW s, donutFile'[<<s[1], s[2]>>] = donutFile[<<s[1], s[2]>>], Starts' = Starts
  PROVE  DonutOffset(s)' = DonutOffset(s) /\ After(s)' = After(s) /\ Share(s)' = Share(s)
BY DEF DonutOffset, After, Share

\* Where no donut is being made, and where none is being taken apart.
Settled(p) == p \notin {"bakeInput"} \cup BakeTierSteps
LEMMA SettledFacts ==
  /\ Settled(pc) => BeingMade = {} /\ BeingMoved = {} /\ NotYetBaked = {}
  /\ Settled(pc)' => BeingMade' = {} /\ BeingMoved' = {} /\ NotYetBaked' = {} /\ PrefixesMoved'
BY DEF Settled, BeingMade, BeingMoved, NotYetBaked, BakeTierSteps, PrefixesMoved

\* A step between the bakes that leaves what the donuts have and are told apart by.
LEMMA SettledShared ==
  ASSUME Inductive, AllShared, Settled(pc), Settled(pc)', DOMAIN donuts' = DOMAIN donuts,
         \A s \in DOMAIN donuts :
           donuts'[s].suffix = donuts[s].suffix /\ donuts'[s].order = donuts[s].order,
         \A x \in DOMAIN donutFile : donutFile'[x] = donutFile[x],
         Starts' = Starts, tierOffsets'.input = tierOffsets.input,
         pc' \in HandSteps => \A s \in DOMAIN donuts : s[1] >= job'.tier => s[2] < job'.off
  PROVE  Ascending' /\ DonutsFilled' /\ PrefixesMoved'
<1>1. \A s \in DOMAIN donuts : DonutOffset(s)' = DonutOffset(s) /\ After(s)' = After(s)
                               /\ Share(s)' = Share(s)
  <2> TAKE s \in DOMAIN donuts
  <2>1. <<s[1], s[2]>> \in DOMAIN donutFile
    BY DonutOffsetType
  <2> QED BY <2>1, ShareKept
<1>2. Ascending'
  BY <1>1, SettledFacts DEF AllShared, Ascending, HandSteps
<1>3. DonutsFilled'
  <2>1. ASSUME NEW s \in DOMAIN donuts
        PROVE  /\ HashesIn(donuts[s].suffix) = Share(s)
               /\ donuts[s].order = InOrder(Share(s), DonutOffset(s))
    BY SettledFacts DEF AllShared, DonutsFilled
  <2>2. \A s \in DOMAIN donuts :
          /\ HashesIn(donuts'[s].suffix) = Share(s)'
          /\ donuts'[s].order = InOrder(Share(s)', DonutOffset(s)')
    BY <1>1, <2>1
  <2> QED BY <2>2 DEF DonutsFilled
<1> QED BY <1>2, <1>3, SettledFacts

\* A step that leaves the input folders, and freezes none of them.
LEMMA InputsKept ==
  ASSUME InputsFilled, UNCHANGED inputs, FrozenInputs' \subseteq FrozenInputs,
         tierOffsets'.input = tierOffsets.input
  PROVE  InputsFilled'
BY DEF InputsFilled

\* The starts are numbers.
LEMMA StartsType ==
  ASSUME Inductive
  PROVE  Starts \subseteq Nat
BY OffsetTypes DEF Starts, InHandStart, Absent

\* CakeFactory.Open, Close and the opening and sealing of input folders.
LEMMA OpenCloseShared ==
  ASSUME Inductive, AllShared, Open \/ Close
  PROVE  AllShared'
<1>1. /\ pc \in {"down", "idle"} /\ pc' \in {"down", "idle"}
      /\ UNCHANGED <<tierOffsets, inputs, donutFile, donuts>>
  BY DEF Open, Close, Forget, disk
<1>2. Settled(pc) /\ Settled(pc)'
  BY <1>1 DEF Settled, BakeTierSteps
<1>3. Starts' = Starts
  BY <1>1 DEF Starts, InHandStart
<1>4. FrozenInputs' = {} /\ FrozenInputs = {}
  BY <1>1 DEF FrozenInputs, InputInHand, Baking, DonutSteps
<1> QED BY <1>1, <1>2, <1>3, <1>4, SettledShared, InputsKept DEF AllShared, HandSteps

\* An interval with one number more.
LEMMA OneMore ==
  ASSUME NEW o \in Nat, NEW n \in Nat
  PROVE  o .. o + (n + 1) - 1 = (o .. o + n - 1) \cup {o + n}
<1>1. \A i \in Int : i \in o .. o + (n + 1) - 1 <=> i \in o .. o + n - 1 \/ i = o + n
  OBVIOUS
<1>2. /\ o .. o + (n + 1) - 1 \subseteq Int /\ o .. o + n - 1 \subseteq Int
      /\ o + n \in Int
  OBVIOUS
<1> QED BY <1>1, <1>2

\* If a presented index skips nothing, it is the next one.
LEMMA OnlyNext ==
  ASSUME NEW g \in Nat, NEW c \in Nat, NEW n \in Nat, MaxGap = 0, c + n <= g, g <= c + n + MaxGap
  PROVE  g = c + n /\ g - c = n
OBVIOUS

\* Without gaps AppendHash adds the next index to the current input folder.
LEMMA AppendHashShared ==
  ASSUME Inductive, InputAhead, AllTidy, AllShared, MaxGap = 0, NEW gpi \in Hashes, AppendHash(gpi)
  PROVE  AllShared'
<1> DEFINE current == input.offset
           n == input.count
           localPi == gpi - current
           new == Entry(gpi, localPi)
<1>1. /\ pc = "idle" /\ pc' \in {"idle", "freezeCreate"} /\ Up /\ Presentable(gpi)
      /\ UNCHANGED <<tierOffsets, donutFile, donuts, job>>
  BY DEF AppendHash, Presentable, Up
<1>2. /\ current \in Nat /\ current \in DOMAIN inputs /\ inputs[current] \in InputFolderType
      /\ n = inputs[current].count /\ n \in Nat
  BY <1>1, CurrentOffset, InputCounts DEF InputAhead
<1>3. gpi = current + n /\ localPi = n
  <2>1. current + n <= gpi /\ gpi <= current + n + MaxGap /\ gpi \in Nat
    BY <1>1 DEF Presentable
  <2> QED BY <1>2, <2>1, OnlyNext
<1>4. /\ DOMAIN inputs' = DOMAIN inputs
      /\ inputs'[current] = Grown(inputs[current], n + 1, new)
      /\ \A o \in DOMAIN inputs \ {current} : inputs'[o] = inputs[o]
  <2>1. inputs'[current] = Grown(inputs[current], localPi + 1, new)
    BY <1>2 DEF AppendHash, Grown
  <2>2. localPi + 1 = n + 1
    BY <1>3
  <2> QED BY <2>1, <2>2 DEF AppendHash
<1>5. new.hash = gpi
  BY DEF Entry
<1> HIDE DEF current, n, new, localPi
<1>6. inputs'[current].count = n + 1 /\ inputs'[current].suffix = inputs[current].suffix \cup {new}
  BY <1>2, <1>4 DEF Grown, InputFolderType
<1>7. HashesIn(inputs'[current].suffix) = current .. current + inputs'[current].count - 1
  <2>1. HashesIn(inputs'[current].suffix) = HashesIn(inputs[current].suffix) \cup {gpi}
    BY <1>5, <1>6 DEF HashesIn
  <2>2. HashesIn(inputs[current].suffix) = current .. current + n - 1
    BY <1>2 DEF AllShared, InputsFilled
  <2>3. current .. current + (n + 1) - 1 = (current .. current + n - 1) \cup {current + n}
    BY <1>2, OneMore
  <2>4. HashesIn(inputs'[current].suffix) = current .. current + (n + 1) - 1
    BY <1>3, <2>1, <2>2, <2>3
  <2> QED BY <1>6, <2>4
<1>8. FrozenInputs' = {}
  BY <1>1 DEF FrozenInputs, InputInHand, Baking, DonutSteps
<1>9. InputsFilled'
  BY <1>4, <1>7, <1>8 DEF AllShared, InputsFilled
<1>10. Settled(pc) /\ Settled(pc)' /\ Starts' = Starts
  BY <1>1 DEF Settled, BakeTierSteps, Starts, InHandStart
<1> QED BY <1>1, <1>9, <1>10, SettledShared DEF AllShared, HandSteps

\* The next input folder has nothing yet; opening and sealing a folder fill none.
LEMMA FreezeShared ==
  ASSUME Inductive, AllTidy, AllShared, FreezeCreate \/ FreezeSwitch \/ FreezeSeal
  PROVE  AllShared'
<1>1. /\ pc \in {"freezeCreate", "freezeSwitch", "freezeSeal"}
      /\ pc' \in {"freezeRecord", "freezeSeal", "newDonut"}
      /\ pc' \in HandSteps <=> pc \in HandSteps
      /\ pc = "freezeCreate" => pc' = "freezeRecord"
      /\ UNCHANGED <<tierOffsets, donutFile, donuts, job>>
  BY DEF FreezeCreate, FreezeSwitch, FreezeSeal, disk, memory, HandSteps
<1>2. Settled(pc) /\ Settled(pc)' /\ Starts' = Starts
  BY <1>1 DEF Settled, BakeTierSteps, Starts, InHandStart, HandSteps
<1>3. Ascending' /\ DonutsFilled' /\ PrefixesMoved'
  BY <1>1, <1>2, SettledShared DEF AllShared, Ascending, HandSteps
<1>4. FrozenInputs' = FrozenInputs
  BY <1>1 DEF FrozenInputs, InputInHand, Baking, DonutSteps, HandSteps
<1>5. CASE FreezeCreate
  <2>1. /\ DOMAIN inputs' = DOMAIN inputs \cup {NextOffset}
        /\ inputs'[NextOffset] = NewInput
        /\ \A o \in DOMAIN inputs \ {NextOffset} : inputs'[o] = inputs[o]
    BY <1>5 DEF FreezeCreate, Put
  <2>2. FrozenInputs' = {}
    BY <1>4, <1>5 DEF FreezeCreate, FrozenInputs, InputInHand, Baking, DonutSteps
  <2>3. NextOffset \in Nat
    <3>1. Up
      BY <1>5 DEF FreezeCreate, Up
    <3>2. tiersInfo.input \in Nat /\ input.count \in Nat
      BY <3>1, CurrentOffset DEF MemoryOK, InputType
    <3> QED BY <3>2 DEF NextOffset
  <2>4. HashesIn(NewInput.suffix) = NextOffset .. NextOffset + NewInput.count - 1
    BY <2>3 DEF NewInput, HashesIn
  <2>5. InputsFilled'
    BY <2>1, <2>2, <2>4 DEF AllShared, InputsFilled
  <2> QED BY <1>3, <2>5 DEF AllShared
<1>6. CASE FreezeSwitch
  <2>1. InputsFilled'
    BY <1>1, <1>4, <1>6, InputsKept DEF AllShared, FreezeSwitch, disk
  <2> QED BY <1>3, <2>1 DEF AllShared
<1>7. CASE FreezeSeal
  <2>1. /\ DOMAIN inputs' = DOMAIN inputs
        /\ \A o \in DOMAIN inputs :
             inputs'[o].suffix = inputs[o].suffix /\ inputs'[o].count = inputs[o].count
    <3>1. \A o \in DOMAIN inputs : inputs[o] \in InputFolderType
      BY DEF InputsOK
    <3>2. inputs' = [inputs EXCEPT ![job.off] = Sealed(@)]
      BY <1>7 DEF FreezeSeal, Sealed
    <3> QED BY <3>1, <3>2 DEF Sealed, InputFolderType
  <2>2. FrozenInputs \subseteq DOMAIN inputs
    BY <1>7 DEF FreezeSeal, FrozenInputs, InputFolders
  <2>3. InputsFilled'
    BY <1>1, <1>4, <2>1, <2>2 DEF AllShared, InputsFilled
  <2> QED BY <1>3, <2>3 DEF AllShared
<1> QED BY <1>5, <1>6, <1>7

\* A folder just frozen is what comes after the donuts until it is listed itself.
LEMMA FreezeRecordShared ==
  ASSUME Inductive, AllTidy, AllShared, MaxGap = 0, FreezeRecord
  PROVE  AllShared'
<1> DEFINE current == tierOffsets.input
           next == NextOffset
<1>1. /\ pc = "freezeRecord" /\ pc' = "freezeSwitch" /\ Up
      /\ UNCHANGED <<inputs, donutFile, donuts, input, open>>
      /\ job'.off = tiersInfo.input /\ job'.tier = 0
  BY DEF FreezeRecord, NoJob, Up
<1>2. tiersInfo \in TiersInfoType /\ tierOffsets = OnFile(tiersInfo)
  BY <1>1 DEF MemoryOK, MemoryOnDisk
<1>3. /\ tiersInfo'.input = next /\ tiersInfo'.offset = tiersInfo.offset
      /\ tiersInfo'.present = tiersInfo.present
  BY <1>2 DEF FreezeRecord, TiersInfoType
<1>4. /\ tiersInfo.input = current
      /\ tierOffsets'.input = next /\ tierOffsets'.tier = tierOffsets.tier
  BY <1>2, <1>3 DEF FreezeRecord, OnFile
<1>5. /\ current \in Nat /\ current \in DOMAIN inputs /\ inputs[current] \in InputFolderType
      /\ inputs[current].count = Cap /\ next = current + Cap /\ Cap \in Nat \ {0}
  <2>1. current \in Nat /\ input.offset = current /\ current \in DOMAIN inputs
    BY <1>1, CurrentOffset
  <2>2. input = OpenedInput(current) /\ input.count = Cap
    BY <1>1 DEF AllTidy, InputTidy, JobFits
  <2>3. inputs[current].count = Cap
    BY <2>2 DEF OpenedInput
  <2>4. next = tiersInfo.input + input.count
    BY DEF NextOffset
  <2> QED BY <1>4, <2>1, <2>2, <2>3, <2>4 DEF InputsOK
<1>6. HashesIn(inputs[current].suffix) = current .. current + Cap - 1
  BY <1>5 DEF AllShared, InputsFilled
<1>7. next <= MaxGpi
  <2>1. current + Cap - 1 \in HashesIn(inputs[current].suffix)
    BY <1>5, <1>6
  <2>2. current + Cap - 1 \in Hashes
    BY <1>5, <2>1 DEF HashesIn, InputFolderType, EntryType
  <2> QED BY <1>5, <2>2
<1> HIDE DEF next
<1>8. Starts' = Starts \cup {next}
  <2>1. \A u \in Tiers : tierOffsets'.tier[u] = tierOffsets.tier[u]
    BY <1>4
  <2>2. InHandStart' = {current} /\ InHandStart = {}
    BY <1>1, <1>4 DEF InHandStart
  <2>3. tierOffsets'.input = next /\ tierOffsets.input = current
    BY <1>4
  <2> HIDE DEF current
  <2> QED BY <2>1, <2>2, <2>3 DEF Starts
<1>9. \A s \in DOMAIN donuts :
        /\ DonutOffset(s)' = DonutOffset(s) /\ DonutOffset(s) \in Nat
        /\ After(s)' = After(s) \cup {next}
        /\ current \in After(s) /\ s[2] < current
  <2> TAKE s \in DOMAIN donuts
  <2>1. <<s[1], s[2]>> \in DOMAIN donutFile /\ DonutOffset(s) \in Nat /\ s[2] \in Nat
    BY DonutOffsetType
  <2>2. s[2] < current
    BY <2>1 DEF Offsets
  <2>3. current \in Starts
    BY DEF Starts
  <2>4. After(s)' = After(s) \cup {o \in {next} : o > s[2]}
    BY <1>1, <1>8 DEF After
  <2>5. next > s[2]
    BY <1>5, <2>1, <2>2
  <2>6. DonutOffset(s)' = DonutOffset(s)
    BY <1>1, <2>1 DEF DonutOffset
  <2>7. After(s)' = After(s) \cup {next}
    BY <2>4, <2>5
  <2>8. current \in After(s)
    BY <2>2, <2>3 DEF After
  <2> QED BY <2>1, <2>2, <2>6, <2>7, <2>8
<1>10. \A s \in DOMAIN donuts : Share(s)' = Share(s)
  <2> TAKE s \in DOMAIN donuts
  <2>1. \A h \in Hashes : h < current => h < next
    BY <1>5
  <2> HIDE DEF current
  <2> QED BY <1>9, <2>1 DEF Share
<1>11. Ascending'
  <2>1. \A s \in DOMAIN donuts : \A o \in After(s)' : DonutOffset(s)' < o
    <3> TAKE s \in DOMAIN donuts
    <3>1. \A o \in After(s) : DonutOffset(s) < o
      BY DEF AllShared, Ascending
    <3>2. DonutOffset(s) < current
      BY <1>9, <3>1
    <3>3. DonutOffset(s) < next
      BY <1>5, <1>9, <3>2
    <3> QED BY <1>9, <3>1, <3>3
  <2>2. NotYetBaked' = {}
    BY <1>1 DEF NotYetBaked
  <2>3. \A s \in DOMAIN donuts : s[2] < job'.off
    BY <1>1, <1>4, <1>9
  <2> QED BY <1>1, <1>4, <1>7, <2>1, <2>2, <2>3 DEF Ascending
<1>12. InputsFilled'
  <2>1. FrozenInputs' = {current}
    BY <1>1, <1>4 DEF FrozenInputs, InputInHand, Baking
  <2> QED BY <1>1, <1>4, <1>5, <2>1 DEF AllShared, InputsFilled
<1>13. Settled(pc) /\ Settled(pc)'
  BY <1>1 DEF Settled, BakeTierSteps
<1>14. DonutsFilled'
  <2>1. ASSUME NEW s \in DOMAIN donuts
        PROVE  /\ HashesIn(donuts[s].suffix) = Share(s)
               /\ donuts[s].order = InOrder(Share(s), DonutOffset(s))
    BY <1>13, SettledFacts DEF AllShared, DonutsFilled
  <2>2. \A s \in DOMAIN donuts :
          /\ HashesIn(donuts'[s].suffix) = Share(s)'
          /\ donuts'[s].order = InOrder(Share(s)', DonutOffset(s)')
    BY <1>1, <1>9, <1>10, <2>1
  <2> QED BY <1>1, <2>2 DEF DonutsFilled
<1> QED BY <1>11, <1>12, <1>13, <1>14, SettledFacts DEF AllShared

\* A tier is recorded for the folder in hand, and its folder is made.
LEMMA NewTierShared ==
  ASSUME Inductive, AllTidy, AllShared, TierRecord \/ TierFile
  PROVE  AllShared'
<1> DEFINE t == job.tier
<1>1. /\ pc \in {"newDonut", "tierFile"} /\ pc' \in {"newDonut", "tierFile"} /\ t \in Tiers
      /\ Up /\ Baking /\ open[t] = NilTier /\ job.off \in Nat
      /\ UNCHANGED <<inputs, donuts, job>>
  BY DEF TierRecord, TierFile, Up, Baking, ControlOK, JobType, DonutSteps, OpenTiers
<1>2. tiersInfo \in TiersInfoType /\ tierOffsets = OnFile(tiersInfo)
  BY <1>1 DEF MemoryOK, MemoryOnDisk
<1>3. tierOffsets'.input = tierOffsets.input /\ Starts' = Starts
  <2>1. CASE TierRecord
    <3>1. pc = "newDonut" /\ pc' = "tierFile"
      BY <2>1 DEF TierRecord
    <3>2. tiersInfo' = WithTier(tiersInfo, t, job.off) /\ tierOffsets' = OnFile(tiersInfo')
      BY <2>1 DEF TierRecord
    <3>3. tierOffsets.tier[t] = Absent
      BY <1>1, <3>1, RecordedTiers DEF AllTidy, MemoryTidy
    <3>4. InHandStart = {job.off} /\ InHandStart' = {}
      BY <3>1 DEF InHandStart
    <3> HIDE DEF t
    <3>5. /\ tierOffsets'.input = tierOffsets.input /\ tierOffsets'.tier[t] = job.off
          /\ \A u \in Tiers \ {t} : tierOffsets'.tier[u] = tierOffsets.tier[u]
      BY <1>1, <1>2, <3>2, TierRecorded
    <3>6. job.off # Absent
      BY <1>1 DEF Absent
    <3> QED BY <1>1, <3>3, <3>4, <3>5, <3>6 DEF Starts
  <2>2. CASE TierFile
    <3>1. pc = "tierFile" /\ pc' = "newDonut" /\ UNCHANGED tierOffsets
      BY <2>2 DEF TierFile
    <3>2. tierOffsets.tier[t] = job.off
      BY <1>1, <3>1, RecordedTiers DEF OpenTiers, DonutSteps
    <3>3. InHandStart = {} /\ InHandStart' = {job.off} /\ job.off # Absent
      BY <1>1, <3>1 DEF InHandStart, Absent
    <3> QED BY <1>1, <3>1, <3>2, <3>3 DEF Starts
  <2> QED BY <2>1, <2>2
<1>4. \A x \in DOMAIN donutFile : donutFile'[x] = donutFile[x]
  <2>1. CASE TierRecord
    BY <2>1 DEF TierRecord
  <2>2. CASE TierFile
    <3>1. <<t, job.off>> \notin DOMAIN donutFile
      BY <1>1, NoSuchFolder
    <3> QED BY <2>2, <3>1 DEF TierFile, Put
  <2> QED BY <2>1, <2>2
<1>5. Settled(pc) /\ Settled(pc)' /\ FrozenInputs' = FrozenInputs
  BY <1>1 DEF Settled, BakeTierSteps, FrozenInputs, InputInHand, Baking, DonutSteps
<1>6. pc \in HandSteps /\ \A s \in DOMAIN donuts : s[1] >= t => s[2] < job.off
  BY <1>1 DEF HandSteps, AllShared, Ascending
<1> QED BY <1>1, <1>3, <1>4, <1>5, <1>6, SettledShared, InputsKept DEF AllShared

\* Publishing a donut records nothing that is not recorded.
LEMMA PublishShared ==
  ASSUME Inductive, Traced, AllTidy, AllShared, PublishFirst \/ PublishNext
  PROVE  AllShared'
<1>1. /\ pc = "publish" /\ pc' \in {"idle", "freezeTier"}
      /\ UNCHANGED <<inputs, donutFile, donuts>>
  BY DEF PublishFirst, PublishNext, Return, disk
<1>2. /\ tierOffsets'.input = tierOffsets.input
      /\ \A u \in Tiers : tierOffsets'.tier[u] = tierOffsets.tier[u]
  BY PublishFirstRecord DEF PublishNext, disk
<1>3. Starts' = Starts
  BY <1>1, <1>2 DEF Starts, InHandStart
<1>4. Settled(pc) /\ Settled(pc)' /\ FrozenInputs' = {} /\ pc' \notin HandSteps
  BY <1>1 DEF Settled, BakeTierSteps, FrozenInputs, InputInHand, Baking, DonutSteps, HandSteps
<1> QED BY <1>1, <1>2, <1>3, <1>4, SettledShared, InputsKept DEF AllShared

\* A tier that is frozen is what the folder in hand starts with.
LEMMA FreezeTierShared ==
  ASSUME Inductive, AllTidy, AllShared, FreezeTier
  PROVE  AllShared'
<1> DEFINE t == job.tier
<1>1. /\ pc = "freezeTier" /\ pc' = "newDonut" /\ t \in Tiers /\ Up
      /\ tiersInfo.present[t]
      /\ job'.tier = t + 1 /\ job'.off = tiersInfo.offset[t]
      /\ UNCHANGED <<inputs, donutFile, donuts>>
  BY DEF FreezeTier, Up, ControlOK, DonutSteps, OpenTiers
<1>2. /\ tierOffsets'.input = tierOffsets.input /\ tierOffsets'.tier[t] = Absent
      /\ \A u \in Tiers \ {t} : tierOffsets'.tier[u] = tierOffsets.tier[u]
  <2>1. tiersInfo \in TiersInfoType /\ tierOffsets = OnFile(tiersInfo)
    BY <1>1 DEF MemoryOK, MemoryOnDisk
  <2>2. tiersInfo' = WithoutTier(tiersInfo, t) /\ tierOffsets' = OnFile(tiersInfo')
    BY DEF FreezeTier
  <2>3. t \in Tiers
    BY <1>1
  <2> HIDE DEF t
  <2>4. /\ tiersInfo' \in TiersInfoType /\ tiersInfo'.input = tiersInfo.input
        /\ tiersInfo'.offset = tiersInfo.offset /\ ~tiersInfo'.present[t]
        /\ \A u \in Tiers \ {t} : tiersInfo'.present[u] = tiersInfo.present[u]
    BY <2>1, <2>2, <2>3, WithoutTierFacts
  <2>5. /\ tierOffsets'.input = tiersInfo'.input
        /\ \A u \in Tiers : tierOffsets'.tier[u] =
             IF tiersInfo'.present[u] THEN tiersInfo'.offset[u] ELSE Absent
    BY <2>2, <2>4, OnFileFacts
  <2>6. /\ tierOffsets.input = tiersInfo.input
        /\ \A u \in Tiers : tierOffsets.tier[u] =
             IF tiersInfo.present[u] THEN tiersInfo.offset[u] ELSE Absent
    BY <2>1, OnFileFacts
  <2> QED BY <2>3, <2>4, <2>5, <2>6
<1>3. tierOffsets.tier[t] = job'.off /\ job'.off # Absent
  <2>1. tierOffsets.tier[t] = tiersInfo.offset[t]
    BY <1>1, RecordedTiers
  <2>2. tiersInfo.offset[t] \in Nat
    BY <1>1, OffsetTypes
  <2> QED BY <1>1, <2>1, <2>2 DEF Absent
<1>4. Starts' = Starts
  <2>1. InHandStart = {} /\ InHandStart' = {job'.off}
    BY <1>1 DEF InHandStart
  <2> DEFINE kept == {u \in Tiers \ {t} : tierOffsets.tier[u] # Absent}
             off(u) == tierOffsets.tier[u]
  <2>2. t \in Tiers /\ tierOffsets.tier[t] # Absent
    BY <1>1, <1>3
  <2> HIDE DEF t
  <2>3. {u \in Tiers : tierOffsets.tier[u] # Absent} = kept \cup {t}
    BY <2>2
  <2>4. {u \in Tiers : tierOffsets'.tier[u] # Absent} = kept
    BY <1>2
  <2>5. \A u \in kept : tierOffsets'.tier[u] = off(u)
    BY <1>2
  <2> HIDE DEF kept
  <2>6. Starts = {tierOffsets.input} \cup {off(u) : u \in kept \cup {t}}
    BY <2>1, <2>3 DEF Starts
  <2>7. Starts' = {tierOffsets.input} \cup {job'.off} \cup {off(u) : u \in kept}
    BY <1>2, <2>1, <2>4, <2>5 DEF Starts
  <2>8. off(t) = job'.off
    BY <1>3
  <2> HIDE DEF off
  <2> QED BY <2>6, <2>7, <2>8
<1>5. \A s \in DOMAIN donuts : s[1] >= job'.tier => s[2] < job'.off
  <2> TAKE s \in DOMAIN donuts
  <2>1. <<s[1], s[2]>> \in DOMAIN donutFile /\ s[1] \in Tiers
    BY DonutOffsetType
  <2>2. s[1] >= job'.tier => s[1] > t
    BY <1>1, <2>1
  <2> QED BY <1>1, <1>3, <2>1, <2>2 DEF TiersNewer
<1>6. Settled(pc) /\ Settled(pc)' /\ FrozenInputs' = {}
  BY <1>1 DEF Settled, BakeTierSteps, FrozenInputs, InputInHand, Baking
<1> QED BY <1>1, <1>2, <1>4, <1>5, <1>6, SettledShared, InputsKept DEF AllShared

\* The frozen input folder goes when its donut has been made; icing adds no hash.
LEMMA FinishShared ==
  ASSUME Inductive, AllShared, RemoveInput \/ Ice
  PROVE  AllShared'
<1>1. /\ pc \in {"removeInput", "ice"} /\ pc' \in {"ice", "publish"}
      /\ UNCHANGED <<tierOffsets, donutFile, job>>
  BY DEF RemoveInput, Ice, memory
<1>2. /\ DOMAIN donuts' = DOMAIN donuts
      /\ \A s \in DOMAIN donuts :
           donuts'[s].suffix = donuts[s].suffix /\ donuts'[s].order = donuts[s].order
  <2>1. CASE RemoveInput
    BY <2>1 DEF RemoveInput
  <2>2. CASE Ice
    <3>1. /\ DOMAIN donuts' = DOMAIN donuts
          /\ \A s \in DOMAIN donuts : donuts'[s] = donuts[s] \/ donuts'[s] = Iced(donuts[s])
      BY <2>2 DEF Ice, Iced
    <3>2. \A s \in DOMAIN donuts :
            Iced(donuts[s]).suffix = donuts[s].suffix /\ Iced(donuts[s]).order = donuts[s].order
      BY DEF TiersOnDiskOK, DonutOK, Iced
    <3> QED BY <3>1, <3>2
  <2> QED BY <2>1, <2>2
<1>3. Starts' = Starts
  BY <1>1 DEF Starts, InHandStart
<1>4. Settled(pc) /\ Settled(pc)' /\ FrozenInputs' = {} /\ pc' \notin HandSteps
  BY <1>1 DEF Settled, BakeTierSteps, FrozenInputs, InputInHand, Baking, DonutSteps, HandSteps
<1>5. DOMAIN inputs' \subseteq DOMAIN inputs /\ \A o \in DOMAIN inputs' : inputs'[o] = inputs[o]
  BY DEF RemoveInput, Ice, Drop, Restrict
<1>6. InputsFilled'
  BY <1>4, <1>5 DEF AllShared, InputsFilled
<1> QED BY <1>1, <1>2, <1>3, <1>4, <1>6, SettledShared DEF AllShared

\* What else there is while a donut is being made: it goes to the newest tier; what is
\* not that tier's, or being taken apart, belongs to an older and higher one.
LEMMA MakingContext ==
  ASSUME Inductive, AllTidy, Baking, pc # "tierFile", job.tier \in Tiers, open[job.tier] # NilTier
  PROVE  LET t == job.tier  own == tierOffsets.tier[job.tier]
         IN  /\ TierFolder = <<t, own>> /\ TierFolder \in DOMAIN donutFile
             /\ own \in Nat /\ own # Absent /\ job.off \in Nat /\ tierOffsets.input \in Nat
             /\ own <= job.off /\ job.off < tierOffsets.input
             /\ \A u \in Tiers : tierOffsets.tier[u] # Absent =>
                  tierOffsets.tier[u] \in Nat /\ tierOffsets.tier[u] <= own
             /\ \A x \in DOMAIN donutFile :
                  \/ x = TierFolder
                  \/ x[1] = t - 1 /\ x[2] = job.off
                  \/ x[1] > t /\ x[2] < own
<1> DEFINE t == job.tier
           own == tierOffsets.tier[t]
<1>1. /\ Up /\ t \in Tiers /\ tiersInfo.present[t] /\ TierFolder \in DOMAIN donutFile
      /\ TierFolder = <<t, tiersInfo.offset[t]>>
  BY DEF AllTidy, MemoryTidy, Up, Baking, DonutSteps, TierFolder
<1>2. own = tiersInfo.offset[t]
  BY <1>1, RecordedTiers
<1>3. own \in Nat /\ own # Absent /\ job.off \in Nat /\ tierOffsets.input \in Nat
  <2>1. own \in Nat /\ job.off \in Nat /\ tierOffsets.input \in Nat
    BY <1>1, <1>2, OffsetTypes
  <2> HIDE DEF own
  <2> QED BY <2>1 DEF Absent
<1>4. TierFolder[1] = t /\ TierFolder[2] = own
  BY <1>1, <1>2
<1>5. own <= job.off /\ job.off < tierOffsets.input
  <2>1. own < job.off \/ own = job.off
    <3>1. TierFolder[1] >= job.tier
      BY <1>1, <1>4
    <3> HIDE DEF own
    <3> QED BY <1>1, <1>4, <3>1 DEF JobNewer
  <2>2. job.off < tierOffsets.input
    BY DEF Offsets
  <2> QED BY <1>3, <2>1, <2>2
<1>6. NotYetMade = {}
  BY DEF NotYetMade
<1>7. \A u \in Tiers : tierOffsets.tier[u] # Absent => u >= t /\ <<u, tierOffsets.tier[u]>> \in DOMAIN donutFile
  <2> TAKE u \in Tiers
  <2> HAVE tierOffsets.tier[u] # Absent
  <2>1. tiersInfo.present[u]
    BY <1>1, RecordedTiers
  <2>2. ~ (u < t)
    BY <2>1 DEF TiersNewer
  <2>3. u \in Int /\ t \in Int
    BY <1>1
  <2>4. <<u, tierOffsets.tier[u]>> \in RecordedFolders
    BY DEF RecordedFolders
  <2> QED BY <1>6, <2>2, <2>3, <2>4 DEF AllTidy, FoldersTidy
<1>8. \A x \in DOMAIN donutFile : x[1] > t => x[2] < own
  BY <1>1, <1>3 DEF TiersNewer
<1>9. \A u \in Tiers : tierOffsets.tier[u] # Absent =>
        tierOffsets.tier[u] \in Nat /\ tierOffsets.tier[u] <= own
  <2> TAKE u \in Tiers
  <2> HAVE tierOffsets.tier[u] # Absent
  <2>1. tierOffsets.tier[u] \in Nat
    BY OffsetTypes
  <2>2. CASE u = t
    BY <1>3, <2>2
  <2>3. CASE u # t
    <3>1. u > t
      <4>1. u \in Int /\ t \in Int
        BY <1>1
      <4>2. u >= t
        BY <1>7
      <4> HIDE DEF t
      <4> QED BY <2>3, <4>1, <4>2
    <3>2. tierOffsets.tier[u] < own
      BY <1>7, <1>8, <3>1
    <3> HIDE DEF own
    <3> QED BY <1>3, <2>1, <3>2
  <2> QED BY <2>2, <2>3
<1>10. \A x \in DOMAIN donutFile :
         \/ x = TierFolder
         \/ x[1] = t - 1 /\ x[2] = job.off
         \/ x[1] > t /\ x[2] < own
  <2> TAKE x \in DOMAIN donutFile
  <2>1. x \in RecordedFolders \/ x \in FrozenFolders
    BY DEF AllTidy, FoldersTidy
  <2>2. CASE x \in FrozenFolders
    BY <2>2 DEF FrozenFolders
  <2>3. CASE x \in RecordedFolders
    <3>1. PICK u \in Tiers : tierOffsets.tier[u] # Absent /\ x = <<u, tierOffsets.tier[u]>>
      BY <2>3 DEF RecordedFolders
    <3>2. CASE u = t
      BY <1>1, <1>2, <3>1, <3>2
    <3>3. CASE u # t
      <4>1. u \in Int /\ t \in Int /\ u >= t
        BY <1>1, <1>7, <3>1
      <4> HIDE DEF t, own
      <4>2. u > t
        BY <3>3, <4>1
      <4> QED BY <1>8, <3>1, <4>2
    <3> QED BY <3>2, <3>3
  <2> QED BY <2>1, <2>2, <2>3
<1> QED BY <1>1, <1>2, <1>3, <1>4, <1>5, <1>9, <1>10

\* Once a donut is listed, only the input tier starts after its tier.
LEMMA SlotStarts ==
  ASSUME Inductive, AllTidy, pc \in SlotSteps
  PROVE  \A o : o \in Starts /\ o > Slot[2] <=> o = tierOffsets.input
<1> USE DEF SlotSteps, BakeInputSteps, BakeTierSteps
<1>1. Baking /\ pc # "tierFile" /\ job.tier \in Tiers /\ open[job.tier] # NilTier
  BY DEF Baking, DonutSteps, ControlOK, OpenTiers
<1>2. Slot[2] = tierOffsets.tier[job.tier]
  BY <1>1, MakingContext DEF Slot, TierFolder
<1>3. InHandStart = {}
  BY DEF InHandStart
<1> DEFINE own == tierOffsets.tier[job.tier]
           last == tierOffsets.input
<1>4. /\ own \in Nat /\ job.off \in Nat /\ last \in Nat /\ own <= job.off /\ job.off < last
      /\ \A u \in Tiers : tierOffsets.tier[u] # Absent =>
           tierOffsets.tier[u] \in Nat /\ tierOffsets.tier[u] <= own
  BY <1>1, MakingContext
<1>5. \A o : o \in Starts <=>
        o = last \/ \E u \in Tiers : tierOffsets.tier[u] # Absent /\ o = tierOffsets.tier[u]
  BY <1>3 DEF Starts
<1> HIDE DEF own, last
<1>6. \A o : o \in Starts => o = last \/ ~ (o > own)
  <2> TAKE o
  <2> HAVE o \in Starts
  <2>1. CASE o = last
    BY <2>1
  <2>2. CASE o # last
    <3>1. PICK u \in Tiers : tierOffsets.tier[u] # Absent /\ o = tierOffsets.tier[u]
      BY <1>5, <2>2
    <3>2. o \in Nat /\ o <= own
      BY <1>4, <3>1
    <3> QED BY <1>4, <3>2
  <2> QED BY <2>1, <2>2
<1>7. last > own
  BY <1>4
<1> QED BY <1>2, <1>5, <1>6, <1>7 DEF own, last

\* Two sets that are bounded alike leave the same share.
LEMMA SameShare ==
  ASSUME NEW s, DonutOffset(s)' = DonutOffset(s), After(s)' \subseteq After(s), After(s) \subseteq Nat,
         \A o \in After(s) : \E b \in After(s)' : b <= o
  PROVE  Share(s)' = Share(s)
<1>1. \A h \in Hashes : (\A b \in After(s)' : h < b) => \A o \in After(s) : h < o
  BY DEF Hashes
<1> QED BY <1>1 DEF Share

\* The folder in hand becomes the last donut of its tier: what the donuts end at stays
\* where it was, and so does the folder that the new donut is made of.
LEMMA DonutFolderShared ==
  ASSUME Inductive, Traced, AllTidy, AllShared, DonutFolder
  PROVE  AllShared'
<1> DEFINE t == job.tier
           folder == TierFolder
           was == donutFile[folder]
           now == Append(was, job.off)
           slot == <<t, folder[2], Len(was)>>
           own == tierOffsets.tier[t]
           last == tierOffsets.input
<1>1. /\ pc = "newDonut" /\ pc' \in {"bakeInput", "bakePrefix"} /\ t \in Tiers /\ Baking
      /\ open[t] # NilTier /\ folder \in DOMAIN donutFile
      /\ UNCHANGED <<tierOffsets, inputs, donuts>>
      /\ job'.tier = t /\ job'.off = job.off /\ job'.prefix = 0 /\ job'.offsets = job.offsets
  <2>1. job'.offsets = job.offsets
    BY DEF DonutFolder, ControlOK, JobType
  <2> QED BY <2>1, DonutListed DEF Baking
<1>2. /\ was \in Seq(Nat) /\ Len(was) \in Nat /\ Len(now) = Len(was) + 1
      /\ \A d \in 1 .. Len(was) : now[d] = was[d] /\ was[d] \in Nat
      /\ now[Len(now)] = job.off
  <2>1. was \in Seq(Nat) /\ Len(was) \in Nat /\ Len(now) = Len(was) + 1 /\ job.off \in Nat
    BY DonutListed
  <2> HIDE DEF was
  <2> QED BY <2>1
<1>3. /\ donutFile'[folder] = now
      /\ \A x \in DOMAIN donutFile \ {folder} : donutFile'[x] = donutFile[x]
      /\ Slot' = slot /\ slot \notin DOMAIN donuts
  BY DonutListed
<1>4. /\ folder = <<t, own>> /\ own \in Nat /\ own # Absent /\ job.off \in Nat /\ last \in Nat
      /\ own <= job.off /\ job.off < last
      /\ \A u \in Tiers : tierOffsets.tier[u] # Absent =>
           tierOffsets.tier[u] \in Nat /\ tierOffsets.tier[u] <= own
      /\ \A x \in DOMAIN donutFile :
           x = folder \/ (x[1] = t - 1 /\ x[2] = job.off) \/ (x[1] > t /\ x[2] < own)
  <2>1. pc # "tierFile"
    BY <1>1
  <2> QED BY <1>1, <2>1, MakingContext
<1>5. Starts = Starts' \cup {job.off} /\ last \in Starts' /\ own \in Starts' /\ Starts' \subseteq Nat
  <2>1. InHandStart = {job.off} /\ InHandStart' = {}
    BY <1>1 DEF InHandStart
  <2>2. Starts = Starts' \cup {job.off} /\ last \in Starts' /\ own \in Starts'
    BY <1>1, <1>4, <2>1 DEF Starts
  <2> QED BY <2>2, StartsType
<1>6. \A o \in Starts' : o = last \/ o <= own
  BY <1>1, <1>4 DEF Starts, InHandStart
<1>7. \A s \in DOMAIN donuts :
        /\ <<s[1], s[2]>> \in DOMAIN donutFile /\ s[1] \in Tiers /\ s[2] \in Nat
        /\ s[3] \in 0 .. Len(donutFile[<<s[1], s[2]>>]) - 1
        /\ s[1] >= t => s[2] < job.off
  BY <1>1, DonutOffsetType DEF AllShared, Ascending
<1> HIDE DEF t, was, now, own, last, folder
<1>8. \A s \in DOMAIN donuts :
        /\ DonutOffset(s)' = DonutOffset(s) /\ After(s)' \subseteq After(s)
        /\ \A o \in After(s) : \E b \in After(s)' : b <= o
        /\ After(s) \subseteq Nat
  <2> TAKE s \in DOMAIN donuts
  <2> DEFINE x == <<s[1], s[2]>>
             k == s[3]
  <2>1. /\ x \in DOMAIN donutFile /\ k \in 0 .. Len(donutFile[x]) - 1 /\ x[1] = s[1] /\ x[2] = s[2]
        /\ Len(donutFile[x]) \in Nat /\ donutFile[x] \in Seq(Nat) /\ s[2] \in Nat /\ s[1] \in Int
    BY <1>7, OffsetTypes
  <2>2. /\ DonutOffset(s) = donutFile[x][k + 1] /\ DonutOffset(s)' = donutFile'[x][k + 1]
        /\ After(s) = {donutFile[x][d] : d \in k + 2 .. Len(donutFile[x])} \cup {o \in Starts : o > s[2]}
        /\ After(s)' =
             {donutFile'[x][d] : d \in k + 2 .. Len(donutFile'[x])} \cup {o \in Starts' : o > s[2]}
    BY DEF DonutOffset, After
  <2> HIDE DEF x, k
  <2>3. After(s) \subseteq Nat
    <3>1. \A d \in k + 2 .. Len(donutFile[x]) : donutFile[x][d] \in Nat
      BY <2>1
    <3> QED BY <1>4, <1>5, <2>2, <3>1
  <2>4. CASE x = folder
    <3>1. s[1] >= t /\ s[2] = own
      BY <1>4, <2>1, <2>4
    <3>2. own < job.off
      BY <1>7, <3>1
    <3>3. k \in 0 .. Len(was) - 1 /\ donutFile[x] = was /\ donutFile'[x] = now
      BY <1>3, <2>1, <2>4 DEF was
    <3>4. DonutOffset(s)' = DonutOffset(s)
      <4>1. k + 1 \in 1 .. Len(was)
        BY <1>2, <3>3
      <4> QED BY <1>2, <2>2, <3>3, <4>1
    <3>5. {now[d] : d \in k + 2 .. Len(now)} = {was[d] : d \in k + 2 .. Len(was)} \cup {job.off}
      <4>1. \A d \in k + 2 .. Len(now) : d \in k + 2 .. Len(was) \/ d = Len(now)
        BY <1>2, <3>3
      <4>2. Len(now) \in k + 2 .. Len(now) /\ k + 2 .. Len(was) \subseteq k + 2 .. Len(now)
        BY <1>2, <3>3
      <4>3. \A d \in k + 2 .. Len(was) : now[d] = was[d]
        BY <1>2, <3>3
      <4> QED BY <1>2, <4>1, <4>2, <4>3
    <3>6. {o \in Starts : o > s[2]} = {o \in Starts' : o > s[2]} \cup {job.off}
      BY <1>5, <3>1, <3>2
    <3>7. After(s)' = After(s)
      <4>1. After(s) = {was[d] : d \in k + 2 .. Len(was)} \cup {o \in Starts : o > s[2]}
        BY <2>2, <3>3
      <4>2. After(s)' = {now[d] : d \in k + 2 .. Len(now)} \cup {o \in Starts' : o > s[2]}
        BY <2>2, <3>3
      <4> QED BY <3>5, <3>6, <4>1, <4>2, Zenon
    <3>8. \A o \in After(s) : o <= o
      BY <2>3
    <3> QED BY <2>3, <3>4, <3>7, <3>8
  <2>5. CASE x # folder
    <3>1. donutFile'[x] = donutFile[x]
      BY <1>3, <2>1, <2>5
    <3>2. After(s) = After(s)' \cup {o \in {job.off} : o > s[2]}
      BY <1>5, <2>2, <3>1
    <3>3. \E b \in After(s)' : b <= job.off \/ ~ (job.off > s[2])
      <4>1. CASE x[1] = t - 1 /\ x[2] = job.off
        <5>1. ~ (job.off > s[2]) /\ last > s[2]
          BY <1>4, <2>1, <4>1
        <5> QED BY <1>5, <2>2, <5>1
      <4>2. CASE x[1] > t /\ x[2] < own
        <5>1. own > s[2] /\ own <= job.off
          BY <1>4, <2>1, <4>2
        <5> QED BY <1>5, <2>2, <5>1
      <4> QED BY <1>4, <2>1, <2>5, <4>1, <4>2
    <3>4. \A o \in After(s)' : o <= o
      BY <2>3, <3>2
    <3> QED BY <2>2, <2>3, <3>1, <3>2, <3>3, <3>4
  <2> QED BY <2>4, <2>5
<1>9. \A s \in DOMAIN donuts : Share(s)' = Share(s)
  BY <1>8, SameShare
<1>10. PICK new : new = Slot'
  OBVIOUS
<1>11. DonutOffset(new)' = job.off /\ After(new)' = {last}
  <2>1. new[1] = t /\ new[2] = own /\ new[3] = Len(was) /\ <<new[1], new[2]>> = folder
    BY <1>3, <1>4, <1>10
  <2>2. /\ DonutOffset(new)' = now[Len(was) + 1]
        /\ After(new)' = {now[d] : d \in Len(was) + 2 .. Len(now)} \cup {o \in Starts' : o > own}
    BY <1>3, <2>1 DEF DonutOffset, After
  <2>3. Len(was) + 2 .. Len(now) = {}
    BY <1>2
  <2>4. {o \in Starts' : o > own} = {last}
    <3>1. \A o \in Starts' : o > own <=> o = last
      <4>1. last > own
        BY <1>4
      <4>2. \A o \in Starts' : o <= own => ~ (o > own)
        BY <1>4, <1>5
      <4> QED BY <1>6, <4>1, <4>2
    <3> QED BY <1>5, <3>1
  <2> QED BY <1>2, <2>2, <2>3, <2>4
<1>12. Ascending'
  <2>1. (DOMAIN donuts \cup NotYetBaked)' = DOMAIN donuts \cup {new}
    BY <1>1, <1>10 DEF NotYetBaked
  <2>2. \A s \in DOMAIN donuts : \A o \in After(s)' : DonutOffset(s)' < o
    BY <1>8 DEF AllShared, Ascending
  <2>3. \A o \in After(new)' : DonutOffset(new)' < o
    BY <1>4, <1>11
  <2>4. tierOffsets'.input <= MaxGpi
    BY <1>1 DEF AllShared, Ascending
  <2> QED BY <1>1, <2>1, <2>2, <2>3, <2>4 DEF Ascending
<1>13. InputsFilled'
  <2>1. FrozenInputs' \subseteq FrozenInputs
    BY <1>1 DEF FrozenInputs, InputInHand, Baking, DonutSteps, t
  <2> QED BY <1>1, <2>1, InputsKept DEF AllShared
<1>14. ASSUME NEW s \in DOMAIN donuts
       PROVE  /\ HashesIn(donuts[s].suffix) = Share(s)
              /\ donuts[s].order = InOrder(Share(s), DonutOffset(s))
  BY <1>1 DEF AllShared, DonutsFilled, BeingMade, BeingMoved, BakeTierSteps
<1>15. DonutsFilled'
  <2>1. \A s \in DOMAIN donuts :
          /\ HashesIn(donuts'[s].suffix) = Share(s)'
          /\ donuts'[s].order = InOrder(Share(s)', DonutOffset(s)')
    BY <1>1, <1>8, <1>9, <1>14
  <2> QED BY <1>1, <2>1 DEF DonutsFilled
<1>16. PrefixesMoved'
  <2> SUFFICES ASSUME pc' = "bakePrefix" PROVE PrefixesMoved'
    BY <1>1 DEF PrefixesMoved
  <2>1. t > 0 /\ t - 1 \in Tiers
    <3>1. t # 0
      BY DonutListed DEF t
    <3> QED BY <1>1, <3>1
  <2>2. \A d \in 1 .. Len(job.offsets) : Source(d)' = Source(d) /\ Source(d) \in DOMAIN donuts
    <3> TAKE d \in 1 .. Len(job.offsets)
    <3>1. <<t - 1, job.off>> \in DOMAIN donutFile
      BY <1>1, <2>1 DEF AllTidy, FoldersTidy, FrozenFolders, t
    <3>2. donutFile[<<t - 1, job.off>>] = job.offsets
      BY <1>1, <2>1, <3>1 DEF Traced, JobIndexed, t
    <3>3. NotYetBaked = {}
      BY <1>1 DEF NotYetBaked
    <3> QED BY <1>1, <3>1, <3>2, <3>3 DEF AllTidy, DonutsTidy, Source, t
  <2>3. \A d \in 1 .. Len(job.offsets) :
          Share(Source(d))' = Share(Source(d)) /\ HashesIn(donuts[Source(d)].suffix) = Share(Source(d))
    BY <1>9, <1>14, <2>2
  <2>4. \A h \in Hashes : PrefixOf[t - 1][h] \in Nat
    BY <2>1
  <2>5. PrefixesCopied' = 0
    BY <1>1 DEF PrefixesCopied
  <2>6. \A d \in 1 .. Len(job.offsets) : Share(Source(d)) \subseteq Hashes
    BY ShareIs
  <2>7. \A d \in 1 .. Len(job.offsets) : \A h \in Share(Source(d))' :
          /\ h \in HashesIn(donuts'[Source(d)'].suffix)
          /\ ~ (PrefixOf[job'.tier - 1][h] < PrefixesCopied')
    <3> TAKE d \in 1 .. Len(job.offsets)
    <3>1. Share(Source(d))' = Share(Source(d))
      BY <2>3
    <3>2. Source(d)' = Source(d) /\ HashesIn(donuts'[Source(d)'].suffix) = Share(Source(d))
      BY <1>1, <2>2, <2>3
    <3>3. \A h \in Share(Source(d)) : ~ (PrefixOf[job'.tier - 1][h] < PrefixesCopied')
      <4> TAKE h \in Share(Source(d))
      <4>1. job'.tier = t /\ h \in Hashes
        BY <1>1, <2>6
      <4>2. PrefixOf[t - 1][h] \in Nat
        BY <2>4, <4>1
      <4>3. ~ (PrefixOf[t - 1][h] < 0)
        BY <4>2
      <4> QED BY <2>5, <4>1, <4>3
    <3> QED BY <3>1, <3>2, <3>3
  <2>8. ~ (PrefixesCopied' > 0)
    BY <2>5
  <2> QED BY <1>1, <2>7, <2>8 DEF PrefixesMoved
<1> QED BY <1>12, <1>13, <1>15, <1>16 DEF AllShared

\* There are n natural numbers below n.
LEMMA Below ==
  ASSUME NEW n \in Nat
  PROVE  IsFiniteSet(0 .. n - 1) /\ Cardinality(0 .. n - 1) = n
<1>1. n - 1 \in Int /\ 0 \in Int
  OBVIOUS
<1>2. /\ IsFiniteSet(0 .. n - 1)
      /\ Cardinality(0 .. n - 1) = IF 0 > n - 1 THEN 0 ELSE (n - 1) - 0 + 1
  BY <1>1, FS_Interval
<1>3. (IF 0 > n - 1 THEN 0 ELSE (n - 1) - 0 + 1) = n
  OBVIOUS
<1> QED BY <1>2, <1>3

\* The elements of two sets in one-to-one correspondence are as many.
LEMMA AsMany ==
  ASSUME NEW S, NEW T, NEW f \in [S -> T], IsFiniteSet(S),
         \A x, y \in S : f[x] = f[y] => x = y, \A z \in T : \E x \in S : f[x] = z
  PROVE  IsFiniteSet(T) /\ Cardinality(T) = Cardinality(S)
<1>1. f \in Bijection(S, T)
  BY DEF Bijection, Injection, Surjection, IsInjective
<1> QED BY <1>1, FS_Bijection DEF ExistsBijection

\* Where every local index below n has its entry, none is at another's place.
LEMMA InPlace ==
  ASSUME NEW o \in Nat, NEW n \in Nat, NEW entries \in SUBSET EntryType,
         HashesIn(entries) = o .. o + n - 1, \A e \in entries : e.hash = e.pi + o,
         NEW l \in 0 .. n - 1
  PROVE  Resolved(entries, l) = l + o
<1>1. \A e \in entries : e.pi \in 0 .. n - 1 /\ e = Entry(e.pi + o, e.pi)
  <2> TAKE e \in entries
  <2>1. e \in EntryType /\ e.pi \in Int /\ e.hash \in o .. o + n - 1 /\ e.hash = e.pi + o
    BY DEF EntryType, HashesIn
  <2>2. e.pi \in 0 .. n - 1
    BY <2>1
  <2> QED BY <2>1, <2>2 DEF EntryType, Entry
<1>2. \A i \in 0 .. n - 1 : Entry(i + o, i) \in entries
  <2> TAKE i \in 0 .. n - 1
  <2>1. i + o \in HashesIn(entries)
    OBVIOUS
  <2>2. PICK e \in entries : e.hash = i + o
    BY <2>1 DEF HashesIn
  <2>3. e.pi = i
    <3>1. e.pi \in Int /\ i + o = e.pi + o
      BY <1>1, <2>2
    <3> QED BY <3>1
  <2> QED BY <1>1, <2>2, <2>3
<1>3. \A i, a : Entry(a, i).pi = i /\ Entry(a, i).hash = a
  BY DEF Entry
<1> HIDE DEF Entry
<1>4. ASSUME NEW e \in entries
      PROVE  Cardinality({d \in entries : d.pi < e.pi}) = e.pi
  <2> DEFINE f == [i \in 0 .. e.pi - 1 |-> Entry(i + o, i)]
             T == {d \in entries : d.pi < e.pi}
  <2>1. e.pi \in 0 .. n - 1
    BY <1>1
  <2>2. IsFiniteSet(0 .. e.pi - 1) /\ Cardinality(0 .. e.pi - 1) = e.pi
    <3>1. e.pi \in Nat
      BY <2>1
    <3> QED BY <3>1, Below
  <2>3. f \in [0 .. e.pi - 1 -> T]
    <3>1. \A i \in 0 .. e.pi - 1 : i \in 0 .. n - 1 /\ i < e.pi
      BY <2>1
    <3> QED BY <1>2, <1>3, <3>1
  <2>4. \A x, y \in 0 .. e.pi - 1 : f[x] = f[y] => x = y
    <3>1. \A x \in 0 .. e.pi - 1 : f[x].pi = x
      BY <1>3
    <3> QED BY <3>1
  <2>5. \A z \in T : \E x \in 0 .. e.pi - 1 : f[x] = z
    <3> TAKE z \in T
    <3>1. z.pi \in 0 .. n - 1 /\ z = Entry(z.pi + o, z.pi) /\ z.pi < e.pi
      BY <1>1
    <3>2. z.pi \in 0 .. e.pi - 1
      BY <2>1, <3>1
    <3> QED BY <3>1, <3>2
  <2> HIDE DEF f, T
  <2> DEFINE S == 0 .. e.pi - 1
  <2>6. /\ f \in [S -> T] /\ IsFiniteSet(S) /\ \A x, y \in S : f[x] = f[y] => x = y
        /\ \A z \in T : \E x \in S : f[x] = z
    BY <2>2, <2>3, <2>4, <2>5
  <2> HIDE DEF S
  <2>7. Cardinality(T) = Cardinality(S)
    BY <2>6, AsMany
  <2> QED BY <2>2, <2>7 DEF S, T
<1> DEFINE ranked == {e \in entries : Cardinality({d \in entries : d.pi < e.pi}) = l}
<1>5. ranked = {Entry(l + o, l)}
  <2>1. \A e \in entries : e \in ranked <=> e.pi = l
    BY <1>4
  <2> HIDE DEF ranked
  <2>2. Entry(l + o, l) \in ranked
    BY <1>2, <1>3, <2>1
  <2>3. ranked \subseteq entries
    BY DEF ranked
  <2> QED BY <1>1, <2>1, <2>2, <2>3
<1>6. \E e \in entries : e.pi = l
  BY <1>2, <1>3
<1>7. Resolved(entries, l) = (CHOOSE e \in ranked : TRUE).hash
  BY <1>5, <1>6 DEF Resolved
<1> HIDE DEF ranked
<1>8. (CHOOSE e \in ranked : TRUE) = Entry(l + o, l)
  BY <1>5
<1>9. Resolved(entries, l) = Entry(l + o, l).hash
  BY <1>7, <1>8
<1> QED BY <1>3, <1>9

\* The share of the donut being made starts with the folder in hand and ends with the
\* input tier.
LEMMA SlotShare ==
  ASSUME Inductive, Traced, AllTidy, pc \in SlotSteps
  PROVE  /\ DonutOffset(Slot) = job.off /\ After(Slot) = {tierOffsets.input}
         /\ Share(Slot) = {h \in Hashes : job.off <= h /\ h < tierOffsets.input}
<1>1. DonutOffset(Slot) = job.off
  BY SlotOffset
<1> DEFINE listed == donutFile[<<Slot[1], Slot[2]>>]
<1>2. Slot[3] + 2 .. Len(listed) = {}
  <2>1. Slot[3] = job.count - 1 /\ job.count = Len(listed) /\ job.count \in Nat
    BY BakeContext DEF JobType
  <2> HIDE DEF listed
  <2> QED BY <2>1
<1>3. After(Slot) = {o \in Starts : o > Slot[2]}
  <2>1. After(Slot) =
          {listed[d] : d \in Slot[3] + 2 .. Len(listed)} \cup {o \in Starts : o > Slot[2]}
    BY DEF After
  <2> HIDE DEF listed
  <2> QED BY <1>2, <2>1
<1>4. After(Slot) = {tierOffsets.input}
  BY <1>3, SlotStarts
<1> QED BY <1>1, <1>4 DEF Share

\* While a donut is made and goes over into service, all shares stay the same.
LEMMA MakingShares ==
  ASSUME UNCHANGED <<tierOffsets, donutFile>>, pc \in SlotSteps, pc' \in SlotSteps
  PROVE  /\ Starts' = Starts
         /\ \A s : DonutOffset(s)' = DonutOffset(s) /\ After(s)' = After(s) /\ Share(s)' = Share(s)
<1>1. Starts' = Starts
  BY DEF Starts, InHandStart, SlotSteps, BakeInputSteps, BakeTierSteps
<1> QED BY <1>1, ShareKept

\* The donut made of an input folder leads to all of its share: no index is missing in
\* the folder, so each stands at its own place in the suffix file.
LEMMA BakeInputShared ==
  ASSUME Inductive, Traced, AllTidy, AllShared, BakeInput
  PROVE  AllShared'
<1> USE DEF SlotSteps, BakeInputSteps
<1> DEFINE frozen == inputs[job.off]
           share == job.off .. job.off + Cap - 1
           order == [l \in 0 .. frozen.count - 1 |-> Resolved(frozen.suffix, l)]
           made == Filled(NewDonut, frozen.suffix, order)
<1>1. /\ pc = "bakeInput" /\ pc' = "removeInput" /\ job.tier = 0 /\ job.off \in DOMAIN inputs
      /\ donuts' = Put(donuts, Slot, made)
      /\ UNCHANGED <<tierOffsets, inputs, donutFile, job>>
  <2>1. pc = "bakeInput" /\ job.tier = 0 /\ job.off \in DOMAIN inputs
    BY DEF BakeInput, JobFits, InputFolders, InputInHand, Baking, DonutSteps
  <2> QED BY <2>1 DEF BakeInput, memory, Filled
<1>2. /\ job.off \in Nat /\ frozen.suffix \in SUBSET EntryType /\ frozen.count = Cap
      /\ job.off + Cap = tierOffsets.input /\ Cap \in Nat \ {0}
      /\ HashesIn(frozen.suffix) = share
      /\ \A e \in frozen.suffix : e.hash = e.pi + job.off
  <2>1. job.off \in FrozenInputs
    BY <1>1 DEF FrozenInputs, InputInHand, Baking, DonutSteps
  <2>2. job.off \in Nat /\ frozen \in InputFolderType
    BY <1>1 DEF InputsOK
  <2>3. /\ frozen.count = Cap /\ job.off + Cap = tierOffsets.input
        /\ HashesIn(frozen.suffix) = job.off .. job.off + frozen.count - 1
    BY <1>1, <2>1 DEF AllShared, InputsFilled
  <2> QED BY <1>1, <2>2, <2>3 DEF InputFolderType, Traced, Indexed
<1>3. share \subseteq Hashes
  BY <1>2 DEF HashesIn, EntryType
<1>4. DonutOffset(Slot) = job.off /\ Share(Slot) = share
  <2>1. \A h \in Hashes : h \in share <=> job.off <= h /\ h < tierOffsets.input
    BY <1>2
  <2>2. Share(Slot) = {h \in Hashes : job.off <= h /\ h < tierOffsets.input}
    BY <1>1, SlotShare
  <2> HIDE DEF share
  <2> QED BY <1>1, <1>3, <2>1, <2>2, SlotShare
<1>5. made.suffix = frozen.suffix /\ made.order = order
  <2> HIDE DEF order, frozen
  <2> QED BY DEF made, Filled, NewDonut
<1>6. order = InOrder(share, job.off)
  <2>1. {h - job.off : h \in share} = 0 .. Cap - 1
    <3>1. \A h \in share : h - job.off \in 0 .. Cap - 1
      BY <1>2
    <3>2. \A i \in 0 .. Cap - 1 : i + job.off \in share /\ (i + job.off) - job.off = i
      BY <1>2
    <3> HIDE DEF share
    <3> QED BY <3>1, <3>2
  <2>2. \A l \in 0 .. Cap - 1 : Resolved(frozen.suffix, l) = l + job.off
    <3> HIDE DEF frozen
    <3> QED BY <1>2, InPlace
  <2>3. order = [l \in 0 .. Cap - 1 |-> Resolved(frozen.suffix, l)]
    BY <1>2
  <2> HIDE DEF share, order, frozen
  <2> QED BY <2>1, <2>2, <2>3 DEF InOrder
<1> HIDE DEF made, order, share
<1>7. /\ Starts' = Starts
      /\ \A s : DonutOffset(s)' = DonutOffset(s) /\ After(s)' = After(s) /\ Share(s)' = Share(s)
  BY <1>1, MakingShares
<1>8. /\ Slot \notin DOMAIN donuts /\ Slot' = Slot /\ donuts'[Slot] = made
      /\ DOMAIN donuts' = DOMAIN donuts \cup {Slot}
      /\ \A s \in DOMAIN donuts : donuts'[s] = donuts[s]
  <2>1. Slot \notin DOMAIN donuts
    BY <1>1 DEF NothingDroppedEarly
  <2>2. Slot' = Slot
    BY <1>1 DEF BakeInput, memory, Slot
  <2> HIDE DEF frozen
  <2> QED BY <1>1, <2>1, <2>2 DEF Put
<1>9. Ascending'
  <2>1. (DOMAIN donuts \cup NotYetBaked)' = DOMAIN donuts \cup NotYetBaked
    BY <1>1, <1>8 DEF NotYetBaked
  <2> QED BY <1>1, <1>7, <2>1 DEF AllShared, Ascending
<1>10. InputsFilled'
  <2>1. FrozenInputs' = FrozenInputs
    BY <1>1 DEF FrozenInputs, InputInHand, Baking, DonutSteps
  <2> QED BY <1>1, <2>1, InputsKept DEF AllShared
<1>11. DonutsFilled'
  <2>1. ASSUME NEW s \in DOMAIN donuts
        PROVE  /\ HashesIn(donuts[s].suffix) = Share(s)
               /\ donuts[s].order = InOrder(Share(s), DonutOffset(s))
    BY <1>1, <1>8 DEF AllShared, DonutsFilled, BeingMade, BeingMoved, BakeTierSteps
  <2>2. ASSUME NEW s \in DOMAIN donuts'
        PROVE  /\ HashesIn(donuts'[s].suffix) = Share(s)'
               /\ donuts'[s].order = InOrder(Share(s)', DonutOffset(s)')
    <3>1. CASE s = Slot
      BY <1>2, <1>4, <1>5, <1>6, <1>7, <1>8, <3>1
    <3>2. CASE s # Slot
      BY <1>7, <1>8, <2>1, <3>2
    <3> QED BY <3>1, <3>2
  <2> QED BY <2>2 DEF DonutsFilled
<1>12. PrefixesMoved'
  BY <1>1 DEF PrefixesMoved
<1> QED BY <1>9, <1>10, <1>11, <1>12 DEF AllShared

\* Where the share of each source donut starts, and the last one's ends.
Edge(d) == IF d <= Len(job.offsets) THEN job.offsets[d] ELSE tierOffsets.input

\* The frozen tier that is being baked is whole, and its first donut has its offset.
LEMMA FrozenTier ==
  ASSUME Inductive, Traced, AllTidy, pc \in BakeTierSteps
  PROVE  LET n == Len(job.offsets)  folder == <<job.tier - 1, job.off>>
         IN  /\ job.tier \in Tiers /\ job.tier > 0 /\ job.tier - 1 \in Tiers /\ job.off \in Nat
             /\ n \in Nat /\ n >= 1 /\ job.offsets[1] = job.off
             /\ folder \in DOMAIN donutFile /\ donutFile[folder] = job.offsets
             /\ \A d \in 1 .. n : /\ job.offsets[d] \in Nat /\ Source(d) \in DOMAIN donuts
                                  /\ Source(d) # Slot /\ DonutOffset(Source(d)) = job.offsets[d]
<1> USE DEF BakeTierSteps
<1> DEFINE n == Len(job.offsets)
           folder == <<job.tier - 1, job.off>>
<1>1. /\ job.tier \in Tiers /\ job.tier > 0 /\ job.tier - 1 \in Tiers /\ job.off \in Nat
      /\ n \in Nat /\ \A d \in 1 .. n : job.offsets[d] \in Nat
  BY BakeTierContext, OffsetTypes DEF ControlOK, DonutSteps
<1>2. folder \in DOMAIN donutFile
  BY <1>1 DEF AllTidy, FoldersTidy, FrozenFolders
<1>3. donutFile[folder] = job.offsets
  BY <1>1, <1>2 DEF Traced, JobIndexed
<1>4. \A d \in 1 .. n : Source(d) # Slot
  BY BakeContext DEF Sources, SlotSteps
<1>5. \A d \in 1 .. n : Source(d) \in DOMAIN donuts
  <2> TAKE d \in 1 .. n
  <2>1. folder[1] = job.tier - 1 /\ folder[2] = job.off
    OBVIOUS
  <2>2. NotYetBaked \subseteq {Slot}
    BY DEF NotYetBaked
  <2>3. <<folder[1], folder[2], d - 1>> \in DOMAIN donuts \cup NotYetBaked
    BY <1>2, <1>3 DEF AllTidy, DonutsTidy
  <2> QED BY <1>4, <2>1, <2>2, <2>3 DEF Source
<1>6. \A d \in 1 .. n : DonutOffset(Source(d)) = job.offsets[d]
  BY <1>5, SourceFacts
<1>7. n >= 1 /\ job.offsets[1] = job.off
  <2>1. donutFile[folder] # <<>> /\ donutFile[folder][1] = folder[2]
    BY <1>2 DEF AllTidy, NamedByFirst
  <2>2. job.offsets \in Seq(Nat)
    BY OffsetTypes
  <2>3. n # 0
    <3> DEFINE offsets == job.offsets
    <3> HIDE DEF offsets
    <3>1. Len(offsets) = 0 => offsets = <<>>
      BY <2>2 DEF offsets
    <3> QED BY <1>3, <2>1, <3>1 DEF offsets
  <2> QED BY <1>1, <1>3, <2>1, <2>3
<1> QED BY <1>1, <1>2, <1>3, <1>4, <1>5, <1>6, <1>7

\* The shares of the sources follow each other without a hole.
LEMMA SourceShares ==
  ASSUME Inductive, Traced, AllTidy, AllShared, pc \in BakeTierSteps
  PROVE  LET n == Len(job.offsets)
         IN  /\ Edge(1) = job.off /\ Edge(n + 1) = tierOffsets.input
             /\ \A d \in 1 .. n + 1 : Edge(d) \in Nat
             /\ \A d \in 1 .. n : Edge(d) = job.offsets[d] /\ Edge(d) < Edge(d + 1)
             /\ \A d \in 1 .. n : Share(Source(d)) = Edge(d) .. Edge(d + 1) - 1
<1> DEFINE n == Len(job.offsets)
           folder == <<job.tier - 1, job.off>>
           offsets == job.offsets
           last == tierOffsets.input
<1>1. /\ n \in Nat /\ n >= 1 /\ offsets[1] = job.off /\ job.off \in Nat /\ last \in Nat
      /\ donutFile[folder] = offsets /\ last <= MaxGpi
      /\ \A d \in 1 .. n : /\ offsets[d] \in Nat /\ Source(d) \in DOMAIN donuts
                           /\ DonutOffset(Source(d)) = offsets[d]
  BY FrozenTier, OffsetTypes DEF AllShared, Ascending
<1>2. Baking /\ pc # "tierFile" /\ job.tier \in Tiers /\ open[job.tier] # NilTier
  BY DEF Baking, DonutSteps, ControlOK, OpenTiers, BakeTierSteps
<1>3. job.off < last /\ \A u \in Tiers : tierOffsets.tier[u] # Absent => ~ (tierOffsets.tier[u] > job.off)
  <2> DEFINE own == tierOffsets.tier[job.tier]
  <2>1. /\ job.off < last /\ own \in Nat /\ own <= job.off
        /\ \A u \in Tiers : tierOffsets.tier[u] # Absent =>
             tierOffsets.tier[u] \in Nat /\ tierOffsets.tier[u] <= own
    BY <1>2, MakingContext
  <2> HIDE DEF own
  <2> QED BY <1>1, <2>1
<1>4. {o \in Starts : o > job.off} = {last}
  <2>1. InHandStart = {}
    BY DEF InHandStart, BakeTierSteps
  <2> QED BY <1>3, <2>1 DEF Starts
<1>5. ASSUME NEW d \in 1 .. n
      PROVE  After(Source(d)) = {offsets[c] : c \in d + 1 .. n} \cup {last}
  <2>1. /\ Source(d)[1] = job.tier - 1 /\ Source(d)[2] = job.off /\ Source(d)[3] = d - 1
        /\ <<Source(d)[1], Source(d)[2]>> = folder
    BY DEF Source
  <2>2. (d - 1) + 2 = d + 1
    BY <1>1
  <2> HIDE DEF offsets, n, last, folder
  <2> QED BY <1>1, <1>4, <2>1, <2>2 DEF After, n, offsets
<1>6. ASSUME NEW d \in 1 .. n, NEW c \in d + 1 .. n
      PROVE  offsets[d] < offsets[c]
  <2>1. offsets[c] \in After(Source(d)) /\ Source(d) \in DOMAIN donuts
    BY <1>1, <1>5
  <2>2. \A s \in DOMAIN donuts : \A o \in After(s) : DonutOffset(s) < o
    BY DEF AllShared, Ascending
  <2>3. DonutOffset(Source(d)) = offsets[d]
    BY <1>1
  <2> HIDE DEF offsets, last
  <2> QED BY <2>1, <2>2, <2>3
<1>7. \A d \in 1 .. n : offsets[d] < last
  <2> TAKE d \in 1 .. n
  <2>1. last \in After(Source(d)) /\ Source(d) \in DOMAIN donuts
    BY <1>1, <1>5
  <2>2. \A s \in DOMAIN donuts : \A o \in After(s) : DonutOffset(s) < o
    BY DEF AllShared, Ascending
  <2>3. DonutOffset(Source(d)) = offsets[d]
    BY <1>1
  <2> HIDE DEF offsets, last
  <2> QED BY <2>1, <2>2, <2>3
<1>8. /\ Edge(1) = job.off /\ Edge(n + 1) = last
      /\ \A d \in 1 .. n : Edge(d) = offsets[d]
  <2>1. 1 <= n /\ ~ (n + 1 <= n) /\ \A d \in 1 .. n : d <= n
    BY <1>1
  <2> QED BY <1>1, <2>1 DEF Edge
<1>9. \A d \in 1 .. n + 1 : Edge(d) \in Nat
  <2>1. \A d \in 1 .. n + 1 : d \in 1 .. n \/ d = n + 1
    BY <1>1
  <2> QED BY <1>1, <1>8, <2>1
<1> HIDE DEF n, offsets, last, folder
<1>10. ASSUME NEW d \in 1 .. n
       PROVE  Edge(d) < Edge(d + 1) /\ Share(Source(d)) = Edge(d) .. Edge(d + 1) - 1
  <2>1. d + 1 \in d + 1 .. n \/ d = n
    BY <1>1
  <2>2. Edge(d) = offsets[d] /\ Edge(d) \in Nat
    BY <1>1, <1>8
  <2>3. \A o \in After(Source(d)) : o \in Nat /\ Edge(d + 1) <= o
    <3>1. CASE d = n
      <4>1. d + 1 .. n = {}
        BY <1>1, <3>1
      <4>2. After(Source(d)) = {last}
        BY <1>5, <4>1
      <4> QED BY <1>1, <1>8, <3>1, <4>2
    <3>2. CASE d + 1 \in d + 1 .. n
      <4>1. d + 1 \in 1 .. n
        BY <1>1, <3>2
      <4>2. Edge(d + 1) = offsets[d + 1] /\ offsets[d + 1] \in Nat
        BY <1>1, <1>8, <4>1
      <4>3. ASSUME NEW c \in d + 1 .. n
            PROVE  offsets[c] \in Nat /\ offsets[d + 1] <= offsets[c]
        <5>1. CASE c = d + 1
          BY <4>2, <5>1
        <5>2. CASE c # d + 1
          <6>1. c \in (d + 1) + 1 .. n /\ c \in 1 .. n
            BY <1>1, <4>3, <5>2
          <6>2. offsets[d + 1] < offsets[c]
            BY <1>6, <4>1, <6>1
          <6> QED BY <1>1, <4>2, <6>1, <6>2
        <5> QED BY <5>1, <5>2
      <4>4. offsets[d + 1] < last
        BY <1>7, <4>1
      <4>5. last \in Nat /\ Edge(d + 1) <= last
        BY <1>1, <4>2, <4>4
      <4>6. \A c \in d + 1 .. n : offsets[c] \in Nat /\ Edge(d + 1) <= offsets[c]
        BY <4>2, <4>3
      <4> TAKE o \in After(Source(d))
      <4>7. o \in {offsets[c] : c \in d + 1 .. n} \cup {last}
        BY <1>5, Zenon
      <4>8. o = last \/ \E c \in d + 1 .. n : o = offsets[c]
        BY <4>7, Zenon
      <4> QED BY <4>5, <4>6, <4>8
    <3> QED BY <2>1, <3>1, <3>2
  <2>4. Edge(d + 1) \in After(Source(d))
    <3>1. CASE d = n
      BY <1>5, <1>8, <3>1
    <3>2. CASE d + 1 \in d + 1 .. n
      <4>1. d + 1 \in 1 .. n
        BY <1>1, <3>2
      <4> QED BY <1>5, <1>8, <3>2, <4>1
    <3> QED BY <2>1, <3>1, <3>2
  <2>5. Edge(d) < Edge(d + 1)
    BY <1>1, <1>8, <2>4 DEF AllShared, Ascending
  <2>6. Edge(d + 1) \in Nat /\ Edge(d + 1) <= MaxGpi
    <3>1. last \in After(Source(d))
      BY <1>5
    <3>2. Edge(d + 1) \in Nat /\ Edge(d + 1) <= last
      BY <2>3, <2>4, <3>1
    <3>3. last \in Nat /\ last <= MaxGpi
      BY <1>1
    <3> DEFINE e == Edge(d + 1)
    <3>4. e \in Nat /\ e <= last
      BY <3>2
    <3> HIDE DEF e, last
    <3>5. e <= MaxGpi
      BY <3>3, <3>4
    <3> QED BY <3>4, <3>5 DEF e
  <2>7. Share(Source(d)) = {h \in Hashes : Edge(d) <= h /\ h < Edge(d + 1)}
    <3>1. \A h \in Hashes : (\A o \in After(Source(d)) : h < o) <=> h < Edge(d + 1)
      BY <2>3, <2>4, <2>6
    <3>2. DonutOffset(Source(d)) = Edge(d)
      BY <1>1, <2>2
    <3> QED BY <3>1, <3>2 DEF Share
  <2> DEFINE a == Edge(d)
             b == Edge(d + 1)
  <2>8. a \in Nat /\ b \in Nat /\ b <= MaxGpi
    BY <2>2, <2>6
  <2> HIDE DEF a, b
  <2>9. \A h : h \in Hashes /\ a <= h /\ h < b <=> h \in a .. b - 1
    BY <2>8, SizesAssumption DEF Hashes
  <2> QED BY <2>5, <2>7, <2>9 DEF a, b
<1> QED BY <1>8, <1>9, <1>10 DEF n, offsets, last

\* The local indices of hashes a up to b - 1, in a donut that starts with a.
LEMMA Shifted ==
  ASSUME NEW a \in Nat, NEW b \in Nat, a <= b
  PROVE  {h - a : h \in a .. b - 1} = 0 .. (b - a) - 1 /\ b - a \in Nat
<1>1. \A h \in a .. b - 1 : h - a \in 0 .. (b - a) - 1
  OBVIOUS
<1>2. \A i \in 0 .. (b - a) - 1 : i + a \in a .. b - 1 /\ (i + a) - a = i
  OBVIOUS
<1>3. b - a \in Nat
  OBVIOUS
<1> QED BY <1>1, <1>2, <1>3

\* A donut's HashesOrder.bin starts in the new one where its share does.
LEMMA Bases ==
  ASSUME Inductive, Traced, AllTidy, AllShared, pc \in BakeTierSteps
  PROVE  /\ \A d \in 1 .. Len(job.offsets) : SourceOrder(d) = [i \in 0 .. Edge(d + 1) - Edge(d) - 1 |-> i + Edge(d)]
         /\ \A d \in 1 .. Len(job.offsets) + 1 : Base(d) = Edge(d) - job.off
<1> DEFINE n == Len(job.offsets)
           U(d) == UNION {{c} \X DOMAIN SourceOrder(c) : c \in 1 .. d - 1}
           S == {d \in 1 .. n + 1 : IsFiniteSet(U(d)) /\ Cardinality(U(d)) = Edge(d) - job.off}
<1>1. /\ n \in Nat /\ n >= 1 /\ job.off \in Nat
      /\ \A d \in 1 .. n : Source(d) \in DOMAIN donuts /\ DonutOffset(Source(d)) = job.offsets[d]
                          /\ Source(d) # Slot
  BY FrozenTier
<1>2. /\ Edge(1) = job.off /\ \A d \in 1 .. n + 1 : Edge(d) \in Nat
      /\ \A d \in 1 .. n : Edge(d) = job.offsets[d] /\ Edge(d) < Edge(d + 1)
      /\ \A d \in 1 .. n : Share(Source(d)) = Edge(d) .. Edge(d + 1) - 1
  BY SourceShares
<1> HIDE DEF n
<1>3. ASSUME NEW d \in 1 .. n
      PROVE  SourceOrder(d) = [i \in 0 .. Edge(d + 1) - Edge(d) - 1 |-> i + Edge(d)]
  <2>1. Source(d) \notin BeingMade
    BY <1>1 DEF BeingMade
  <2>2. SourceOrder(d) = InOrder(Edge(d) .. Edge(d + 1) - 1, Edge(d))
    BY <1>1, <1>2, <2>1 DEF AllShared, DonutsFilled, SourceOrder
  <2>3. d + 1 \in 1 .. n + 1 /\ d \in 1 .. n + 1
    BY <1>1
  <2>4. Edge(d) \in Nat /\ Edge(d + 1) \in Nat /\ Edge(d) <= Edge(d + 1)
    BY <1>2, <2>3
  <2>5. {h - Edge(d) : h \in Edge(d) .. Edge(d + 1) - 1} = 0 .. Edge(d + 1) - Edge(d) - 1
    BY <2>4, Shifted
  <2> QED BY <2>2, <2>5 DEF InOrder
<1>4. 1 \in S
  <2>1. U(1) = {}
    <3>1. 1 .. 1 - 1 = {}
      OBVIOUS
    <3> QED BY <3>1
  <2>2. Edge(1) - job.off = 0
    BY <1>1, <1>2
  <2>3. 1 \in 1 .. n + 1
    BY <1>1
  <2> HIDE DEF U
  <2> QED BY <2>1, <2>2, <2>3, FS_EmptySet
<1>5. ASSUME NEW d \in 1 .. n, d \in S
      PROVE  d + 1 \in S
  <2> DEFINE own == {d} \X DOMAIN SourceOrder(d)
             size == Edge(d + 1) - Edge(d)
  <2>1. d + 1 \in 1 .. n + 1 /\ d \in 1 .. n + 1 /\ d \in Nat
    BY <1>1
  <2>2. U(d + 1) = U(d) \cup own
    <3>1. 1 .. (d + 1) - 1 = (1 .. d - 1) \cup {d}
      BY <2>1
    <3> QED BY <3>1
  <2>3. U(d) \cap own = {}
    <3>1. d \notin 1 .. d - 1
      BY <2>1
    <3> QED BY <3>1
  <2>4. size \in Nat /\ DOMAIN SourceOrder(d) = 0 .. size - 1
    BY <1>2, <1>3, <2>1
  <2>5. IsFiniteSet(own) /\ Cardinality(own) = size
    <3>1. IsFiniteSet(0 .. size - 1) /\ Cardinality(0 .. size - 1) = size
      BY <2>4, Below
    <3>2. IsFiniteSet({d}) /\ Cardinality({d}) = 1
      BY FS_Singleton
    <3>3. IsFiniteSet({d} \X (0 .. size - 1))
          /\ Cardinality({d} \X (0 .. size - 1)) = Cardinality({d}) * Cardinality(0 .. size - 1)
      BY <3>1, <3>2, FS_Product
    <3>4. 1 * size = size
      BY <2>4
    <3> HIDE DEF size
    <3> QED BY <2>4, <3>1, <3>2, <3>3, <3>4
  <2>6. IsFiniteSet(U(d)) /\ Cardinality(U(d)) = Edge(d) - job.off
    BY <1>5
  <2> HIDE DEF own, U
  <2>7. IsFiniteSet(U(d + 1)) /\ Cardinality(U(d + 1)) = (Edge(d) - job.off) + size - 0
    <3>1. /\ IsFiniteSet(U(d) \cup own)
          /\ Cardinality(U(d) \cup own) = Cardinality(U(d)) + Cardinality(own) - Cardinality(U(d) \cap own)
      BY <2>5, <2>6, FS_Union
    <3>2. Cardinality(U(d) \cap own) = 0
      BY <2>3, FS_EmptySet
    <3> HIDE DEF size
    <3> QED BY <2>2, <2>5, <2>6, <3>1, <3>2
  <2>8. (Edge(d) - job.off) + size - 0 = Edge(d + 1) - job.off
    <3>1. Edge(d) \in Int /\ Edge(d + 1) \in Int /\ job.off \in Int
      BY <1>1, <1>2, <2>1
    <3> QED BY <3>1
  <2> QED BY <2>1, <2>7, <2>8
<1> HIDE DEF S
<1>6. 1 .. n + 1 \subseteq S
  <2>1. n + 1 \in Nat /\ (n + 1) - 1 = n
    BY <1>1
  <2> QED BY <1>4, <1>5, <2>1, UpTo
<1>7. \A d \in 1 .. n + 1 : Base(d) = Edge(d) - job.off
  BY <1>6 DEF S, Base
<1> QED BY <1>3, <1>7 DEF n

\* The new donut's share is what the sources have between them.
LEMMA SlotShared ==
  ASSUME Inductive, Traced, AllTidy, AllShared, pc \in BakeTierSteps
  PROVE  /\ Share(Slot) = job.off .. tierOffsets.input - 1
         /\ \A d \in 1 .. Len(job.offsets) : Share(Source(d)) \subseteq Share(Slot)
         /\ \A h \in Share(Slot) : \E d \in 1 .. Len(job.offsets) : h \in Edge(d) .. Edge(d + 1) - 1
<1> DEFINE n == Len(job.offsets)
           last == tierOffsets.input
<1>1. /\ n \in Nat /\ n >= 1 /\ job.off \in Nat /\ last \in Nat /\ last <= MaxGpi
  BY FrozenTier, OffsetTypes DEF AllShared, Ascending
<1>2. /\ Edge(1) = job.off /\ Edge(n + 1) = last /\ \A d \in 1 .. n + 1 : Edge(d) \in Nat
      /\ \A d \in 1 .. n : Edge(d) < Edge(d + 1) /\ Share(Source(d)) = Edge(d) .. Edge(d + 1) - 1
  BY SourceShares
<1>3. Share(Slot) = job.off .. last - 1
  <2>1. Share(Slot) = {h \in Hashes : job.off <= h /\ h < last}
    BY SlotShare DEF SlotSteps
  <2> HIDE DEF last
  <2> DEFINE o == job.off
  <2>2. o \in Nat /\ last \in Nat /\ last <= MaxGpi
    BY <1>1
  <2> HIDE DEF o
  <2>3. \A h : h \in Hashes /\ o <= h /\ h < last <=> h \in o .. last - 1
    BY <2>2, SizesAssumption DEF Hashes
  <2> QED BY <2>1, <2>3 DEF o
<1> HIDE DEF n, last
<1> DEFINE up == {d \in 1 .. n + 1 : job.off <= Edge(d)}
           down == {d \in 1 .. n + 1 : Edge((n + 2) - d) <= last}
<1>4. \A d \in 1 .. n : d + 1 \in 1 .. n + 1 /\ d \in 1 .. n + 1
  BY <1>1
<1>5. 1 .. n + 1 \subseteq up
  <2>1. 1 \in up
    BY <1>1, <1>2
  <2>2. \A d \in 1 .. n : d \in up => d + 1 \in up
    BY <1>1, <1>2, <1>4
  <2> HIDE DEF up
  <2>3. n + 1 \in Nat /\ (n + 1) - 1 = n
    BY <1>1
  <2> QED BY <2>1, <2>2, <2>3, UpTo
<1>6. 1 .. n + 1 \subseteq down
  <2>1. 1 \in down
    <3>1. (n + 2) - 1 = n + 1 /\ 1 \in 1 .. n + 1
      BY <1>1
    <3> QED BY <1>1, <1>2, <3>1
  <2>2. ASSUME NEW d \in 1 .. n, d \in down PROVE d + 1 \in down
    <3> DEFINE e == (n + 2) - (d + 1)
    <3>1. e \in 1 .. n /\ (n + 2) - d = e + 1 /\ d + 1 \in 1 .. n + 1
      BY <1>1
    <3> HIDE DEF e
    <3>2. Edge(e) < Edge(e + 1) /\ Edge(e) \in Nat /\ Edge(e + 1) \in Nat
      BY <1>2, <1>4, <3>1
    <3>3. Edge(e + 1) <= last
      BY <2>2, <3>1
    <3>4. Edge(e) <= last
      BY <1>1, <3>2, <3>3
    <3> QED BY <3>1, <3>4 DEF e
  <2> HIDE DEF down
  <2>3. n + 1 \in Nat /\ (n + 1) - 1 = n
    BY <1>1
  <2> QED BY <2>1, <2>2, <2>3, UpTo
<1>7. \A d \in 1 .. n : job.off <= Edge(d) /\ Edge(d + 1) <= last
  <2> TAKE d \in 1 .. n
  <2>1. job.off <= Edge(d)
    BY <1>4, <1>5
  <2>2. (n + 2) - (d + 1) \in 1 .. n + 1 /\ (n + 2) - ((n + 2) - (d + 1)) = d + 1
    BY <1>1
  <2>3. Edge((n + 2) - ((n + 2) - (d + 1))) <= last
    BY <1>6, <2>2
  <2> QED BY <2>1, <2>2, <2>3
<1>8. \A d \in 1 .. n : Share(Source(d)) \subseteq Share(Slot)
  <2> TAKE d \in 1 .. n
  <2>1. Edge(d) .. Edge(d + 1) - 1 \subseteq job.off .. last - 1
    <3>1. /\ Edge(d) \in Nat /\ Edge(d + 1) \in Nat /\ job.off <= Edge(d) /\ Edge(d + 1) <= last
      BY <1>2, <1>4, <1>7
    <3> DEFINE low == Edge(d)
               high == Edge(d + 1)
               off == job.off
    <3>2. /\ low \in Nat /\ high \in Nat /\ off <= low /\ high <= last
          /\ off \in Nat /\ last \in Nat
      BY <1>1, <3>1
    <3> HIDE DEF low, high, off
    <3>3. low .. high - 1 \subseteq off .. last - 1
      BY <3>2
    <3> QED BY <3>3 DEF low, high, off
  <2> QED BY <1>2, <1>3, <2>1
<1>9. ASSUME NEW h \in Share(Slot)
      PROVE  \E d \in 1 .. n : h \in Edge(d) .. Edge(d + 1) - 1
  <2> DEFINE T == {d \in 1 .. n : h < Edge(d + 1)}
  <2>1. h \in Int /\ job.off <= h /\ h < last
    BY <1>1, <1>3, <1>9
  <2>2. T \subseteq Nat /\ T # {}
    <3>1. n \in T
      BY <1>1, <1>2, <2>1
    <3>2. T \subseteq Nat
      BY <1>1
    <3> QED BY <3>1, <3>2
  <2> HIDE DEF T
  <2>3. PICK d \in T : \A e \in T : d <= e
    BY <2>2, LeastElement
  <2>4. d \in 1 .. n /\ h < Edge(d + 1)
    BY DEF T
  <2>5. Edge(d) <= h
    <3>1. CASE d = 1
      BY <1>2, <2>1, <3>1
    <3>2. CASE d # 1
      <4>1. d - 1 \in 1 .. n /\ ~ (d <= d - 1) /\ (d - 1) + 1 = d
        BY <1>1, <2>4, <3>2
      <4>2. d - 1 \notin T
        BY <2>3, <4>1
      <4>3. ~ (h < Edge(d))
        BY <4>1, <4>2 DEF T
      <4>4. Edge(d) \in Nat
        BY <1>2, <1>4, <2>4
      <4> QED BY <2>1, <4>3, <4>4
    <3> QED BY <3>1, <3>2
  <2>6. Edge(d) \in Nat /\ Edge(d + 1) \in Nat
    BY <1>2, <1>4, <2>4
  <2>7. h \in Edge(d) .. Edge(d + 1) - 1
    BY <2>1, <2>4, <2>5, <2>6
  <2> QED BY <2>4, <2>7
<1> QED BY <1>3, <1>8, <1>9 DEF n, last

\* Where the updates are those of the shares, the next HashesOrder.bin leads from each
\* local index to the hash with that index.
LEMMA ConcatenatedInOrder ==
  ASSUME Inductive, Traced, AllTidy, AllShared, pc = "bakeOrder"
  PROVE  Concatenated(Len(job.offsets)) = InOrder(Share(Slot), job.off)
<1> USE DEF BakeTierSteps
<1> DEFINE n == Len(job.offsets)
           last == tierOffsets.input
<1>1. /\ n \in Nat /\ n >= 1 /\ job.off \in Nat /\ last \in Nat /\ job.tier - 1 \in Tiers
  BY FrozenTier, OffsetTypes
<1>2. /\ Edge(1) = job.off /\ Edge(n + 1) = last /\ \A d \in 1 .. n + 1 : Edge(d) \in Nat
      /\ \A d \in 1 .. n : /\ Edge(d) = job.offsets[d]
                           /\ Share(Source(d)) = Edge(d) .. Edge(d + 1) - 1
  BY SourceShares
<1>3. /\ \A d \in 1 .. n : SourceOrder(d) = [i \in 0 .. Edge(d + 1) - Edge(d) - 1 |-> i + Edge(d)]
      /\ \A d \in 1 .. n + 1 : Base(d) = Edge(d) - job.off
  BY Bases
<1>4. /\ Share(Slot) = job.off .. last - 1 /\ job.off <= last
      /\ \A h \in Share(Slot) : \E d \in 1 .. n : h \in Edge(d) .. Edge(d + 1) - 1
  <2>1. job.off < last
    BY DEF Offsets, Baking, DonutSteps
  <2> QED BY <1>1, <2>1, SlotShared
<1>5. /\ \A d \in 1 .. n : \A h \in Share(Source(d)) : Update(d, h) \in donuts[Slot].updates
      /\ \A u \in donuts[Slot].updates : u = Update(u.donut, u.hash)
  <2>1. PrefixesCopied = job.prefix /\ job.prefix = PrefixCount[job.tier - 1]
    <3>1. job.prefix = PrefixCount[job.tier - 1] /\ job.prefix \in Nat
      BY OffsetTypes DEF AllShared, PrefixesMoved
    <3> QED BY <3>1 DEF PrefixesCopied
  <2>2. PrefixesCopied > 0 /\ \A h \in Hashes : PrefixOf[job.tier - 1][h] < PrefixesCopied
    <3> DEFINE t == job.tier - 1
    <3>1. t \in Tiers
      BY <1>1
    <3> HIDE DEF t
    <3>2. PrefixCount[t] \in Nat \ {0} /\ \A h \in Hashes : PrefixOf[t][h] \in 0 .. PrefixCount[t] - 1
      BY <3>1, PrefixAssumption
    <3>3. PrefixCount[t] > 0 /\ \A h \in Hashes : PrefixOf[t][h] < PrefixCount[t]
      BY <3>2
    <3> QED BY <2>1, <3>3 DEF t
  <2>3. \A d \in 1 .. n : Share(Source(d)) \subseteq Hashes
    BY ShareIs
  <2> QED BY <2>2, <2>3 DEF AllShared, PrefixesMoved
<1> HIDE DEF n, last
<1>6. ASSUME NEW d \in 1 .. n, NEW h \in Edge(d) .. Edge(d + 1) - 1
      PROVE  Pointer(d, h - Edge(d)) = h
  <2> DEFINE l == h - Edge(d)
             updated == {u \in donuts[Slot].updates : u.donut = d /\ u.pi = l}
             old == SourceOrder(d)[l]
             samePrefix(g) == old \in Hashes /\ PrefixOf[job.tier - 1][old] = PrefixOf[job.tier - 1][g]
             right == {u \in updated : job.tier = 1 \/ samePrefix(u.hash)}
  <2>1. /\ Edge(d) \in Nat /\ Edge(d + 1) \in Nat /\ h \in Int
        /\ l \in 0 .. Edge(d + 1) - Edge(d) - 1 /\ l + Edge(d) = h
    <3>1. Edge(d) \in Nat /\ Edge(d + 1) \in Nat
      <4>1. d \in 1 .. n + 1 /\ d + 1 \in 1 .. n + 1
        BY <1>1
      <4> QED BY <1>2, <4>1
    <3> QED BY <3>1
  <2>2. h \in Hashes
    BY <1>2, ShareIs
  <2>3. old = h
    BY <1>3, <2>1
  <2>4. Update(d, h) \in updated
    <3>1. Update(d, h) \in donuts[Slot].updates
      BY <1>2, <1>5
    <3>2. Update(d, h).donut = d /\ Update(d, h).pi = l
      BY <1>2 DEF Update
    <3> QED BY <3>1, <3>2
  <2>5. ASSUME NEW u \in updated PROVE u = Update(d, h)
    <3>1. u = Update(d, u.hash) /\ u.pi = l
      BY <1>5
    <3>2. u.hash \in Hashes
      <4>1. Slot \in DOMAIN donuts
        BY DEF NothingDroppedEarly
      <4>2. donuts[Slot].updates \subseteq UpdateType
        BY <4>1 DEF TiersOnDiskOK, DonutOK
      <4> QED BY <4>2 DEF UpdateType
    <3>3. u.pi = u.hash - Edge(d)
      BY <1>2, <3>1 DEF Update
    <3>4. u.hash = h
      <4>1. u.hash \in Int /\ u.hash - Edge(d) = l
        BY <3>1, <3>2, <3>3 DEF Hashes
      <4> HIDE DEF l
      <4> QED BY <2>1, <4>1
    <3> QED BY <3>1, <3>4
  <2> HIDE DEF updated, old, l
  <2>6. Update(d, h).hash = h
    BY DEF Update
  <2>7. right = {Update(d, h)}
    BY <2>2, <2>3, <2>4, <2>5, <2>6
  <2>8. Pointer(d, l) = IF right = {} THEN Dangling ELSE (CHOOSE u \in right : TRUE).hash
    BY DEF Pointer, updated, old
  <2> HIDE DEF right
  <2> QED BY <2>6, <2>7, <2>8 DEF l
<1> DEFINE donutAt(i) == CHOOSE d \in 1 .. n : Base(d) <= i /\ i < Base(d + 1)
<1>7. ASSUME NEW i \in 0 .. (last - job.off) - 1
      PROVE  Pointer(donutAt(i), i - Base(donutAt(i))) = i + job.off
  <2>1. i + job.off \in Share(Slot)
    BY <1>1, <1>4
  <2>2. PICK d \in 1 .. n : i + job.off \in Edge(d) .. Edge(d + 1) - 1
    BY <1>4, <2>1
  <2>3. \A c \in 1 .. n : /\ Edge(c) \in Nat /\ Edge(c + 1) \in Nat
                          /\ Base(c) = Edge(c) - job.off /\ Base(c + 1) = Edge(c + 1) - job.off
    <3>1. \A c \in 1 .. n : c \in 1 .. n + 1 /\ c + 1 \in 1 .. n + 1
      BY <1>1
    <3> QED BY <1>2, <1>3, <3>1
  <2>4. Base(d) <= i /\ i < Base(d + 1)
    <3>1. /\ Edge(d) \in Nat /\ Edge(d + 1) \in Nat
          /\ Base(d) = Edge(d) - job.off /\ Base(d + 1) = Edge(d + 1) - job.off
      BY <2>3
    <3>2. Edge(d) <= i + job.off /\ i + job.off < Edge(d + 1)
      BY <1>1, <2>2, <3>1
    <3> DEFINE o == job.off
               a == Edge(d)
               b == Edge(d + 1)
    <3>3. i \in Int /\ o \in Nat
      BY <1>1
    <3>4. /\ a \in Nat /\ b \in Nat /\ a <= i + o /\ i + o < b
          /\ Base(d) = a - o /\ Base(d + 1) = b - o
      BY <3>1, <3>2
    <3> HIDE DEF a, b, o
    <3>5. a - o <= i /\ i < b - o
      BY <3>3, <3>4
    <3> QED BY <3>4, <3>5
  <2> DEFINE at == donutAt(i)
  <2>5. at \in 1 .. n /\ Base(at) <= i /\ i < Base(at + 1)
    BY <2>4
  <2> HIDE DEF at
  <2>6. i + job.off \in Edge(at) .. Edge(at + 1) - 1 /\ i - Base(at) = (i + job.off) - Edge(at)
    <3>1. /\ Edge(at) \in Nat /\ Edge(at + 1) \in Nat
          /\ Base(at) = Edge(at) - job.off /\ Base(at + 1) = Edge(at + 1) - job.off
      BY <2>3, <2>5
    <3>2. i \in Int /\ Base(at) <= i /\ i < Base(at + 1)
      BY <2>5
    <3> DEFINE o == job.off
               a == Edge(at)
               b == Edge(at + 1)
    <3>3. i \in Int /\ o \in Nat
      BY <1>1
    <3>4. a \in Nat /\ b \in Nat /\ Base(at) = a - o /\ Base(at + 1) = b - o
      BY <3>1
    <3>5. a - o <= i /\ i < b - o
      BY <3>2, <3>4
    <3> HIDE DEF a, b, o
    <3>6. i + o \in a .. b - 1 /\ i - (a - o) = (i + o) - a
      BY <3>3, <3>4, <3>5
    <3> QED BY <3>4, <3>6 DEF a, b, o
  <2>7. Pointer(at, (i + job.off) - Edge(at)) = i + job.off
    BY <1>6, <2>5, <2>6
  <2> QED BY <2>6, <2>7 DEF at
<1>8. Concatenated(n) = [i \in 0 .. Base(n + 1) - 1 |-> Pointer(donutAt(i), i - Base(donutAt(i)))]
  BY DEF Concatenated
<1> HIDE DEF donutAt
<1>9. Base(n + 1) = last - job.off
  <2>1. n + 1 \in 1 .. n + 1
    BY <1>1
  <2> QED BY <1>2, <1>3, <2>1
<1>10. Concatenated(n) = [i \in 0 .. (last - job.off) - 1 |-> i + job.off]
  BY <1>7, <1>8, <1>9
<1>11. {h - job.off : h \in job.off .. last - 1} = 0 .. (last - job.off) - 1
  BY <1>1, <1>4, Shifted
<1> QED BY <1>4, <1>10, <1>11 DEF InOrder, n

\* What the new donut has when the files of one more prefix have been copied.
LEMMA CopiedShared ==
  ASSUME Inductive, Traced, AllTidy, AllShared, pc = "bakePrefix"
  PROVE  LET n == Len(job.offsets)
         IN  /\ HashesIn(Copied(n).suffix) \subseteq Share(Slot)
             /\ \A d \in 1 .. n : \A h \in Share(Source(d)) : PrefixOf[job.tier - 1][h] < job.prefix + 1 =>
                  h \in HashesIn(Copied(n).suffix) /\ Update(d, h) \in Copied(n).updates
             /\ \A u \in Copied(n).updates : u.donut \in 1 .. n /\ u = Update(u.donut, u.hash)
<1> USE DEF BakeTierSteps
<1> DEFINE n == Len(job.offsets)
           all == 1 .. n
           made == IF job.prefix = 0 THEN NewDonut ELSE donuts[Slot]
           copied == Copied(n)
           prefixOf(h) == PrefixOf[job.tier - 1][h]
<1>1. /\ n \in Nat /\ n <= n /\ job.tier - 1 \in Tiers /\ job.prefix \in Nat
      /\ \A d \in all : /\ job.offsets[d] \in Nat /\ Source(d) \in DOMAIN donuts
                        /\ DonutOffset(Source(d)) = job.offsets[d]
  BY FrozenTier, OffsetTypes
<1>2. job.prefix # 0 => Slot \in DOMAIN donuts
  BY <1>1 DEF NothingDroppedEarly
<1>3. DonutOK(made)
  BY <1>2, NewDonutOK DEF TiersOnDiskOK
<1>4. /\ copied.suffix = Kept(made.suffix) \cup UNION {Moved(d) : d \in all}
      /\ copied.updates = made.updates \cup UNION {Updates(d) : d \in all}
  BY <1>3 DEF Copied, DonutOK
<1>5. /\ Slot \in DOMAIN donuts => HashesIn(donuts[Slot].suffix) \subseteq HashesIn(copied.suffix)
      /\ \A d \in all : HashesIn(OfPrefix(donuts[Source(d)].suffix)) \subseteq HashesIn(copied.suffix)
  BY <1>1, CopiedFacts DEF Exists
<1>6. /\ \A d \in all : Share(Source(d)) \subseteq Share(Slot) /\ Share(Source(d)) \subseteq Hashes
      /\ \A h \in Hashes : prefixOf(h) \in Nat
  BY <1>1, SlotShared, ShareIs
<1>7. ASSUME NEW d \in all
      PROVE  /\ HashesIn(donuts[Source(d)].suffix) \subseteq Share(Source(d))
             /\ \A e \in donuts[Source(d)].suffix : e.pi = e.hash - job.offsets[d] /\ e.hash \in Hashes
  <2>1. donuts[Source(d)].suffix \in SUBSET EntryType
    BY <1>1 DEF TiersOnDiskOK, DonutOK
  <2>2. \A e \in donuts[Source(d)].suffix : e.hash = e.pi + job.offsets[d]
    BY <1>1 DEF Traced, Indexed
  <2>3. ASSUME NEW e \in donuts[Source(d)].suffix
        PROVE  e.pi = e.hash - job.offsets[d] /\ e.hash \in Hashes
    <3> DEFINE o == job.offsets[d]
    <3>1. e \in EntryType
      BY <2>1
    <3>2. e.pi \in Int /\ e.hash \in Hashes
      BY <3>1 DEF EntryType
    <3>3. e.hash \in Int
      BY <3>2 DEF Hashes
    <3>4. o \in Nat /\ e.hash = e.pi + o
      BY <1>1, <2>2
    <3> HIDE DEF o
    <3>5. e.pi = e.hash - o
      BY <3>2, <3>3, <3>4
    <3> QED BY <3>2, <3>5 DEF o
  <2> QED BY <1>1, <2>3 DEF AllShared, DonutsFilled
<1> HIDE DEF n, all, copied, prefixOf, made
<1>8. HashesIn(copied.suffix) \subseteq Share(Slot)
  <2> SUFFICES ASSUME NEW e \in copied.suffix PROVE e.hash \in Share(Slot)
    BY DEF HashesIn
  <2>1. CASE e \in Kept(made.suffix)
    <3>1. e \in made.suffix
      BY <2>1 DEF Kept
    <3>2. job.prefix # 0 /\ made = donuts[Slot]
      BY <3>1, NewDonutOK DEF made
    <3>3. e.hash \in HashesIn(donuts[Slot].suffix)
      BY <3>1, <3>2 DEF HashesIn
    <3> QED BY <1>2, <3>2, <3>3 DEF AllShared, DonutsFilled
  <2>2. ASSUME NEW d \in all, e \in Moved(d) PROVE e.hash \in Share(Slot)
    <3>1. PICK old \in donuts[Source(d)].suffix : e.hash = old.hash
      BY <2>2 DEF Moved, OfPrefix, Entry
    <3> QED BY <1>6, <1>7, <3>1 DEF HashesIn
  <2> QED BY <1>4, <2>1, <2>2
<1>9. ASSUME NEW d \in all, NEW h \in Share(Source(d)), prefixOf(h) < job.prefix + 1
      PROVE  h \in HashesIn(copied.suffix) /\ Update(d, h) \in copied.updates
  <2>1. prefixOf(h) \in Nat
    BY <1>6
  <2>2. CASE prefixOf(h) < job.prefix
    <3>1. job.prefix # 0
      BY <2>1, <2>2
    <3>2. PrefixesCopied = job.prefix
      BY <1>1 DEF PrefixesCopied
    <3>3. h \in HashesIn(donuts[Slot].suffix) /\ Update(d, h) \in donuts[Slot].updates
      BY <2>2, <3>2 DEF AllShared, PrefixesMoved, all, n, prefixOf
    <3> QED BY <1>2, <1>4, <1>5, <3>1, <3>3 DEF made
  <2>3. CASE ~ (prefixOf(h) < job.prefix)
    <3>1. prefixOf(h) = job.prefix /\ prefixOf(h) >= job.prefix
      BY <1>1, <1>9, <2>1, <2>3
    <3>2. h \in HashesIn(donuts[Source(d)].suffix)
      BY <3>1 DEF AllShared, PrefixesMoved, all, n, prefixOf
    <3>3. PICK e \in donuts[Source(d)].suffix : e.hash = h
      BY <3>2 DEF HashesIn
    <3>4. e \in OfPrefix(donuts[Source(d)].suffix)
      BY <3>1, <3>3 DEF OfPrefix, PrefixOfEntry, prefixOf
    <3>5. h \in HashesIn(copied.suffix)
      BY <1>5, <3>3, <3>4 DEF HashesIn
    <3>6. Update(d, h) \in Updates(d)
      BY <1>7, <3>3, <3>4 DEF Update, Updates
    <3> QED BY <1>4, <3>5, <3>6
  <2> QED BY <2>2, <2>3
<1>10. ASSUME NEW u \in copied.updates
       PROVE  u.donut \in all /\ u = Update(u.donut, u.hash)
  <2>1. CASE u \in made.updates
    <3>1. job.prefix # 0 /\ made = donuts[Slot]
      BY <2>1, NewDonutOK DEF made
    <3>2. PrefixesCopied > 0
      BY <1>1, <3>1 DEF PrefixesCopied
    <3> QED BY <2>1, <3>1, <3>2 DEF AllShared, PrefixesMoved, all, n
  <2>2. ASSUME NEW d \in all, u \in Updates(d)
        PROVE  u.donut \in all /\ u = Update(u.donut, u.hash)
    <3>1. PICK e \in donuts[Source(d)].suffix : u = [donut |-> d, pi |-> e.pi, hash |-> e.hash]
      BY <2>2 DEF Updates, OfPrefix
    <3> QED BY <1>7, <3>1 DEF Update
  <2> QED BY <1>4, <2>1, <2>2
<1> QED BY <1>8, <1>9, <1>10 DEF n, all, copied, prefixOf

\* Copying the files of a prefix, and dropping the sources' files of it.
LEMMA BakePrefixShared ==
  ASSUME Inductive, Traced, AllTidy, AllShared, BakePrefix
  PROVE  AllShared'
<1> USE DEF BakeTierSteps
<1> DEFINE n == Len(job.offsets)
           copied == Copied(n)
<1>1. /\ pc = "bakePrefix" /\ pc' = "dropPrefix" /\ donuts' = Put(donuts, Slot, copied)
      /\ UNCHANGED <<tierOffsets, inputs, donutFile, tiersInfo, job>>
      /\ job.tier > 0 /\ job.prefix \in Nat
  BY OffsetTypes DEF BakePrefix, memory, JobFits
<1>2. \A d \in 1 .. n : Source(d) \in DOMAIN donuts /\ Source(d) # Slot
  BY <1>1, FrozenTier
<1>3. /\ Starts' = Starts
      /\ \A s : DonutOffset(s)' = DonutOffset(s) /\ After(s)' = After(s) /\ Share(s)' = Share(s)
  BY <1>1, MakingShares DEF SlotSteps
<1>4. /\ Slot' = Slot /\ Sources' = Sources /\ \A d : Source(d)' = Source(d)
      /\ BeingMade = {Slot} /\ BeingMoved = Sources /\ BeingMade' = {Slot} /\ BeingMoved' = Sources
  <2>1. Slot' = Slot /\ Sources' = Sources /\ \A d : Source(d)' = Source(d)
    BY <1>1 DEF Slot, Sources, Source
  <2> QED BY <1>1, <2>1 DEF BeingMade, BeingMoved
<1>5. /\ DOMAIN donuts' = DOMAIN donuts \cup {Slot} /\ donuts'[Slot] = copied
      /\ \A s \in DOMAIN donuts \ {Slot} : donuts'[s] = donuts[s]
  <2> HIDE DEF copied
  <2> QED BY <1>1 DEF Put
<1>6. /\ HashesIn(copied.suffix) \subseteq Share(Slot)
      /\ \A d \in 1 .. n : \A h \in Share(Source(d)) : PrefixOf[job.tier - 1][h] < job.prefix + 1 =>
           h \in HashesIn(copied.suffix) /\ Update(d, h) \in copied.updates
      /\ \A u \in copied.updates : u.donut \in 1 .. n /\ u = Update(u.donut, u.hash)
  BY <1>1, CopiedShared
<1> HIDE DEF copied, n
<1>7. Ascending'
  <2>1. (DOMAIN donuts \cup NotYetBaked)' = DOMAIN donuts \cup NotYetBaked
    <3>1. job.prefix # 0 => Slot \in DOMAIN donuts
      BY <1>1 DEF NothingDroppedEarly
    <3>2. NotYetBaked = (IF job.prefix = 0 THEN {Slot} ELSE {}) /\ NotYetBaked' = {}
      BY <1>1 DEF NotYetBaked
    <3> QED BY <1>5, <3>1, <3>2
  <2> QED BY <1>1, <1>3, <2>1 DEF AllShared, Ascending
<1>8. InputsFilled'
  <2>1. FrozenInputs' = {}
    BY <1>1 DEF FrozenInputs, InputInHand
  <2> QED BY <1>1, <2>1, InputsKept DEF AllShared
<1>9. DonutsFilled'
  <2>1. ASSUME NEW s \in DOMAIN donuts \ {Slot}
        PROVE  /\ HashesIn(donuts[s].suffix) \subseteq Share(s)
               /\ s \notin Sources => Share(s) \subseteq HashesIn(donuts[s].suffix)
               /\ donuts[s].order = InOrder(Share(s), DonutOffset(s))
    BY <1>4 DEF AllShared, DonutsFilled
  <2>2. \A s \in DOMAIN donuts' :
          /\ HashesIn(donuts'[s].suffix) \subseteq Share(s)'
          /\ s \notin {Slot} \cup Sources => Share(s)' \subseteq HashesIn(donuts'[s].suffix)
          /\ s \notin {Slot} => donuts'[s].order = InOrder(Share(s)', DonutOffset(s)')
    BY <1>3, <1>5, <1>6, <2>1
  <2> QED BY <1>4, <2>2 DEF DonutsFilled
<1>10. PrefixesMoved'
  <2>1. PrefixesCopied' = job.prefix + 1
    BY <1>1 DEF PrefixesCopied
  <2>2. \A d \in 1 .. n : \A h \in Share(Source(d)) : PrefixOf[job.tier - 1][h] >= job.prefix =>
          h \in HashesIn(donuts'[Source(d)].suffix)
    <3>1. \A d \in 1 .. n : donuts'[Source(d)] = donuts[Source(d)]
      BY <1>2, <1>5
    <3> QED BY <1>1, <3>1 DEF AllShared, PrefixesMoved, n
  <2>3. \A d, h : Update(d, h)' = Update(d, h)
    BY <1>1 DEF Update
  <2>4. \A d : Share(Source(d))' = Share(Source(d))
    BY <1>3, <1>4
  <2> QED BY <1>1, <1>4, <1>5, <1>6, <2>1, <2>2, <2>3, <2>4 DEF PrefixesMoved, n
<1> QED BY <1>7, <1>8, <1>9, <1>10 DEF AllShared

\* What the bake of a prefix has copied may go; after the last prefix, all is copied.
LEMMA DropPrefixShared ==
  ASSUME Inductive, Traced, AllTidy, AllShared, DropPrefix
  PROVE  AllShared'
<1> USE DEF BakeTierSteps
<1> DEFINE n == Len(job.offsets)
           prefixOf(h) == PrefixOf[job.tier - 1][h]
<1>1. /\ pc = "dropPrefix" /\ pc' \in {"bakePrefix", "bakeOrder"}
      /\ pc' = "bakeOrder" => job.prefix + 1 = PrefixCount[job.tier - 1]
      /\ UNCHANGED <<tierOffsets, inputs, donutFile, tiersInfo>>
      /\ job.tier > 0 /\ job.prefix \in Nat
  BY OffsetTypes DEF DropPrefix, NextPrefix, memory, JobFits
<1>2. /\ job'.tier = job.tier /\ job'.off = job.off /\ job'.count = job.count
      /\ job'.offsets = job.offsets /\ job'.prefix = job.prefix + 1
  <2>1. job' = [job EXCEPT !.prefix = job.prefix + 1]
    BY DEF DropPrefix, NextPrefix
  <2>2. job \in JobType
    BY DEF ControlOK
  <2> QED BY <2>1, <2>2 DEF JobType
<1>3. \A d \in 1 .. n : Source(d) \in DOMAIN donuts /\ Source(d) \in Sources
  BY <1>1, FrozenTier DEF Sources
<1>4. /\ Starts' = Starts
      /\ \A s : DonutOffset(s)' = DonutOffset(s) /\ After(s)' = After(s) /\ Share(s)' = Share(s)
  BY <1>1, MakingShares DEF SlotSteps
<1>5. /\ Slot' = Slot /\ Sources' = Sources /\ \A d : Source(d)' = Source(d)
      /\ BeingMade = {Slot} /\ BeingMoved = Sources /\ BeingMade' = {Slot} /\ BeingMoved' = Sources
      /\ Slot \notin Sources
  <2>1. Slot' = Slot /\ Sources' = Sources /\ \A d : Source(d)' = Source(d)
    BY <1>1, <1>2 DEF Slot, Sources, Source
  <2>2. Slot \notin Sources
    BY <1>1, BakeContext DEF SlotSteps
  <2> QED BY <1>1, <2>1, <2>2 DEF BeingMade, BeingMoved
<1>6. /\ DOMAIN donuts' = DOMAIN donuts
      /\ \A s \in DOMAIN donuts \ Sources : donuts'[s] = donuts[s]
      /\ \A s \in DOMAIN donuts \cap Sources :
           /\ donuts'[s].suffix = donuts[s].suffix \ OfPrefix(donuts[s].suffix)
           /\ donuts'[s].order = donuts[s].order
  <2>1. /\ DOMAIN donuts' = DOMAIN donuts
        /\ \A s \in DOMAIN donuts : donuts'[s] =
             IF s \in Sources THEN [donuts[s] EXCEPT !.suffix = @ \ OfPrefix(@)] ELSE donuts[s]
    BY DEF DropPrefix
  <2>2. ASSUME NEW s \in DOMAIN donuts
        PROVE  LET left == [donuts[s] EXCEPT !.suffix = @ \ OfPrefix(@)]
               IN  /\ left.suffix = donuts[s].suffix \ OfPrefix(donuts[s].suffix)
                   /\ left.order = donuts[s].order
    BY DEF TiersOnDiskOK, DonutOK
  <2> QED BY <2>1, <2>2
<1>7. Ascending'
  <2>1. NotYetBaked = {} /\ NotYetBaked' = {}
    BY <1>1, <1>2 DEF NotYetBaked
  <2> QED BY <1>1, <1>4, <1>6, <2>1 DEF AllShared, Ascending
<1>8. InputsFilled'
  <2>1. FrozenInputs' = {}
    BY <1>1, <1>2 DEF FrozenInputs, InputInHand
  <2> QED BY <1>1, <2>1, InputsKept DEF AllShared
<1>9. DonutsFilled'
  <2>1. ASSUME NEW s \in DOMAIN donuts
        PROVE  /\ HashesIn(donuts'[s].suffix) \subseteq Share(s)
               /\ s \notin {Slot} \cup Sources => Share(s) \subseteq HashesIn(donuts'[s].suffix)
               /\ s \notin {Slot} => donuts'[s].order = InOrder(Share(s), DonutOffset(s))
    <3>1. /\ donuts'[s].suffix \subseteq donuts[s].suffix /\ donuts'[s].order = donuts[s].order
          /\ s \notin Sources => donuts'[s] = donuts[s]
      BY <1>6
    <3>2. HashesIn(donuts'[s].suffix) \subseteq HashesIn(donuts[s].suffix)
      BY <3>1, HashesInMonotonic
    <3> QED BY <1>5, <3>1, <3>2 DEF AllShared, DonutsFilled
  <2>2. \A s \in DOMAIN donuts' :
          /\ HashesIn(donuts'[s].suffix) \subseteq Share(s)'
          /\ s \notin {Slot} \cup Sources => Share(s)' \subseteq HashesIn(donuts'[s].suffix)
          /\ s \notin {Slot} => donuts'[s].order = InOrder(Share(s)', DonutOffset(s)')
    BY <1>4, <1>6, <2>1
  <2> QED BY <1>5, <2>2 DEF DonutsFilled
<1>10. PrefixesMoved'
  <2>1. PrefixesCopied = job.prefix + 1 /\ PrefixesCopied' = job.prefix + 1
    BY <1>1, <1>2 DEF PrefixesCopied
  <2>2. /\ \A d \in 1 .. n : \A h \in Share(Source(d)) : prefixOf(h) < job.prefix + 1 =>
             h \in HashesIn(donuts[Slot].suffix) /\ Update(d, h) \in donuts[Slot].updates
        /\ job.prefix + 1 > 0 => \A u \in donuts[Slot].updates : u.donut \in 1 .. n /\ u = Update(u.donut, u.hash)
    BY <1>1, <2>1 DEF AllShared, PrefixesMoved
  <2>3. donuts'[Slot] = donuts[Slot]
    BY <1>1, <1>5, <1>6 DEF NothingDroppedEarly
  <2>4. ASSUME NEW d \in 1 .. n, NEW h \in Share(Source(d)), prefixOf(h) >= job.prefix + 1
        PROVE  h \in HashesIn(donuts'[Source(d)].suffix)
    <3>1. prefixOf(h) \in Nat
      <4>1. h \in Hashes /\ job.tier - 1 \in Tiers
        BY <1>1, FrozenTier, ShareIs
      <4> QED BY <4>1
    <3>2. prefixOf(h) >= job.prefix /\ prefixOf(h) # job.prefix
      BY <1>1, <2>4, <3>1
    <3>3. h \in HashesIn(donuts[Source(d)].suffix)
      <4>1. PrefixesMoved /\ pc \in {"bakePrefix", "dropPrefix", "bakeOrder"}
        BY <1>1 DEF AllShared
      <4>2. prefixOf(h) >= job.prefix => h \in HashesIn(donuts[Source(d)].suffix)
        BY <4>1 DEF PrefixesMoved
      <4> QED BY <3>2, <4>2
    <3>4. PICK e \in donuts[Source(d)].suffix : e.hash = h
      BY <3>3 DEF HashesIn
    <3>5. e \in donuts'[Source(d)].suffix
      BY <1>3, <1>6, <3>2, <3>4 DEF OfPrefix, PrefixOfEntry
    <3> QED BY <3>4, <3>5 DEF HashesIn
  <2>5. \A d, h : Update(d, h)' = Update(d, h)
    BY <1>2 DEF Update
  <2>6. \A d : Share(Source(d))' = Share(Source(d))
    BY <1>4, <1>5
  <2> QED BY <1>1, <1>2, <1>5, <2>1, <2>2, <2>3, <2>4, <2>5, <2>6 DEF PrefixesMoved
<1> QED BY <1>7, <1>8, <1>9, <1>10 DEF AllShared

\* The new donut is whole when its HashesOrder.bin has been written.
LEMMA BakeOrderShared ==
  ASSUME Inductive, Traced, AllTidy, AllShared, BakeOrder
  PROVE  AllShared'
<1> USE DEF BakeTierSteps
<1> DEFINE n == Len(job.offsets)
           order == Concatenated(n)
<1>1. /\ pc = "bakeOrder" /\ pc' = "removeTier"
      /\ UNCHANGED <<tierOffsets, inputs, donutFile, tiersInfo, job>>
      /\ job.tier > 0 /\ n \in Nat /\ job.tier - 1 \in Tiers /\ Slot \in DOMAIN donuts
  BY FrozenTier DEF BakeOrder, memory, JobFits, NothingDroppedEarly
<1>2. order = InOrder(Share(Slot), job.off) /\ DonutOffset(Slot) = job.off
  BY <1>1, ConcatenatedInOrder, SlotShare DEF SlotSteps
<1>3. /\ DOMAIN donuts' = DOMAIN donuts /\ donuts'[Slot].order = order
      /\ \A s \in DOMAIN donuts : donuts'[s].suffix = donuts[s].suffix
  <2>1. donuts' = [donuts EXCEPT ![Slot].order = order, ![Slot].updates = {}]
    BY DEF BakeOrder
  <2>2. \A s \in DOMAIN donuts : donuts'[s].suffix = donuts[s].suffix
    BY <1>1, <2>1, OrderWritten
  <2> HIDE DEF order
  <2> QED BY <1>1, <2>1, <2>2 DEF TiersOnDiskOK, DonutOK
<1>4. \A s \in DOMAIN donuts \ {Slot} : donuts'[s] = donuts[s]
  BY DEF BakeOrder
<1>5. /\ Starts' = Starts
      /\ \A s : DonutOffset(s)' = DonutOffset(s) /\ After(s)' = After(s) /\ Share(s)' = Share(s)
  BY <1>1, MakingShares DEF SlotSteps
<1>6. /\ BeingMade = {Slot} /\ BeingMoved = Sources /\ BeingMade' = {} /\ BeingMoved' = Sources
      /\ Slot \notin Sources
  <2>1. Sources' = Sources
    BY <1>1 DEF Sources, Source
  <2>2. Slot \notin Sources
    BY <1>1, BakeContext DEF SlotSteps
  <2> QED BY <1>1, <2>1, <2>2 DEF BeingMade, BeingMoved
<1>7. Share(Slot) \subseteq HashesIn(donuts[Slot].suffix)
  <2> SUFFICES ASSUME NEW h \in Share(Slot) PROVE h \in HashesIn(donuts[Slot].suffix)
    OBVIOUS
  <2>1. PICK d \in 1 .. n : h \in Share(Source(d))
    BY <1>1, SlotShared, SourceShares
  <2>2. job.prefix = PrefixCount[job.tier - 1] /\ PrefixesCopied = job.prefix
    <3>1. job.prefix = PrefixCount[job.tier - 1] /\ job.prefix \in Nat
      BY <1>1, OffsetTypes DEF AllShared, PrefixesMoved
    <3> QED BY <1>1, <3>1 DEF PrefixesCopied
  <2>3. PrefixOf[job.tier - 1][h] < PrefixesCopied
    BY <1>1, <2>1, <2>2, ShareIs
  <2> QED BY <1>1, <2>1, <2>3 DEF AllShared, PrefixesMoved
<1> HIDE DEF order
<1>8. Ascending'
  <2>1. NotYetBaked = {} /\ NotYetBaked' = {}
    BY <1>1 DEF NotYetBaked
  <2> QED BY <1>1, <1>3, <1>5, <2>1 DEF AllShared, Ascending
<1>9. InputsFilled'
  <2>1. FrozenInputs' = {}
    BY <1>1 DEF FrozenInputs, InputInHand
  <2> QED BY <1>1, <2>1, InputsKept DEF AllShared
<1>10. DonutsFilled'
  <2>1. ASSUME NEW s \in DOMAIN donuts
        PROVE  /\ HashesIn(donuts'[s].suffix) \subseteq Share(s)
               /\ s \notin Sources => Share(s) \subseteq HashesIn(donuts'[s].suffix)
               /\ donuts'[s].order = InOrder(Share(s), DonutOffset(s))
    <3>1. CASE s = Slot
      BY <1>2, <1>3, <1>4, <1>7, <3>1 DEF AllShared, DonutsFilled
    <3>2. CASE s # Slot
      BY <1>4, <1>6, <3>2 DEF AllShared, DonutsFilled
    <3> QED BY <3>1, <3>2
  <2>2. \A s \in DOMAIN donuts' :
          /\ HashesIn(donuts'[s].suffix) \subseteq Share(s)'
          /\ s \notin Sources => Share(s)' \subseteq HashesIn(donuts'[s].suffix)
          /\ donuts'[s].order = InOrder(Share(s)', DonutOffset(s)')
    BY <1>3, <1>5, <2>1
  <2> QED BY <1>6, <2>2 DEF DonutsFilled
<1>11. PrefixesMoved'
  BY <1>1 DEF PrefixesMoved
<1> QED BY <1>8, <1>9, <1>10, <1>11 DEF AllShared

\* The emptied sources go, and nothing else does.
LEMMA RemoveTierShared ==
  ASSUME Inductive, Traced, AllTidy, AllShared, RemoveTier
  PROVE  AllShared'
<1> USE DEF SlotSteps, BakeTierSteps
<1> DEFINE folder == <<job.tier - 1, job.off>>
<1>1. /\ pc = "removeTier" /\ pc' = "ice"
      /\ UNCHANGED <<tierOffsets, inputs, tiersInfo, job>>
      /\ job.tier > 0 /\ folder \in DOMAIN donutFile /\ donutFile[folder] = job.offsets
  BY FrozenTier DEF RemoveTier, memory, JobFits
<1>2. /\ DOMAIN donutFile' = DOMAIN donutFile \ {folder}
      /\ \A x \in DOMAIN donutFile' : donutFile'[x] = donutFile[x]
  BY DEF RemoveTier, Drop, Restrict
<1>3. /\ DOMAIN donuts' = {s \in DOMAIN donuts : <<s[1], s[2]>> # folder}
      /\ \A s \in DOMAIN donuts' : donuts'[s] = donuts[s]
  BY DEF RemoveTier, Drop, Restrict
<1>4. \A s \in Sources : <<s[1], s[2]>> = folder
  BY DEF Sources, Source
<1> HIDE DEF folder
<1>5. Starts' = Starts
  BY <1>1 DEF Starts, InHandStart
<1>6. ASSUME NEW s \in DOMAIN donuts'
      PROVE  /\ s \in DOMAIN donuts /\ s \notin Sources
             /\ DonutOffset(s)' = DonutOffset(s) /\ After(s)' = After(s) /\ Share(s)' = Share(s)
  <2>1. s \in DOMAIN donuts /\ <<s[1], s[2]>> # folder /\ <<s[1], s[2]>> \in DOMAIN donutFile
    BY <1>3, <1>6, DonutOffsetType
  <2>2. donutFile'[<<s[1], s[2]>>] = donutFile[<<s[1], s[2]>>]
    BY <1>2, <2>1
  <2> QED BY <1>4, <1>5, <2>1, <2>2, ShareKept
<1>7. /\ NotYetBaked = {} /\ NotYetBaked' = {} /\ BeingMade = {} /\ BeingMoved = Sources
      /\ BeingMade' = {} /\ BeingMoved' = {} /\ PrefixesMoved' /\ FrozenInputs' = {}
  BY <1>1 DEF NotYetBaked, BeingMade, BeingMoved, PrefixesMoved, FrozenInputs, InputInHand
<1>8. Ascending'
  BY <1>1, <1>6, <1>7 DEF AllShared, Ascending
<1>9. InputsFilled'
  BY <1>1, <1>7, InputsKept DEF AllShared
<1>10. DonutsFilled'
  <2>1. ASSUME NEW s \in DOMAIN donuts'
        PROVE  /\ HashesIn(donuts[s].suffix) = Share(s)
               /\ donuts[s].order = InOrder(Share(s), DonutOffset(s))
    BY <1>6, <1>7 DEF AllShared, DonutsFilled
  <2>2. \A s \in DOMAIN donuts' :
          /\ HashesIn(donuts'[s].suffix) = Share(s)'
          /\ donuts'[s].order = InOrder(Share(s)', DonutOffset(s)')
    BY <1>3, <1>6, <2>1
  <2> QED BY <2>2 DEF DonutsFilled
<1> QED BY <1>7, <1>8, <1>9, <1>10 DEF AllShared

\* A step that changes nothing.
LEMMA StutterShared ==
  ASSUME AllShared, UNCHANGED vars
  PROVE  AllShared'
<1> USE DEF vars, disk, memory, ghost, AllShared
<1>1. Starts' = Starts /\ Slot' = Slot /\ Sources' = Sources /\ \A d : Source(d)' = Source(d)
  BY DEF Starts, InHandStart, Slot, Sources, Source
<1>2. \A s : DonutOffset(s)' = DonutOffset(s) /\ After(s)' = After(s) /\ Share(s)' = Share(s)
  BY <1>1, ShareKept
<1>3. Ascending'
  <2>1. NotYetBaked' = NotYetBaked
    BY <1>1 DEF NotYetBaked
  <2> QED BY <1>2, <2>1 DEF Ascending
<1>4. InputsFilled'
  <2>1. FrozenInputs' = FrozenInputs
    BY DEF FrozenInputs, InputInHand, Baking
  <2> QED BY <2>1, InputsKept
<1>5. DonutsFilled'
  <2>1. BeingMade' = BeingMade /\ BeingMoved' = BeingMoved
    BY <1>1 DEF BeingMade, BeingMoved
  <2> QED BY <1>2, <2>1 DEF DonutsFilled
<1>6. PrefixesMoved'
  <2>1. PrefixesCopied' = PrefixesCopied
    BY DEF PrefixesCopied
  <2>2. \A d, h : Update(d, h)' = Update(d, h)
    BY DEF Update
  <2>3. \A d : Share(Source(d))' = Share(Source(d))
    BY <1>1, <1>2
  <2> QED BY <1>1, <2>1, <2>2, <2>3 DEF PrefixesMoved
<1> QED BY <1>3, <1>4, <1>5, <1>6

\* While no gap is presented, every step that does not break off keeps the indices
\* shared out.
LEMMA NextShared ==
  ASSUME Inductive, InputAhead, Traced, Tidy, Shared, [Next]_vars
  PROVE  Shared'
<1> SUFFICES ASSUME MaxGap = 0, ~interrupted' PROVE AllShared'
  BY DEF Shared
<1>1. AllTidy /\ AllShared
  BY BreaksOff DEF Tidy, Shared
<1>2. CASE Open \/ Close \/ \E gpi \in Hashes : AppendHash(gpi)
  BY <1>1, <1>2, OpenCloseShared, AppendHashShared
<1>3. CASE Freeze
  BY <1>1, <1>3, FreezeShared, FreezeRecordShared DEF Freeze
<1>4. CASE TierRecord \/ TierFile \/ DonutFolder
  BY <1>1, <1>4, NewTierShared, DonutFolderShared
<1>5. CASE BakeInput \/ RemoveInput \/ BakePrefix \/ DropPrefix \/ BakeOrder \/ RemoveTier
  BY <1>1, <1>5, BakeInputShared, FinishShared, BakePrefixShared, DropPrefixShared,
     BakeOrderShared, RemoveTierShared
<1>6. CASE Publish
  BY <1>1, <1>6, FinishShared, PublishShared, FreezeTierShared DEF Publish
<1>7. CASE UNCHANGED vars
  BY <1>1, <1>7, StutterShared
<1> QED BY <1>2, <1>3, <1>4, <1>5, <1>6, <1>7, BreaksOff
        DEF Next, Pipeline, NewDonutFolder, Bake

\* At first there is one input folder, and nothing in it.
LEMMA InitShared ==
  ASSUME Init
  PROVE  Shared
<1>1. /\ DOMAIN inputs = {0} /\ inputs[0] = NewInput /\ tierOffsets.input = 0
      /\ DOMAIN donuts = {} /\ pc = "down"
  BY DEF Init
<1>2. Ascending
  BY <1>1 DEF Ascending, NotYetBaked
<1>3. InputsFilled
  <2>1. FrozenInputs = {}
    BY <1>1 DEF FrozenInputs, InputInHand, Baking, DonutSteps
  <2>2. HashesIn(inputs[0].suffix) = {} /\ inputs[0].count = 0 /\ 0 .. 0 + 0 - 1 = {}
    BY <1>1 DEF HashesIn, NewInput
  <2> QED BY <1>1, <2>1, <2>2 DEF InputsFilled
<1>4. DonutsFilled /\ PrefixesMoved
  BY <1>1 DEF DonutsFilled, PrefixesMoved
<1> QED BY <1>2, <1>3, <1>4 DEF Shared, AllShared

\* In every reachable state before anything broke off, if no gaps are presented, each
\* folder has the indices between its own offset and the next one, and the
\* HashesOrder.bin of each donut, rebased and concatenated through any number of bakes,
\* leads from each of its local indices to the hash that was presented with it.
THEOREM ShareInvariant == Spec => []Shared
<1>1. Init => Shared
  BY InitShared
<1>2. Inductive /\ InputAhead /\ Traced /\ Tidy /\ Shared /\ [Next]_vars => Shared'
  BY NextShared
<1> HIDE DEF Inductive, TypeOK
<1> QED BY <1>1, <1>2, InductiveInvariant, InputStaysAhead, FilesTraced, TidyInvariant, PTL DEF Spec

(*****************************************************************************)
(* What the shares are good for: LookupHash finds every hash that it should, *)
(* at every moment, in what the tiers in service and AppendHash have of it.  *)
(*****************************************************************************)
\* A donut is only added to a tier that has room.
LEMMA BoundedKept ==
  ASSUME Inductive, Bounded, [Next]_vars
  PROVE  Bounded'
<1>1. CASE UNCHANGED donutFile
  BY <1>1 DEF Bounded
<1>2. CASE TierFile
  <2>1. \A x \in DOMAIN donutFile' : donutFile'[x] = <<>> \/ (x \in DOMAIN donutFile /\ donutFile'[x] = donutFile[x])
    BY <1>2 DEF TierFile, Put
  <2>2. Len(<<>>) <= Donuts
    OBVIOUS
  <2> QED BY <2>1, <2>2 DEF Bounded
<1>3. CASE DonutFolder
  <2> DEFINE was == donutFile[TierFolder]
             length == Len(was)
             longer == Len(Append(was, job.off))
  <2>1. /\ DOMAIN donutFile' = DOMAIN donutFile /\ donutFile'[TierFolder] = Append(was, job.off)
        /\ \A x \in DOMAIN donutFile \ {TierFolder} : donutFile'[x] = donutFile[x]
        /\ length \in Nat /\ longer = length + 1
    BY <1>3, DonutListed
  <2>2. length < Donuts
    BY <1>3 DEF DonutFolder, HasRoom
  <2> HIDE DEF length, longer
  <2>3. longer <= Donuts
    BY <2>1, <2>2
  <2> QED BY <2>1, <2>3 DEF Bounded, longer
<1>4. CASE RemoveTier
  <2>1. DOMAIN donutFile' \subseteq DOMAIN donutFile /\ \A x \in DOMAIN donutFile' : donutFile'[x] = donutFile[x]
    BY <1>4 DEF RemoveTier, Drop, Restrict
  <2> QED BY <2>1 DEF Bounded
<1>5. UNCHANGED donutFile \/ TierFile \/ DonutFolder \/ RemoveTier
  BY DEF vars, disk, Next, Open, Close, Crash, AppendHash, AppendTooLarge, Pipeline, Freeze,
     FreezeCreate, FreezeRecord, FreezeSwitch, FreezeSeal, NewDonutFolder, TierRecord,
     DonutRefused, TopTierPanic, Bake, BakeInput, BakeInputFails, RemoveInput, BakePrefix,
     BakeTierFails, DropPrefix, BakeOrder, BakeOrderFails, Publish, Ice, PublishFirst,
     PublishNext, FreezeTier, Fail
<1> QED BY <1>1, <1>2, <1>3, <1>4, <1>5

\* The new input folder is recorded, with nothing in it, while memory has the frozen one.
LEMMA SwitchingKept ==
  ASSUME Inductive, Tidy, Switching, [Next]_vars
  PROVE  Switching'
<1> SUFFICES ASSUME ~interrupted', pc' = "freezeSwitch"
             PROVE  input' = OpenedInput(job.off)' /\ inputs'[tierOffsets'.input].suffix = {}
  BY DEF Switching
<1>1. ~interrupted /\ AllTidy
  BY BreaksOff DEF Tidy
<1>2. CASE UNCHANGED vars
  BY <1>1, <1>2 DEF Switching, vars, disk, memory, OpenedInput
<1>3. CASE FreezeRecord
  <2> DEFINE current == tierOffsets.input
             next == NextOffset
  <2>1. /\ pc = "freezeRecord" /\ Up /\ UNCHANGED <<inputs, input>>
        /\ job'.off = tiersInfo.input
    BY <1>3 DEF FreezeRecord, NoJob, Up
  <2>2. tiersInfo \in TiersInfoType /\ tierOffsets = OnFile(tiersInfo)
    BY <2>1 DEF MemoryOK, MemoryOnDisk
  <2>3. tiersInfo.input = current /\ tierOffsets'.input = next
    BY <1>3, <2>2 DEF FreezeRecord, TiersInfoType, OnFile
  <2>4. inputs[next] = NewInput
    BY <1>1, <2>1 DEF AllTidy, InputsTidy, NewInputs
  <2>5. input = OpenedInput(current)
    BY <1>1, <2>1 DEF AllTidy, InputTidy
  <2> HIDE DEF next
  <2> QED BY <2>1, <2>3, <2>4, <2>5 DEF OpenedInput, NewInput
<1>4. UNCHANGED vars \/ FreezeRecord
  BY DEF Next, Open, Close, Crash, AppendHash, AppendTooLarge, Pipeline, Freeze,
     FreezeCreate, FreezeSwitch, FreezeSeal, NewDonutFolder, TierRecord, TierFile, DonutFolder,
     DonutRefused, TopTierPanic, Bake, BakeInput, BakeInputFails, RemoveInput, BakePrefix,
     BakeTierFails, DropPrefix, BakeOrder, BakeOrderFails, RemoveTier, Publish, Ice, PublishFirst,
     PublishNext, FreezeTier, Fail, GiveUp, Forget, Panic, Return, NoJob
<1> QED BY <1>2, <1>3, <1>4

LEMMA LookupsReady == Spec => [](Bounded /\ Switching)
<1>1. Init => Bounded /\ Switching
  BY DEF Init, Bounded, Switching
<1>2. Inductive /\ Tidy /\ Bounded /\ Switching /\ [Next]_vars => Bounded' /\ Switching'
  BY BoundedKept, SwitchingKept
<1> HIDE DEF Inductive, TypeOK
<1> QED BY <1>1, <1>2, InductiveInvariant, TidyInvariant, PTL DEF Spec

\* Donut x of those in service, and the hashes in its files.
ServedSlot(x) == <<x[1], open[x[1]].folder, x[2] - 1>>
Held(x) == HashesIn(donuts[ServedSlot(x)].suffix)

\* A donut in service has its share, whatever AppendHash is at.
LEMMA ServedShared ==
  ASSUME Inductive, Traced, AllTidy, AllShared, NEW x \in Served
  PROVE  LET s == ServedSlot(x)  off == open[x[1]].offsets[x[2]]
         IN  /\ s \in DOMAIN donuts /\ s = <<x[1], open[x[1]].folder, open[x[1]].donuts[x[2]]>>
             /\ off = DonutOffset(s) /\ off \in Nat
             /\ donuts[s].order = InOrder(Held(x), off)
             /\ \A e \in donuts[s].suffix : e.hash \in Hashes /\ e.pi \in Nat /\ e.pi = e.hash - off
<1> DEFINE t == x[1]
           d == x[2]
           tier == open[t]
           s == ServedSlot(x)
           off == tier.offsets[d]
<1>1. /\ Up /\ t \in Tiers /\ d \in Int /\ d \in DOMAIN tier.donuts /\ tier # NilTier
      /\ <<t, tier.folder, tier.donuts[d]>> \in DOMAIN donuts
      /\ tier.offsets = donutFile[<<t, tier.folder>>]
  BY ServedFacts
<1>2. tier.donuts[d] = d - 1
  <2>1. PICK n : tier.donuts = Numbered(n)
    BY <1>1 DEF AllTidy, MemoryTidy
  <2> HIDE DEF t, d
  <2> QED BY <1>1, <2>1 DEF Numbered
<1>3. s \in DOMAIN donuts /\ s = <<t, tier.folder, tier.donuts[d]>>
  BY <1>1, <1>2 DEF ServedSlot
<1>4. s \notin BeingMade \cup BeingMoved
  <2>1. pc \in SlotSteps => s # Slot
    BY <1>3, ServedAside
  <2>2. pc \in BakeTierSteps => s \notin Sources
    <3>1. pc \in BakeTierSteps => t # job.tier - 1
      BY <1>3, ServedAside DEF SlotSteps, JobFits
    <3> QED BY <3>1 DEF ServedSlot, Sources, Source
  <2> HIDE DEF s
  <2> QED BY <2>1, <2>2 DEF BeingMade, BeingMoved, SlotSteps, BakeInputSteps, BakeTierSteps
<1>5. off = DonutOffset(s) /\ off \in Nat
  <2>1. DonutOffset(s) \in Nat
    BY <1>3, DonutOffsetType
  <2>2. (d - 1) + 1 = d
    BY <1>1
  <2> HIDE DEF t, d, tier
  <2>3. s[1] = t /\ s[2] = tier.folder /\ s[3] = d - 1
    BY DEF ServedSlot, t, d, tier
  <2>4. DonutOffset(s) = donutFile[<<t, tier.folder>>][d]
    BY <2>2, <2>3 DEF DonutOffset
  <2> QED BY <1>1, <2>1, <2>4
<1> HIDE DEF s, off
<1>6. HashesIn(donuts[s].suffix) = Share(s) /\ donuts[s].order = InOrder(Share(s), off)
  BY <1>3, <1>4, <1>5 DEF AllShared, DonutsFilled
<1>7. ASSUME NEW e \in donuts[s].suffix
      PROVE  e.hash \in Hashes /\ e.pi \in Nat /\ e.pi = e.hash - off
  <2>1. e.hash \in Hashes /\ e.pi \in Int /\ e.hash = e.pi + off
    BY <1>3, <1>5 DEF TiersOnDiskOK, DonutOK, EntryType, Traced, Indexed
  <2>2. off <= e.hash
    BY <1>5, <1>6 DEF HashesIn, Share
  <2>3. e.hash \in Int /\ off \in Int
    BY <1>5, <2>1
  <2> QED BY <2>1, <2>2, <2>3
<1> QED BY <1>3, <1>5, <1>6, <1>7 DEF s, off, Held

\* So it answers a hash that it has, and passes on any other.
LEMMA DonutFinds ==
  ASSUME Inductive, Traced, AllTidy, AllShared, NEW x \in Served, NEW h \in Hashes
  PROVE  DonutAnswers(x[1], x[2], h) = IF h \in Held(x) THEN {h} ELSE {NoMatch}
<1> DEFINE t == x[1]
           d == x[2]
           s == <<t, open[t].folder, d - 1>>
           icing == <<t, open[t].folder, open[t].donuts[d]>>
           off == open[t].offsets[d]
           order == donuts[s].order
           answer(c, v) == CASE v = "error" -> Error
                             [] v = "same" -> c + off
                             [] v = "differs" -> NoMatch
           answers(c) == IF c = NoMatch THEN {NoMatch}
                         ELSE {answer(c, v) : v \in Verified(s, h, c)}
<1>1. /\ s = ServedSlot(x) /\ s \in DOMAIN donuts /\ s = icing /\ off \in Nat
      /\ order = InOrder(HashesIn(donuts[s].suffix), off)
  BY ServedShared DEF Held, ServedSlot
<1>2. \A e \in donuts[s].suffix : e.hash \in Hashes /\ e.pi \in Nat /\ e.pi = e.hash - off
  BY ServedShared DEF ServedSlot
<1>3. DonutAnswers(t, d, h) = UNION {answers(c) : c \in Candidates(s, h)}
  <2>1. DonutAnswers(t, d, h) = UNION {answers(c) : c \in Candidates(icing, h)}
    BY DEF DonutAnswers
  <2> HIDE DEF s, icing, answers
  <2> QED BY <1>1, <2>1
<1> HIDE DEF s, order, off
<1>4. ASSUME NEW e \in donuts[s].suffix
      PROVE  e.pi \in DOMAIN order /\ order[e.pi] = e.hash
  <2> DEFINE held == HashesIn(donuts[s].suffix)
             places == {g - off : g \in held}
  <2>1. e.hash \in held
    BY DEF HashesIn
  <2>2. e.pi = e.hash - off /\ e.pi + off = e.hash
    <3>1. e.pi \in Nat /\ e.hash \in Int /\ e.pi = e.hash - off
      BY <1>2
    <3> QED BY <1>1, <3>1
  <2> HIDE DEF held
  <2>3. e.pi \in places
    BY <2>1, <2>2
  <2>4. order = [l \in places |-> l + off]
    BY <1>1 DEF InOrder, held
  <2> QED BY <2>2, <2>3, <2>4
<1>5. ASSUME NEW e \in donuts[s].suffix
      PROVE  Verified(s, h, e.pi) = IF e.hash = h THEN {"same"} ELSE {"differs"}
  <2>1. e.hash \in Hashes /\ order[e.pi] = e.hash /\ PastEnd \notin Hashes
    BY <1>4, <1>2 DEF PastEnd
  <2> QED BY <1>1, <1>4, <2>1 DEF Verified, order
<1>6. CASE h \in HashesIn(donuts[s].suffix)
  <2>1. PICK e \in donuts[s].suffix : e.hash = h
    BY <1>6 DEF HashesIn
  <2>2. \A c \in Candidates(s, h) : c = h - off
    <3> TAKE c \in Candidates(s, h)
    <3>1. PICK b \in donuts[s].suffix : b.hash = h /\ b.pi = c
      BY <1>6, OwnCandidate
    <3> QED BY <1>2, <3>1
  <2>3. e.pi \in Nat /\ e.pi = h - off /\ e.pi + off = h
    <3>1. e.pi \in Nat /\ e.pi = h - off
      BY <1>2, <2>1
    <3> QED BY <1>1, <3>1
  <2>4. e.pi \in Candidates(s, h)
    BY <2>1 DEF Candidates
  <2>5. Candidates(s, h) = {e.pi}
    BY <2>2, <2>3, <2>4
  <2>6. e.pi # NoMatch
    BY <2>3 DEF NoMatch
  <2>7. answers(e.pi) = {h}
    <3>1. Verified(s, h, e.pi) = {"same"}
      BY <1>5, <2>1
    <3>2. answer(e.pi, "same") = h
      BY <2>3
    <3> HIDE DEF answer
    <3> QED BY <2>6, <3>1, <3>2
  <2> HIDE DEF answers
  <2>8. UNION {answers(c) : c \in Candidates(s, h)} = {h}
    <3>1. \A c \in Candidates(s, h) : answers(c) = {h}
      BY <2>5, <2>7, Zenon
    <3>2. Candidates(s, h) # {}
      BY <2>4
    <3> QED BY <3>1, <3>2
  <2>9. h \in Held(x)
    BY <1>1, <1>6 DEF Held
  <2> QED BY <1>3, <2>8, <2>9
<1>7. CASE h \notin HashesIn(donuts[s].suffix)
  <2>1. Candidates(s, h) = {NoMatch} \cup {e.pi : e \in donuts[s].suffix}
    BY <1>7 DEF Candidates, HashesIn
  <2>2. \A e \in donuts[s].suffix : answers(e.pi) = {NoMatch}
    <3> TAKE e \in donuts[s].suffix
    <3>1. e.hash # h
      BY <1>7 DEF HashesIn
    <3>2. Verified(s, h, e.pi) = {"differs"}
      BY <1>5, <3>1
    <3> QED BY <3>2
  <2>3. answers(NoMatch) = {NoMatch}
    OBVIOUS
  <2> HIDE DEF answers
  <2>4. \A c \in Candidates(s, h) : answers(c) = {NoMatch}
    BY <2>1, <2>2, <2>3
  <2>5. NoMatch \in Candidates(s, h)
    BY <2>1
  <2>6. UNION {answers(c) : c \in Candidates(s, h)} = {NoMatch}
    BY <2>4, <2>5
  <2>7. h \notin Held(x)
    BY <1>1, <1>7 DEF Held
  <2> QED BY <1>3, <2>6, <2>7
<1> QED BY <1>6, <1>7

\* Of the donuts in service that have a hash, a lookup comes to one first.
LEMMA FirstHolder ==
  ASSUME NEW h, NEW z \in Served, h \in Held(z)
  PROVE  \E x \in Served : h \in Held(x) /\ \A y \in Served : Before(y, x) => h \notin Held(y)
<1> DEFINE Holders == {x \in Served : h \in Held(x)}
           InTier == {x[1] : x \in Holders}
<1>1. \A x \in Served : x[1] \in Nat /\ x[2] \in Nat /\ x = <<x[1], x[2]>>
  BY DEF Served
<1>2. PICK t \in InTier : \A u \in InTier : t <= u
  <2>1. InTier \subseteq Nat /\ InTier # {}
    BY <1>1
  <2> HIDE DEF InTier
  <2> QED BY <2>1, LeastElement
<1> DEFINE Places == {x[2] : x \in {y \in Holders : y[1] = t}}
<1>3. PICK d \in Places : \A e \in Places : d <= e
  <2>1. Places \subseteq Nat /\ Places # {}
    BY <1>1, <1>2
  <2> HIDE DEF Places
  <2> QED BY <2>1, LeastElement
<1>4. PICK x \in Holders : x[1] = t /\ x[2] = d
  BY <1>3
<1>5. ASSUME NEW y \in Served, h \in Held(y) PROVE ~Before(y, x)
  <2>1. y \in Holders /\ y[1] \in InTier
    BY <1>5
  <2>2. y[1] \in Nat /\ y[2] \in Nat /\ t \in Nat /\ d \in Nat /\ t <= y[1]
    BY <1>1, <1>2, <1>4, <2>1
  <2>3. y[1] = t => d <= y[2]
    BY <1>3, <2>1
  <2> QED BY <1>4, <2>2, <2>3 DEF Before
<1> QED BY <1>4, <1>5

\* Looking into one tier after the other finds a hash exactly if a donut in service has
\* it, and no donut stands in its way.
LEMMA TiersFind ==
  ASSUME Inductive, Traced, AllTidy, AllShared, NEW h \in Hashes
  PROVE  LookupTiers(h) = IF \E x \in Served : h \in Held(x) THEN {h} ELSE {NoMatch}
<1>1. \A x \in Served : DonutAnswers(x[1], x[2], h) = IF h \in Held(x) THEN {h} ELSE {NoMatch}
  BY DonutFinds
<1>2. h # NoMatch
  BY DEF NoMatch
<1>3. \A x \in Served : Passes(h, x) <=> h \notin Held(x)
  BY <1>1, <1>2 DEF Passes
<1> DEFINE answered == UNION {DonutAnswers(x[1], x[2], h) \ {NoMatch} : x \in Reached(h)}
<1>4. LookupTiers(h) = {r \in {NoMatch} : \A x \in Served : Passes(h, x)} \cup answered
  BY DEF LookupTiers
<1>5. \A x \in Reached(h) : x \in Served
  BY DEF Reached
<1>6. CASE \E x \in Served : h \in Held(x)
  <2>1. PICK x \in Served : h \in Held(x) /\ \A y \in Served : Before(y, x) => h \notin Held(y)
    BY <1>6, FirstHolder
  <2>2. x \in Reached(h)
    BY <1>3, <2>1 DEF Reached
  <2>3. \A r : r \in answered <=> \E y \in Reached(h) : r \in DonutAnswers(y[1], y[2], h) /\ r # NoMatch
    OBVIOUS
  <2>4. ASSUME NEW r \in answered PROVE r = h
    <3>1. PICK y \in Reached(h) : r \in DonutAnswers(y[1], y[2], h) /\ r # NoMatch
      BY <2>3
    <3>2. r \in {h} \/ r \in {NoMatch}
      BY <1>1, <1>5, <3>1
    <3> QED BY <3>1, <3>2
  <2>5. h \in answered
    BY <1>1, <1>2, <2>1, <2>2, <2>3
  <2>6. {r \in {NoMatch} : \A y \in Served : Passes(h, y)} = {}
    BY <1>3, <2>1
  <2> HIDE DEF answered
  <2> QED BY <1>4, <1>6, <2>4, <2>5, <2>6
<1>7. CASE ~ \E x \in Served : h \in Held(x)
  <2>1. answered = {}
    BY <1>1, <1>5, <1>7
  <2>2. {r \in {NoMatch} : \A y \in Served : Passes(h, y)} = {NoMatch}
    BY <1>3, <1>7
  <2> HIDE DEF answered
  <2> QED BY <1>4, <1>7, <2>1, <2>2
<1> QED BY <1>6, <1>7

\* Cake.LookupHash answers every hash that the input tier or a donut in service has, with
\* the index it was presented with, and no other.
InReach == HashesIn(input.entries) \cup UNION {Held(x) : x \in Served}
LEMMA LookupFinds ==
  ASSUME Inductive, Traced, AllTidy, AllShared, NEW h \in Hashes
  PROVE  LookupHash(h) = IF h \in InReach THEN {h} ELSE {NoMatch}
<1> DEFINE own == {e \in input.entries : e.hash = h}
<1>1. h \in InReach <=> own # {} \/ \E x \in Served : h \in Held(x)
  BY DEF InReach, HashesIn
<1>2. CASE own # {}
  <2>1. LookupHash(h) = {e.pi + input.offset : e \in own}
    BY <1>2 DEF LookupHash
  <2>2. \A e \in own : e.pi + input.offset = h
    BY DEF Traced, Indexed
  <2> HIDE DEF own
  <2>3. {e.pi + input.offset : e \in own} = {h}
    BY <1>2, <2>2
  <2> QED BY <1>1, <1>2, <2>1, <2>3
<1>3. CASE own = {}
  BY <1>1, <1>3, TiersFind DEF LookupHash
<1> QED BY <1>2, <1>3

\* A stored hash that a lookup does not come to is in a folder that AppendHash has taken
\* out of service: the frozen input folder, the donut being made, or one of its sources.
LEMMA FolderInReach ==
  ASSUME Inductive, Traced, AllTidy, Bounded, Up,
         NEW s \in DOMAIN donuts, s # Slot \/ pc \notin SlotSteps,
         s \notin Sources \/ pc \notin {"newDonut", "tierFile"} \cup BakeTierSteps
  PROVE  HashesIn(donuts[s].suffix) \subseteq InReach
<1> DEFINE t == s[1]
           k == s[3]
           x == <<t, s[2]>>
           listed == donutFile[x]
<1>1. /\ x \in DOMAIN donutFile /\ k \in 0 .. Len(listed) - 1 /\ k \in Nat /\ t \in Tiers
      /\ Len(listed) \in Nat /\ Len(listed) <= Donuts /\ s = <<t, s[2], k>>
  <2>1. s = <<t, s[2], k>>
    BY DEF TiersOnDiskOK
  <2> QED BY <2>1, DonutOffsetType, OffsetTypes DEF Bounded
<1>2. x \notin FrozenFolders
  <2> SUFFICES ASSUME x \in FrozenFolders PROVE FALSE
    OBVIOUS
  <2>1. /\ job.tier > 0 /\ pc \in {"newDonut", "tierFile"} \cup BakeTierSteps
        /\ t = job.tier - 1 /\ s[2] = job.off /\ listed = job.offsets
    BY <1>1 DEF FrozenFolders, Traced, JobIndexed
  <2>2. k + 1 \in 1 .. Len(job.offsets) /\ (k + 1) - 1 = k
    BY <1>1, <2>1
  <2>3. s = Source(k + 1)
    BY <1>1, <2>1, <2>2 DEF Source
  <2> QED BY <2>1, <2>2, <2>3 DEF Sources
<1>3. /\ tierOffsets.tier[t] # Absent /\ s[2] = tierOffsets.tier[t]
      /\ ~(pc = "tierFile" /\ t = job.tier)
  <2>1. x \in RecordedFolders \ NotYetMade
    BY <1>1, <1>2 DEF AllTidy, FoldersTidy
  <2>2. tierOffsets.tier[t] # Absent /\ s[2] = tierOffsets.tier[t]
    BY <2>1 DEF RecordedFolders
  <2>3. tiersInfo.offset[t] = s[2]
    BY <1>1, <2>2, RecordedTiers
  <2> QED BY <2>1, <2>2, <2>3 DEF NotYetMade, TierFolder
<1>4. tiersInfo.present[t] /\ tiersInfo.offset[t] = s[2]
  BY <1>1, <1>3, RecordedTiers
<1>5. /\ open[t] # NilTier /\ open[t].folder = s[2]
      /\ open[t].donuts = Numbered(Len(open[t].offsets) - Unpublished(t))
      /\ open[t].offsets = listed
  <2>1. /\ open[t] = NilTier <=> ~tiersInfo.present[t] \/ (pc = "tierFile" /\ t = job.tier)
        /\ open[t] # NilTier =>
             /\ open[t].folder = tiersInfo.offset[t]
             /\ open[t].donuts = Numbered(Len(open[t].offsets) - Unpublished(t))
    BY <1>1 DEF AllTidy, MemoryTidy
  <2>2. /\ open[t] # NilTier /\ open[t].folder = s[2]
        /\ open[t].donuts = Numbered(Len(open[t].offsets) - Unpublished(t))
    BY <1>3, <1>4, <2>1
  <2>3. tiersInfo.offset[t] = s[2] /\ x \in DOMAIN donutFile /\ t \in Tiers
    BY <1>1, <1>4
  <2>4. open[t].offsets = listed
    BY <2>2, <2>3 DEF OpenTiers
  <2> QED BY <2>2, <2>4
<1>6. k + 1 <= Len(listed) - Unpublished(t)
  <2>1. CASE pc \in SlotSteps /\ t = job.tier
    <3>1. x = TierFolder /\ job.count = Len(listed) /\ Slot = <<t, s[2], Len(listed) - 1>>
      BY <1>4, <2>1, BakeContext DEF TierFolder, Slot
    <3>2. k # Len(listed) - 1
      BY <1>1, <2>1, <3>1
    <3> HIDE DEF listed, k
    <3> QED BY <1>1, <2>1, <3>2 DEF Unpublished
  <2>2. CASE ~(pc \in SlotSteps /\ t = job.tier)
    <3> HIDE DEF listed, k
    <3> QED BY <1>1, <2>2 DEF Unpublished
  <2> QED BY <2>1, <2>2
<1>7. Len(open[t].donuts) = Len(listed) - Unpublished(t)
  <2> DEFINE n == Len(listed) - Unpublished(t)
  <2>1. n \in Nat
    <3> HIDE DEF listed, k
    <3> QED BY <1>1, <1>6 DEF Unpublished
  <2>2. open[t].donuts = [d \in 1 .. n |-> d - 1]
    BY <1>5 DEF Numbered
  <2> HIDE DEF n
  <2>3. Len([d \in 1 .. n |-> d - 1]) = n
    BY <2>1
  <2> QED BY <2>2, <2>3 DEF n
<1> DEFINE at == <<t, k + 1>>
<1>8. at \in Served
  <2>1. k + 1 \in 1 .. Donuts
    <3> HIDE DEF listed, k
    <3> QED BY <1>1
  <2> QED BY <1>1, <1>6, <1>7, <2>1 DEF Served
<1>9. ServedSlot(at) = s
  <2>1. (k + 1) - 1 = k /\ at[1] = t /\ at[2] = k + 1
    BY <1>1
  <2> HIDE DEF at, k
  <2> QED BY <1>1, <1>5, <2>1 DEF ServedSlot
<1> QED BY <1>8, <1>9 DEF InReach, Held

LEMMA InputInReach ==
  ASSUME Inductive, AllTidy, Switching, ~interrupted, Up,
         NEW o \in DOMAIN inputs, o \notin FrozenInputs \/ pc = "freezeSwitch"
  PROVE  HashesIn(inputs[o].suffix) \subseteq InReach
<1> DEFINE current == tierOffsets.input
<1>1. o = current \/ o \in NewInputs \/ o \in FrozenInputs
  BY DEF AllTidy, InputsTidy
<1>2. CASE o \in NewInputs
  BY <1>2 DEF AllTidy, InputsTidy, NewInput, HashesIn
<1>3. CASE pc = "freezeSwitch" /\ o # current /\ o \notin NewInputs
  <2>1. o = job.off
    BY <1>1, <1>3 DEF FrozenInputs
  <2> QED BY <1>3, <2>1 DEF Switching, OpenedInput, InReach
<1>4. CASE o = current
  <2>1. CASE pc = "freezeSwitch"
    BY <1>4, <2>1 DEF Switching, HashesIn
  <2>2. CASE pc # "freezeSwitch"
    BY <1>4, <2>2 DEF AllTidy, InputTidy, OpenedInput, InReach
  <2> QED BY <2>1, <2>2
<1> QED BY <1>1, <1>2, <1>3, <1>4

\* What a lookup comes to and what AppendHash has in hand are all that is on disk.
LEMMA AllInReach ==
  ASSUME Inductive, Traced, AllTidy, AllShared, Bounded, Switching, ~interrupted, Up
  PROVE  /\ InReach \cup InHand = OnDisk
         /\ Idle => InReach = OnDisk
<1> USE DEF SlotSteps, BakeInputSteps, BakeTierSteps
<1>1. InReach \subseteq OnDisk
  <2>1. HashesIn(input.entries) \subseteq OnDisk
    BY DEF Traced, OnlyStored, Durable
  <2>2. \A x \in Served : Held(x) \subseteq OnDisk
    BY ServedShared DEF Held, OnDisk, HashesOf
  <2> QED BY <2>1, <2>2 DEF InReach
<1>2. InHand \subseteq OnDisk
  BY DEF InHand, OnDisk, HashesOf
<1> DEFINE baking == pc = "freezeSeal" \/ pc = "newDonut" \/ pc \in DonutSteps
<1>3. ASSUME NEW o \in DOMAIN inputs PROVE HashesIn(inputs[o].suffix) \subseteq InReach \cup (IF baking THEN InHand ELSE {})
  <2>1. CASE o \in FrozenInputs /\ pc # "freezeSwitch"
    <3>1. o = job.off /\ job.tier = 0 /\ baking
      BY <2>1 DEF FrozenInputs, InputInHand, Baking
    <3> QED BY <3>1 DEF InHand
  <2>2. CASE o \notin FrozenInputs \/ pc = "freezeSwitch"
    BY <2>2, InputInReach
  <2> QED BY <2>1, <2>2
<1>4. ASSUME NEW s \in DOMAIN donuts PROVE HashesIn(donuts[s].suffix) \subseteq InReach \cup (IF baking THEN InHand ELSE {})
  <2>1. CASE s = Slot /\ pc \in SlotSteps
    <3>1. baking /\ job.tier \in Tiers
      BY <2>1 DEF ControlOK, DonutSteps
    <3> QED BY <2>1, <3>1 DEF InHand
  <2>2. CASE s \in Sources /\ pc \in {"newDonut", "tierFile"} \cup BakeTierSteps
    <3>1. baking
      BY <2>2 DEF DonutSteps
    <3> QED BY <2>2, <3>1 DEF InHand
  <2>3. CASE /\ s # Slot \/ pc \notin SlotSteps
             /\ s \notin Sources \/ pc \notin {"newDonut", "tierFile"} \cup BakeTierSteps
    BY <2>3, FolderInReach
  <2> QED BY <2>1, <2>2, <2>3
<1>5. OnDisk \subseteq InReach \cup (IF baking THEN InHand ELSE {})
  BY <1>3, <1>4 DEF OnDisk, HashesOf
<1>6. Idle => ~baking
  BY DEF Idle, DonutSteps
<1> HIDE DEF baking
<1> QED BY <1>1, <1>2, <1>5, <1>6

\* Between two calls, a hash is found exactly if it was presented.
LEMMA FindsStored ==
  ASSUME Inductive, Traced, Tidy, Shared, Bounded, Switching, MaxGap = 0
  PROVE  LookupComplete
<1> SUFFICES ASSUME Idle, ~interrupted, NEW h \in Hashes
             PROVE  LookupHash(h) = IF h \in stored THEN {h} ELSE {NoMatch}
  BY DEF LookupComplete, Undisturbed
<1>1. AllTidy /\ AllShared /\ Up
  BY DEF Tidy, Shared, Idle, Up
<1>2. InReach = stored
  BY <1>1, AllInReach DEF Traced, OnlyStored, Durable
<1> QED BY <1>1, <1>2, LookupFinds

\* As long as no gap is presented and every AppendHash runs to its end, a hash that was
\* presented is answered with its index and any other is "no match", through any number
\* of bakes: for every capacity, number of tiers and donuts, and prefixes.
THEOREM LookupsComplete == ASSUME MaxGap = 0 PROVE Spec => []LookupComplete
<1>1. Inductive /\ Traced /\ Tidy /\ Shared /\ Bounded /\ Switching => LookupComplete
  BY FindsStored
<1> HIDE DEF Inductive, TypeOK
<1> QED BY <1>1, InductiveInvariant, FilesTraced, TidyInvariant, ShareInvariant, LookupsReady, PTL

\* What the service shows is what is on disk, at every moment.
LEMMA ViewIsOnDisk ==
  ASSUME Inductive, Traced, Tidy, Shared, Bounded, Switching, MaxGap = 0
  PROVE  View = [h \in OnDisk |-> h]
<1>1. CASE pc = "down" \/ interrupted
  BY <1>1 DEF View
<1>2. CASE Up /\ ~interrupted
  <2>1. AllTidy /\ AllShared /\ NoMatch \notin Hashes
    BY <1>2 DEF Tidy, Shared, NoMatch
  <2>2. \A h \in Hashes : LookupHash(h) \cap Hashes = IF h \in InReach THEN {h} ELSE {}
    BY <2>1, LookupFinds
  <2>3. InReach \cup InHand = OnDisk /\ OnDisk \subseteq Hashes
    BY <1>2, <2>1, AllInReach DEF Traced, OnlyStored, ControlOK
  <2>4. Answering = InReach
    BY <2>2, <2>3 DEF Answering
  <2> DEFINE shown(h) == LET answers == LookupHash(h) \cap Hashes
                         IN  IF answers # {} THEN CHOOSE r \in answers : TRUE ELSE h
  <2>5. \A h \in Hashes : shown(h) = h
    BY <2>2
  <2>6. View = [h \in Answering \cup InHand |-> shown(h)]
    BY <1>2 DEF View, Up
  <2> HIDE DEF shown
  <2> QED BY <2>3, <2>4, <2>5, <2>6
<1> QED BY <1>1, <1>2 DEF Up

\* What LookupHash answers, together with what a bake has in hand, implements the
\* append-only index of HashIndex: no step of a freeze or a bake loses, changes or
\* invents an entry, and each AppendHash adds one.
THEOREM ServiceImplemented == ASSUME MaxGap = 0 PROVE Spec => ServiceSpec
<1> DEFINE index == [h \in OnDisk |-> h]
<1>1. Inductive /\ Traced /\ Tidy /\ Shared /\ Bounded /\ Switching => View = index
  BY ViewIsOnDisk
<1>2. Init => Service!Init
  <2> SUFFICES ASSUME Init PROVE OnDisk = {} /\ View = index
    BY DEF Service!Init
  <2> QED BY DEF Init, NewInput, OnDisk, HashesOf, HashesIn, View
<1>3. ASSUME Inductive, Traced, InputAhead, Inductive', Traced', View = index, (View = index)', [Next]_vars
      PROVE  Service!Next \/ UNCHANGED View
  <2>1. OnDisk = stored /\ OnDisk' = stored' /\ stored' \subseteq Hashes
    BY <1>3 DEF Traced, OnlyStored, Durable, ControlOK
  <2>2. CASE stored' = stored
    BY <1>3, <2>1, <2>2
  <2>3. CASE stored' # stored
    <3>1. PICK gpi \in Hashes \ stored :
            stored' = stored \cup {gpi} /\ \A h \in stored : h < gpi
      BY <1>3, <2>3, StoredStep
    <3>2. View = [h \in stored |-> h] /\ View' = [h \in stored' |-> h]
      BY <1>3, <2>1
    <3>3. Service!Append(gpi)
      BY <2>1, <3>1, <3>2 DEF Service!Append
    <3> QED BY <3>1, <3>2, <3>3 DEF Service!Next
  <2> QED BY <2>2, <2>3
<1> HIDE DEF Inductive, TypeOK
<1> QED BY <1>1, <1>2, <1>3, InductiveInvariant, FilesTraced, InputStaysAhead, TidyInvariant,
        ShareInvariant, LookupsReady, PTL DEF Spec, ServiceSpec, Service!Spec

(*****************************************************************************)
(* Why the cake counts like an odometer: CountedUp is inductive with          *)
(* Inductive, Traced and Tidy.                                               *)
(*****************************************************************************)
\* A set of numbers that has 0 and, with each number below n, the next one has all up to n.
LEMMA FromZero ==
  ASSUME NEW n \in Nat, NEW S, 0 \in S, \A m \in 0 .. n - 1 : m \in S => m + 1 \in S
  PROVE  0 .. n \subseteq S
<1>1. CASE n = 0
  BY <1>1
<1>2. CASE n > 0
  <2>1. 1 \in S
    <3>1. 0 \in 0 .. n - 1 /\ 0 + 1 = 1
      BY <1>2
    <3> QED BY <3>1
  <2>2. \A d \in 1 .. n - 1 : d \in S => d + 1 \in S
    OBVIOUS
  <2>3. 1 .. n \subseteq S
    BY <2>1, <2>2, UpTo
  <2>4. \A m \in 0 .. n : m = 0 \/ m \in 1 .. n
    OBVIOUS
  <2> QED BY <2>3, <2>4
<1> QED BY <1>1, <1>2

\* A function that is defined step by step, from a value in Y to others in Y.
Leads(n, Y, a, next) == a \in Y /\ \A i \in 1 .. n : \A y \in Y : next[<<i, y>>] \in Y
Follows(f, n, Y, a, next) ==
  f \in [0 .. n -> Y] /\ f[0] = a /\ \A i \in 1 .. n : f[i] = next[<<i, f[i - 1]>>]
\* Such a function exists.
LEMMA StepByStep ==
  ASSUME NEW n \in Nat, NEW Y, NEW a, NEW next, Leads(n, Y, a, next)
  PROVE  \E f : Follows(f, n, Y, a, next)
<1> USE DEF Leads, Follows
<1> DEFINE Made(m, f) == Follows(f, m, Y, a, next)
           S == {m \in 0 .. n : \E f : Made(m, f)}
<1>1. 0 \in S
  <2> DEFINE f == [i \in 0 .. 0 |-> a]
  <2>1. f \in [0 .. 0 -> Y] /\ f[0] = a /\ 1 .. 0 = {}
    OBVIOUS
  <2> HIDE DEF f
  <2>2. Made(0, f)
    BY <2>1
  <2>3. 0 \in 0 .. n
    OBVIOUS
  <2> HIDE DEF Made
  <2> QED BY <2>2, <2>3
<1>2. ASSUME NEW m \in 0 .. n - 1, m \in S PROVE m + 1 \in S
  <2>1. PICK f : Made(m, f)
    BY <1>2
  <2> DEFINE last == next[<<m + 1, f[m]>>]
             g == [i \in 0 .. m + 1 |-> IF i = m + 1 THEN last ELSE f[i]]
  <2>2. m \in 0 .. m /\ m + 1 \in 1 .. n /\ m \in Nat /\ m + 1 \in 0 .. n
    BY <1>2
  <2>3. last \in Y
    BY <2>1, <2>2
  <2> HIDE DEF last
  <2>4. g \in [0 .. m + 1 -> Y] /\ g[m + 1] = last /\ \A i \in 0 .. m : g[i] = f[i]
    BY <2>1, <2>2, <2>3
  <2> HIDE DEF g
  <2>5. \A i \in 1 .. m + 1 : g[i] = next[<<i, g[i - 1]>>]
    <3> TAKE i \in 1 .. m + 1
    <3>1. CASE i = m + 1
      <4>1. i - 1 = m /\ g[m] = f[m]
        BY <2>2, <2>4, <3>1
      <4> QED BY <2>4, <3>1, <4>1 DEF last
    <3>2. CASE i # m + 1
      <4>1. i \in 1 .. m /\ i - 1 \in 0 .. m /\ i \in 0 .. m
        BY <2>2, <3>2
      <4>2. g[i] = f[i] /\ g[i - 1] = f[i - 1]
        BY <2>4, <4>1
      <4> QED BY <2>1, <4>1, <4>2
    <3> QED BY <3>1, <3>2
  <2>6. g[0] = a
    BY <2>1, <2>2, <2>4
  <2>7. Made(m + 1, g)
    BY <2>4, <2>5, <2>6
  <2> QED BY <2>2, <2>7
<1>3. 0 .. n \subseteq S
  <2> HIDE DEF S
  <2> QED BY <1>1, <1>2, FromZero
<1>4. n \in S
  <2> HIDE DEF S
  <2> QED BY <1>3
<1> QED BY <1>4

\* The donuts of a tier hold Donuts times as many entries as those of the tier below it.
LEMMA DonutSizeFacts ==
  /\ DonutSize \in [0 .. NTiers -> Nat] /\ DonutSize[0] = Cap
  /\ \A t \in Tiers : DonutSize[t + 1] = Donuts * DonutSize[t]
<1> DEFINE next == [p \in (1 .. NTiers) \X Nat |-> Donuts * p[2]]
           Made(f) == f = [t \in 0 .. NTiers |-> IF t = 0 THEN Cap ELSE Donuts * f[t - 1]]
<1>1. \A i \in 1 .. NTiers : \A y \in Nat : next[<<i, y>>] = Donuts * y /\ Donuts * y \in Nat
  OBVIOUS
<1>2. PICK f : Follows(f, NTiers, Nat, Cap, next)
  <2> HIDE DEF next
  <2>1. Leads(NTiers, Nat, Cap, next)
    BY <1>1 DEF Leads
  <2> QED BY <2>1, StepByStep
<1>3. Made(f)
  <2>1. \A t \in 0 .. NTiers : f[t] = IF t = 0 THEN Cap ELSE Donuts * f[t - 1]
    <3>1. \A t \in 0 .. NTiers : t # 0 => t \in 1 .. NTiers /\ t - 1 \in 0 .. NTiers
      OBVIOUS
    <3> HIDE DEF next
    <3> QED BY <1>1, <1>2, <3>1 DEF Follows
  <2> QED BY <1>2, <2>1 DEF Follows
<1>4. Made(DonutSize)
  <2>1. DonutSize = CHOOSE g : Made(g)
    BY DEF DonutSize
  <2> HIDE DEF Made
  <2> QED BY <1>3, <2>1
<1>5. \A t \in 0 .. NTiers : DonutSize[t] \in Nat
  <2> DEFINE S == {t \in 0 .. NTiers : DonutSize[t] \in Nat}
  <2>1. 0 \in S
    BY <1>4
  <2>2. ASSUME NEW m \in 0 .. NTiers - 1, m \in S PROVE m + 1 \in S
    <3>1. DonutSize[m + 1] = Donuts * DonutSize[m] /\ DonutSize[m] \in Nat
      BY <1>4, <2>2
    <3> QED BY <3>1
  <2>3. 0 .. NTiers \subseteq S
    <3> HIDE DEF S
    <3> QED BY <2>1, <2>2, FromZero
  <2> QED BY <2>3
<1>6. \A t \in Tiers : t + 1 \in 0 .. NTiers /\ t + 1 # 0 /\ (t + 1) - 1 = t
  OBVIOUS
<1> QED BY <1>4, <1>5, <1>6

\* What SpanFrom computes, from the last tier down.
Spans(span, count) ==
  /\ span \in [0 .. NTiers -> Nat] /\ span[NTiers] = 0
  /\ \A t \in Tiers : span[t] = span[t + 1] + count[t] * DonutSize[t]
\* SpanFrom computes it.
LEMMA SpanFacts ==
  ASSUME NEW count \in [Tiers -> Nat]
  PROVE  Spans(SpanFrom(count), count)
<1> DEFINE next == [p \in (1 .. NTiers) \X Nat |-> p[2] + count[NTiers - p[1]] * DonutSize[NTiers - p[1]]]
           Made(f) == f = [t \in 0 .. NTiers |-> IF t = NTiers THEN 0 ELSE f[t + 1] + count[t] * DonutSize[t]]
           span == SpanFrom(count)
<1>0. \A t \in Tiers : count[t] \in Nat /\ DonutSize[t] \in Nat /\ count[t] * DonutSize[t] \in Nat
  <2> TAKE t \in Tiers
  <2>1. count[t] \in Nat /\ DonutSize[t] \in Nat
    BY DonutSizeFacts
  <2> QED BY <2>1
<1>1. ASSUME NEW i \in 1 .. NTiers, NEW y \in Nat
      PROVE  /\ next[<<i, y>>] = y + count[NTiers - i] * DonutSize[NTiers - i]
             /\ next[<<i, y>>] \in Nat
  <2>1. NTiers - i \in Tiers
    OBVIOUS
  <2>2. count[NTiers - i] * DonutSize[NTiers - i] \in Nat
    BY <1>0, <2>1
  <2>3. next[<<i, y>>] = y + count[NTiers - i] * DonutSize[NTiers - i]
    OBVIOUS
  <2> QED BY <2>2, <2>3
<1>2. PICK g : Follows(g, NTiers, Nat, 0, next)
  <2> HIDE DEF next
  <2>1. Leads(NTiers, Nat, 0, next)
    BY <1>1 DEF Leads
  <2> QED BY <2>1, StepByStep
<1> DEFINE f == [t \in 0 .. NTiers |-> g[NTiers - t]]
<1>3. Made(f)
  <2>1. f[NTiers] = 0
    BY <1>2 DEF Follows
  <2>2. \A t \in Tiers : f[t] = f[t + 1] + count[t] * DonutSize[t]
    <3> TAKE t \in Tiers
    <3> DEFINE i == NTiers - t
    <3>1. i \in 1 .. NTiers /\ NTiers - i = t /\ i - 1 = NTiers - (t + 1) /\ t + 1 \in 0 .. NTiers
          /\ i - 1 \in 0 .. NTiers /\ t \in 0 .. NTiers
      OBVIOUS
    <3>2. f[t] = g[i] /\ f[t + 1] = g[i - 1]
      BY <3>1
    <3> HIDE DEF i, next, f
    <3>3. g[i] = g[i - 1] + count[t] * DonutSize[t]
      BY <1>1, <1>2, <3>1 DEF Follows
    <3> QED BY <3>2, <3>3
  <2>3. \A t \in 0 .. NTiers : f[t] = IF t = NTiers THEN 0 ELSE f[t + 1] + count[t] * DonutSize[t]
    <3>1. \A t \in 0 .. NTiers : t # NTiers => t \in Tiers
      OBVIOUS
    <3> HIDE DEF f
    <3> QED BY <2>1, <2>2, <3>1
  <2>4. f = [t \in 0 .. NTiers |-> f[t]]
    OBVIOUS
  <2> HIDE DEF f
  <2> QED BY <2>3, <2>4
<1>4. Made(span)
  <2>1. span = CHOOSE h : Made(h)
    BY DEF SpanFrom
  <2> HIDE DEF Made, span
  <2> QED BY <1>3, <2>1
<1> HIDE DEF span
<1>5. span[NTiers] = 0 /\ \A t \in Tiers : span[t] = span[t + 1] + count[t] * DonutSize[t]
  <2>1. NTiers \in 0 .. NTiers /\ \A t \in Tiers : t \in 0 .. NTiers /\ t # NTiers
    OBVIOUS
  <2> QED BY <1>4, <2>1
<1>6. \A t \in 0 .. NTiers : span[t] \in Nat
  <2> DEFINE S == {i \in 0 .. NTiers : span[NTiers - i] \in Nat}
  <2>1. 0 \in S
    BY <1>5
  <2>2. ASSUME NEW m \in 0 .. NTiers - 1, m \in S PROVE m + 1 \in S
    <3> DEFINE t == NTiers - (m + 1)
    <3>1. t \in Tiers /\ t + 1 = NTiers - m /\ m + 1 \in 0 .. NTiers
      OBVIOUS
    <3>2. span[t + 1] \in Nat
      BY <2>2, <3>1
    <3>3. span[t] = span[t + 1] + count[t] * DonutSize[t] /\ count[t] * DonutSize[t] \in Nat
      BY <1>0, <1>5, <3>1
    <3> HIDE DEF t
    <3>4. span[t] \in Nat
      BY <3>2, <3>3
    <3> QED BY <3>1, <3>4 DEF t
  <2>3. 0 .. NTiers \subseteq S
    <3> HIDE DEF S
    <3> QED BY <2>1, <2>2, FromZero
  <2> TAKE t \in 0 .. NTiers
  <2>4. NTiers - t \in 0 .. NTiers /\ NTiers - (NTiers - t) = t
    OBVIOUS
  <2> QED BY <2>3, <2>4
<1>7. span \in [0 .. NTiers -> Nat]
  BY <1>4, <1>6
<1> QED BY <1>5, <1>7 DEF Spans, span

\* Tiers without donuts span nothing.
LEMMA NoneBelow ==
  ASSUME NEW span, NEW count, Spans(span, count), NEW k \in 0 .. NTiers,
         \A t \in Tiers : t < k => count[t] = 0
  PROVE  span[0] = span[k]
<1> DEFINE S == {t \in 0 .. k : span[t] = span[0]}
<1>1. 0 \in S
  OBVIOUS
<1>2. ASSUME NEW m \in 0 .. k - 1, m \in S PROVE m + 1 \in S
  <2>1. m \in Tiers /\ m < k /\ m + 1 \in 0 .. k /\ m + 1 \in 0 .. NTiers
    OBVIOUS
  <2>2. span[m] = span[m + 1] + 0 * DonutSize[m] /\ DonutSize[m] \in Nat
    <3>1. count[m] = 0 /\ m \in 0 .. NTiers
      BY <2>1
    <3>2. DonutSize[m] \in Nat
      BY <3>1, DonutSizeFacts
    <3> QED BY <2>1, <3>1, <3>2 DEF Spans
  <2>3. span[m + 1] \in Nat
    BY <2>1 DEF Spans
  <2>4. span[m] = span[m + 1]
    BY <2>2, <2>3
  <2> QED BY <1>2, <2>1, <2>4
<1>3. 0 .. k \subseteq S
  <2>1. k \in Nat
    OBVIOUS
  <2> HIDE DEF S
  <2> QED BY <1>1, <1>2, <2>1, FromZero
<1> QED BY <1>3

\* What the tiers from k up span depends on those tiers only.
LEMMA SameAbove ==
  ASSUME NEW span, NEW count, Spans(span, count), NEW span2, NEW count2, Spans(span2, count2),
         NEW k \in 0 .. NTiers, \A t \in Tiers : t >= k => count2[t] = count[t]
  PROVE  span2[k] = span[k]
<1> DEFINE n == NTiers - k
           S == {i \in 0 .. n : span2[NTiers - i] = span[NTiers - i]}
<1>1. 0 \in S
  BY DEF Spans
<1>2. ASSUME NEW m \in 0 .. n - 1, m \in S PROVE m + 1 \in S
  <2> DEFINE t == NTiers - (m + 1)
  <2>1. t \in Tiers /\ t >= k /\ t + 1 = NTiers - m /\ m + 1 \in 0 .. n
    OBVIOUS
  <2>2. span[t + 1] = span2[t + 1]
    BY <1>2, <2>1
  <2> HIDE DEF t
  <2>3. span[t] = span2[t]
    BY <2>1, <2>2 DEF Spans
  <2> QED BY <2>1, <2>3 DEF t
<1>3. 0 .. n \subseteq S
  <2>1. n \in Nat
    OBVIOUS
  <2> HIDE DEF S, n
  <2> QED BY <1>1, <1>2, <2>1, FromZero
<1>4. n \in 0 .. n /\ NTiers - n = k
  OBVIOUS
<1> QED BY <1>3, <1>4

\* The tiers from a higher one up span no more than those from a lower one up.
LEMMA SpanFalls ==
  ASSUME NEW span, NEW count \in [Tiers -> Nat], Spans(span, count),
         NEW i \in 0 .. NTiers, NEW j \in i .. NTiers
  PROVE  span[j] <= span[i]
<1> DEFINE n == j - i
           S == {m \in 0 .. n : span[i + m] <= span[i]}
<1>0. span[i] \in Nat /\ n \in Nat
  BY DEF Spans
<1>1. 0 \in S
  BY <1>0
<1>2. ASSUME NEW m \in 0 .. n - 1, m \in S PROVE m + 1 \in S
  <2> DEFINE t == i + m
  <2>1. t \in Tiers /\ t + 1 = i + (m + 1) /\ m + 1 \in 0 .. n /\ t \in 0 .. NTiers /\ t + 1 \in 0 .. NTiers
    OBVIOUS
  <2>2. span[t] <= span[i]
    BY <1>2
  <2> HIDE DEF t, n
  <2>3. count[t] * DonutSize[t] \in Nat
    <3>1. count[t] \in Nat /\ DonutSize[t] \in Nat
      BY <2>1, DonutSizeFacts
    <3> QED BY <3>1
  <2>4. span[t] = span[t + 1] + count[t] * DonutSize[t] /\ span[t + 1] \in Nat
    BY <2>1 DEF Spans
  <2>5. span[t + 1] <= span[i]
    <3> DEFINE added == count[t] * DonutSize[t]
    <3>1. added \in Nat /\ span[t] = span[t + 1] + added
      BY <2>3, <2>4
    <3> HIDE DEF added
    <3> QED BY <1>0, <2>2, <2>4, <3>1
  <2> QED BY <2>1, <2>5
<1>3. 0 .. n \subseteq S
  <2> HIDE DEF S, n
  <2> QED BY <1>0, <1>1, <1>2, FromZero
<1>4. n \in 0 .. n /\ i + n = j
  BY <1>0
<1> QED BY <1>3, <1>4

\* What the recorded folders list, and what they span.
LEMMA ListedFacts ==
  ASSUME Inductive
  PROVE  /\ \A t \in Tiers : ListedIn(t) \in Seq(Nat) /\ Len(ListedIn(t)) \in Nat
         /\ DonutCounts \in [Tiers -> Nat] /\ Spans(Span, DonutCounts)
         /\ \A t \in Tiers : DonutCounts[t] = Len(ListedIn(t))
         /\ \A t \in Tiers : tierOffsets.tier[t] = Absent => ListedIn(t) = <<>> /\ Len(ListedIn(t)) = 0
<1>1. ASSUME NEW t \in Tiers PROVE ListedIn(t) \in Seq(Nat) /\ Len(ListedIn(t)) \in Nat
  <2>1. ListedIn(t) \in Seq(Nat)
    <3>1. <<>> \in Seq(Nat)
      OBVIOUS
    <3> QED BY <3>1 DEF ListedIn, TiersOnDiskOK
  <2> HIDE DEF ListedIn
  <2> QED BY <2>1
<1>2. ASSUME NEW t \in Tiers, tierOffsets.tier[t] = Absent PROVE ListedIn(t) = <<>> /\ Len(ListedIn(t)) = 0
  <2>1. <<t, Absent>> \notin DOMAIN donutFile
    BY DEF TiersOnDiskOK, Absent
  <2>2. ListedIn(t) = <<>>
    BY <1>2, <2>1 DEF ListedIn
  <2> QED BY <2>2
<1>3. DonutCounts \in [Tiers -> Nat] /\ \A t \in Tiers : DonutCounts[t] = Len(ListedIn(t))
  BY <1>1 DEF DonutCounts
<1> QED BY <1>1, <1>2, <1>3, SpanFacts DEF Span

\* Where no list changes, nothing that is spanned does.
LEMMA SpanKept ==
  ASSUME \A t \in Tiers : ListedIn(t)' = ListedIn(t)
  PROVE  Span' = Span
<1>1. DonutCounts' = DonutCounts
  BY DEF DonutCounts
<1> QED BY <1>1 DEF Span

\* A step that leaves the lists, and freezes no tier that is not full.
LEMMA TiersKept ==
  ASSUME TiersCounted, \A t \in Tiers : ListedIn(t)' = ListedIn(t),
         \A t \in Tiers : MayBeFull(t) => MayBeFull(t)' \/ Len(ListedIn(t)) # Donuts,
         \A t \in Tiers : pc' = "freezeTier" /\ t = job'.tier => Len(ListedIn(t)) = Donuts
  PROVE  TiersCounted'
<1>1. Span' = Span
  BY SpanKept
<1> HIDE DEF Tiers
<1> QED BY <1>1 DEF TiersCounted

\* A step that leaves both records.
LEMMA ListsKept ==
  ASSUME UNCHANGED donutFile, \A t \in Tiers : tierOffsets'.tier[t] = tierOffsets.tier[t]
  PROVE  \A t \in Tiers : ListedIn(t)' = ListedIn(t)
BY DEF ListedIn

\* Open, Close and appending to an input folder that is not frozen yet.
LEMMA InputStepCounted ==
  ASSUME AllCounted, Open \/ Close \/ (\E gpi \in Hashes : AppendHash(gpi)) \/ FreezeCreate
  PROVE  AllCounted'
<1> DEFINE before == {"down", "idle", "freezeCreate", "freezeRecord"}
<1>1. pc \in before /\ pc' \in before /\ UNCHANGED <<tierOffsets, donutFile>>
  BY DEF Open, Close, Forget, AppendHash, Presentable, FreezeCreate, disk
<1>2. \A t \in Tiers : ListedIn(t)' = ListedIn(t)
  BY <1>1, ListsKept
<1>3. \A t \in Tiers : ~MayBeFull(t)
  BY <1>1 DEF MayBeFull, SlotSteps, BakeInputSteps, BakeTierSteps
<1>4. TiersCounted'
  BY <1>1, <1>2, <1>3, TiersKept DEF AllCounted
<1>5. InputCounted'
  BY <1>1, <1>2, SpanKept DEF AllCounted, InputCounted
<1> QED BY <1>4, <1>5 DEF AllCounted

\* The frozen input folder begins where the tiers end, and has Cap entries.
LEMMA FreezeRecordCounted ==
  ASSUME Inductive, AllTidy, AllCounted, FreezeRecord
  PROVE  AllCounted'
<1> DEFINE current == tierOffsets.input
<1>1. /\ pc = "freezeRecord" /\ pc' = "freezeSwitch" /\ Up /\ UNCHANGED donutFile
      /\ job'.off = tiersInfo.input /\ job'.tier = 0
  BY DEF FreezeRecord, NoJob, Up
<1>2. tiersInfo \in TiersInfoType /\ tierOffsets = OnFile(tiersInfo)
  BY <1>1 DEF MemoryOK, MemoryOnDisk
<1>3. /\ tiersInfo'.input = NextOffset /\ tiersInfo'.offset = tiersInfo.offset
      /\ tiersInfo'.present = tiersInfo.present
  BY <1>2 DEF FreezeRecord, TiersInfoType
<1>4. /\ tiersInfo.input = current
      /\ tierOffsets'.input = NextOffset /\ tierOffsets'.tier = tierOffsets.tier
  BY <1>2, <1>3 DEF FreezeRecord, OnFile
<1>5. NextOffset = current + Cap
  BY <1>1, <1>4 DEF JobFits, NextOffset
<1>6. \A t \in Tiers : ListedIn(t)' = ListedIn(t)
  BY <1>1, <1>4, ListsKept
<1>7. TiersCounted'
  <2>1. \A t \in Tiers : ~MayBeFull(t)
    BY <1>1 DEF MayBeFull, SlotSteps, BakeInputSteps, BakeTierSteps
  <2> QED BY <1>1, <1>6, <2>1, TiersKept DEF AllCounted
<1>8. Span' = Span /\ current = Span[0]
  BY <1>1, <1>6, SpanKept DEF AllCounted, InputCounted
<1>9. InputCounted'
  BY <1>1, <1>4, <1>5, <1>8, DonutSizeFacts DEF InputCounted
<1> QED BY <1>7, <1>9 DEF AllCounted

\* Until the folder in hand is listed, a tier that is made for it has no donuts.
LEMMA InHandCounted ==
  ASSUME Inductive, AllTidy, AllCounted, FreezeSwitch \/ FreezeSeal \/ TierRecord \/ TierFile
  PROVE  AllCounted'
<1>1. pc \in HandSteps /\ pc' \in HandSteps /\ UNCHANGED job
  BY DEF FreezeSwitch, FreezeSeal, TierRecord, TierFile, HandSteps
<1>2. tierOffsets'.input = tierOffsets.input /\ \A t \in Tiers : ListedIn(t)' = ListedIn(t)
  <2>1. CASE FreezeSwitch \/ FreezeSeal
    BY <2>1, ListsKept DEF FreezeSwitch, FreezeSeal, disk
  <2>2. CASE TierRecord
    <3>0. PICK u \in Tiers : u = job.tier
      BY <2>2 DEF TierRecord
    <3> DEFINE new == <<u, job.off>>
    <3>1. /\ pc = "newDonut" /\ u \in Tiers /\ open[u] = NilTier /\ Up /\ Baking
          /\ job.off \in Nat /\ UNCHANGED donutFile
      BY <2>2, <3>0 DEF TierRecord, Up, Baking, ControlOK, JobType
    <3>2. /\ tierOffsets'.input = tierOffsets.input /\ tierOffsets.tier[u] = Absent
          /\ tierOffsets'.tier[u] = job.off
          /\ \A t \in Tiers \ {u} : tierOffsets'.tier[t] = tierOffsets.tier[t]
      <4>1. tiersInfo \in TiersInfoType /\ tierOffsets = OnFile(tiersInfo)
        BY <3>1 DEF MemoryOK, MemoryOnDisk
      <4>2. tiersInfo' = WithTier(tiersInfo, u, job.off) /\ tierOffsets' = OnFile(tiersInfo')
        BY <2>2, <3>0 DEF TierRecord
      <4>3. ~tiersInfo.present[u]
        BY <3>1 DEF AllTidy, MemoryTidy
      <4>4. tierOffsets.tier[u] = Absent
        BY <3>1, <4>3, RecordedTiers
      <4> QED BY <3>1, <4>1, <4>2, <4>4, TierRecorded
    <3>3. new \notin DOMAIN donutFile
      BY <3>0, <3>1, NoSuchFolder
    <3>4. ListedIn(u) = <<>>
      BY <3>1, <3>2, ListedFacts
    <3>5. ListedIn(u)' = <<>>
      <4>1. <<u, tierOffsets'.tier[u]>> \notin DOMAIN donutFile'
        BY <3>1, <3>2, <3>3
      <4> QED BY <4>1 DEF ListedIn
    <3>6. \A t \in Tiers \ {u} : ListedIn(t)' = ListedIn(t)
      BY <3>1, <3>2 DEF ListedIn
    <3> QED BY <3>1, <3>2, <3>4, <3>5, <3>6
  <2>3. CASE TierFile
    <3>0. PICK u \in Tiers : u = job.tier
      BY <2>3 DEF TierFile, ControlOK, DonutSteps
    <3> DEFINE new == <<u, job.off>>
    <3>1. /\ pc = "tierFile" /\ u \in Tiers /\ open[u] = NilTier /\ Up /\ Baking
          /\ tiersInfo.offset[u] = job.off /\ tiersInfo.present[u] /\ UNCHANGED tierOffsets
          /\ donutFile' = Put(donutFile, new, <<>>)
      BY <2>3, <3>0 DEF TierFile, Up, Baking, OpenTiers, ControlOK, DonutSteps
    <3>2. tierOffsets.tier[u] = job.off
      BY <3>1, RecordedTiers
    <3>3. new \notin DOMAIN donutFile
      BY <3>0, <3>1, NoSuchFolder
    <3>4. /\ DOMAIN donutFile' = DOMAIN donutFile \cup {new} /\ donutFile'[new] = <<>>
          /\ \A x \in DOMAIN donutFile : donutFile'[x] = donutFile[x]
      BY <3>1, <3>3 DEF Put
    <3>5. ListedIn(u)' = <<>> /\ ListedIn(u) = <<>>
      BY <3>1, <3>2, <3>3, <3>4 DEF ListedIn
    <3>6. \A t \in Tiers \ {u} : ListedIn(t)' = ListedIn(t)
      BY <3>1, <3>4 DEF ListedIn
    <3> QED BY <3>1, <3>5, <3>6
  <2> QED BY <2>1, <2>2, <2>3
<1>3. TiersCounted'
  <2>1. \A t \in Tiers : ~MayBeFull(t)
    BY <1>1 DEF MayBeFull, SlotSteps, BakeInputSteps, BakeTierSteps, HandSteps
  <2>2. pc' # "freezeTier"
    BY <1>1 DEF HandSteps
  <2> QED BY <1>2, <2>1, <2>2, TiersKept DEF AllCounted
<1>4. InputCounted'
  BY <1>1, <1>2, SpanKept DEF AllCounted, InputCounted, HandSteps
<1> QED BY <1>3, <1>4 DEF AllCounted

\* While the tier AppendHash adds to is one of those recorded, those below it have no
\* donuts, and span nothing.
LEMMA EmptyBelow ==
  ASSUME Inductive, Up, Baking
  PROVE  \A t \in Tiers : t < job.tier => tierOffsets.tier[t] = Absent /\ Len(ListedIn(t)) = 0
<1> TAKE t \in Tiers
<1> HAVE t < job.tier
<1>1. ~tiersInfo.present[t]
  BY DEF TiersNewer
<1>2. tierOffsets.tier[t] = Absent
  BY <1>1, RecordedTiers
<1> QED BY <1>2, ListedFacts

\* The folder in hand, listed last in its tier, moves the end of the tiers on by one donut.
LEMMA DonutFolderCounted ==
  ASSUME Inductive, AllTidy, AllCounted, DonutFolder
  PROVE  AllCounted'
<1> DEFINE was == donutFile[TierFolder]
           now == Append(was, job.off)
<1>0. PICK k \in Tiers, n \in Nat : k = job.tier /\ n = Len(was)
  BY DonutListed
<1>1. /\ pc = "newDonut" /\ pc' \in {"bakeInput", "bakePrefix"} /\ Up /\ Baking
      /\ open[k] # NilTier /\ TierFolder \in DOMAIN donutFile /\ job.off \in Nat /\ job'.tier = k
      /\ UNCHANGED tierOffsets
      /\ DOMAIN donutFile' = DOMAIN donutFile /\ donutFile'[TierFolder] = now
      /\ \A x \in DOMAIN donutFile \ {TierFolder} : donutFile'[x] = donutFile[x]
      /\ was \in Seq(Nat) /\ Len(now) = n + 1 /\ n < Donuts
  <2>1. n < Donuts
    BY <1>0 DEF DonutFolder, HasRoom
  <2> QED BY <1>0, <2>1, DonutListed DEF Baking
<1>2. TierFolder = <<k, tierOffsets.tier[k]>>
  <2>1. tierOffsets.tier[k] = tiersInfo.offset[k]
    BY <1>1, RecordedTiers DEF OpenTiers
  <2> QED BY <1>0, <2>1 DEF TierFolder
<1>3. ListedIn(k) = was /\ ListedIn(k)' = now /\ \A t \in Tiers \ {k} : ListedIn(t)' = ListedIn(t)
  <2> DEFINE at(t) == <<t, tierOffsets.tier[t]>>
  <2>1. \A t \in Tiers : /\ ListedIn(t) = IF at(t) \in DOMAIN donutFile THEN donutFile[at(t)] ELSE <<>>
                         /\ ListedIn(t)' = IF at(t) \in DOMAIN donutFile THEN donutFile'[at(t)] ELSE <<>>
    BY <1>1 DEF ListedIn
  <2>2. at(k) = TierFolder /\ \A t \in Tiers \ {k} : at(t) # TierFolder
    BY <1>2
  <2> HIDE DEF at, now
  <2> QED BY <1>1, <2>1, <2>2
<1>4. /\ Spans(Span, DonutCounts) /\ Spans(Span', DonutCounts')
      /\ DonutCounts[k] = n /\ DonutCounts'[k] = n + 1
      /\ \A t \in Tiers \ {k} : DonutCounts'[t] = DonutCounts[t]
      /\ \A t \in Tiers : t < k => DonutCounts[t] = 0
  <2>1. \A t \in Tiers : t < k => Len(ListedIn(t)) = 0
    BY <1>0, <1>1, EmptyBelow
  <2>2. \A t \in Tiers : DonutCounts[t] = Len(ListedIn(t)) /\ DonutCounts'[t] = Len(ListedIn(t)')
    BY DEF DonutCounts
  <2>3. Spans(Span, DonutCounts)
    BY ListedFacts
  <2>4. Spans(Span', DonutCounts')
    <3>1. DonutCounts' \in [Tiers -> Nat]
      <4>1. \A t \in Tiers : Len(ListedIn(t)') \in Nat
        <5>1. \A t \in Tiers : Len(ListedIn(t)) \in Nat
          BY ListedFacts
        <5> HIDE DEF was, now
        <5>2. \A t \in Tiers : t = k \/ t \in Tiers \ {k}
          OBVIOUS
        <5> QED BY <1>0, <1>1, <1>3, <5>1, <5>2
      <4> QED BY <4>1 DEF DonutCounts
    <3> QED BY <3>1, SpanFacts DEF Span
  <2> HIDE DEF was, now
  <2> QED BY <1>0, <1>1, <1>3, <2>1, <2>2, <2>3, <2>4
<1> HIDE DEF was, now
<1>5. PICK s, s2, c, c2 : s = Span /\ s2 = Span' /\ c = DonutCounts /\ c2 = DonutCounts'
  OBVIOUS
<1>6. /\ Spans(s, c) /\ Spans(s2, c2) /\ c[k] = n /\ c2[k] = n + 1
      /\ \A t \in Tiers \ {k} : c2[t] = c[t]
      /\ \A t \in Tiers : t < k => c[t] = 0 /\ c2[t] = 0
  BY <1>4, <1>5
<1>7. s[0] = s[k] /\ s2[0] = s2[k]
  <2>1. k \in 0 .. NTiers
    OBVIOUS
  <2>2. s[0] = s[k]
    BY <1>6, <2>1, NoneBelow
  <2>3. s2[0] = s2[k]
    BY <1>6, <2>1, NoneBelow
  <2> QED BY <2>2, <2>3
<1>8. \A t \in Tiers : t >= k => s2[t + 1] = s[t + 1]
  <2>1. PICK up \in 0 .. NTiers : up = k + 1
    OBVIOUS
  <2>2. Spans(s, c) /\ Spans(s2, c2) /\ \A t \in Tiers : t >= up => c2[t] = c[t]
    BY <1>6, <2>1
  <2>3. ASSUME NEW t \in up .. NTiers PROVE s2[t] = s[t]
    <3>1. t \in 0 .. NTiers /\ \A u \in Tiers : u >= t => c2[u] = c[u]
      BY <2>2
    <3> QED BY <2>2, <3>1, SameAbove
  <2>4. \A t \in Tiers : t >= k => t + 1 \in up .. NTiers
    BY <2>1
  <2> QED BY <2>3, <2>4
<1>9. PICK size \in Nat : size = DonutSize[k]
  <2>1. k \in 0 .. NTiers
    OBVIOUS
  <2> QED BY <2>1, DonutSizeFacts
<1>10. /\ s[k + 1] \in Nat /\ s[0] = s[k + 1] + n * size /\ s2[0] = s[0] + size
       /\ s2[k + 1] = s[k + 1]
  <2>1. k + 1 \in 0 .. NTiers /\ k >= k
    OBVIOUS
  <2>2. s[k + 1] \in Nat /\ s2[k + 1] = s[k + 1]
    <3>1. s \in [0 .. NTiers -> Nat]
      BY <1>6 DEF Spans
    <3> QED BY <1>8, <2>1, <3>1
  <2>3. s[k] = s[k + 1] + n * size /\ s2[k] = s2[k + 1] + (n + 1) * size
    BY <1>6, <1>9 DEF Spans
  <2>4. (n + 1) * size = n * size + size /\ n * size \in Nat
    OBVIOUS
  <2> QED BY <1>7, <2>2, <2>3, <2>4
<1>11. job.off = s[0] /\ tierOffsets.input = job.off + size
  BY <1>0, <1>1, <1>5, <1>9 DEF AllCounted, InputCounted
<1>12. InputCounted'
  BY <1>1, <1>5, <1>10, <1>11 DEF InputCounted
<1>13. \A t \in Tiers : /\ Len(ListedIn(t)) < Donuts
                        /\ \A d \in 1 .. Len(ListedIn(t)) : ListedIn(t)[d] = s[t + 1] + (d - 1) * DonutSize[t]
  <2>1. \A t \in Tiers : ~MayBeFull(t)
    BY <1>1 DEF MayBeFull, SlotSteps, BakeInputSteps, BakeTierSteps
  <2> QED BY <1>5, <2>1 DEF AllCounted, TiersCounted
<1>14. ASSUME NEW t \in Tiers
       PROVE  /\ Len(ListedIn(t)') < Donuts \/ (Len(ListedIn(t)') = Donuts /\ MayBeFull(t)')
              /\ \A d \in 1 .. Len(ListedIn(t)') : ListedIn(t)'[d] = s2[t + 1] + (d - 1) * DonutSize[t]
  <2>1. CASE t < k
    <3>1. ListedIn(t)' = ListedIn(t) /\ Len(ListedIn(t)) = 0
      BY <1>0, <1>1, <1>3, <2>1, EmptyBelow
    <3> QED BY <1>13, <3>1
  <2>2. CASE t > k
    <3>1. ListedIn(t)' = ListedIn(t) /\ s2[t + 1] = s[t + 1]
      BY <1>3, <1>8, <2>2
    <3> QED BY <1>13, <3>1
  <2>3. CASE t = k
    <3>1. n + 1 < Donuts \/ n + 1 = Donuts
      BY <1>1
    <3>2. MayBeFull(k)'
      BY <1>0, <1>1 DEF MayBeFull, SlotSteps, BakeInputSteps, BakeTierSteps
    <3>3. ASSUME NEW d \in 1 .. n + 1
          PROVE  now[d] = s2[k + 1] + (d - 1) * size
      <4>1. CASE d = n + 1
        <5>1. now[d] = job.off /\ d - 1 = n
          BY <1>0, <1>1, <4>1 DEF now
        <5> QED BY <1>10, <1>11, <5>1
      <4>2. CASE d # n + 1
        <5>1. d \in 1 .. n /\ now[d] = was[d]
          BY <1>0, <1>1, <4>2 DEF now
        <5>2. was[d] = s[k + 1] + (d - 1) * size
          BY <1>0, <1>3, <1>9, <1>13, <5>1
        <5> QED BY <1>10, <5>1, <5>2
      <4> QED BY <4>1, <4>2
    <3> QED BY <1>1, <1>3, <1>9, <2>3, <3>1, <3>2, <3>3
  <2> QED BY <2>1, <2>2, <2>3
<1>15. TiersCounted'
  BY <1>1, <1>5, <1>14 DEF TiersCounted
<1> QED BY <1>12, <1>15 DEF AllCounted

\* While a donut is made, the lists stay as they are.
LEMMA MakingCounted ==
  ASSUME Inductive, AllTidy, AllCounted,
         BakeInput \/ RemoveInput \/ BakePrefix \/ DropPrefix \/ BakeOrder \/ RemoveTier \/ Ice
  PROVE  AllCounted'
<1> USE DEF SlotSteps, BakeInputSteps, BakeTierSteps
<1>1. pc \in SlotSteps /\ pc' \in SlotSteps /\ job'.tier = job.tier /\ UNCHANGED tierOffsets
  <2>1. CASE BakeInput \/ RemoveInput \/ Ice
    BY <2>1 DEF BakeInput, RemoveInput, Ice
  <2>2. CASE BakePrefix \/ BakeOrder \/ RemoveTier
    BY <2>2 DEF BakePrefix, BakeOrder, RemoveTier
  <2>3. CASE DropPrefix
    BY <2>3 DEF DropPrefix, ControlOK, JobType
  <2> QED BY <2>1, <2>2, <2>3
<1>2. \A t \in Tiers : ListedIn(t)' = ListedIn(t)
  <2>1. CASE ~RemoveTier
    <3>1. UNCHANGED donutFile
      BY <2>1 DEF BakeInput, RemoveInput, BakePrefix, DropPrefix, BakeOrder, Ice
    <3> QED BY <1>1, <3>1, ListsKept
  <2>2. CASE RemoveTier
    <3> DEFINE folder == <<job.tier - 1, job.off>>
    <3>1. DOMAIN donutFile' = DOMAIN donutFile \ {folder} /\ \A x \in DOMAIN donutFile' : donutFile'[x] = donutFile[x]
      BY <2>2 DEF RemoveTier, Drop, Restrict
    <3>2. pc = "removeTier" /\ Up /\ Baking
      BY <2>2 DEF RemoveTier, Up, Baking, DonutSteps
    <3>3. \A t \in Tiers : <<t, tierOffsets.tier[t]>> # folder
      <4> TAKE t \in Tiers
      <4>1. t < job.tier => tierOffsets.tier[t] = Absent
        BY <3>2, EmptyBelow
      <4>2. job.off # Absent /\ job.tier \in Nat
        BY DEF ControlOK, JobType, Absent
      <4>3. t = job.tier - 1 => t < job.tier
        BY <4>2
      <4> QED BY <4>1, <4>2, <4>3
    <3> HIDE DEF folder
    <3> QED BY <1>1, <3>1, <3>3 DEF ListedIn
  <2> QED BY <2>1, <2>2
<1>3. \A t \in Tiers : MayBeFull(t) => MayBeFull(t)'
  BY <1>1 DEF MayBeFull
<1>4. TiersCounted'
  BY <1>1, <1>2, <1>3, TiersKept DEF AllCounted
<1>5. InputCounted'
  BY <1>1, <1>2, SpanKept DEF AllCounted, InputCounted
<1> QED BY <1>4, <1>5 DEF AllCounted

\* A donut goes into service, and its tier is frozen next exactly if it is full.
LEMMA PublishCounted ==
  ASSUME Inductive, Traced, AllTidy, AllCounted, PublishFirst \/ PublishNext, ~interrupted'
  PROVE  AllCounted'
<1> USE DEF SlotSteps, BakeInputSteps, BakeTierSteps
<1>1. /\ pc = "publish" /\ Up /\ Baking /\ UNCHANGED donutFile /\ Return
  BY DEF PublishFirst, PublishNext, disk, Up, Baking, DonutSteps
<1>2. tierOffsets'.input = tierOffsets.input /\ \A t \in Tiers : tierOffsets'.tier[t] = tierOffsets.tier[t]
  BY PublishFirstRecord DEF PublishNext, disk
<1>3. \A t \in Tiers : ListedIn(t)' = ListedIn(t)
  BY <1>1, <1>2, ListsKept
<1>4. PICK k \in Tiers : k = job.tier
  BY <1>1, BakeContext
<1>5. job.count = Len(ListedIn(k))
  <2>1. TierFolder \in DOMAIN donutFile /\ job.count = Len(donutFile[TierFolder])
    BY <1>1, BakeContext
  <2>2. tiersInfo.present[k]
    BY <1>1, <1>4 DEF OpenTiers, DonutSteps
  <2>3. TierFolder = <<k, tierOffsets.tier[k]>>
    BY <1>1, <1>4, <2>2, RecordedTiers DEF TierFolder
  <2> QED BY <2>1, <2>3 DEF ListedIn
<1>6. \/ job.count = Donuts /\ pc' = "freezeTier" /\ job' = job
      \/ job.count # Donuts /\ pc' = "idle"
  BY <1>1 DEF Return
<1>7. TiersCounted'
  <2>1. \A t \in Tiers : MayBeFull(t) => MayBeFull(t)' \/ Len(ListedIn(t)) # Donuts
    BY <1>4, <1>5, <1>6 DEF MayBeFull
  <2>2. \A t \in Tiers : pc' = "freezeTier" /\ t = job'.tier => Len(ListedIn(t)) = Donuts
    BY <1>4, <1>5, <1>6
  <2> QED BY <1>3, <2>1, <2>2, TiersKept DEF AllCounted
<1>8. InputCounted'
  BY <1>1, <1>2, <1>3, <1>6, SpanKept DEF AllCounted, InputCounted
<1> QED BY <1>7, <1>8 DEF AllCounted

\* A full tier gives its place to the folder in hand: as many indices, one donut of the
\* tier above.
LEMMA FreezeTierCounted ==
  ASSUME Inductive, AllTidy, AllCounted, FreezeTier
  PROVE  AllCounted'
<1>0. PICK k \in Tiers : k = job.tier
  BY DEF FreezeTier, ControlOK, DonutSteps
<1>1. /\ pc = "freezeTier" /\ pc' = "newDonut" /\ Up /\ Baking
      /\ tiersInfo.present[k] /\ job'.tier = k + 1 /\ job'.off = tiersInfo.offset[k]
      /\ UNCHANGED donutFile
  BY <1>0 DEF FreezeTier, Up, Baking, DonutSteps, OpenTiers
<1>2. /\ tierOffsets'.input = tierOffsets.input /\ tierOffsets'.tier[k] = Absent
      /\ \A u \in Tiers \ {k} : tierOffsets'.tier[u] = tierOffsets.tier[u]
  <2>1. tiersInfo \in TiersInfoType /\ tierOffsets = OnFile(tiersInfo)
    BY <1>1 DEF MemoryOK, MemoryOnDisk
  <2>2. tiersInfo' = WithoutTier(tiersInfo, k) /\ tierOffsets' = OnFile(tiersInfo')
    BY <1>0 DEF FreezeTier
  <2>3. /\ tiersInfo' \in TiersInfoType /\ tiersInfo'.input = tiersInfo.input
        /\ tiersInfo'.offset = tiersInfo.offset /\ ~tiersInfo'.present[k]
        /\ \A u \in Tiers \ {k} : tiersInfo'.present[u] = tiersInfo.present[u]
    BY <2>1, <2>2, WithoutTierFacts
  <2>4. /\ tierOffsets'.input = tiersInfo'.input
        /\ \A u \in Tiers : tierOffsets'.tier[u] =
             IF tiersInfo'.present[u] THEN tiersInfo'.offset[u] ELSE Absent
    BY <2>2, <2>3, OnFileFacts
  <2>5. /\ tierOffsets.input = tiersInfo.input
        /\ \A u \in Tiers : tierOffsets.tier[u] =
             IF tiersInfo.present[u] THEN tiersInfo.offset[u] ELSE Absent
    BY <2>1, OnFileFacts
  <2> QED BY <2>3, <2>4, <2>5
<1>3. /\ ListedIn(k)' = <<>> /\ Len(ListedIn(k)') = 0
      /\ \A t \in Tiers \ {k} : ListedIn(t)' = ListedIn(t)
  <2>1. <<k, Absent>> \notin DOMAIN donutFile
    BY DEF TiersOnDiskOK, Absent
  <2>2. ListedIn(k)' = <<>>
    BY <1>1, <1>2, <2>1 DEF ListedIn
  <2>3. \A t \in Tiers \ {k} : ListedIn(t)' = ListedIn(t)
    BY <1>1, <1>2 DEF ListedIn
  <2> QED BY <2>2, <2>3
<1>4. /\ Len(ListedIn(k)) = Donuts
      /\ \A t \in Tiers \ {k} : Len(ListedIn(t)) < Donuts
      /\ \A t \in Tiers : \A d \in 1 .. Len(ListedIn(t)) :
           ListedIn(t)[d] = Span[t + 1] + (d - 1) * DonutSize[t]
  <2>1. \A t \in Tiers \ {k} : ~MayBeFull(t)
    BY <1>0 DEF MayBeFull
  <2> QED BY <1>0, <1>1, <2>1 DEF AllCounted, TiersCounted
<1>5. PICK s, s2, c, c2 : s = Span /\ s2 = Span' /\ c = DonutCounts /\ c2 = DonutCounts'
  OBVIOUS
<1>6. /\ Spans(s, c) /\ Spans(s2, c2) /\ c[k] = Donuts /\ c2[k] = 0
      /\ \A t \in Tiers \ {k} : c2[t] = c[t]
      /\ \A t \in Tiers : t < k => c[t] = 0 /\ c2[t] = 0
  <2>1. \A t \in Tiers : t < k => Len(ListedIn(t)) = 0
    BY <1>0, <1>1, EmptyBelow
  <2>2. \A t \in Tiers : DonutCounts[t] = Len(ListedIn(t)) /\ DonutCounts'[t] = Len(ListedIn(t)')
    BY DEF DonutCounts
  <2>3. Spans(Span, DonutCounts) /\ \A t \in Tiers : Len(ListedIn(t)) \in Nat
    BY ListedFacts
  <2>4. Spans(Span', DonutCounts')
    <3>1. \A t \in Tiers : Len(ListedIn(t)') \in Nat
      BY <1>3, <2>3
    <3>2. DonutCounts' \in [Tiers -> Nat]
      BY <3>1 DEF DonutCounts
    <3> QED BY <3>2, SpanFacts DEF Span
  <2> QED BY <1>3, <1>4, <1>5, <2>1, <2>2, <2>3, <2>4
<1>7. s[0] = s[k] /\ s2[0] = s2[k + 1]
  <2>1. k \in 0 .. NTiers /\ k + 1 \in 0 .. NTiers /\ \A t \in Tiers : t < k + 1 => c2[t] = 0
    BY <1>6
  <2>2. s[0] = s[k]
    BY <1>6, <2>1, NoneBelow
  <2>3. s2[0] = s2[k + 1]
    BY <1>6, <2>1, NoneBelow
  <2> QED BY <2>2, <2>3
<1>8. \A t \in Tiers : t >= k => s2[t + 1] = s[t + 1]
  <2>1. PICK up \in 0 .. NTiers : up = k + 1
    OBVIOUS
  <2>2. Spans(s, c) /\ Spans(s2, c2) /\ \A t \in Tiers : t >= up => c2[t] = c[t]
    BY <1>6, <2>1
  <2>3. ASSUME NEW t \in up .. NTiers PROVE s2[t] = s[t]
    <3>1. t \in 0 .. NTiers /\ \A u \in Tiers : u >= t => c2[u] = c[u]
      BY <2>2
    <3> QED BY <2>2, <3>1, SameAbove
  <2>4. \A t \in Tiers : t >= k => t + 1 \in up .. NTiers
    BY <2>1
  <2> QED BY <2>3, <2>4
<1>9. job'.off = s[k + 1]
  <2>1. tierOffsets.tier[k] = job'.off
    BY <1>1, RecordedTiers
  <2> DEFINE x == <<k, tierOffsets.tier[k]>>
  <2>2. ListedIn(k) # <<>> /\ 1 \in 1 .. Len(ListedIn(k))
    <3>1. Len(<<>>) = 0 /\ Len(ListedIn(k)) # 0
      BY <1>4
    <3>2. ListedIn(k) # <<>>
      BY <3>1, Zenon
    <3> QED BY <1>4, <3>2
  <2>3. x \in DOMAIN donutFile /\ ListedIn(k) = donutFile[x] /\ x[2] = tierOffsets.tier[k]
    BY <2>2 DEF ListedIn
  <2> HIDE DEF x
  <2>4. donutFile[x][1] = x[2]
    BY <2>2, <2>3 DEF AllTidy, NamedByFirst
  <2>5. ListedIn(k)[1] = s[k + 1] + (1 - 1) * DonutSize[k]
    BY <1>4, <1>5, <2>2
  <2>6. DonutSize[k] \in Nat /\ s[k + 1] \in Nat
    <3>1. k \in 0 .. NTiers /\ k + 1 \in 0 .. NTiers
      OBVIOUS
    <3> QED BY <1>6, <3>1, DonutSizeFacts DEF Spans
  <2> QED BY <2>1, <2>3, <2>4, <2>5, <2>6
<1>10. InputCounted'
  <2>1. tierOffsets.input = s[0]
    BY <1>1, <1>5 DEF AllCounted, InputCounted
  <2>2. s[k] = s[k + 1] + Donuts * DonutSize[k] /\ DonutSize[k + 1] = Donuts * DonutSize[k]
    BY <1>6, DonutSizeFacts DEF Spans
  <2>3. k >= k
    OBVIOUS
  <2>4. job'.off = s2[0] /\ tierOffsets'.input = job'.off + DonutSize[k + 1]
    BY <1>2, <1>7, <1>8, <1>9, <2>1, <2>2, <2>3
  <2> QED BY <1>1, <1>5, <2>4 DEF InputCounted
<1>11. ASSUME NEW t \in Tiers
       PROVE  /\ Len(ListedIn(t)') < Donuts
              /\ \A d \in 1 .. Len(ListedIn(t)') : ListedIn(t)'[d] = s2[t + 1] + (d - 1) * DonutSize[t]
  <2>1. CASE t = k
    BY <1>3, <2>1
  <2>2. CASE t < k
    <3>1. ListedIn(t)' = ListedIn(t) /\ Len(ListedIn(t)) = 0
      BY <1>0, <1>1, <1>3, <2>2, EmptyBelow
    <3> QED BY <1>4, <2>2, <3>1
  <2>3. CASE t > k
    <3>1. ListedIn(t)' = ListedIn(t) /\ s2[t + 1] = s[t + 1]
      BY <1>3, <1>8, <2>3
    <3> QED BY <1>4, <1>5, <2>3, <3>1
  <2> QED BY <2>1, <2>2, <2>3
<1>12. TiersCounted'
  BY <1>1, <1>5, <1>11 DEF TiersCounted
<1> QED BY <1>10, <1>12 DEF AllCounted

\* Nothing changes.
LEMMA StutterCounted ==
  ASSUME AllCounted, UNCHANGED vars
  PROVE  AllCounted'
<1> USE DEF vars, disk, memory
<1>1. \A t \in Tiers : ListedIn(t)' = ListedIn(t)
  BY ListsKept
<1>2. TiersCounted'
  <2>1. \A t \in Tiers : MayBeFull(t)' <=> MayBeFull(t)
    BY DEF MayBeFull
  <2> QED BY <1>1, <2>1, SpanKept DEF AllCounted, TiersCounted
<1>3. InputCounted'
  BY <1>1, SpanKept DEF AllCounted, InputCounted
<1> QED BY <1>2, <1>3 DEF AllCounted

\* While no gap is presented, every step that does not break off keeps the count.
LEMMA NextCounted ==
  ASSUME Inductive, Traced, Tidy, CountedUp, [Next]_vars
  PROVE  CountedUp'
<1> SUFFICES ASSUME MaxGap = 0, ~interrupted' PROVE AllCounted'
  BY DEF CountedUp
<1>1. AllTidy /\ AllCounted
  BY BreaksOff DEF Tidy, CountedUp
<1>2. CASE Open \/ Close \/ \E gpi \in Hashes : AppendHash(gpi)
  BY <1>1, <1>2, InputStepCounted
<1>3. CASE Freeze
  BY <1>1, <1>3, InputStepCounted, FreezeRecordCounted, InHandCounted DEF Freeze
<1>4. CASE TierRecord \/ TierFile \/ DonutFolder
  BY <1>1, <1>4, InHandCounted, DonutFolderCounted
<1>5. CASE BakeInput \/ RemoveInput \/ BakePrefix \/ DropPrefix \/ BakeOrder \/ RemoveTier
  BY <1>1, <1>5, MakingCounted
<1>6. CASE Publish
  BY <1>1, <1>6, MakingCounted, PublishCounted, FreezeTierCounted DEF Publish
<1>7. CASE UNCHANGED vars
  BY <1>1, <1>7, StutterCounted
<1> QED BY <1>2, <1>3, <1>4, <1>5, <1>6, <1>7, BreaksOff
        DEF Next, Pipeline, NewDonutFolder, Bake

\* At first no tier is recorded.
LEMMA InitCounted ==
  ASSUME Init, Inductive
  PROVE  CountedUp
<1>1. /\ \A t \in Tiers : tierOffsets.tier[t] = Absent
      /\ tierOffsets.input = 0 /\ pc = "down"
  BY DEF Init
<1>2. \A t \in Tiers : Len(ListedIn(t)) = 0
  BY <1>1, ListedFacts
<1>3. Span[0] = 0
  <2>1. \A t \in Tiers : t < NTiers => DonutCounts[t] = 0
    BY <1>2, ListedFacts
  <2>2. Spans(Span, DonutCounts) /\ NTiers \in 0 .. NTiers
    BY ListedFacts
  <2>3. Span[0] = Span[NTiers]
    BY <2>1, <2>2, NoneBelow
  <2> QED BY <2>2, <2>3 DEF Spans
<1>4. TiersCounted
  BY <1>1, <1>2 DEF TiersCounted
<1> QED BY <1>1, <1>3, <1>4 DEF CountedUp, AllCounted, InputCounted

\* In every reachable state before anything broke off, if no gaps are presented, the donuts
\* that a tier lists begin where the tiers above it end and follow each other without a hole,
\* and the input folder, or what AppendHash has in hand before it, begins where they end.
THEOREM CountInvariant == Spec => []CountedUp
<1>1. Init /\ Inductive => CountedUp
  BY InitCounted
<1>2. Inductive /\ Traced /\ Tidy /\ CountedUp /\ [Next]_vars => CountedUp'
  BY NextCounted
<1> HIDE DEF Inductive, TypeOK
<1> QED BY <1>1, <1>2, InductiveInvariant, FilesTraced, TidyInvariant, PTL DEF Spec

\* Between two calls, memory has the donuts that are listed.
LEMMA OpenIsListed ==
  ASSUME Inductive, AllTidy, Idle, NEW t \in Tiers
  PROVE  open[t].offsets = ListedIn(t) /\ Len(open[t].donuts) = Len(ListedIn(t))
<1>1. pc = "idle" /\ Up /\ Unpublished(t) = 0 /\ Len(ListedIn(t)) \in Nat
  BY ListedFacts DEF Idle, Up, Unpublished, SlotSteps, BakeInputSteps, BakeTierSteps
<1>2. /\ open[t] = NilTier <=> ~tiersInfo.present[t]
      /\ open[t] # NilTier =>
           /\ <<t, tiersInfo.offset[t]>> \in DOMAIN donutFile
           /\ open[t].donuts = Numbered(Len(open[t].offsets) - 0)
  BY <1>1, SettledTier
<1>3. CASE open[t] = NilTier
  <2>1. Len(ListedIn(t)) = 0 /\ ListedIn(t) = <<>>
    BY <1>1, <1>2, <1>3, RecordedTiers, ListedFacts
  <2> QED BY <1>3, <2>1 DEF NilTier
<1>4. CASE open[t] # NilTier
  <2>1. tierOffsets.tier[t] = tiersInfo.offset[t]
    BY <1>1, <1>2, <1>4, RecordedTiers
  <2>2. open[t].offsets = ListedIn(t)
    BY <1>2, <1>4, <2>1 DEF OpenTiers, ListedIn
  <2> DEFINE n == Len(ListedIn(t))
  <2>3. open[t].donuts = Numbered(n) /\ n \in Nat
    <3>1. n - 0 = n
      BY <1>1
    <3> QED BY <1>1, <1>2, <1>4, <2>2, <3>1
  <2> HIDE DEF n
  <2>4. Len(Numbered(n)) = n
    BY <2>3 DEF Numbered
  <2> QED BY <2>2, <2>3, <2>4 DEF n
<1> QED BY <1>3, <1>4

\* The numbers in it: d of the all donuts of a tier reach no further than the tier, and so not
\* beyond what a tier below begins with.
LEMMA ReachNoFurther ==
  ASSUME NEW next \in Nat, NEW size \in Nat, NEW all \in Nat, NEW d \in 1 .. all,
         NEW first \in Nat, NEW e \in Nat \ {0}, NEW below \in Nat,
         next + all * size <= first
  PROVE  next + d * size <= first + (e - 1) * below
<1>1. PICK rest \in Nat : all = d + rest
  <2>1. all - d \in Nat /\ all = d + (all - d)
    OBVIOUS
  <2> QED BY <2>1
<1>2. PICK before \in Nat : before = e - 1
  <2>1. e - 1 \in Nat
    OBVIOUS
  <2> QED BY <2>1
<1>3. d \in Nat
  OBVIOUS
<1>4. (d + rest) * size = d * size + rest * size /\ rest * size \in Nat /\ d * size \in Nat
  BY <1>3
<1>5. before * below \in Nat
  OBVIOUS
<1>6. PICK p \in Nat, q \in Nat, r \in Nat : p = d * size /\ q = rest * size /\ r = before * below
  BY <1>4, <1>5
<1>7. next + (p + q) <= first
  BY <1>1, <1>4, <1>6
<1>8. next + p <= first + r
  BY <1>7
<1> QED BY <1>2, <1>6, <1>8

\* So the donuts in service are in line.
LEMMA CountedInLine ==
  ASSUME Inductive, Tidy, CountedUp, MaxGap = 0
  PROVE  Odometer
<1> SUFFICES ASSUME Idle, ~interrupted PROVE Odometer
  BY DEF Odometer, Undisturbed
<1>1. AllTidy /\ AllCounted /\ pc = "idle" /\ Up
  BY DEF Tidy, CountedUp, Idle, Up
<1>2. \A t \in Tiers : open[t].offsets = ListedIn(t) /\ Len(open[t].donuts) = Len(ListedIn(t))
  BY <1>1, OpenIsListed
<1>3. PICK s, c : s = Span /\ c = DonutCounts
  OBVIOUS
<1>4. Spans(s, c) /\ c \in [Tiers -> Nat] /\ \A t \in Tiers : c[t] = Len(ListedIn(t))
  BY <1>3, ListedFacts
<1>5. \A t \in Tiers : DonutSize[t] \in Nat /\ s[t + 1] \in Nat /\ s[t] = s[t + 1] + c[t] * DonutSize[t]
  <2>1. \A t \in Tiers : t \in 0 .. NTiers /\ t + 1 \in 0 .. NTiers
    OBVIOUS
  <2>2. DonutSize \in [0 .. NTiers -> Nat] /\ s \in [0 .. NTiers -> Nat]
    BY <1>4, DonutSizeFacts DEF Spans
  <2> QED BY <1>4, <2>1, <2>2 DEF Spans
<1>6. \A t \in Tiers : /\ Len(ListedIn(t)) < Donuts
                       /\ \A d \in 1 .. Len(ListedIn(t)) : ListedIn(t)[d] = s[t + 1] + (d - 1) * DonutSize[t]
  <2>1. \A t \in Tiers : ~MayBeFull(t)
    BY <1>1 DEF MayBeFull, SlotSteps, BakeInputSteps, BakeTierSteps
  <2> QED BY <1>1, <1>3, <2>1 DEF AllCounted, TiersCounted
<1> DEFINE start(t, d) == open[t].offsets[d]
           finish(t, d) == start(t, d) + DonutSize[t]
<1>7. \A t \in Tiers : \A d \in 1 .. c[t] :
        /\ start(t, d) = s[t + 1] + (d - 1) * DonutSize[t]
        /\ finish(t, d) = s[t + 1] + d * DonutSize[t]
  <2> SUFFICES ASSUME NEW t \in Tiers, NEW d \in 1 .. c[t]
               PROVE  /\ start(t, d) = s[t + 1] + (d - 1) * DonutSize[t]
                      /\ finish(t, d) = s[t + 1] + d * DonutSize[t]
    OBVIOUS
  <2>1. start(t, d) = s[t + 1] + (d - 1) * DonutSize[t]
    BY <1>2, <1>4, <1>6
  <2>2. PICK size \in Nat : size = DonutSize[t]
    BY <1>5
  <2>3. d \in Nat /\ (d - 1) * size + size = d * size /\ (d - 1) * size \in Int /\ s[t + 1] \in Nat
    BY <1>4, <1>5
  <2> HIDE DEF start
  <2> QED BY <2>1, <2>2, <2>3
<1> HIDE DEF start, finish
<1>8. input.offset = s[0] /\ input.count < Cap
  <2>1. input.offset = tierOffsets.input
    BY <1>1, CurrentOffset
  <2>2. tierOffsets.input = s[0]
    BY <1>1, <1>3 DEF AllCounted, InputCounted
  <2>3. input = OpenedInput(tierOffsets.input) /\ inputs[tierOffsets.input].count < Cap
    BY <1>1 DEF AllTidy, InputTidy
  <2> QED BY <2>1, <2>2, <2>3 DEF OpenedInput
<1>9. SpanFrom([t \in Tiers |-> Len(open[t].donuts)]) = s
  <2>1. [t \in Tiers |-> Len(open[t].donuts)] = DonutCounts
    BY <1>2 DEF DonutCounts
  <2> QED BY <1>3, <2>1 DEF Span
<1>10. ASSUME NEW t \in Tiers
       PROVE  /\ Len(open[t].offsets) = Len(open[t].donuts) /\ Len(open[t].offsets) < Donuts
              /\ \A d \in 1 .. Len(open[t].offsets) - 1 : finish(t, d) = start(t, d + 1)
  <2>1. Len(open[t].offsets) = c[t] /\ c[t] \in Nat
    BY <1>2, <1>4
  <2>2. ASSUME NEW d \in 1 .. c[t] - 1 PROVE finish(t, d) = start(t, d + 1)
    <3>1. d \in 1 .. c[t] /\ d + 1 \in 1 .. c[t] /\ (d + 1) - 1 = d
      BY <2>1
    <3> QED BY <1>7, <3>1
  <2> QED BY <1>2, <1>6, <2>1, <2>2
<1>11. ASSUME NEW x \in Served, NEW y \in Served, x[1] > y[1]
       PROVE  finish(x[1], x[2]) <= start(y[1], y[2])
  <2>1. /\ x[1] \in Tiers /\ x[2] \in 1 .. c[x[1]] /\ y[1] \in Tiers /\ y[2] \in 1 .. c[y[1]]
    BY <1>2, <1>4 DEF Served
  <2>2. PICK t \in Tiers, d \in Nat, u \in Tiers, e \in Nat :
          t = x[1] /\ d = x[2] /\ u = y[1] /\ e = y[2] /\ d \in 1 .. c[t] /\ e \in 1 .. c[u] /\ t > u
    <3>1. c[x[1]] \in Nat /\ c[y[1]] \in Nat
      BY <1>4, <2>1
    <3>2. x[2] \in Nat /\ y[2] \in Nat
      BY <2>1, <3>1
    <3> QED BY <1>11, <2>1, <3>2
  <2>3. finish(t, d) = s[t + 1] + d * DonutSize[t] /\ start(u, e) = s[u + 1] + (e - 1) * DonutSize[u]
    BY <1>7, <2>2
  <2>4. s[t] <= s[u + 1]
    <3>1. u + 1 \in 0 .. NTiers /\ t \in (u + 1) .. NTiers
      BY <2>2
    <3>2. PICK up \in 0 .. NTiers : up = u + 1
      BY <3>1
    <3>3. t \in up .. NTiers
      BY <3>1, <3>2
    <3>4. Spans(s, c) /\ c \in [Tiers -> Nat]
      BY <1>4
    <3>5. s[t] <= s[up]
      BY <3>2, <3>3, <3>4, SpanFalls
    <3> QED BY <3>2, <3>5
  <2>5. PICK size \in Nat, below \in Nat, all \in Nat, next \in Nat :
          size = DonutSize[t] /\ below = DonutSize[u] /\ all = c[t] /\ next = s[t + 1]
    <3>1. c[t] \in Nat
      BY <1>4, <2>2
    <3>2. DonutSize[t] \in Nat /\ s[t + 1] \in Nat /\ DonutSize[u] \in Nat
      BY <1>5, <2>2
    <3> QED BY <3>1, <3>2
  <2>6. PICK first \in Nat : first = s[u + 1]
    BY <1>5, <2>2
  <2>7. next + all * size <= first
    <3>1. s[t] = s[t + 1] + c[t] * DonutSize[t]
      BY <1>5, <2>2
    <3> QED BY <2>4, <2>5, <2>6, <3>1
  <2>8. finish(t, d) = next + d * size /\ start(u, e) = s[u + 1] + (e - 1) * below
    BY <2>3, <2>5
  <2>9. d \in 1 .. all /\ e \in Nat \ {0}
    <3>1. e \in 1 .. c[u] /\ c[u] \in Nat
      BY <1>4, <2>2
    <3>2. e # 0
      BY <2>2, <3>1
    <3> QED BY <2>2, <2>5, <3>2
  <2>10. next + d * size <= first + (e - 1) * below
    BY <2>7, <2>9, ReachNoFurther
  <2> QED BY <2>2, <2>6, <2>8, <2>10
<1> QED BY <1>8, <1>9, <1>10, <1>11 DEF Odometer, start, finish

\* As long as no gap is presented and every AppendHash runs to its end, the tiers hold fewer
\* than Donuts donuts each, and cover exactly the indices below the input tier, the newer ones
\* in the lower tiers, whatever the capacity and the number of tiers and donuts.
THEOREM CountsLikeAnOdometer == ASSUME MaxGap = 0 PROVE Spec => []Odometer
<1>1. Inductive /\ Tidy /\ CountedUp => Odometer
  BY CountedInLine
<1> HIDE DEF Inductive, TypeOK
<1> QED BY <1>1, InductiveInvariant, TidyInvariant, CountInvariant, PTL

=============================================================================
