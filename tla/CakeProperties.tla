---------------------------- MODULE CakeProperties ----------------------------
(***************************************************************************)
(* What makes a wedding cake correct.                                      *)
(***************************************************************************)
EXTENDS CakeLookup

Idle == pc = "idle"
Undisturbed == Idle /\ ~interrupted

HashesOf(folders) == UNION {HashesIn(folders[x].suffix) : x \in DOMAIN folders}
OnDisk == HashesOf(inputs) \cup HashesOf(donuts)

\* Whatever the moment, and whatever crashes came before, every hash that was
\* appended is in some folder: no pipeline step removes the last copy of one.
Durable == stored \subseteq OnDisk

\* A donut that is looked up in its own icing and verified in the folder of an
\* older one: some donut of the tier failed to be made, and the caller went on.
Misnumbered(x) == open[x[1]].donuts[x[2]] # x[2] - 1

\* An answered index is the one the hash was presented with, in every reachable
\* state between calls: after errors, crashes and gaps too. A hash that was not
\* presented never gets an index, however much the trees mistake it for another.
\* Only where a donut before it is missing can a donut give a stored hash an index
\* that is not its own.
LookupSound ==
  Idle => \A h \in Hashes : \A r \in LookupHash(h) \cap Hashes :
            /\ h \in stored
            /\ r = h \/ \E x \in Served : Misnumbered(x) /\ r \in DonutAnswers(x[1], x[2], h)

\* As long as every AppendHash ran to its end, a hash that was presented is
\* found and one that was not is "no match", through every bake.
LookupComplete ==
  Undisturbed =>
    \A h \in Hashes : LookupHash(h) = IF h \in stored THEN {h} ELSE {NoMatch}

\* Close followed by Open gives back exactly what was in memory, so a restart
\* between calls is invisible.
ReopenFaithful ==
  Undisturbed =>
    /\ Openable
    /\ tierOffsets = OnFile(tiersInfo)
    /\ input = OpenedInput(tierOffsets.input)
    /\ \A t \in Tiers :
         open[t] = IF tierOffsets.tier[t] = Absent THEN NilTier
                   ELSE OpenedTier(t, tierOffsets.tier[t])

\* Entries of one donut of tier t: a full input tier below t full tiers.
DonutSize[t \in 0 .. NTiers] == IF t = 0 THEN Cap ELSE Donuts * DonutSize[t - 1]

\* The indices that the tiers from tier t up span, if tier u has count[u] donuts.
SpanFrom(count) ==
  LET span[t \in 0 .. NTiers] ==
        IF t = NTiers THEN 0 ELSE span[t + 1] + count[t] * DonutSize[t]
  IN  span

\* The cake counts its hashes like an odometer: the tiers hold fewer than
\* Donuts donuts each, together cover exactly the indices below the input tier,
\* and the newer of two donuts is in the lower or the same tier. The donuts of
\* a tier follow each other without a hole.
Odometer ==
  Undisturbed =>
    LET start(t, d) == open[t].offsets[d]
        finish(t, d) == start(t, d) + DonutSize[t]
        upTo == SpanFrom([t \in Tiers |-> Len(open[t].donuts)])[0]
    IN /\ input.offset = upTo /\ input.count < Cap
       /\ \A t \in Tiers :
            /\ Len(open[t].offsets) = Len(open[t].donuts)
            /\ Len(open[t].offsets) < Donuts
            /\ \A d \in 1 .. Len(open[t].offsets) - 1 : finish(t, d) = start(t, d + 1)
       /\ \A x, y \in Served :
            x[1] > y[1] => finish(x[1], x[2]) <= start(y[1], y[2])

\* Between undisturbed calls the cake folder holds what TierOffsets.txt and the
\* DonutOffsets.txt files name, and nothing else: every bake cleans up.
NoOrphans ==
  Undisturbed =>
    /\ DOMAIN inputs = {tierOffsets.input}
    /\ DOMAIN donutFile = {<<t, tierOffsets.tier[t]>> : t \in {u \in Tiers : tierOffsets.tier[u] # Absent}}
    /\ DOMAIN donuts =
         UNION {{<<x[1], x[2], d - 1>> : d \in 1 .. Len(donutFile[x])} : x \in DOMAIN donutFile}

\* TierOffsets.txt never names a frozen input tier: the new one is recorded
\* before the old one is sealed, so no crash leaves a cake that panics at Open.
CurrentInputNotSealed ==
  tierOffsets.input \in DOMAIN inputs /\ ~inputs[tierOffsets.input].readonly

\* No local index outgrows its two bytes, as ID16.WriteID asserts: an input tier
\* is frozen when it is full. A crash just before the freeze is recorded leaves a
\* full tier that is never frozen, because the trigger is an equality.
LocalPiFits ==
  Idle => \A gpi \in Hashes : Presentable(gpi) => gpi - input.offset <= Cap

\* Where a first crash is harmless to Open: the cake opens again exactly if the
\* process did not die while a tier or a donut was recorded but not yet there.
OpenAfterCrash ==
  ~interrupted =>
    (Openable <=> pc \notin {"tierFile", "bakeInput", "removeInput", "bakePrefix",
                             "dropPrefix", "bakeOrder", "removeTier", "ice"})

\* The files of a donut that lookups read are not touched while they may be
\* read: a tier is taken out of service before it is baked.
ServedImmutable ==
  [][\A x \in Served :
       LET slot == <<x[1], open[x[1]].folder, open[x[1]].donuts[x[2]]>>
       IN  open'[x[1]] # NilTier =>
             slot \in DOMAIN donuts' /\ donuts'[slot] = donuts[slot]]_vars

\* The input offset in TierOffsets.txt only grows, and only to indices above
\* everything stored so far: an index is never handed out twice.
InputOffsetAdvances ==
  [][tierOffsets'.input # tierOffsets.input =>
       /\ tierOffsets'.input > tierOffsets.input
       /\ \A h \in stored : h < tierOffsets'.input]_vars

\* An AppendHash that began comes to its end, however deep the cascade.
PipelineEnds == (pc \notin {"idle", "down"}) ~> (pc \in {"idle", "down"})

\* The folders implement the promise of HashIndex, crashes included.
Archive == INSTANCE HashIndex WITH Indices <- Hashes, index <- [h \in OnDisk |-> h]
ArchiveSpec == Archive!Spec

\* What lookups answer, together with what AppendHash has taken out of the tiers
\* and not put back yet, implements it as well while nothing interrupts it:
\* every step of a bake moves hashes without losing or inventing one. Of a cake
\* that was closed or interrupted, it speaks of the hashes on disk.
Answering == {h \in Hashes : LookupHash(h) \cap Hashes # {}}
InHand ==
  LET InBake == IF job.tier \in Tiers THEN Sources \cup {Slot} ELSE Sources
      frozen == IF job.tier = 0 /\ job.off \in DOMAIN inputs
                THEN HashesIn(inputs[job.off].suffix) ELSE {}
      baked == UNION {HashesIn(donuts[s].suffix) :
                        s \in InBake \cap DOMAIN donuts}
  IN  IF pc = "freezeSeal" \/ pc = "newDonut" \/ pc \in DonutSteps
      THEN frozen \cup baked ELSE {}
View ==
  IF pc = "down" \/ interrupted THEN [h \in OnDisk |-> h]
  ELSE [h \in Answering \cup InHand |->
          LET answers == LookupHash(h) \cap Hashes
          IN  IF answers # {} THEN CHOOSE r \in answers : TRUE ELSE h]
Service == INSTANCE HashIndex WITH Indices <- Hashes, index <- View
ServiceSpec == Service!Spec

=============================================================================
