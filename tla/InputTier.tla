------------------------------ MODULE InputTier ------------------------------
(***************************************************************************)
(* One input tier (inputtier/inputtier.go) by itself: its two files, what  *)
(* it keeps of them in memory, and an AppendHash that writes one file      *)
(* after the other.  Cake.tla takes an append for one step; this module    *)
(* shows what that leaves out.                                             *)
(*                                                                         *)
(* HashesOrder.bin has an entry for every local index: the index itself in *)
(* three bytes, or all ones for a gap.  HashSuffix.bin has an entry for    *)
(* every hash: the hash and its local index in two bytes.                  *)
(***************************************************************************)
EXTENDS Integers, Sequences, FiniteSets

CONSTANTS
  Hashes,     \* the hashes a caller may present
  NoHash,     \* what is in memory for a gap (the empty string)
  Offset,     \* the tier's offset
  Ones2,      \* two bytes of all ones (0xFFFF); also the size of a full tier
  Ones3,      \* three bytes of all ones (0xFFFFFF)
  MaxGpi,     \* bound: presentation indices are below it
  MaxGap,     \* bound: indices one presentation may skip
  MaxFaults   \* bound: crashes and write errors

ASSUME InputTierAssumption ==
  /\ NoHash \notin Hashes
  /\ Offset \in Nat /\ Ones2 \in Nat \ {0} /\ Ones3 \in Nat /\ Ones2 < Ones3
  /\ MaxGpi \in Nat /\ MaxGap \in Nat /\ MaxFaults \in Nat

VARIABLES
  order,      \* HashesOrder.bin
  suffix,     \* HashSuffix.bin
  map,        \* InputTier.hashBytesToLocalPi
  hashBytes,  \* InputTier.hashBytes: a hash or NoHash for each local index
  pc,         \* "closed", "open", "between" the writes of an append, "full"
  pending,    \* the append that is between its writes
  accepted,   \* history: the index of each hash whose AppendHash succeeded
  faults      \* history: crashes and write errors

files == <<order, suffix>>
memory == <<map, hashBytes>>
vars == <<files, memory, pc, pending, accepted, faults>>

NoMatch == -1       \* 64 bits of all ones
NoAppend == [hash |-> NoHash, pi |-> 0]
NoEntries == [h \in {} |-> 0]

\* As in Cake.tla, a definition that is used nowhere is a faulty variant of one
\* that follows it.

(***************************************************************************)
(* readHashes: the entries of HashSuffix.bin belong to those entries of    *)
(* HashesOrder.bin that are no gaps, one after the other. All ones read    *)
(* back as "no match".                                                     *)
(***************************************************************************)
ReadID16(id) == IF id = Ones2 THEN NoMatch ELSE id

IsEntry(i) == order[i] # NoMatch
Rank(i) == Cardinality({j \in 1 .. i : IsEntry(j)})

\* The slice of HashSuffix.bin is within its bounds, and both indices agree.
ReadableByLength ==
  \A i \in 1 .. Len(order) : IsEntry(i) => Rank(i) <= Len(suffix)
Readable ==
  \A i \in 1 .. Len(order) :
    IsEntry(i) => Rank(i) <= Len(suffix) /\ order[i] = ReadID16(suffix[Rank(i)].pi)

ReadHashBytes ==
  [i \in 1 .. Len(order) |-> IF IsEntry(i) THEN suffix[Rank(i)].hash ELSE NoHash]
ReadMap ==
  LET read == {suffix[Rank(i)] : i \in {j \in 1 .. Len(order) : IsEntry(j)}}
  IN  [h \in {e.hash : e \in read} |-> ReadID16((CHOOSE e \in read : e.hash = h).pi)]

(***************************************************************************)
(* The operations                                                          *)
(***************************************************************************)
\* CreateInputTierFiles has made two empty files.
Init ==
  /\ order = <<>> /\ suffix = <<>>
  /\ map = NoEntries /\ hashBytes = <<>>
  /\ pc = "closed" /\ pending = NoAppend
  /\ accepted = NoEntries /\ faults = 0

OpenInputTier ==
  /\ pc = "closed"
  /\ Readable
  /\ map' = ReadMap /\ hashBytes' = ReadHashBytes
  /\ pc' = "open"
  /\ UNCHANGED <<files, pending, accepted, faults>>

\* The process has ended, or the tier is closed: nothing is left in memory.
Gone ==
  /\ map' = NoEntries /\ hashBytes' = <<>>
  /\ pc' = "closed" /\ pending' = NoAppend
  /\ UNCHANGED accepted

Close ==
  /\ pc \in {"open", "full"}
  /\ Gone
  /\ UNCHANGED <<files, faults>>

\* Cake.AppendHash presents new hashes, in order but with gaps.
Presentable(gpi, h) ==
  /\ pc = "open"
  /\ h \notin DOMAIN map
  /\ Offset + Len(hashBytes) <= gpi /\ gpi <= Offset + Len(hashBytes) + MaxGap

\* What the two files and the list in memory get for the indices that are skipped.
ZeroesForGaps(n) == [i \in 1 .. n |-> 0]
NoRoomForGaps(n) == <<>>
OnesForGaps(n) == [i \in 1 .. n |-> NoMatch]
RoomForGaps(n) == [i \in 1 .. n |-> NoHash]

\* The first write: a three-byte index that is all ones or more panics before it.
OrderWritten(localPi) ==
  order \o OnesForGaps(localPi - Len(hashBytes)) \o <<localPi>>

AppendOrder(gpi, h) ==
  /\ Presentable(gpi, h)
  /\ gpi - Offset < Ones3
  /\ order' = OrderWritten(gpi - Offset)
  /\ pending' = [hash |-> h, pi |-> gpi - Offset]
  /\ pc' = "between"
  /\ UNCHANGED <<suffix, memory, accepted, faults>>

AppendOrderPanics(gpi, h) ==
  /\ Presentable(gpi, h)
  /\ gpi - Offset >= Ones3
  /\ Gone
  /\ UNCHANGED <<files, faults>>

\* The second write, then memory. Cake.AppendHash freezes a tier of exactly Ones2.
AppendSuffix ==
  /\ pc = "between"
  /\ pending.pi <= Ones2
  /\ suffix' = Append(suffix, pending)
  /\ map' = [h \in DOMAIN map \cup {pending.hash} |->
               IF h = pending.hash THEN pending.pi ELSE map[h]]
  /\ hashBytes' = hashBytes \o RoomForGaps(pending.pi - Len(hashBytes)) \o <<pending.hash>>
  /\ accepted' = [h \in DOMAIN accepted \cup {pending.hash} |->
                    IF h = pending.hash THEN pending.pi + Offset ELSE accepted[h]]
  /\ pc' = IF Len(hashBytes') = Ones2 THEN "full" ELSE "open"
  /\ pending' = NoAppend
  /\ UNCHANGED <<order, faults>>

AppendSuffixPanics ==
  /\ pc = "between"
  /\ pending.pi > Ones2
  /\ Gone
  /\ UNCHANGED <<files, faults>>

\* The write to HashSuffix.bin returns an error; the one before is not undone.
AppendSuffixFails ==
  /\ pc = "between"
  /\ faults < MaxFaults
  /\ faults' = faults + 1
  /\ pc' = "open" /\ pending' = NoAppend
  /\ UNCHANGED <<files, memory, accepted>>

Crash ==
  /\ pc = "between"
  /\ faults < MaxFaults
  /\ faults' = faults + 1
  /\ Gone
  /\ UNCHANGED files

Next ==
  \/ OpenInputTier \/ Close \/ Crash
  \/ \E gpi \in Offset .. MaxGpi - 1, h \in Hashes :
       AppendOrder(gpi, h) \/ AppendOrderPanics(gpi, h)
  \/ AppendSuffix \/ AppendSuffixPanics \/ AppendSuffixFails

Spec == Init /\ [][Next]_vars

(***************************************************************************)
(* Lookups, and what makes an input tier correct                           *)
(***************************************************************************)
LookupHash(h) == IF h \in DOMAIN map THEN map[h] + Offset ELSE NoMatch

GetHashAtIndex(gpi) ==
  IF gpi < Offset \/ gpi >= Offset + Len(hashBytes) THEN NoHash
  ELSE hashBytes[gpi - Offset + 1]

\* Whatever crashes, write errors and gaps there were, an open tier answers in
\* both directions exactly for the hashes whose AppendHash succeeded: the files
\* of a torn append are refused when they are read, never misread.
LookupsExact ==
  pc \in {"open", "full"} =>
    /\ \A h \in Hashes :
         LookupHash(h) = IF h \in DOMAIN accepted THEN accepted[h] ELSE NoMatch
    /\ \A gpi \in 0 .. MaxGpi, h \in Hashes :
         GetHashAtIndex(gpi) = h <=> h \in DOMAIN accepted /\ accepted[h] = gpi

\* Closing and opening again changes nothing in memory, gaps included, whenever
\* the files can be read at all.
ReadBackSame ==
  pc \in {"open", "full"} /\ Readable => ReadMap = map /\ ReadHashBytes = hashBytes

\* Without crashes and write errors the files can be read again after every
\* append, gaps or not, as long as the indices stay below two bytes of ones.
ReopensUntilFull ==
  faults = 0 /\ pc # "between" /\ Len(order) <= Ones2 => Readable

\* HashSuffix.bin by itself is an append-only index, whatever happens.
IndexOf(entries) ==
  LET found == {entries[i] : i \in 1 .. Len(entries)}
  IN  [h \in {e.hash : e \in found} |-> (CHOOSE e \in found : e.hash = h).pi + Offset]
Index == INSTANCE HashIndex WITH Indices <- Offset .. MaxGpi - 1, index <- IndexOf(suffix)
SuffixSpec == Index!Spec

\* Every entry of HashesOrder.bin that is no gap has one in HashSuffix.bin, as the
\* comment in readHashes says. A crash or an error between the writes leaves one
\* that has not, and the tier cannot be read any more.
EntriesPaired ==
  pc # "between" =>
    Cardinality({i \in 1 .. Len(order) : IsEntry(i)}) = Len(suffix)

(***************************************************************************)
(* Why the files are never misread: the inductive invariant behind these.  *)
(***************************************************************************)
TypeOK ==
  /\ order \in Seq(0 .. Ones3 \cup {NoMatch})
  /\ suffix \in Seq([hash : Hashes, pi : 0 .. Ones2])
  /\ DOMAIN map \subseteq Hashes /\ map \in [DOMAIN map -> Nat]
  /\ hashBytes \in Seq(Hashes \cup {NoHash})
  /\ pc \in {"closed", "open", "between", "full"}
  /\ pending \in [hash : Hashes \cup {NoHash}, pi : Nat]
  /\ \A h \in DOMAIN accepted : accepted[h] \in Offset .. MaxGpi - 1
  /\ faults \in 0 .. MaxFaults

\* More entries in HashesOrder.bin than successful appends account for: some append
\* broke off between its writes, and the files will never be readable again.
Entries == Rank(Len(order))
Accounted == Len(suffix) + (IF pc = "between" THEN 1 ELSE 0)
Torn == Entries > Accounted

\* HashSuffix.bin has the accepted hashes, each once.
SuffixAccepted ==
  /\ DOMAIN accepted = {suffix[k].hash : k \in 1 .. Len(suffix)}
  /\ \A k \in 1 .. Len(suffix) : accepted[suffix[k].hash] = suffix[k].pi + Offset
  /\ \A k, l \in 1 .. Len(suffix) : suffix[k].hash = suffix[l].hash => k = l

\* So has memory, while there is one, and the list is the map turned around.
MemoryAccepted ==
  pc # "closed" =>
    /\ DOMAIN map = DOMAIN accepted
    /\ \A h \in DOMAIN map :
         /\ accepted[h] = map[h] + Offset
         /\ map[h] < Len(hashBytes) /\ hashBytes[map[h] + 1] = h
    /\ \A i \in 1 .. Len(hashBytes) : hashBytes[i] # NoHash =>
         hashBytes[i] \in DOMAIN map /\ map[hashBytes[i]] = i - 1

\* The append between its writes has a new hash and an index that is not taken.
PendingNew ==
  pc = "between" =>
    /\ pending.hash \in Hashes \ DOMAIN accepted
    /\ Len(hashBytes) <= pending.pi /\ pending.pi + Offset < MaxGpi

\* Every append leaves an entry at the end of HashesOrder.bin, and one that breaks
\* off is never made up for.
NeverMadeUpFor ==
  /\ order # <<>> => IsEntry(Len(order))
  /\ Entries >= Accounted
  /\ Torn /\ faults = 0 => Len(order) > Ones2

\* As long as none broke off, the n-th entry of HashesOrder.bin is at the index that
\* the n-th of HashSuffix.bin has, and the list in memory is what would be read back.
Aligned ==
  ~Torn =>
    /\ \A k \in 1 .. Len(suffix) : \E i \in 1 .. Len(order) :
         i = suffix[k].pi + 1 /\ IsEntry(i) /\ Rank(i) = k
    /\ \A i \in 1 .. Len(order) : IsEntry(i) => order[i] = i - 1
    /\ \A i \in 1 .. Len(order) : IsEntry(i) /\ Rank(i) <= Len(suffix) =>
         suffix[Rank(i)].pi = i - 1
    /\ pc # "closed" => \A i \in 1 .. Len(order) :
         IF i <= Len(hashBytes) THEN hashBytes[i] = ReadHashBytes[i]
         ELSE pc = "between" /\ (IsEntry(i) => i = Len(order))
    /\ pc \in {"open", "full"} => Len(order) = Len(hashBytes)
    /\ pc = "between" => Len(order) = pending.pi + 1

NeverMisread ==
  TypeOK /\ SuffixAccepted /\ MemoryAccepted /\ PendingNew /\ NeverMadeUpFor /\ Aligned

=============================================================================
