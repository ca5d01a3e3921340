------------------------------ MODULE CakeLookup ------------------------------
(***************************************************************************)
(* Cake.LookupHash and Tier.LookupHash/VerifyHash as functions of the      *)
(* state. A lookup reads the input tier's map, then the donuts of the open *)
(* tiers in order. A donut's tree names a candidate, which is verified     *)
(* against the donut's files: HashesOrder.bin, then HashSuffix.bin.        *)
(*                                                                         *)
(* What an entry that points nowhere in particular happens to hit is left  *)
(* open, so an answer is a set of outcomes.                                *)
(***************************************************************************)
EXTENDS Cake

NoMatch == -2     \* GlobalPresentationIndexNoMatch
Error == -3       \* LookupHash returns an error

\* What the icing of a donut may answer for hash h: its own index; for a hash
\* it does not hold, nothing or the index of a hash that looks like it.
Candidates(slot, h) ==
  LET suffix == donuts[slot].suffix
      own == {e.pi : e \in {x \in suffix : x.hash = h}}
  IN  IF own # {} THEN own ELSE {NoMatch} \cup {e.pi : e \in suffix}

\* VerifyHash: does HashesOrder.bin's entry for the candidate lead to h?
VerifiedBlindly(slot, h, localPi) == {"same"}
Verified(slot, h, localPi) ==
  LET order == donuts[slot].order
      verdict(found) == IF found THEN "same" ELSE "differs"
  IN  IF slot \notin DOMAIN donuts \/ localPi \notin DOMAIN order THEN {"error"}
      ELSE IF order[localPi] = PastEnd THEN {"error"}
      ELSE IF order[localPi] \in Hashes THEN {verdict(order[localPi] = h)}
      ELSE {"error", "differs", verdict(h \in HashesIn(donuts[slot].suffix))}

\* Tier.LookupHash looks in the icing of donuts[d], and verifies in the folder
\* Donut<d> with the offset donutOffsets[d].
DonutAnswers(t, d, h) ==
  LET tier == open[t]
      icing == <<t, tier.folder, tier.donuts[d]>>
      files == <<t, tier.folder, d - 1>>
      answer(c, verdict) == CASE verdict = "error" -> Error
                              [] verdict = "same" -> c + tier.offsets[d]
                              [] verdict = "differs" -> NoMatch
      answers(c) == IF c = NoMatch THEN {NoMatch}
                    ELSE {answer(c, v) : v \in Verified(files, h, c)}
  IN  UNION {answers(c) : c \in Candidates(icing, h)}

Served == {x \in Tiers \X (1 .. Donuts) : x[2] <= Len(open[x[1]].donuts)}

\* Cake.LookupHash comes to the donuts tier by tier, and stops at the first that
\* answers or fails.
Before(x, y) == x[1] < y[1] \/ (x[1] = y[1] /\ x[2] < y[2])
Passes(h, x) == NoMatch \in DonutAnswers(x[1], x[2], h)
Reached(h) == {x \in Served : \A y \in Served : Before(y, x) => Passes(h, y)}

LookupTiers(h) ==
  {r \in {NoMatch} : \A x \in Served : Passes(h, x)}
    \cup UNION {DonutAnswers(x[1], x[2], h) \ {NoMatch} : x \in Reached(h)}

LookupHash(h) ==
  LET own == {e \in input.entries : e.hash = h}
  IN  IF own # {} THEN {e.pi + input.offset : e \in own} ELSE LookupTiers(h)

=============================================================================
