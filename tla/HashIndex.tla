------------------------------ MODULE HashIndex ------------------------------
(***************************************************************************)
(* What a wedding cake promises its caller: an append-only index from      *)
(* hashes to the global presentation index each one was presented with.    *)
(* Presentation indices are presented in increasing order and may leave    *)
(* gaps; an entry, once there, is never changed or forgotten.              *)
(*                                                                         *)
(* Cake.tla implements this twice over: the folders on disk do whatever    *)
(* crashes, and what LookupHash answers does as long as nothing            *)
(* interrupts an AppendHash and no gap is presented.                       *)
(***************************************************************************)
EXTENDS Integers

CONSTANTS
  Hashes,     \* the hashes a caller may present
  Indices     \* the presentation indices it may present them with

VARIABLE index      \* a function from the presented hashes to their index

Init == index = [h \in {} |-> 0]

\* The caller presents a new hash, with a later index than all others.
Append(h) ==
  /\ h \in Hashes \ DOMAIN index
  /\ index' \in [DOMAIN index \cup {h} -> Indices]
  /\ \A x \in DOMAIN index : index'[x] = index[x] /\ index[x] < index'[h]

\* The hash that a step adds is the one that was not there before.
Next == \E h \in DOMAIN index' \ DOMAIN index : Append(h)

Spec == Init /\ [][Next]_index

=============================================================================
