----------------------------- MODULE MCInputTier -----------------------------
(***************************************************************************)
(* Small input tiers for TLC.                                              *)
(***************************************************************************)
EXTENDS InputTier, TLC

\* The hashes are interchangeable.
HashSymmetry == Permutations(Hashes)
=============================================================================
