---------------------------- MODULE MCJsonMerge -----------------------------
(***************************************************************************)
(* An instance of JsonMerge for TLC: the keys of objects are alike, and so *)
(* are the scalars, so states that differ by their names count once.       *)
(***************************************************************************)
EXTENDS JsonMerge, TLC

Symmetry == Permutations(Keys) \cup Permutations(Scalars)
=============================================================================
