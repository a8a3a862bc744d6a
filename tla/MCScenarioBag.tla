----------------------------- MODULE MCScenarioBag -----------------------------
(* Instance of ScenarioBag for TLC: two rows with the same UNIQUE value and  *)
(* one with NULL, which may have several copies.                             *)
EXTENDS ScenarioBag, TLC

CONSTANTS a1, a2, anon, A

MCUnique == (a1 :> A) @@ (a2 :> A) @@ (anon :> NoTuple)
Symmetry == Permutations({a1, a2})
=============================================================================
