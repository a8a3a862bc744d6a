------------------------- MODULE MCScenarioLakeMerge -------------------------
(* Instance of ScenarioLakeMerge for TLC.                                  *)
EXTENDS ScenarioLakeMerge, TLC

Symmetry == Permutations(Merger) \cup Permutations(Row)
=============================================================================
