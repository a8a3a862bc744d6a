------------------------- MODULE MCScenarioLifecycle -------------------------
(* Instance of ScenarioLifecycle for TLC.                                  *)
EXTENDS ScenarioLifecycle, TLC

Symmetry == Permutations(Session) \cup Permutations(Name) \cup Permutations(Row)
=============================================================================
