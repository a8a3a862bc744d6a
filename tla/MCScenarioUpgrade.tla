-------------------------- MODULE MCScenarioUpgrade --------------------------
(* Instance of ScenarioUpgrade for TLC.                                    *)
EXTENDS ScenarioUpgrade, TLC

Symmetry == Permutations(Session) \cup Permutations(Row)
=============================================================================
