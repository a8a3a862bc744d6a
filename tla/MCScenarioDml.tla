---------------------------- MODULE MCScenarioDml ----------------------------
(* Instance of ScenarioDml for TLC.                                        *)
EXTENDS ScenarioDml, TLC

KeySymmetry == Permutations(Key)
Symmetry == KeySymmetry \cup Permutations(Val)
=============================================================================
