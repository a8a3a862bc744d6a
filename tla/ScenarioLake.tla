----------------------------- MODULE ScenarioLake -----------------------------
(* The parameters of a merge into a lake.                                  *)
EXTENDS Naturals

CONSTANTS
    Merger,     \* sessions that call scenario_merge
    Row,        \* the I rows of the delta: by key, or the rows of a keyless changelog
    Tagged,     \* the lake keeps commit metadata (DuckLake does)
    NoTag,      \* no commit of this scenario in the lake
    MaxWrites   \* bound: writes through the attached scenario

ASSUME LakeAssumption ==
    /\ Tagged \in BOOLEAN
    /\ MaxWrites \in Nat
    /\ NoTag \notin [Row -> Nat]
=============================================================================
