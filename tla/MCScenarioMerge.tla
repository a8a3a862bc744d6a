--------------------------- MODULE MCScenarioMerge ---------------------------
(***************************************************************************)
(* Instances of ScenarioMerge and ScenarioLakeMerge for TLC: a scenario is *)
(* merged into the host's tables, or into a lake's.  They share no state:  *)
(* a behaviour is one of the two, chosen at the start.                     *)
(***************************************************************************)
EXTENDS ScenarioMerge, ScenarioLake, TLC

VARIABLES target, rows, clock, frozen, closed, copies, tag, call

lakeVars == <<rows, clock, frozen, closed, copies, tag, call>>

Lake == INSTANCE ScenarioLakeMergeProofs WITH delta <- rows, merged <- closed, merge <- call

MCInit ==
    /\ Lake!Init
    /\ \/ target = "host" /\ Init
       \/ /\ target = "lake"
          /\ kind = "overlay" /\ main = [k \in Key |-> Null] /\ snap = main
          /\ delta = [k \in Key |-> NoRow] /\ merged = FALSE

OnlyHost == target = "host" /\ UNCHANGED <<target, lakeVars>>
OnlyLake == target = "lake" /\ UNCHANGED <<target, vars>>

\* Every action, by name.
MCNext ==
    \/ \E k \in Key, v \in Val \cup {Null} : BaseCommit(k, v) /\ OnlyHost
    \/ \E new \in InsertChunks : Insert(new) /\ OnlyHost
    \/ \E post \in UpdateChunks : Update(post) /\ OnlyHost
    \/ \E k \in Key : Delete(k) /\ OnlyHost
    \/ \E k \in Key : DeleteOwn(k) /\ OnlyHost
    \/ \E policy \in Policies : Merge(policy) /\ OnlyHost
    \/ \E m \in Merger : OnlyLake /\ Lake!Start(m)
    \/ \E m \in Merger : OnlyLake /\ Lake!ReadDelta(m)
    \/ \E m \in Merger : OnlyLake /\ Lake!FindTag(m)
    \/ \E m \in Merger : OnlyLake /\ Lake!CommitLake(m)
    \/ \E m \in Merger : OnlyLake /\ Lake!Close(m)
    \/ \E m \in Merger : OnlyLake /\ Lake!Fail(m)
    \/ OnlyLake /\ Lake!Crash
    \/ \E r \in Row : OnlyLake /\ Lake!WriteRow(r)
    \/ \E r \in Row : OnlyLake /\ Lake!RemoveRow(r)
    \/ \E value \in BOOLEAN : OnlyLake /\ Lake!SetFrozen(value)

MCSpec == MCInit /\ [][MCNext]_<<vars, target, lakeVars>>

Symmetry == Permutations(Key) \cup Permutations(Val) \cup Permutations(Merger) \cup Permutations(Row)

\* Retried after any failure, a merge into the lake applies a row at most once.
AppliedOnce == target = "lake" => Lake!AppliedOnce

\* What closes a scenario removes from its delta no row the lake does not hold.
NothingDiscarded == Lake!NothingDiscarded
=============================================================================
