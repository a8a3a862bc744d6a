-------------------------- MODULE ScenarioLakeMerge --------------------------
(***************************************************************************)
(* scenario_merge into a lake, another database than the host.  There is   *)
(* no commit across the two: the changes are committed to the lake on a    *)
(* connection of their own, and only then does the caller's transaction    *)
(* empty the delta and close the scenario in the host.  A crash or a host  *)
(* conflict in between leaves the scenario open with its changes applied,  *)
(* so the lake's commit carries a tag with a fingerprint of the delta, by  *)
(* which a later merge knows what was done.                                *)
(*                                                                         *)
(* The delta holds I rows, the changes that a second merge could apply     *)
(* again.  In a keyed table the scenario may rewrite and remove such a row *)
(* (and the lake's key would turn a second application into a conflict);   *)
(* in a keyless one rows are only appended, and nothing but the tag stops  *)
(* a second application.  The actions allow what either table allows.      *)
(***************************************************************************)
EXTENDS ScenarioLake

VARIABLES
    delta,   \* committed delta: the time a row was written, 0 if absent
    clock,   \* the last time used
    frozen,  \* registry: frozen ...
    merged,  \* ... and merged_at set
    copies,  \* history: how often each row was applied to the lake
    tag,     \* fingerprint in the newest tagged commit of the lake
    merge    \* the scenario_merge call of each session

vars == <<delta, clock, frozen, merged, copies, tag, merge>>

Delta == [Row -> 0..MaxWrites]
Nothing == [r \in Row |-> 0]

-----------------------------------------------------------------------------
(* Merging.  seen is the delta in the snapshot of the caller's transaction, *)
(* read the one in the second connection's; stale says that the registry    *)
(* row changed after the caller's snapshot.                                 *)

Idle == [at |-> "idle", seen |-> Nothing, read |-> Nothing, stale |-> FALSE]

Stage(m, at) == merge' = [merge EXCEPT ![m].at = at]

Stop(m) == merge' = [merge EXCEPT ![m] = Idle]

\* MergeExecute: the caller's transaction looks the scenario up.
Start(m) ==
    /\ merge[m].at = "idle"
    /\ ~merged /\ ~frozen
    /\ merge' = [merge EXCEPT ![m] = [Idle EXCEPT !.at = "reading", !.seen = delta]]
    /\ UNCHANGED <<delta, clock, frozen, merged, copies, tag>>

\* The second connection takes its snapshot of the deltas (and, with tags,
\* their fingerprint).
ReadDelta(m) ==
    /\ merge[m].at = "reading"
    /\ merge' = [merge EXCEPT ![m].at = "looking", ![m].read = delta]
    /\ UNCHANGED <<delta, clock, frozen, merged, copies, tag>>

\* Mutant of TagMatches: the fingerprint is not compared.
TagMatchesAny(fingerprint) == tag # NoTag

TagMatches(fingerprint) == tag = fingerprint

\* Without a tag the changes are applied; with the tag of this very delta they
\* were; with another tag the scenario was written to since, and is refused.
FindTag(m) ==
    /\ merge[m].at = "looking"
    /\ \/ /\ Tagged => tag = NoTag
          /\ Stage(m, "applying")
       \/ /\ Tagged /\ tag # NoTag
          /\ TagMatches(merge[m].read)
          /\ Stage(m, "closing")
       \/ /\ Tagged /\ tag # NoTag
          /\ ~TagMatches(merge[m].read)
          /\ Stop(m)
    /\ UNCHANGED <<delta, clock, frozen, merged, copies, tag>>

\* Mutant of NewTag: the lake's commit is not tagged.
NewTagMissing(fingerprint) == tag

\* A commit without changes leaves no snapshot in the lake to carry a tag.
NewTag(fingerprint) == IF Tagged /\ fingerprint # Nothing THEN fingerprint ELSE tag

AppliedCopies(rows) == [r \in Row |-> copies[r] + (IF rows[r] = 0 THEN 0 ELSE 1)]

\* The second connection commits rows and tag in one transaction; two inserts
\* into a lake table do not conflict.
CommitLake(m) ==
    /\ merge[m].at = "applying"
    /\ copies' = AppliedCopies(merge[m].read)
    /\ tag' = NewTag(merge[m].read)
    /\ Stage(m, "closing")
    /\ UNCHANGED <<delta, clock, frozen, merged>>

\* The others see that the registry row changed.
RegistryChanged(m) ==
    merge' = [n \in Merger |-> IF n = m THEN Idle
                               ELSE [merge[n] EXCEPT !.stale = merge[n].at # "idle"]]

\* The host refuses to delete a row that changed after the snapshot, and to
\* update a registry row that did.
HostAccepts(m) ==
    /\ ~merge[m].stale
    /\ \A r \in Row : merge[m].seen[r] # 0 => delta[r] = merge[m].seen[r]

\* The caller's transaction commits: the delta rows it sees are deleted, the
\* scenario is merged and frozen.
Close(m) ==
    /\ merge[m].at = "closing"
    /\ HostAccepts(m)
    /\ delta' = [r \in Row |-> IF merge[m].seen[r] # 0 THEN 0 ELSE delta[r]]
    /\ merged' = TRUE
    /\ frozen' = TRUE
    /\ RegistryChanged(m)
    /\ UNCHANGED <<clock, copies, tag>>

\* An error of either connection, a host conflict, or the end of the process:
\* what is not committed is gone.
Fail(m) ==
    /\ merge[m].at # "idle"
    /\ Stop(m)
    /\ UNCHANGED <<delta, clock, frozen, merged, copies, tag>>

Crash ==
    /\ \E m \in Merger : merge[m].at # "idle"
    /\ merge' = [m \in Merger |-> Idle]
    /\ UNCHANGED <<delta, clock, frozen, merged, copies, tag>>

-----------------------------------------------------------------------------
(* Meanwhile, in other sessions.                                           *)

\* A row inserted, or (keyed) replaced, through the attached scenario.
WriteRow(r) ==
    /\ ~frozen
    /\ clock < MaxWrites
    /\ clock' = clock + 1
    /\ delta' = [delta EXCEPT ![r] = clock']
    /\ UNCHANGED <<frozen, merged, copies, tag, merge>>

\* The scenario deletes its own row: a keyed I row vanishes.
RemoveRow(r) ==
    /\ ~frozen
    /\ delta[r] # 0
    /\ delta' = [delta EXCEPT ![r] = 0]
    /\ UNCHANGED <<clock, frozen, merged, copies, tag, merge>>

SetFrozen(value) ==
    /\ value \/ ~merged
    /\ frozen' = value
    /\ merge' = [n \in Merger |-> [merge[n] EXCEPT !.stale = merge[n].at # "idle"]]
    /\ UNCHANGED <<delta, clock, merged, copies, tag>>

Init ==
    /\ delta = Nothing
    /\ clock = 0
    /\ frozen = FALSE
    /\ merged = FALSE
    /\ copies = Nothing
    /\ tag = NoTag
    /\ merge = [m \in Merger |-> Idle]

Next ==
    \/ \E m \in Merger : \/ Start(m) \/ ReadDelta(m) \/ FindTag(m)
                         \/ CommitLake(m) \/ Close(m) \/ Fail(m)
    \/ Crash
    \/ \E r \in Row : WriteRow(r) \/ RemoveRow(r)
    \/ \E value \in BOOLEAN : SetFrozen(value)

Spec == Init /\ [][Next]_vars

-----------------------------------------------------------------------------
(* Properties.                                                             *)

Call == [at : {"idle", "reading", "looking", "applying", "closing"},
         seen : Delta, read : Delta, stale : BOOLEAN]

TypeOK ==
    /\ delta \in Delta
    /\ clock \in 0..MaxWrites
    /\ frozen \in BOOLEAN
    /\ merged \in BOOLEAN
    /\ copies \in [Row -> Nat]
    /\ tag \in Delta \cup {NoTag}
    /\ merge \in [Merger -> Call]

\* However often a merge fails and is called again, and whatever is written in
\* between, a row of the scenario reaches the lake at most once.
AppliedOnce == \A r \in Row : copies[r] <= 1

\* Closing a scenario discards nothing: what it removes from the delta is, in
\* the very version removed, in the lake.
NothingDiscarded ==
    [][merged' /\ ~merged =>
         \A r \in Row : delta'[r] # delta[r] => delta'[r] = 0 /\ tag # NoTag /\ tag[r] = delta[r]]_vars
=============================================================================
