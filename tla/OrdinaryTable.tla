---------------------------- MODULE OrdinaryTable ----------------------------
(***************************************************************************)
(* What a scenario table promises its user: an ordinary table with a       *)
(* primary key.  Whatever a statement does takes effect when it ends, in   *)
(* one step, and is what a statement of its kind may do; or it fails and   *)
(* leaves the table as it was.                                             *)
(***************************************************************************)
CONSTANTS Key, Val, Null

VARIABLES
    rows,       \* the table: a value for each key, or Null
    statement   \* the kind of the running statement, or "idle"

Present == {k \in Key : rows[k] # Null}

Init ==
    /\ rows \in [Key -> Val \cup {Null}]
    /\ statement = "idle"

Begin ==
    /\ statement = "idle"
    /\ statement' \in {"INSERT", "UPDATE", "DELETE", "MERGE"}
    /\ UNCHANGED rows

Fail ==
    /\ statement' = "idle"
    /\ UNCHANGED rows

Ends(verb) == statement = verb /\ statement' = "idle"

\* INSERT: every new key is free.
Insert ==
    /\ Ends("INSERT")
    /\ \E S \in SUBSET (Key \ Present) : \E new \in [S -> Val] :
           rows' = [k \in Key |-> IF k \in S THEN new[k] ELSE rows[k]]

\* UPDATE: the rows of S move to new keys, which are theirs alone or were
\* vacated by the same statement.
Update ==
    /\ Ends("UPDATE")
    /\ \E S \in SUBSET Present : \E to \in [S -> Key], new \in [S -> Val] :
        /\ \A k, l \in S : to[k] = to[l] => k = l
        /\ \A k \in S : to[k] \in S \cup (Key \ Present)
        /\ rows' = [k \in Key |-> IF \E s \in S : to[s] = k
                                  THEN new[CHOOSE s \in S : to[s] = k]
                                  ELSE IF k \in S THEN Null ELSE rows[k]]

Delete ==
    /\ Ends("DELETE")
    /\ \E S \in SUBSET Present :
        rows' = [k \in Key |-> IF k \in S THEN Null ELSE rows[k]]

\* MERGE: rows go, rows come, rows change; each key still names one row.
Merge ==
    /\ Ends("MERGE")
    /\ rows' \in [Key -> Val \cup {Null}]

Next == Begin \/ Fail \/ Insert \/ Update \/ Delete \/ Merge

Spec == Init /\ [][Next]_<<rows, statement>>
=============================================================================
