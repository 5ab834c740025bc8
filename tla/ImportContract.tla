--------------------------- MODULE ImportContract ---------------------------
(***************************************************************************)
(* What sync.Import promises its caller (internal/sync/sync.go): the       *)
(* previous rows of what it moved aside are given up only once the staging *)
(* tables are exactly the exported ones, and then the staging tables stay  *)
(* that way; it reports success only of such tables, and a rollback only   *)
(* while all rows are there.  StageImport shows how renames and drops      *)
(* provide this, and that every import ends.                               *)
(***************************************************************************)
VARIABLES
    status,  \* "importing", or how the last import ended
    stage,   \* the staging tables: "old" as they were, "new", or "between"
    safe     \* whether every row that was moved aside still exists

view == <<status, stage, safe>>

Init == status = "none" /\ stage # "between" /\ safe = TRUE

Begin ==
    /\ status # "importing"
    /\ status' = "importing"
    /\ stage' # "between" /\ safe' = TRUE

Change ==
    /\ status = "importing"
    /\ status' = status
    /\ stage' \in {"old", "new", "between"} /\ safe' \in BOOLEAN
    /\ safe' \/ stage' = "new"
    /\ ~ safe => UNCHANGED <<stage, safe>>

End ==
    /\ status = "importing"
    /\ status' \in {"ok", "restored", "error", "crashed"}
    /\ status' = "ok" => stage = "new"
    /\ status' = "restored" => safe
    /\ UNCHANGED <<stage, safe>>

Next == Begin \/ Change \/ End

Spec == Init /\ [][Next]_view
=============================================================================
