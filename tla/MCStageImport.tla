--------------------------- MODULE MCStageImport ---------------------------
(* Four table names: logs is on staging only, orders is new from live, posts   *)
(* and sessions are on both, and sessions is exported without rows.  Two       *)
(* imports, so that the second finds what the first one left.                  *)
EXTENDS StageImport

CONSTANTS posts, orders, logs, sessions

MCTables == {posts, orders, logs, sessions}
MCStageTables == {posts, logs, sessions}
MCExported == {posts, orders, sessions}
MCBucket == [t \in MCExported |-> CASE t = sessions -> 1 [] t = posts -> 2 [] t = orders -> 4]
============================================================================
