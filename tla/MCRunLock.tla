----------------------------- MODULE MCRunLock -----------------------------
(* Two processes over three paths.  The pairs overlap, are given in both      *)
(* orders, and include one path named twice.  Every path is its own folder.   *)
EXTENDS RunLock

CONSTANTS r1, r2

MCPaths == 1..3
MCPairs == {<<1, 2>>, <<2, 1>>, <<2, 3>>, <<3, 3>>}
MCOwnRoot == [p \in MCPaths |-> p]
============================================================================
