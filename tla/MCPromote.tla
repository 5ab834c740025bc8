----------------------------- MODULE MCPromote -----------------------------
(* One item that live has and one that a promote adds.                        *)
EXTENDS Promote

CONSTANTS theme, plugin
============================================================================
