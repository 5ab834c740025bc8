--------------------------- MODULE MCExportFilter ---------------------------
(* One account and one guest; the third ID and two changes come during the run. *)
EXTENDS ExportFilter

CONSTANTS u, g

Modes(p, m) == [t \in {"posts", "postmeta"} |-> IF t = "posts" THEN p ELSE m]

\* Both as they are by default; and posts without rows, but all of their meta.
MCModes ==
    { Modes("structure_and_data", "structure_and_data"), Modes("no_rows", "custom_rule") }

\* What Space gives a table that is cycled once too often.
MCCustom == {Modes("custom_rule", "structure_and_data")}
=============================================================================
