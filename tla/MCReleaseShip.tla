--------------------------- MODULE MCReleaseShip ---------------------------
(* Two maintainers' clones of the release tool's repository. *)
EXTENDS ReleaseShip, TLC

CONSTANTS m1, m2

MCClones == {m1, m2}
============================================================================
