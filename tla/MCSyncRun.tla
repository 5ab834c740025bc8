----------------------------- MODULE MCSyncRun -----------------------------
(* Two integrations, so that the cleanup can stop between them, and two       *)
(* faults, so that the run that repairs a failed one can fail as well.        *)
EXTENDS SyncRun

CONSTANTS cdn, cloudflare
============================================================================
