------------------------------ MODULE Promote ------------------------------
(***************************************************************************)
(* Promote and restore on one live site (internal/promote/promote.go,      *)
(* runPromote and runRestore in internal/tui/tui.go): back up the live     *)
(* items, drop old backups, copy the staging items to live, and put the    *)
(* backup back when a copy fails.  Both hold the site's locks (RunLock),   *)
(* so they run one at a time.  `wp-stage-sync --delete` and `--reset` take *)
(* no lock and can remove the backups at any moment.                       *)
(*                                                                         *)
(* A backup is named after the local time at which it was begun, in        *)
(* seconds; that time is also the name of what the promote copies.         *)
(***************************************************************************)
EXTENDS Integers, FiniteSets

CONSTANTS
    Items,      \* themes and plugins of the site
    OnLive,     \* the items that live has at first
    Keep,       \* backup_retention
    MaxClock,   \* bound: the last second of the wall clock
    MaxBack     \* by how many seconds local time can fall between two runs

ASSUME PromoteAssumption ==
    /\ OnLive \subseteq Items
    /\ Keep \in Nat \ {0}
    /\ MaxClock \in Nat
    /\ MaxBack \in Nat

Times == 1..MaxClock

Absent == -1        \* live does not have the item
Mixed == -2         \* a copy stopped half way
Original == 0
Contents == Times \cup {Absent, Mixed, Original}

\* An archive file.  An item that live did not have is not in it: Absent.
Archives == [state : {"none", "torn", "whole"}, held : [Items -> Contents]]

NoFile == [state |-> "none", held |-> [i \in Items |-> Absent]]
Torn == [state |-> "torn", held |-> [i \in Items |-> Absent]]

VARIABLES
    live,     \* what live has of each item
    tar,      \* <timestamp>.tar.gz, by timestamp
    meta,     \* <timestamp>.json: the items of the backup; none without the file
    clock,    \* the local time when the last promote began
    pc,       \* the step of the run
    items,    \* the items of the run: `items`, or `meta.Items` in a restore
    todo,     \* what the loop at hand has left: items, or backups to delete
    ts,       \* the backup that the run makes or restores
    tmp,      \* the extracted archive
    outcome,  \* how the last run ended
    liveAt,   \* history: live when the promote at a timestamp began
    wiped,    \* history: the backups were deleted since the run began
    residue   \* history: the run's restore could not remove an added item

history == <<liveAt, wiped, residue>>
vars == <<live, tar, meta, clock, pc, items, todo, ts, tmp, outcome, history>>

PCs == {"idle", "create", "archive", "sidecar", "retain", "copy", "load", "restore"}

\* ListBackups: both files are there.
Listed(t) == tar[t] # NoFile /\ meta[t] # {}

----------------------------------------------------------------------------
Init ==
    /\ live = [i \in Items |-> IF i \in OnLive THEN Original ELSE Absent]
    /\ tar = [t \in Times |-> NoFile]
    /\ meta = [t \in Times |-> {}]
    /\ clock = 0
    /\ pc = "idle"
    /\ items = {}
    /\ todo = {}
    /\ ts = 0
    /\ tmp = NoFile
    /\ outcome = "none"
    /\ liveAt = [t \in Times |-> live]
    /\ wiped = FALSE
    /\ residue = FALSE

\* The run ends; its local variables go.
End(how) ==
    /\ pc' = "idle"
    /\ outcome' = how
    /\ todo' = {}
    /\ tmp' = NoFile
    /\ UNCHANGED <<clock, items, ts, history>>

\* The run goes on at pc `next` with loop variable `left`.
GotoWith(next, left) ==
    /\ pc' = next
    /\ todo' = left
    /\ UNCHANGED <<clock, items, ts, outcome, liveAt, wiped>>

Goto(next, left) == GotoWith(next, left) /\ UNCHANGED residue

\* Locks and guardrails passed.  A user picks the items by hand, so no two
\* promotes begin in the same second.
BeginPromote(S) ==
    /\ pc = "idle"
    /\ \E now \in Times \ {clock} :
          /\ now >= clock - MaxBack
          /\ clock' = now
          /\ ts' = now
          /\ liveAt' = [liveAt EXCEPT ![now] = live]
    /\ pc' = "create"
    /\ items' = S
    /\ wiped' = FALSE
    /\ residue' = FALSE
    /\ outcome' = "running"
    /\ UNCHANGED <<live, tar, meta, todo, tmp>>

\* A name of the form Action_Word is a faulty variant of Action; no specification
\* uses it, it is there to show that a property can fail.
OpenArchive_ListsFirst ==
    /\ pc = "create"
    /\ tar' = [tar EXCEPT ![ts] = Torn]
    /\ meta' = [meta EXCEPT ![ts] = items]
    /\ Goto("archive", items)
    /\ UNCHANGED <<live, tmp>>

\* os.Create truncates a file of that name.
OpenArchive ==
    /\ pc = "create"
    /\ tar' = [tar EXCEPT ![ts] = Torn]
    /\ Goto("archive", items)
    /\ UNCHANGED <<live, meta, tmp>>

\* Live's copy of each item; items that live has not got are left out.
Archive ==
    [state |-> "whole", held |-> [i \in Items |-> IF i \in items THEN live[i] ELSE Absent]]

\* It goes to the open file, which may be deleted by now, and is synced.
WriteArchive ==
    /\ pc = "archive"
    /\ tar' = IF tar[ts] = NoFile THEN tar ELSE [tar EXCEPT ![ts] = Archive]
    /\ Goto("sidecar", {})
    /\ UNCHANGED <<live, meta, tmp>>

\* It cannot be written into a deleted folder.
WriteSidecar ==
    /\ pc = "sidecar"
    /\ tar[ts] # NoFile
    /\ meta' = [meta EXCEPT ![ts] = items]
    /\ Goto("retain", {})
    /\ UNCHANGED <<live, tar, tmp>>

\* An error up to here removes the archive and stops the promote.
BackupFails ==
    /\ pc \in {"create", "archive", "sidecar"}
    /\ tar' = IF pc = "create" THEN tar ELSE [tar EXCEPT ![ts] = NoFile]
    /\ End("no backup")
    /\ UNCHANGED <<live, meta>>

Archived == {t \in Times : tar[t] # NoFile}

Surplus_Newest ==
    {t \in Archived : Cardinality({u \in Archived : u < t}) >= Keep}

\* EnforceRetention counts archives, with or without a sidecar, and orders
\* them by name.
Surplus ==
    {t \in Archived : Cardinality({u \in Archived : u > t}) >= Keep}

\* Errors of the removals are ignored.
EnforceRetention ==
    /\ pc = "retain"
    /\ \E gone \in SUBSET Surplus :
          tar' = [t \in Times |-> IF t \in gone THEN NoFile ELSE tar[t]]
    /\ \E gone \in SUBSET Surplus :
          meta' = [t \in Times |-> IF t \in gone THEN {} ELSE meta[t]]
    /\ Goto("copy", items)
    /\ UNCHANGED <<live, tmp>>

Copy_NextName(i) ==
    /\ pc = "copy"
    /\ i \in todo
    /\ live' = [live EXCEPT ![i] = ts + 1]
    /\ Goto("copy", todo \ {i})
    /\ UNCHANGED <<tar, meta, tmp>>

\* rsync and chown of one item.
Copy(i) ==
    /\ pc = "copy"
    /\ i \in todo
    /\ live' = [live EXCEPT ![i] = ts]
    /\ Goto("copy", todo \ {i})
    /\ UNCHANGED <<tar, meta, tmp>>

\* The item is gone from staging, rsync stops half way, or chown fails.
CopyFails(i) ==
    /\ pc = "copy"
    /\ i \in todo
    /\ live' \in {live, [live EXCEPT ![i] = Mixed], [live EXCEPT ![i] = ts]}
    /\ Goto("load", {})
    /\ UNCHANGED <<tar, meta, tmp>>

Promoted ==
    /\ pc = "copy"
    /\ todo = {}
    /\ End("promoted")
    /\ UNCHANGED <<live, tar, meta>>

----------------------------------------------------------------------------
\* A backup chosen from the list; its sidecar was read for the list.
BeginRestore(t) ==
    /\ pc = "idle"
    /\ Listed(t)
    /\ pc' = "load"
    /\ items' = meta[t]
    /\ ts' = t
    /\ wiped' = FALSE
    /\ residue' = FALSE
    /\ outcome' = "restoring"
    /\ UNCHANGED <<live, tar, meta, clock, todo, tmp, liveAt>>

\* autoRestore reads the sidecar again, then RestoreFromBackup extracts.
Load ==
    /\ pc = "load"
    /\ tar[ts].state = "whole"
    /\ outcome = "running" => meta[ts] # {}
    /\ tmp' = tar[ts]
    /\ Goto("restore", items)
    /\ UNCHANGED <<live, tar, meta>>

\* No sidecar, no archive, a torn one, or no room to extract it.
LoadFails ==
    /\ pc = "load"
    /\ End(IF outcome = "running" THEN "inconsistent" ELSE "not restored")
    /\ UNCHANGED <<live, tar, meta>>

RestoreItem_Skips(i) ==
    /\ pc = "restore"
    /\ i \in todo
    /\ tmp.held[i] # Absent
    /\ Goto("restore", todo \ {i})
    /\ UNCHANGED <<live, tar, meta, tmp>>

\* rsync puts the archive's copy back.
RestoreItem(i) ==
    /\ pc = "restore"
    /\ i \in todo
    /\ tmp.held[i] # Absent
    /\ live' = [live EXCEPT ![i] = tmp.held[i]]
    /\ Goto("restore", todo \ {i})
    /\ UNCHANGED <<tar, meta, tmp>>

\* An item that the archive does not hold was added by the promote and is
\* removed; an error of RemoveAll is ignored.
RemoveAdded(i) ==
    /\ pc = "restore"
    /\ i \in todo
    /\ tmp.held[i] = Absent
    /\ \/ live' = [live EXCEPT ![i] = Absent] /\ UNCHANGED residue
       \/ /\ live[i] # Absent
          /\ live' \in {live, [live EXCEPT ![i] = Mixed]}
          /\ residue' = TRUE
    /\ GotoWith("restore", todo \ {i})
    /\ UNCHANGED <<tar, meta, tmp>>

\* rsync or chown fails; the items that are left are not restored.
RestoreFails(i) ==
    /\ pc = "restore"
    /\ i \in todo
    /\ tmp.held[i] # Absent
    /\ live' \in {live, [live EXCEPT ![i] = Mixed], [live EXCEPT ![i] = tmp.held[i]]}
    /\ End("inconsistent")
    /\ UNCHANGED <<tar, meta>>

Restored ==
    /\ pc = "restore"
    /\ todo = {}
    /\ End("restored")
    /\ UNCHANGED <<live, tar, meta>>

----------------------------------------------------------------------------
\* The process dies; the item at hand can be half copied.
Crash ==
    /\ pc # "idle"
    /\ \/ live' = live
       \/ /\ pc \in {"copy", "restore"}
          /\ \E i \in todo : live' = [live EXCEPT ![i] = Mixed]
    /\ End("crashed")
    /\ UNCHANGED <<tar, meta>>

\* config.DeleteSite and ResetAllSites, from another process.
DeleteBackups ==
    /\ tar' = [t \in Times |-> NoFile]
    /\ meta' = [t \in Times |-> {}]
    /\ wiped' = TRUE
    /\ UNCHANGED <<live, clock, pc, items, todo, ts, tmp, outcome, liveAt, residue>>

Step ==
    \/ OpenArchive \/ WriteArchive \/ WriteSidecar \/ EnforceRetention \/ Promoted
    \/ Load \/ Restored
    \/ \E i \in Items : Copy(i) \/ RestoreItem(i) \/ RemoveAdded(i)

Error == BackupFails \/ LoadFails \/ \E i \in Items : CopyFails(i) \/ RestoreFails(i)

Next ==
    \/ \E S \in (SUBSET Items) \ {{}} : BeginPromote(S)
    \/ \E t \in Times : BeginRestore(t)
    \/ Step \/ Error \/ Crash \/ DeleteBackups

Spec == Init /\ [][Next]_vars

----------------------------------------------------------------------------
\* Types of the variables.
TypeOK ==
    /\ live \in [Items -> Contents]
    /\ tar \in [Times -> Archives]
    /\ meta \in [Times -> SUBSET Items]
    /\ clock \in 0..MaxClock
    /\ pc \in PCs
    /\ items \in SUBSET Items
    /\ todo \in SUBSET Items
    /\ ts \in 0..MaxClock
    /\ tmp \in Archives
    /\ outcome \in {"none", "running", "restoring", "no backup", "promoted",
                    "inconsistent", "not restored", "restored", "crashed"}
    /\ liveAt \in [Times -> [Items -> Contents]]
    /\ wiped \in BOOLEAN
    /\ residue \in BOOLEAN

\* Backup t holds what live had when its promote began.
Exact(t) ==
    /\ tar[t].state = "whole"
    /\ \A i \in meta[t] : tar[t].held[i] = liveAt[t][i]

\* Every backup that the restore list offers brings back the site as it was
\* before its promote, whatever failed or died since: an archive counts only
\* once it is complete (promote.go:150-151), and is never overwritten.
ListedIsExact == \A t \in Times : Listed(t) => Exact(t)

\* From the first changed file of a promote to the start of the next run, live
\* can be brought back: this promote's backup has survived the retention, a
\* failed or killed copy, and a failed or killed automatic restore.
BackupHeld ==
    (/\ outcome \in {"running", "promoted", "inconsistent", "crashed"}
     /\ ~wiped
     /\ \E i \in Items : live[i] # liveAt[ts][i])
    => Listed(ts) /\ Exact(ts)

\* A restore that reports success has put every item of the backup back as it
\* was before that promote: what the promote had added is gone, and no item is
\* half copied; only a removal that failed silently can leave something.
RestoredIsExact ==
    outcome = "restored" /\ ~residue => \A i \in items : live[i] = liveAt[ts][i]

\* README.md:23, "Creates a tar.gz backup of live assets before any changes":
\* when the copy begins, the backup that a failed copy needs is there.
BackupBeforeChanges == pc = "copy" /\ ~wiped => Listed(ts)
============================================================================
