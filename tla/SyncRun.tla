------------------------------ MODULE SyncRun ------------------------------
(***************************************************************************)
(* One staging site and the syncs that run on it one after the other:      *)
(* runUnattended (cmd/wp-stage-sync/main.go) and runSync                   *)
(* (internal/tui/tui.go), which call the same steps in the same order.     *)
(* Every step can fail and the process can die anywhere; cron or the user  *)
(* then starts a new run.  RunLock shows why two runs never overlap, and   *)
(* StageImport is the import in detail.                                    *)
(*                                                                         *)
(* The staging site and the live site keep serving requests meanwhile: a   *)
(* cache plugin on staging can put its object cache drop-in back, and an   *)
(* administrator of live can switch live's object cache on or off.         *)
(***************************************************************************)
EXTENDS Naturals

CONSTANTS
    Integrations,  \* CDN and cache services whose keys live's options hold
    DirHost,       \* the staging folder's name, as a host
    MaxFaults      \* bound: failures, refusals and crashes in a behaviour

Hosts == {"stage", "live", "other"}

\* The forms of live's address in the rows, in the order they are replaced.
Forms == <<"https", "http", "bare", "path">>

ASSUME SyncAssumption ==
    /\ DirHost \in Hosts
    /\ MaxFaults \in Nat

VARIABLES
    rows,       \* the staging database
    files,      \* the staging wp-content
    liveCache,  \* live has an object cache drop-in that the preflight probes
    pc,         \* the step the run is about to take
    opts,       \* the site's config that the run uses
    mem,        \* the run's local variables
    outcome,    \* history: how the last run ended
    faults      \* failures, refusals and crashes so far

vars == <<rows, files, liveCache, pc, opts, mem, outcome, faults>>

PCs == {"idle", "hosts", "check", "readable", "cache", "probe", "export", "aside", "base",
        "users", "drop", "neutralize", "anonymize", "rsync", "chown", "paths",
        "dropin_off", "files_off", "rows_off", "post", "done"}

NoRows == [home |-> "none", links |-> {}, keys |-> {}, customers |-> FALSE,
           cacheOn |-> FALSE]

AllForms == {Forms[i] : i \in 1..4}

Options == [cacheOff : BOOLEAN, anonymize : BOOLEAN]

DropIns == {"none", "stage", "live", "raw", "torn"}

Rows == [home : Hosts \cup {"none"}, links : SUBSET AllForms,
         keys : SUBSET Integrations, customers : BOOLEAN, cacheOn : BOOLEAN]

Files == [code : {"stage", "mixed", "live"}, livePaths : BOOLEAN, dropIn : DropIns,
          cacheOn : BOOLEAN]

\* What a run keeps in memory: `stageHost`, the drop-in `old` that
\* PreflightObjectCache replaced, the tables the import has renamed, live's
\* cache setting as exported, and the next post-processing command.  The last
\* three are history: a plugin put its drop-in back; what the run knows of live's
\* drop-in (nothing, that its keys are apart from staging's, or nothing any more
\* because live has switched); and the staging site as the run found it, until
\* the last refusal.
NoMem ==
    [host |-> "none", old |-> "none", aside |-> NoRows, snapshot |-> FALSE,
     command |-> 1, putBack |-> FALSE, known |-> "none", found |-> <<>>]

Site == [rows |-> rows, files |-> files]

----------------------------------------------------------------------------
Init ==
    /\ rows \in {[NoRows EXCEPT !.home = "stage", !.cacheOn = c] : c \in BOOLEAN}
    /\ files \in [code : {"stage"}, livePaths : {FALSE}, dropIn : {"none", "stage"},
                  cacheOn : {FALSE}]
    /\ liveCache \in BOOLEAN
    /\ pc = "idle"
    /\ opts = [cacheOff |-> FALSE, anonymize |-> FALSE]
    /\ mem = NoMem
    /\ outcome = "none"
    /\ faults = 0

\* The run goes on with the step at pc `next`.
GotoWith(next, m) ==
    pc' = next /\ mem' = m /\ UNCHANGED <<opts, liveCache, outcome, faults>>

Goto(next) == GotoWith(next, mem)

\* The step returns an error: the run ends there.
Abort(how) ==
    /\ faults < MaxFaults
    /\ faults' = faults + 1
    /\ outcome' = how
    /\ pc' = "idle"
    /\ mem' = NoMem
    /\ UNCHANGED <<opts, liveCache>>

\* config.Load, LockPaths and the guardrails let a run begin.
Begin ==
    /\ pc = "idle"
    /\ opts' \in Options
    /\ pc' = "hosts"
    /\ mem' = [NoMem EXCEPT !.found = Site]
    /\ UNCHANGED <<rows, files, liveCache, outcome, faults>>

SiteHost == IF rows.home = "none" THEN DirHost ELSE rows.home

\* A name of the form Action_Word is a faulty variant of Action; no specification
\* uses it, it is there to show that a property can fail.
PickStageHost_AsRead == SiteHost

\* pickStageHost: a database that still holds live's URLs does not name the
\* staging host; the folder does.
PickStageHost == IF SiteHost # "live" THEN SiteHost ELSE DirHost

\* main.go:298-303.  A folder that is named after live's host is refused.
ReadHosts ==
    /\ pc = "hosts"
    /\ \/ /\ SiteHost # "live" \/ DirHost # "live"
          /\ GotoWith("check", [mem EXCEPT !.host = PickStageHost])
       \/ /\ SiteHost = "live" /\ DirHost = "live"
          /\ Abort("refused")
    /\ UNCHANGED <<rows, files>>

\* The two checks only read: the config files of both sites, and the settings
\* of live that Neutralize will have to rewrite.
PreflightIntegrations ==
    /\ pc = "check"
    /\ Goto("readable") \/ Abort("refused")
    /\ UNCHANGED <<rows, files>>

CheckNeutralize ==
    /\ pc = "readable"
    /\ Goto("cache") \/ Abort("refused")
    /\ UNCHANGED <<rows, files>>

----------------------------------------------------------------------------
\* PreflightObjectCache, by its three ways.
NoLiveCache ==
    /\ pc = "cache"
    /\ ~liveCache
    /\ Goto("export")
    /\ UNCHANGED <<rows, files>>

RemoveBefore ==
    /\ pc = "cache"
    /\ liveCache
    /\ opts.cacheOff
    /\ \/ files' = [files EXCEPT !.dropIn = "none"] /\ Goto("export")
       \/ files' \in {files, [files EXCEPT !.dropIn = "none"]} /\ Abort("failed")
    /\ UNCHANGED rows

\* Mutant: a drop-in on staging that is already live's is not probed again.
SwapDropIn_TrustsOld ==
    /\ pc = "cache"
    /\ liveCache
    /\ ~opts.cacheOff
    /\ files' = [files EXCEPT !.dropIn = "live"]
    /\ IF files.dropIn = "live" THEN Goto("export")
       ELSE GotoWith("probe", [mem EXCEPT !.old = files.dropIn, !.known = "none"])
    /\ UNCHANGED rows

\* checkOCPDatabases may refuse.  Then live's drop-in is written to stage, also
\* over the same one; a failed write can leave it torn.
SwapDropIn ==
    /\ pc = "cache"
    /\ liveCache
    /\ ~opts.cacheOff
    /\ \/ /\ files' = [files EXCEPT !.dropIn = "live"]
          /\ GotoWith("probe", [mem EXCEPT !.old = files.dropIn, !.known = "none"])
       \/ files' = files /\ Abort("refused")
       \/ files' \in {files, [files EXCEPT !.dropIn = "torn"]} /\ Abort("failed")
    /\ UNCHANGED rows

Isolated == [mem EXCEPT !.known = IF @ = "none" THEN "apart" ELSE @]

Probe_KeepsDropIn ==
    /\ pc = "probe"
    /\ files' = files
    /\ GotoWith("export", Isolated) \/ Abort("refused")
    /\ UNCHANGED rows

\* What restore() leaves when it cannot write or remove the drop-in; its files of
\* W3 Total Cache's configuration count as part of it.
Unrestored == {files} \cup IF mem.old = "none" THEN {} ELSE {[files EXCEPT !.dropIn = "torn"]}

\* checkCacheIsolation runs WP-CLI on both sites.  When it cannot prove that
\* the keys differ, restore() puts the old drop-in back.  Its errors are ignored:
\* the run is refused with the same words where it fails, which only the
\* outcome "unrestored" tells apart.
Probe ==
    /\ pc = "probe"
    /\ \/ GotoWith("export", Isolated) /\ files' = files
       \/ Abort("refused") /\ files' = [files EXCEPT !.dropIn = mem.old]
       \/ Abort("unrestored") /\ files' \in Unrestored
    /\ UNCHANGED rows

----------------------------------------------------------------------------
\* One snapshot of live.
Export ==
    /\ pc = "export"
    /\ \/ GotoWith("aside", [mem EXCEPT !.snapshot = liveCache, !.found = <<>>])
       \/ Abort("failed")
    /\ UNCHANGED <<rows, files>>

\* A failed import restores the old tables, or loses them.
ImportFails ==
    /\ pc \in {"base", "users"}
    /\ Abort("failed")
    /\ rows' \in {mem.aside, NoRows}
    /\ UNCHANGED files

MoveAside ==
    /\ pc = "aside"
    /\ rows' = NoRows
    /\ GotoWith("base", [mem EXCEPT !.aside = rows])
    /\ UNCHANGED files

\* The options table comes with the base tables, before the users.
LoadBase ==
    /\ pc = "base"
    /\ rows' = [home |-> "live", links |-> AllForms, keys |-> Integrations,
                customers |-> FALSE, cacheOn |-> mem.snapshot]
    /\ Goto("users")
    /\ UNCHANGED files

LoadUsers ==
    /\ pc = "users"
    /\ rows' = [rows EXCEPT !.customers = TRUE]
    /\ GotoWith("drop", [mem EXCEPT !.aside = NoRows])
    /\ UNCHANGED files

\* Live's data stays on staging when a backup table cannot be dropped.
DropBackups ==
    /\ pc = "drop"
    /\ Goto("neutralize") \/ Abort("failed")
    /\ UNCHANGED <<rows, files>>

Neutralize_GoesOn ==
    /\ pc = "neutralize"
    /\ rows' \in {rows, [rows EXCEPT !.keys = {}]}
    /\ Goto("anonymize")
    /\ UNCHANGED files

\* One integration after the other; the first error stops the run.
Neutralize ==
    /\ pc = "neutralize"
    /\ \/ \E k \in rows.keys :
             /\ rows' = [rows EXCEPT !.keys = @ \ {k}]
             /\ Goto("neutralize")
       \/ rows.keys = {} /\ rows' = rows /\ Goto("anonymize")
       \/ rows.keys # {} /\ rows' = rows /\ Abort("failed")
    /\ UNCHANGED files

Anonymize ==
    /\ pc = "anonymize"
    /\ \/ opts.anonymize /\ rows' = [rows EXCEPT !.customers = FALSE] /\ Goto("rsync")
       \/ ~opts.anonymize /\ rows' = rows /\ Goto("rsync")
       \/ opts.anonymize /\ rows' = rows /\ Abort("failed")
    /\ UNCHANGED files

----------------------------------------------------------------------------
\* What rsync leaves.  With the object cache off the drop-in is excluded, so
\* it is neither copied nor deleted.
Copied ==
    [code |-> "live", livePaths |-> TRUE, cacheOn |-> liveCache,
     dropIn |-> IF opts.cacheOff THEN files.dropIn
                ELSE IF liveCache THEN "raw" ELSE "none"]

Rsync ==
    /\ pc = "rsync"
    /\ \/ files' = Copied /\ Goto("chown")
       \/ files' \in {files, [Copied EXCEPT !.code = "mixed"],
                      [Copied EXCEPT !.code = "mixed", !.dropIn = files.dropIn]}
          /\ Abort("failed")
    /\ UNCHANGED rows

Chown ==
    /\ pc = "chown"
    /\ Goto("paths") \/ Abort("failed")
    /\ UNCHANGED <<rows, files>>

\* The drop-in comes as live's file and gets stage's paths.
Fixed(dropIn) == IF dropIn = "raw" THEN "live" ELSE dropIn

AfterPaths == IF opts.cacheOff THEN "dropin_off" ELSE "post"

FixLivePaths ==
    /\ pc = "paths"
    /\ \/ /\ files' = [files EXCEPT !.livePaths = FALSE, !.dropIn = Fixed(@)]
          /\ Goto(AfterPaths)
       \/ /\ files' \in {files, [files EXCEPT !.dropIn = Fixed(@)],
                         [files EXCEPT !.dropIn = IF @ = "raw" THEN "torn" ELSE @]}
          /\ Abort("failed")
    /\ UNCHANGED rows

\* DisableStageObjectCache: the drop-in first, then the settings.
RemoveAfter ==
    /\ pc = "dropin_off"
    /\ \/ files' = [files EXCEPT !.dropIn = "none"] /\ Goto("files_off")
       \/ files' \in {files, [files EXCEPT !.dropIn = "none"]} /\ Abort("failed")
    /\ UNCHANGED rows

SwitchOffFiles_Skips ==
    /\ pc = "files_off"
    /\ Goto("rows_off")
    /\ UNCHANGED <<rows, files>>

SwitchOffFiles ==
    /\ pc = "files_off"
    /\ \/ files' = [files EXCEPT !.cacheOn = FALSE] /\ Goto("rows_off")
       \/ files' = files /\ Abort("failed")
    /\ UNCHANGED rows

SwitchOffRows ==
    /\ pc = "rows_off"
    /\ \/ rows' = [rows EXCEPT !.cacheOn = FALSE] /\ Goto("post")
       \/ rows' = rows /\ Abort("failed")
    /\ UNCHANGED files

----------------------------------------------------------------------------
Replaced(r, form) ==
    [r EXCEPT !.links = @ \ {form}, !.home = IF form = "https" THEN mem.host ELSE @]

SearchReplace_SkipsBare ==
    /\ pc = "post"
    /\ mem.command <= 4
    /\ rows' = IF Forms[mem.command] = "bare" THEN rows ELSE Replaced(rows, Forms[mem.command])
    /\ GotoWith("post", [mem EXCEPT !.command = @ + 1])
    /\ UNCHANGED files

SearchReplace_OneMore ==
    /\ pc = "post"
    /\ mem.command <= 5
    /\ rows' = IF mem.command <= 4 THEN Replaced(rows, Forms[mem.command]) ELSE rows
    /\ GotoWith("post", [mem EXCEPT !.command = @ + 1])
    /\ UNCHANGED files

\* PostProcess runs the search-replaces in order, table by table, so one that
\* fails can have changed the options table already.  It refuses equal hosts.
SearchReplace ==
    /\ pc = "post"
    /\ mem.command <= 4
    /\ \/ /\ mem.host # "live"
          /\ rows' = Replaced(rows, Forms[mem.command])
          /\ GotoWith("post", [mem EXCEPT !.command = @ + 1])
       \/ /\ rows' \in {rows, [Replaced(rows, Forms[mem.command]) EXCEPT !.links = rows.links]}
          /\ Abort("failed")
    /\ UNCHANGED files

\* Jetpack safe mode must succeed; flushes and folder clears may fail.
OtherCommands ==
    /\ pc = "post"
    /\ mem.command = 5
    /\ Goto("done") \/ Abort("failed")
    /\ UNCHANGED <<rows, files>>

Finish ==
    /\ pc = "done"
    /\ pc' = "idle"
    /\ outcome' = "done"
    /\ mem' = NoMem
    /\ UNCHANGED <<rows, files, liveCache, opts, faults>>

\* The process dies: quit in the TUI, a signal, a lost machine.
Crash ==
    /\ pc \notin {"idle", "done"}
    /\ Abort("crashed")
    /\ UNCHANGED <<rows, files>>

----------------------------------------------------------------------------
\* A request to staging: a cache plugin that is switched on in its settings
\* writes its drop-in again.
PluginPutsBack ==
    /\ rows.home # "none"
    /\ rows.cacheOn \/ files.cacheOn
    /\ files.dropIn = "none"
    /\ files' = [files EXCEPT !.dropIn = "stage"]
    /\ mem' = [mem EXCEPT !.putBack = pc # "idle"]
    /\ UNCHANGED <<rows, liveCache, pc, opts, outcome, faults>>

LiveSwitchesCache ==
    /\ liveCache' = ~liveCache
    /\ mem' = IF pc = "idle" THEN mem ELSE [mem EXCEPT !.known = "switched"]
    /\ UNCHANGED <<rows, files, pc, opts, outcome, faults>>

Preflight ==
    \/ ReadHosts \/ PreflightIntegrations \/ CheckNeutralize
    \/ NoLiveCache \/ RemoveBefore \/ SwapDropIn \/ Probe

Import == MoveAside \/ LoadBase \/ LoadUsers \/ DropBackups \/ ImportFails

FileSteps == Rsync \/ Chown \/ FixLivePaths \/ RemoveAfter \/ SwitchOffFiles \/ SwitchOffRows

PostProcess == SearchReplace \/ OtherCommands

\* A step of the program.
Step ==
    \/ Begin \/ Preflight \/ Export \/ Import \/ Neutralize \/ Anonymize
    \/ FileSteps \/ PostProcess \/ Finish

Next == Step \/ Crash \/ PluginPutsBack \/ LiveSwitchesCache

\* Commands return, and cron starts the next run.
Spec == Init /\ [][Next]_vars /\ WF_vars(Step)

----------------------------------------------------------------------------
\* Types of the variables.
TypeOK ==
    /\ rows \in Rows
    /\ files \in Files
    /\ liveCache \in BOOLEAN
    /\ pc \in PCs
    /\ opts \in Options
    /\ mem \in [host : Hosts \cup {"none"}, old : DropIns, aside : Rows,
               snapshot : BOOLEAN, command : 1..5,
               putBack : BOOLEAN, known : {"none", "apart", "switched"},
               found : {<<>>} \cup [rows : Rows, files : Files]]
    /\ outcome \in {"none", "done", "refused", "unrestored", "failed", "crashed"}
    /\ faults \in 0..MaxFaults

\* docs/safety.md, "Live integrations on staging", and the order of the steps
\* in main.go:337-371: when post-processing runs WP-CLI on staging, live's
\* keys are gone, customers are masked if they have to be, no config or
\* drop-in points into live's folder, and the search-replace has two hosts.
\* It must hold whatever earlier runs left behind.
CodeRunsClean ==
    pc = "post" =>
        /\ rows.keys = {}
        /\ opts.anonymize => ~rows.customers
        /\ ~files.livePaths
        /\ files.dropIn \notin {"raw", "torn"}
        /\ mem.host # "live"

Synced ==
    /\ rows.home \notin {"live", "none"}
    /\ rows.links = {}
    /\ rows.keys = {}
    /\ opts.anonymize => ~rows.customers
    /\ files.code = "live"
    /\ ~files.livePaths

\* A run that completes leaves a whole staging site, and it stays whole until
\* the next run: nothing of live's identity is left.
CompletedRunIsStage ==
    pc = "done" \/ (pc = "idle" /\ outcome = "done") => Synced

\* With the object cache off, a completed run leaves no drop-in and no setting
\* that would bring it back, if no plugin brought it back during the run.
NoCacheLeft ==
    pc = "done" /\ opts.cacheOff /\ ~mem.putBack =>
        files.dropIn = "none" /\ ~files.cacheOn /\ ~rows.cacheOn

\* objectcache.go:392-394: if the two sites share keys, "any stage WP-CLI command
\* would write into live's cache".  Post-processing runs WP-CLI with live's
\* drop-in only if this very run has proved the keys apart, whatever a run that
\* died between the swap and the probe left; but for a live that switches.
DropInProved ==
    pc = "post" /\ files.dropIn = "live" => mem.known \in {"apart", "switched"}

Refused == {"refused", "unrestored"}

\* A preflight refusal says "Nothing on stage was changed" (objectcache.go:367
\* to 380), also on a staging site that an earlier run left half done.  That
\* much is true of the database and of all files but the drop-in.  The drop-in
\* is as it was too unless a plugin put it back, or restore() failed: that
\* refusal says the same and is wrong.
RefusalChangesNothing ==
    [][pc # "idle" /\ pc' = "idle" /\ outcome' \in Refused =>
        /\ rows' = mem.found.rows
        /\ [files' EXCEPT !.dropIn = "none"] = [mem.found.files EXCEPT !.dropIn = "none"]
        /\ ~mem.putBack /\ outcome' # "unrestored" =>
              files'.dropIn = mem.found.files.dropIn]_vars

\* docs/troubleshooting.md:11, "run the sync again; it starts from the
\* beginning and repairs staging": wherever a run failed or died, runs that
\* are started again end with a whole staging site under its own host, once
\* the failures stop.  (The folder is named after the staging host.)
RerunRepairs ==
    (outcome \in {"unrestored", "failed", "crashed"}) ~> (pc = "done" /\ Synced /\ rows.home = "stage")

\* The same page: the repair includes "a staging database that still holds
\* live's URLs", so a completed run leaves staging's own host in place, also
\* where the folder is not named after it.
StageHostKept == pc = "done" => rows.home = "stage"
============================================================================
