# Verification of wp-stage-sync

TLA+ models of the parts of wp-stage-sync whose correctness depends on order,
failure and concurrency, the TLC runs that check them on small instances, and
TLAPS proofs for every instance. Paths below are relative to the repository;
line numbers are those of the modelled commit. `PROJECT.json` maps every
definition to the lines it stands for.

To repeat a check: `tlc -config MCPromote.cfg MCPromote.tla`; to repeat a proof:
`tlapm RunLockProofs.tla`.

## 1. The system

wp-stage-sync is one Go binary, started by a person (TUI), by cron
(`--unattended`) or with maintenance flags. It works on pairs of WordPress
sites on one server: *live* and *stage*. A second command, `cmd/release`, cuts
and ships releases of the program itself.

| Component (source) | State it keeps or changes | Operations | Hard behaviour |
|---|---|---|---|
| Run lock (`internal/config/lock.go`) | flocks on files named after webroots; the owner's process ID | `LockPaths`, `release` | processes interleave between two flocks; death and refusal half way |
| Sync run (`cmd/wp-stage-sync/main.go`, `internal/tui/tui.go` `runSync`, `internal/sync/*`) | staging database and `wp-content`; nothing about its own progress | preflight, export, import, neutralize, anonymize, rsync, path fixes, drop-in removal, WP-CLI post-processing | every step can fail; a killed run leaves live's keys or URLs on stage; the sites go on serving requests |
| Stage import (`internal/sync/sync.go` `Import`) | staging tables, numbered backup tables | move aside, load, drop or restore | no transaction spans the statements; the rollback can itself fail; leftovers of killed runs |
| Export filter (`internal/export`) | one read-only snapshot of live | `classify`, `Run` | a dozen queries while the shop sells; two order stores; swallowed errors |
| Promote and restore (`internal/promote`, `runPromote`, `runRestore`) | live's themes and plugins, archives and sidecars | back up, retention, copy, automatic restore, restore, list, delete | crash half way; retention by local time; `--delete`/`--reset` take no lock |
| Release tool (`cmd/release/main.go`, `internal/release`) | none of its own: git and GitHub are its state | cut, ship, resume | several maintainers, other people's pushes, CI and its failures, timeouts |
| TUI (`internal/tui/tui.go`, mode flags of `main.go`) | screen, cursor, lists read for the screens, the config in use (a pointer, sometimes into the list of saved sites) | keys, the message that ends a run, `--promote`, `--restore` | any order of keys; lists that other processes make stale; files that do not parse |
| Saved sites and discovery (`internal/config/config.go`, `internal/discovery/discovery.go`) | one folder per site name: `config.json`, backups; files of the old layout | name, load, save, list, delete, migrate; scan and pair webroots | a site's name depends on what is saved; saves are in place and not locked |
| Object cache rules (`objectcache.go`, `stagecache.go`, `w3tc.go`, `flushCache` of promote) | drop-ins and settings on stage; keys in a cache server that live uses too | isolation probe, flush plan, warning, flush | what is proved at the start must hold when the flush runs; flushes that reach more than one site |
| Integration rewriters (`neutralize.go`, `phpserial.go`, `w3tc.go`) | option values | parse and rewrite serialized settings | text formats |
| Guardrails, database connection, `settings.json`, parsing of web server configs, WP-CLI lookup, self update, news, progress, dry run | files or none | checks and I/O | little; see section 7 |

How they interact: a run takes both site locks, then calls its steps one after
the other in one goroutine; the components share state only through the two
sites (database, files, backups). Two processes meet only at the locks, at the
saved sites and their backups (`--delete`, `--reset`, a save and the migration at
every start do not lock) and at live, which changes at any time. The models follow these borders:

    RunMutex  <-- implemented by -- RunLock    "two runs never overlap"
                                       |
              assumed by SyncRun and Promote, which model one run at a time
                                       |
    ExportFilter --> StageImport --> SyncRun   the steps of a sync, from inside
                     implements      Promote
                     ImportContract
    Discovery <-- SavedSites <-- TuiNav        which run is started on which site
    ObjectCache                                the cache server under both of them
    ReleaseShip                                independent of the others

## 2. What each module models

**StageImport** – `Import`, `execImport`, `restoreBackups`, one SQL statement per
step (MySQL commits DDL by itself). Tables have rows with a provenance: whose
they are, and whether they are the old rows, a shell after `CREATE TABLE`, or
live's copy. `Begin` reads the leftovers of earlier runs, `ClearStale`,
`MoveAside`, `LoadSchema`, `LoadRows`, `Discard`, `RestoreDrop` and
`RestoreRename` are the loops, `MoveFails`, `LoadFails`, `ReturnError` their error
returns, `Crash` is the death of the process. The walk of a Go map is left open.

**ImportContract** is what a caller of `Import` relies on, in three variables: the
old rows are given up only when the staging tables are exactly the exported ones,
and then those stay; success is reported only of such tables, a rollback only while
every row that was moved aside is there. `StageImport` maps its tables, backup names and phases to
it (`NewTables`, `Status`, `Stage`, `Safe`).

**RunLock** – `LockPaths` and `release` between processes: path cleaning and
sorting (`LockOrder`), flock, truncate, write of the process ID, refusal with the
read of the owner's ID, unlocking one by one, and death, upon which the kernel
drops the flocks. Paths are numbers (their place in the sort); `Webroot` says
which folder a path resolves to. **RunMutex** is the abstract promise: both
webroots in one step or none.

**SyncRun** – `runUnattended` and `runSync` (they call the same steps), over an
abstract staging site: home host, forms of live's address still in the rows, API
keys, unmasked customers, cache settings, drop-in (`none`, `stage`'s own, `live`,
`raw`: live's with paths into live, `torn`: half written), config files. Each step
of the code is one action that may succeed, refuse, fail, or fail half way. A run that
the probe refuses puts the old drop-in back, and `outcome` tells whether that worked
(`refused`) or not (`unrestored`); the code says the same in both cases. `mem.known` is
what the run knows of live's drop-in: nothing, that its keys are apart, or that live has switched.
`PluginPutsBack` and `LiveSwitchesCache` are what the two sites do meanwhile.
`Crash` can follow any step. The import is coarser than in StageImport: only the
order of its groups of tables matters here.

**Promote** – `CreateBackup` (the archive under its final name, then the sidecar that lists its items),
`EnforceRetention`, `Execute`, `autoRestore`, `RestoreFromBackup`, `ListBackups`,
and `DeleteSite`/`ResetAllSites` from another process. Time is the local clock in
seconds, which names backups and can go back between runs (`MaxBack`).

**ExportFilter** – `Run`: each query of `classify` and each
dump is a step, the first one takes the snapshot, live goes on changing. Sites with and
without WooCommerce; both order stores, with and without compatibility copies; newest
or oldest orders; the table modes of posts and postmeta (`Mode`, `Exported`), the two filtered
tables whose mode a user can change. Queries whose error the code ignores set `swallowed`.

**ObjectCache** – the cache server under a sync and a promote: keys have a place
(server, database, prefix), a writer, and whether they are stale. `SharedObjectCache`,
`FlushPlan`, `OcpFlushPlan`, `CachePrefix`, `ReadDatabase` and `ScopedFlush` are the
code's rules per drop-in; `SwapDropIn`, `ProbeSet`, `ProbeGet` and `ProbeFails` the
preflight; `Rsync`, `FixLivePaths`, `PlanFlush`, `RunCommands` and `Flush` what the rest of
a sync does to the cache. Where a drop-in puts its keys and what its own flush
removes is external (`PlaceOf`, `Plain`), taken from the comments in `objectcache.go`.
So is `FallsBack`: while its server is away a drop-in may go on in PHP memory, so `wp cache set`
succeeds and `wp cache get` says "not found"; `unheard` remembers that the probe met this.
`Request` and `LiveSwitches` are the two sites meanwhile. The sync's steps are coarse
here; their failures are in SyncRun.

**ReleaseShip** – `cut` and `ship` in several clones. `readState` is one step per
source it asks, `PlanShip` is translated as it stands, `runStep` is one action per
step. GitHub (runs of `ci.yml` and `release.yml`), other people's pushes, pulls and
commits are the environment. `BusyClone` says whether a maintainer commits in the
clone where the tool is running.

**Discovery** – `Scan`, `ExtractDomain` and `PairSites` as operators. A webroot is the
sequence of its folder names, a folder name the sequence of its labels, so `stage.`
and a generic folder are what they are in the code. What the web servers' files
and the walk find are constants.

**SavedSites** – the files of `config.go`: `DomainFromPath` (with the legacy name),
`ListSites`, `Save` (in place: the old file, the new one, or half of one), `DeleteSites`
(config and backups may go or stay, each), `MigrateLegacyConfigs`, `HasBackups` and
`ListBackups`, which disagree on an archive without its sidecar.

**TuiNav** – one session of the interactive program: `Update` for one key is one step.
`Branch` is the order in which `Update` looks at a key (question about quitting, quit,
help, Esc, settings, screen); the actions of a screen have the names of its handler
(`StartupOpen`, `PairsSelect`, `UpdateConfirm` …), `GoBack` is `goBack`. `m.cfg` is modelled as
the pointer it is: `alias` says which entry of `savedSites` it points to, and
`WriteCfg` writes there. A panic is the step `crashed`. `StartTui`, `ResolveConfig` and
`RunWithMode` are the three starts; `OtherSaveBegin`, `OtherSaveEnd`, `OtherDelete` are other
processes; a promote's effect on the backups is `PromoteWorks`. `gone` is history: the
names this session deleted and nobody has selected or saved since. Opening an entry selects
its webroot, and so its other name, not the entry's own: after the deletion that name is on no list any more.

A definition named `Action_Word` is a faulty variant of `Action`. No specification
uses it; substituting it for `Action` makes the property it is listed with in
`PROJECT.json` fail, which shows that the property depends on that code.

## 3. What is checked

| Run | Bounds | Properties |
|---|---|---|
| `stage_import` | 4 tables (on both sides, only exported, only on stage, schema only), 2 imports | `OwnRows`: never another table's rows. `AsideSurvives`: the moved rows exist until every statement has run. `RollbackExact`, `ImportExact`: both results are exact, whatever earlier runs left. `ImportEnds`. `ImplementsContract`: refinement of ImportContract. |
| `run_lock` | 2 processes with 2 attempts each; pairs of paths that overlap, are swapped or name one path twice | `ExclusiveUse`. `NoMutualRefusal`: two runs never turn each other away. `AttemptEnds`: no attempt waits. `ImplementsMutex`: refinement of RunMutex. |
| `sync_run` | 2 integrations, 2 failures, refusals or crashes in all | `CodeRunsClean`: WP-CLI never loads staging's code with live's keys, live's paths, unmasked customers or a torn drop-in. `DropInProved`: nor with live's drop-in unless this very run has probed it or live switched since. `CompletedRunIsStage`, `NoCacheLeft`: a completed run is whole and stays so. `RefusalChangesNothing`: a refusal changed no row and no file; the drop-in is excepted where it could not be put back. `RerunRepairs`: reruns end with a whole site. |
| `promote` | 2 items, 3 seconds of clock, retention 2 | `ListedIsExact`: an offered backup brings back what was. `BackupHeld`: changed live can be brought back. `RestoredIsExact`. |
| `export_filter` | 1 account and 1 guest, 3 IDs, order count 1, 2 changes of live during the run, modes of posts and postmeta: the default, or posts without rows | `FitsTogether`: referential closure of the export. `NobodyElse`: no other customer's or order's rows. `TakesTheWanted`: the target set equals a reference definition; without WooCommerce, all rows. |
| `object_cache` | every drop-in, 3 prefixes of which one begins another, 2 databases, staging's values literal or computed, 1 switch of live's drop-in | `StageApart`: the sync's commands on staging do not write where live reads. `LiveKeysStay`: no step of a sync removes a key live uses. `StaleGone`: after a flush staging reads nothing from its old database. `ReadMeansWarned`: without a warning a purge in staging's admin cannot reach live's keys, if the values are literals. |
| `release_ship` | 2 clones, 3 commits, 1 failure, timeout, crash or failed workflow | `TagIsTestedRelease`: a pushed tag names the release commit of its version, on main, tested. `ShippedMeansOut`. `ResumeShips`: ship started again finishes. |
| `tui_nav` | 5 webroots (two pairs, one lone staging folder, all in `public_html`), on disk: nothing, one site saved under both its names, or one under its legacy name with 2 backups and one in the old layout; lists of 0 or 2 rows, 1 session, 1 save or delete by another process | `OneSitePerRun`: the databases, files, promote items and backup of a run belong to one site. `Drawable`: every screen has what it draws and indexes. `StaysDeleted`: a site deleted in a session is not saved again by it unless its webroot is selected anew. |

Each module's `TypeOK` is checked in the same run.

Some properties name exceptions where the code makes no promise or breaks its own.
`RefusalChangesNothing` does not speak of the drop-in if a plugin put it back, or if the
refusal could not put the old one back. `LiveKeysStay` excepts syncs in which live switches
to another drop-in after the preflight has looked. It and `StageApart` except syncs whose
probe met a cache server that was away; the flush of Memcached is then the only one that can
remove live's keys. Section 4 has these cases. Live's own values are literals in `object_cache`.

Why the bounds are enough: the protocols look at one earlier attempt at a time.
Two imports let the second meet every leftover of the first. Two lock owners are
all that a refusal involves. The proofs remove the bounds. Two faults let a
sync fail and its repair fail too. Three promotes fill a retention of two. With
three IDs an order, its refund and a competing order can exist, and an order can
arrive while the export runs. The cache rules compare two prefixes and two
databases, so one that begins the other and one pair of each kind are all the cases;
`wpredis` and `sqlite` are left out of the run because the module treats them as `redis`
and `docket`, `other` as `memcachedServer`. Three commits let two maintainers cut the same
version at once and a third commit overtake them; two releases in a row are
beyond this bound. In TuiNav one session is enough because a session remembers
nothing of an earlier one but the disk, and the initial disks hold what earlier
sessions leave; two saved sites are what a mix-up needs; one call of another
process puts a save or a delete between any two keys, and a save has two steps. Lists of two rows
have a first, a last and a page that is longer than the list. Bounds that cap counters (`MaxRuns`, `MaxAttempts`,
`MaxFaults`, `MaxClock`, `MaxId`, `MaxChanges`, `MaxCommits`, `MaxSwitches`, `MaxSessions`,
`MaxOthers`) stand in guards; `MaxBackups`, `MaxItems` and `MaxSections` bound sets of inputs.

`tui_nav` has a VIEW that leaves out what is written anew before it is read: the
lists of screens that cannot be reached without reading them again, and a config
in memory that only a new start or selection can replace. It keeps everything that a property reads
on the screens where it reads it, so no violation is hidden.

`CHECK_DEADLOCK FALSE` is set for StageImport and RunLock, which stop when their
attempts are used up, and for ExportFilter, which stops when its one export has
returned, and for TuiNav, where the last session ends. The other models never stop.

**Fairness.** StageImport, RunLock and SyncRun assume weak fairness of the steps of
a live process only: a statement or command returns, and (SyncRun) cron starts
the next run. No error, crash or outside step is fair. ReleaseShip assumes that a
maintainer starts ship again and accepts its plan infinitely often if asked
infinitely often (strong fairness of `Accept`, because a declined plan goes away),
and that GitHub's workflows end and failed ones are run again. Promote,
ExportFilter, ObjectCache and TuiNav have safety properties only: a person need not
press a key.

## 4. Where the code and its documentation differ

Each run below checks one sentence of the repository's documents and finds it
violated by the model of the code.

| Run | Sentence | What happens |
|---|---|---|
| `stage_import_as_before` | troubleshooting.md:10, "the staging tables are restored as they were" | a failing `RENAME` sends `Import` to `restoreBackups`, which drops all tables without the backup prefix, also those not moved yet: they are lost |
| `export_filter_custom_rule` | configuration.md:65, `custom_rule` is "the built-in rule for the tables listed below", which line 74 says include the order posts | `classify` filters posts and postmeta only in the mode `structure_and_data` (`export.go:251`); with `custom_rule`, which Space on the table list reaches, every order kept in posts is exported |
| `promote_clock` | README.md:23, a backup "before any changes" | after local time went back, retention deletes the backup just made |
| `tui_selected_site` | interactive.md:26, "Promote themes and plugins of the selected site" | Enter on site A, Esc, a pair for site B whose config is not found under the pair's name, Esc, `p` on A: `m.cfg` still points to A's entry of the list, which now holds B's paths, and B is promoted |

Others met while modelling, not checked by a run of their own. If the staging folder is
not named after the staging host, the run that repairs an interrupted one gives staging the
folder's name as its host (`sync.go:267`, against troubleshooting.md:11, rerun "repairs
staging, including a staging database that still holds live's URLs"): `StageHostKept` fails
with `DirHost = "other"`, is proved for `"stage"`, and `RerunRepairs` is checked with the folder named after the host. Two paths to one
folder (a symlink) are two locks (`lock.go:32`, against `lock.go:15`, "never write the
same site at once"): `OneWriterPerSite` fails as soon as `Webroot` is not injective, and is
proved if it is. A Redis database given by an expression counts as 0, so no warning
says that both sites share it (`stagecache.go:60`, against object-cache.md:110, "when a
value cannot be read, the backend counts as shared"): `SharedMeansWarned` fails with
`Computed = {"live"}`.

In the TUI: `PairSites` lists a staging folder without a live partner
(`discovery.go:311`), which servers.md:65 says is not listed; it can be chosen only as a
live site without staging, which is refused. `goBack` skips the order parameters
when WooCommerce shows only as a plugin folder (`tui.go:2163`). Esc on
the staging step of the folder browser goes back to the live step (interactive.md:60)
only after **Custom paths...** was chosen; where the browser is shown because no pairs
were found, it leaves for the home screen, or does nothing without saved sites
(`tui.go:2150`). Four panics end the program, none of them during a run: Enter on a saved site whose
`wp-config.php` does not parse (`tui.go:1081`: the credentials screen is drawn without it),
Space on an empty table list (`tui.go:1776`) or promote list (`tui.go:1227`), and a
saved file without `table_modes` (`tui.go:2062`). A site saved under its legacy name and chosen as a pair
does not get its saved options (`tui.go:1532` loads the pair's name, `Save` writes the
legacy one). HasBackups counts an archive without a sidecar, so `r` can open an
empty list.

About the object cache. A preflight that is refused after the swap says "Nothing on stage was
changed" (`objectcache.go:376-380`, and 291-294), also when its own `restore()` failed: the
errors of writing or removing the drop-in are ignored (`objectcache.go:349-358`, `w3tc.go:164-172`), and staging is
left with live's drop-in or a torn one. In SyncRun that is the outcome `unrestored`;
`RefusalChangesNothing` without its exception fails there. The probe takes "not found" as proof
(`objectcache.go:416-421`; object-cache.md:42, "The keys are separate"), which it is not
while the cache server is away and the drop-in falls back to memory: `StageApart` without
`~unheard` fails in seven steps, with both sites on one Memcached server and one prefix. What the flush at the end
of a promote spares is told in two ways. promote-and-restore.md:41 says "only live's keys", as do `promote.go:596-599`
and `objectcache.go:428-429`; line 44 of the same page says it "clears live's whole object cache. If staging shares that Redis database or
Memcached server, staging's cache is cleared too". The code does neither. With Redis, WP Redis, Hummingbird or Memcached
and prefixes that differ it removes live's keys only, on one database or server as well, and with Redis,
WP Redis or Hummingbird and no prefix it skips. But it does not look at staging's prefix, so
where live's prefix begins staging's it removes staging's keys too
(`objectcache.go:442`), and Object Cache Pro flushes the whole database. As the documents disagree no run checks
this; `PromoteKeepsStage` states what the code does and is proved (`PromoteSparesStage`).

In the other modules: with `BusyClone =
TRUE`, `TagIsTestedRelease` fails: a commit made in the clone while ship waits for
CI gets the tag (`cmd/release/main.go:394`; CONTRIBUTING.md:95 says "waits for CI,
tags"). With the object cache off, a plugin can put the drop-in back between its
removal and the change of the settings (`stagecache.go:177`, against
`objectcache.go:301`). A computed prefix
of live counts as empty in the plan of staging's flush. A drop-in that live gets
after the preflight is copied unproved (`objectcache.go:297`). The refusal of a
second run may print an earlier owner's process ID (`lock.go:54`). A restore that
cannot remove an added item reports success (`promote.go:429`). The export goes on
without an answer to two of its queries (`export.go:416`, `export.go:543`), and
then loses accounts with several roles or all orders.

## 5. What is proved

Each module below has its theorems in a module of its own (`StageImportProofs` for
`StageImport`, and so on). They hold for every value of the constants that the module's
named assumption allows (`ImportAssumption`, `LockAssumption` …): any finite set
of tables, any number of processes, runs, clones, items, IDs or failures. Where a
theorem assumes more, it says so in an `ASSUME` of its own, and the paragraph below
says why the code needs it. Every module has one inductive invariant `IInv`, a lemma
per action that keeps it, and the properties as its consequences.

*StageImport.* The inductive invariant `IInv` joins `TypeOK` and `OwnRows` with one
conjunct per phase: `Quiet` (a number without a backup has no table), `Clearing`,
`Moving` (a table in `todo` is untouched, one that left it is covered by a
backup; the next number is free because index + |todo| is bounded by the number
of tables), `Aside` (every moved table is under its backup name, or restored),
`AllCovered` (a failed *statement* implies that every table was moved – the
reason why `RollbackExact` holds for it and not for a failed `RENAME`), `Loading`,
`Discarding`, `Restoring`. From it: `OwnRowsHold`, `AsideAlwaysSurvives`,
`RollbackIsExact`, `ImportIsExact`, `TypesHold`.

`ImportKeepsContract` is the refinement of ImportContract. `IInv` gives the two facts
about states that the contract speaks of: while an import runs every old row is
under its own or its backup name (`Safe`), or the tables are the new ones and only
their backups are being dropped. `KeptInit` and `KeptStep` prove the second invariant that this takes, `Kept` (a table that
was moved aside had rows before, and the rollback keeps each of them under one of its names);
`SafeOrNew` is the contract's conjunct, from `IInv` and `Kept`; `InsideChanges` and `LeavingEnds` map the steps inside an import to `Change` or a stutter and the
steps out of it to `End`.

*RunLock.* `IInv` is `TypeOK`; `Owns` (the kernel's table of flocks and each run's
list agree); `Bookkeeping` (what a run has locked at each point of the code);
`Sorted`; `Refusals` (if s refused r, then s had locked, in that attempt, the path
r wanted next) and `Past`. Two runs that refused each other would each hold a
path at or before the one the other wants, against the sort: `NoMutualRefusalHolds`.
Further `ExclusiveUseHolds`, `NoLeakedLockHolds`, `TypesHold`,
`OneWriterPerSiteHolds` (if `Webroot` is injective: aliasing is the only gap), and
`LockImplementsMutex`, the refinement, with `using` mapped to the paths of the runs
that write: every step maps to `Enter`, `Leave` or a stutter.

*SyncRun.* Each step of a run makes one thing true of staging and the steps after it keep
it, so the conjuncts of `IInv` are tied to `pc`: `Hosted` (the host found for staging is not live's),
`AsFound` (nothing has changed until the preflights are over), `Keyless`, `Masked`, `CodeCopied`,
`DropInSettled`, `Proven` (live's drop-in, which rsync brings long after the probe, is the one that was probed unless live switched),
`CacheOff` (with the cache off nothing of it is left, but for what a plugin puts
back), `Replacing` (what the search-replaces have done so far) and
`CompletedRunIsStage` itself, which holds between runs too. They say nothing of the state
that a failed or killed run leaves, since no later run relies on it; that
is why a rerun repairs any of them. From them `CodeAlwaysRunsClean`, `CompletedRunIsStageHolds`,
`NoCacheIsLeft`, `DropInIsProved`, and the action property `RefusalsChangeNothing`, which also covers the refusals
that could not put the drop-in back: no row and no other file differs then. `StageHostIsKept` assumes `DirHost =
"stage"`: with a folder that is not named after the host it is false (section 4).

*Promote.* `TypesHold` needs nothing; the others assume `MaxBack = 0`, a clock that does
not go back between runs. The code needs that: it names backups by local time and keeps the
newest names, and `promote_clock` shows what happens otherwise. Then no backup has a name later than `ts`,
a new archive has a fresh name, and `NewestStays` says that retention keeps the newest:
the names later than it are fewer than `Keep`. That gives `BackupIsHeld`
through every failure and crash, `ListedBackupsAreExact`, `RestoresAreExact`, and with `BackupIsMadeFirst` the very
property that `promote_clock` refutes.

*ExportFilter.* `Snapshot`: once a query was asked there is a snapshot, sound as live itself always
is (a refund has its order, and so on), and live's later changes do not reach it. `Chosen`: only
orders and refunds of chosen orders are targets; `ChosenExactly`: they are the wanted ones as long as
no error was swallowed. `Known`: the accounts taken so far are those with rights and the customers of the
targets. `Dumped`: a table is still to dump or was dumped from the snapshot. `LimitedIsFirst` is `ORDER
BY … LIMIT n` without induction: in a sorted sequence of distinct IDs the first n are those with
fewer than n before them. The three properties follow: `ExportFitsTogether`, `OnlyTheirCustomers`,
`WantedIsTaken`.

*ReleaseShip.* `TInv` has the types and the facts about git that never change (a history
holds those of its commits, releases follow notes, main and tags name commits that exist). `Grows`: what git and GitHub have is not lost by any step – commits, main's
history, tags, passed runs, assets. So what a clone has read (`StillSo`) is still so when it acts on it, and a
step that the plan left out has been done (`Planned`). `TagIsTested` and
`ShippedIsOut` assume `BusyClone = FALSE`: ship tags the commit that the clone has checked out, which a
commit made there meanwhile changes, and with `BusyClone = TRUE` TLC finds the tag on an untested commit (section 4).

*ObjectCache.* What the preflight found out has to be true when the flush runs: `Probing` (the
probe's key waits where staging reads, if the server was there to take it), `Checked` (if it was, `KindApart`: the settings that the drop-in needs to
differ do; `ApartMeans` shows that this is the same as different places),
`Copied` and `Planned`. `FlushCovers`: a planned flush of staging removes every key that staging
can read, hence `NothingStale`. `FlushSpares`: it removes none that live reads with the
same drop-in, because its prefix does not begin live's, the databases or servers differ, or the drop-in removes its own
keys only. `LiveKeysAreKept` assumes that live's values are literals (`"live" \notin Computed`): a computed prefix counts
as empty in the plan, so staging's can begin it (section 4). `StageStaysApart` and `SharedIsWarned` hold for any
prefixes and databases, for drop-ins that change at any moment of a sync. `PromoteSparesStage` says how far the
flush of a promote reaches.

*TuiNav, SavedSites, Discovery.* `SitesArePaired` is about `PairSites` of any webroots: no folder is live in one
entry of the list and staging in another, each is in one entry only, a staging side is
named after its live side, and every name that was found is there, so that a root is left out only
for a later one of its name (servers.md:69).

The state of the TUI is read on one screen and used on another, so `IInv` is `TypeOK`, `StaysDeleted`,
`Offered`, and `Fits`, whose parts say on which screens which fields are up to date: `Working` (a promote or restore
has a live webroot, and one started by a flag works on no entry of the list), `SyncReady` (both `wp-config.php` files
are those of the config's paths), `Selected` (the config in use is of a webroot selected since any
deletion of its name), `PromoteReady` (assets and labels are of the config's paths), `InLists` (cursor
and marks are inside the list on the screen) and `Drawable`. `Offered` is what keeps a deleted site
deleted: no entry of the list in memory has a deleted name. `goBack` is the action that needs most of them, as it
leads to a screen whose lists were read earlier. From `IInv`: `TypesHold`, `AlwaysDrawable`, `DeletedStaysDeleted`.

The first attempt at `StaysDeleted` failed, and for a reason: a webroot saved under its legacy
name and under its own is two entries. Delete its own, open the legacy one and sync: `Save` writes the
legacy name only as long as its file is there, and after another process has deleted that too, the name deleted
first. TLC found the same in 12 steps once such a disk was among the
initial ones. The user did select that webroot anew, so the model now counts
opening an entry as a selection, as it did for pairs and custom paths.

`OneSiteRuns` assumes `DistinctNames`, no webroot is found under a name that another can be
saved under, and `OneOwner`, the disk at the start was saved under such names. The code needs
both: a restore lists the backups in the folder of a name (`ListBackups`), whoever made them, and
servers.md:69 says that webroots with one name share a configuration and that only one of them is to stay saved.
Plain folder names may still be shared (`public_html`), but the old name of a saved site
belongs to one. MCTuiNav assumes both of its constants, so TLC evaluates them. The invariant
added to `IInv` is `Owned`: the files, the backups and what another process is about to write
under one name are of one webroot; and `RestoreReady`: the backups on the screen are of the config's live webroot.

Only model-checked: the liveness properties (`ImportEnds`, `AttemptEnds`, `RerunRepairs`,
`ResumeShips`), since the prover has no rule for `ENABLED` and fairness; and the four runs of
section 4, which are refutations. Every invariant and action property of the passing
runs, and both refinements, are proved. `NoLeakedLock`, `OneWriterPerSite`, `StageHostKept` and `PromoteKeepsStage` are proved and not part of a run.

## 6. Plan

Written and proved: StageImport with ImportContract, RunLock with RunMutex, SyncRun, Promote,
ReleaseShip, ExportFilter, ObjectCache, and TuiNav with SavedSites and Discovery. To come:
ReleaseShip with two releases in a row in its run.

## 7. Not modelled

- In TuiNav: the values of the options, the folder browser's position, the news and
  all drawing that cannot fail. The runs of other processes do not make backups there;
  retention and the contents of backups are in Promote. Names are distinct, as
  servers.md:69 asks: two webroots that get one name, and a folder of the old layout
  shared by two sites, are not among the initial disks.
- Integration rewriters, web server configurations, `wp-config.php`: parsing of text formats; the
  runs see only that a rewrite or a check can fail.
- Guardrails: comparisons without state; part of `Begin` in SyncRun and Promote.
- Database connection, WP-CLI lookup, self update, news, progress: I/O.
- `settings.json`: written in place like the sites' files; every reader takes the
  defaults for a torn or missing one.
- Dry run: changes nothing.
- In Promote: chown and symlinks inside archives. In ObjectCache: W3 Total Cache's
  engines other than a network one, and several cache servers. In ReleaseShip: the deployment of the website, which cannot undo a release.
- Non-InnoDB tables in the export, which a snapshot does not cover.
