---------------------------- MODULE ObjectCache ----------------------------
(***************************************************************************)
(* What a sync and a promote do to the object caches of live and staging   *)
(* (internal/sync/objectcache.go, stagecache.go and w3tc.go, the cache     *)
(* flush of postProcessCommands, and flushCache of promote.go). The two    *)
(* sites often use one cache server, and most drop-ins can only flush all  *)
(* of it. The sync proves before it starts that the two sites use          *)
(* different keys, and plans a flush that reaches staging's keys only.     *)
(*                                                                         *)
(* SyncRun has the same steps with the drop-in as a file; here they are    *)
(* seen from the cache server. Requests to both sites go on all the time,  *)
(* and an administrator of live may change live's drop-in during a sync.   *)
(* What a drop-in's own flush removes is external code, taken from the     *)
(* comments in objectcache.go.                                             *)
(***************************************************************************)
EXTENDS Naturals, Sequences, SequencesExt

CONSTANTS
    Kinds,        \* the drop-ins that live may have at first
    SwitchedTo,   \* those it may have later, or "none"
    KeyPrefixes,  \* key prefixes that the two wp-config.php may set
    Databases,    \* Redis database numbers, 0 among them
    Computed,     \* the sites whose values may be computed by PHP, not literals
    MaxSwitches   \* bound: changes of live's drop-in

Sites == {"live", "stage"}

\* detectObjectCache: the drop-ins it knows, and the rest.
AllKinds == {"redis", "litespeed", "ocp", "w3tc", "hummingbird", "wpredis", "memcached",
             "memcachedServer", "docket", "sqlite", "apcu", "other"}

ASSUME CacheAssumption ==
    /\ Kinds \subseteq AllKinds
    /\ SwitchedTo \subseteq AllKinds \cup {"none"}
    /\ <<>> \in KeyPrefixes /\ KeyPrefixes \subseteq Seq(STRING)
    /\ 0 \in Databases
    /\ Computed \subseteq Sites
    /\ MaxSwitches \in Nat

VARIABLES
    cfg,      \* the cache constants of each site's wp-config.php
    dropIn,   \* the drop-in of each site, or "none"
    instance, \* whose instance_id staging's W3 Total Cache files hold
    keys,     \* what the cache servers hold
    pc,       \* the step of the sync
    off,      \* the site's setting StageObjectCacheOff
    old,      \* PreflightObjectCache's copy of what it replaces on staging
    plan,     \* the planned flush of staging
    changed,  \* history: live's drop-in has changed since the sync began
    unheard,  \* history: a cache server was away when the probe needed it
    warned,   \* history: the sync has said that the backend is shared
    flushed,  \* history: the last sync has flushed and said nothing
    switches

vars ==
    <<cfg, dropIn, instance, keys, pc, off, old, plan, changed, unheard, warned, flushed, switches>>

config == <<cfg, switches>>
history == <<changed, unheard, warned, flushed>>

\* Where a site's keys are: the server, its database, and the prefix.
Place(server, db, prefix) == [server |-> server, db |-> db, prefix |-> prefix]

\* External: where each drop-in puts the keys of site s.  LiteSpeed and atec put
\* the database name into every key, W3 Total Cache its instance_id; its engine is
\* taken as one on the network, not as files or APC.
PlaceOf(kind, s) ==
    CASE kind \in {"docket", "sqlite"} -> Place(s, 0, <<>>)
      [] kind = "apcu"                 -> Place("php", 0, <<s>>)
      [] kind = "litespeed"            -> Place("redis", 0, <<s>>)
      [] kind = "w3tc"                 -> Place("redis", 0, <<IF s = "stage" THEN instance ELSE s>>)
      [] kind \in {"memcached", "memcachedServer"} -> Place("memcached", 0, cfg[s].prefix)
      [] kind \in {"redis", "ocp", "hummingbird", "wpredis", "other"} ->
             Place("redis", cfg[s].db, cfg[s].prefix)

\* The keys that site s itself reads.
Reads(s) == IF dropIn[s] = "none" THEN {} ELSE {PlaceOf(dropIn[s], s)}

\* An entry: where it is, who wrote it, and whether it comes from the staging
\* database before this sync was through with it.
Entry(s, stale) == {[at |-> p, of |-> s, stale |-> stale] : p \in Reads(s)}

Written(s) == Entry(s, s = "stage" /\ pc # "idle")

ProbeKey == {[at |-> p, of |-> "probe", stale |-> FALSE] : p \in Reads("stage")}

SameDatabase(p, q) == p.server = q.server /\ p.db = q.db

----------------------------------------------------------------------------
\* What each way to flush the cache of site s removes.
ByPrefix(s) ==
    {k \in keys : \E p \in Reads(s) : SameDatabase(k.at, p) /\ IsPrefix(p.prefix, k.at.prefix)}

ByDatabase(s) == {k \in keys : \E p \in Reads(s) : SameDatabase(k.at, p)}

\* External: `wp cache flush`, the drop-in's own flush().
Plain(s) ==
    CASE dropIn[s] \in {"none", "apcu"} -> {}
      [] dropIn[s] \in {"w3tc", "memcached"} -> {k \in keys : k.at \in Reads(s)}
      [] dropIn[s] = "hummingbird" /\ cfg[s].prefix # <<>> -> ByPrefix(s)
      [] OTHER -> ByDatabase(s)

Removes(s, how) ==
    CASE how = "prefix"   -> ByPrefix(s)
      [] how = "database" -> ByDatabase(s)
      [] how = "plain"    -> Plain(s)
      [] how = "skip"     -> {}

----------------------------------------------------------------------------
\* cachePrefix: a constant that is not a string literal counts as missing.
CachePrefix(s) == IF cfg[s].literal THEN cfg[s].prefix ELSE <<>>

\* A name of the form Action_Word is a faulty variant of Action; no specification
\* uses it, it is there to show that a property can fail.
FlushPlan_OwnPrefixOnly(kind, mine, other) ==
    CASE kind = "none" -> "plain"
      [] kind \in {"redis", "wpredis", "hummingbird"} ->
             IF mine = <<>> THEN "skip"
             ELSE IF kind = "hummingbird" THEN "plain" ELSE "prefix"
      [] kind = "litespeed" -> "prefix"
      [] kind \in {"w3tc", "memcached", "sqlite", "docket"} -> "plain"
      [] OTHER -> "skip"

\* IsPrefix(mine, other): staging's prefix would match live's keys too.
FlushPlan(kind, mine, other) ==
    CASE kind = "none" -> "plain"
      [] kind \in {"redis", "wpredis", "hummingbird"} ->
             IF mine = <<>> \/ IsPrefix(mine, other) THEN "skip"
             ELSE IF kind = "hummingbird" THEN "plain" ELSE "prefix"
      [] kind = "litespeed" -> "prefix"
      [] kind \in {"w3tc", "memcached", "sqlite", "docket"} -> "plain"
      [] OTHER -> "skip"

\* ocpFlushPlan: the database is read from an array of literals.
OcpFlushPlan == IF cfg["live"].literal THEN "database" ELSE "skip"

StagePlan(kind) ==
    IF kind = "ocp" THEN OcpFlushPlan
    ELSE FlushPlan(kind, CachePrefix("stage"), CachePrefix("live"))

\* ScopedFlushArgs knows one site only: the other prefix is "".
ScopedFlush(s) ==
    IF dropIn[s] \in {"none", "ocp"} THEN "plain"
    ELSE FlushPlan(dropIn[s], CachePrefix(s), <<>>)

\* checkOCPDatabases
OcpApart ==
    /\ \A s \in Sites : cfg[s].literal
    /\ cfg["live"].db # cfg["stage"].db

\* redisTarget: a value that is not a literal counts as the default.
ReadDatabase(s) == IF cfg[s].literal THEN cfg[s].db ELSE 0

SharedObjectCache_ByPrefix(kind) ==
    CASE kind \in {"docket", "sqlite", "apcu"} -> FALSE
      [] kind \in {"redis", "ocp", "hummingbird", "wpredis"} ->
             CachePrefix("live") = CachePrefix("stage")
      [] OTHER -> TRUE

SharedObjectCache(kind) ==
    CASE kind \in {"docket", "sqlite", "apcu"} -> FALSE
      [] kind \in {"redis", "hummingbird", "wpredis"} -> ReadDatabase("live") = ReadDatabase("stage")
      [] kind = "ocp" -> ~OcpApart
      [] OTHER -> TRUE

----------------------------------------------------------------------------
\* Live has run for a while, staging may have been synced before.
Init ==
    /\ cfg \in {c \in [Sites -> [prefix : KeyPrefixes, db : Databases, literal : BOOLEAN]] :
                   \A s \in Sites \ Computed : c[s].literal}
    /\ dropIn \in {d \in [Sites -> Kinds \cup {"none"}] : d["stage"] \in {"none", d["live"]}}
    /\ instance \in IF dropIn["stage"] = "w3tc" THEN {"live", "stage"} ELSE {"live"}
    /\ keys = {}
    /\ pc = "idle"
    /\ off = FALSE
    /\ old = <<"none", "live">>
    /\ plan = "skip"
    /\ changed = FALSE
    /\ unheard = FALSE
    /\ warned = FALSE
    /\ flushed = FALSE
    /\ switches = 0

\* The sync returns, and its local values are gone.
End ==
    /\ pc' = "idle"
    /\ off' = FALSE
    /\ old' = <<"none", "live">>
    /\ plan' = "skip"
    /\ changed' = FALSE
    /\ unheard' = FALSE
    /\ warned' = FALSE

Begin ==
    /\ pc = "idle"
    /\ pc' = "preflight"
    /\ off' \in BOOLEAN
    /\ flushed' = FALSE
    /\ UNCHANGED <<cfg, dropIn, instance, keys, old, plan, changed, unheard, warned, switches>>

\* PreflightObjectCache, by its ways.
NothingToCheck ==
    /\ pc = "preflight"
    /\ dropIn["live"] = "none"
    /\ pc' = "rsync"
    /\ UNCHANGED <<config, dropIn, instance, keys, off, old, plan, history>>

RemoveDropIn ==
    /\ pc = "preflight"
    /\ dropIn["live"] # "none"
    /\ off
    /\ dropIn' = [dropIn EXCEPT !["stage"] = "none"]
    /\ pc' = "rsync"
    /\ UNCHANGED <<config, instance, keys, off, old, plan, history>>

NotProbed ==
    /\ pc = "preflight"
    /\ ~off
    /\ dropIn["live"] = "apcu"
    /\ pc' = "rsync"
    /\ UNCHANGED <<config, dropIn, instance, keys, off, old, plan, history>>

Refuse ==
    /\ pc = "preflight"
    /\ ~off
    /\ dropIn["live"] = "ocp" /\ ~OcpApart
    /\ End
    /\ UNCHANGED <<config, dropIn, instance, keys, flushed>>

\* Live's drop-in, and for W3 Total Cache its configuration with an instance_id
\* of staging's own.
SwapDropIn ==
    /\ pc = "preflight"
    /\ ~off
    /\ LET kind == dropIn["live"] IN
         /\ kind \notin {"none", "apcu"}
         /\ kind = "ocp" => OcpApart
         /\ warned' = SharedObjectCache(kind)
         /\ old' = <<dropIn["stage"], instance>>
         /\ dropIn' = [dropIn EXCEPT !["stage"] = kind]
         /\ instance' = IF kind = "w3tc" THEN "stage" ELSE instance
    /\ pc' = "probe"
    /\ UNCHANGED <<config, keys, off, plan, changed, unheard, flushed>>

\* External: a boot of WordPress on staging.  Object Cache Pro may run its
\* integrity flush of the database.
Booted == IF dropIn["stage"] = "ocp" THEN {keys, keys \ ByDatabase("stage")} ELSE {keys}

\* External: a drop-in whose cache server does not answer may go on with the
\* memory of its PHP process.  A key that is set there is in no other process.
FallsBack(kind) == kind \notin {"none", "apcu", "docket", "sqlite"}

ProbeSet ==
    /\ pc = "probe"
    /\ \/ \E kept \in Booted : keys' = kept \cup ProbeKey /\ unheard' = unheard
       \/ FallsBack(dropIn["stage"]) /\ keys' = keys /\ unheard' = TRUE
    /\ pc' = "asklive"
    /\ UNCHANGED <<config, dropIn, instance, off, old, plan, changed, warned, flushed>>

Restore_OtherWayRound ==
    /\ dropIn' = [dropIn EXCEPT !["stage"] = old[2]]
    /\ instance' = old[1]
    /\ End
    /\ UNCHANGED <<config, flushed>>

\* The deferred delete of the probe key comes before restore.  One that fails
\* leaves a random key that nobody reads and that expires.  The errors of restore
\* and restoreW3TC are ignored, so either may leave what the probe put there.
Restore ==
    /\ dropIn' \in {[dropIn EXCEPT !["stage"] = old[1]], dropIn}
    /\ instance' \in {old[2], instance}
    /\ End
    /\ UNCHANGED <<config, flushed>>

Found == \E k \in ProbeKey \cap keys : k.at \in Reads("live")

\* "wp cache get" says "not found", also where live does not ask the server.
ProbeGet ==
    /\ pc = "asklive"
    /\ \/ ~Found /\ unheard' = unheard
       \/ FallsBack(dropIn["live"]) /\ unheard' = TRUE
    /\ keys' = keys \ ProbeKey
    /\ pc' = "rsync"
    /\ UNCHANGED <<config, dropIn, instance, off, old, plan, changed, warned, flushed>>

\* It is the probe's value, or anything fails.
ProbeFails ==
    /\ pc \in {"probe", "asklive"}
    /\ keys' = keys \ ProbeKey
    /\ Restore

----------------------------------------------------------------------------
\* The import makes everything that staging has cached stale, and the file sync
\* copies live's drop-in as it is now, and W3 Total Cache's configuration.
Rsync ==
    /\ pc = "rsync"
    /\ keys' = {[k EXCEPT !.stale = (k.of = "stage")] : k \in keys}
    /\ dropIn' = [dropIn EXCEPT !["stage"] = IF off THEN @ ELSE dropIn["live"]]
    /\ instance' = "live"
    /\ pc' = "fix"
    /\ UNCHANGED <<config, off, old, plan, history>>

FixLivePaths_KeepsInstance ==
    /\ pc = "fix"
    /\ dropIn' = [dropIn EXCEPT !["stage"] = IF off THEN "none" ELSE @]
    /\ pc' = "plan"
    /\ UNCHANGED <<config, instance, keys, off, old, plan, history>>

\* FixLivePaths, then DisableStageObjectCache if the cache is off.
FixLivePaths ==
    /\ pc = "fix"
    /\ instance' = "stage"
    /\ dropIn' = [dropIn EXCEPT !["stage"] = IF off THEN "none" ELSE @]
    /\ pc' = "plan"
    /\ UNCHANGED <<config, keys, off, old, plan, history>>

PlanFlush_ForLive ==
    /\ pc = "plan"
    /\ plan' \in {StagePlan(dropIn["live"]), "skip"}
    /\ pc' = "commands"
    /\ UNCHANGED <<config, dropIn, instance, keys, off, old, history>>

\* postProcessCommands.  The setting AutoCacheFlush may be off.
PlanFlush ==
    /\ pc = "plan"
    /\ plan' \in {StagePlan(dropIn["stage"]), "skip"}
    /\ pc' = "commands"
    /\ UNCHANGED <<config, dropIn, instance, keys, off, old, history>>

\* The search-replaces and the rest load WordPress on staging.
RunCommands ==
    /\ pc = "commands"
    /\ \E kept \in Booted : keys' = kept \cup Written("stage")
    /\ pc' = "flush"
    /\ UNCHANGED <<config, dropIn, instance, off, old, plan, history>>

\* The code for Object Cache Pro looks at the database once more.  A flush that
\* fails is a warning.  The commands after it only remove page cache files.
Flush ==
    /\ pc = "flush"
    /\ \/ /\ plan = "database" => cfg["stage"].db # cfg["live"].db
          /\ keys' = keys \ Removes("stage", plan)
          /\ flushed' = (plan # "skip")
       \/ UNCHANGED <<keys, flushed>>
    /\ End
    /\ UNCHANGED <<config, dropIn, instance>>

\* Any other step fails, or the process dies.
Stop ==
    /\ pc # "idle"
    /\ End
    /\ UNCHANGED <<config, dropIn, instance, keys, flushed>>

\* flushCache at the end of a promote or restore, which never runs beside a sync.
PromoteFlush ==
    /\ pc = "idle"
    /\ keys' = keys \ Removes("live", ScopedFlush("live"))
    /\ UNCHANGED <<config, dropIn, instance, pc, off, old, plan, history>>

----------------------------------------------------------------------------
\* Requests fill the cache.
Request(s) ==
    /\ ~(Written(s) \subseteq keys)
    /\ keys' = keys \cup Written(s)
    /\ UNCHANGED <<config, dropIn, instance, pc, off, old, plan, history>>

\* What live has cached until then is read by nobody.
LiveSwitches ==
    /\ pc # "idle"
    /\ switches < MaxSwitches
    /\ \E kind \in SwitchedTo \ {dropIn["live"]} :
          dropIn' = [dropIn EXCEPT !["live"] = kind]
    /\ keys' = {k \in keys : k.of # "live"}
    /\ switches' = switches + 1
    /\ changed' = TRUE
    /\ UNCHANGED <<cfg, instance, pc, off, old, plan, unheard, warned, flushed>>

Preflight ==
    \/ NothingToCheck \/ RemoveDropIn \/ NotProbed \/ Refuse \/ SwapDropIn
    \/ ProbeSet \/ ProbeGet \/ ProbeFails

Sync == Begin \/ Preflight \/ Rsync \/ FixLivePaths \/ PlanFlush \/ RunCommands \/ Flush \/ Stop

Next == Sync \/ PromoteFlush \/ LiveSwitches \/ \E s \in Sites : Request(s)

Spec == Init /\ [][Next]_vars

----------------------------------------------------------------------------
Places == UNION {[server : {"live", "stage"}, db : {0}, prefix : {<<>>}],
                 [server : {"php", "redis"}, db : {0}, prefix : {<<s>> : s \in Sites}],
                 [server : {"redis", "memcached"}, db : Databases, prefix : KeyPrefixes]}

\* Types of the variables.
TypeOK ==
    /\ cfg \in [Sites -> [prefix : KeyPrefixes, db : Databases, literal : BOOLEAN]]
    /\ dropIn \in [Sites -> AllKinds \cup {"none"}]
    /\ instance \in Sites
    /\ keys \subseteq [at : Places, of : Sites \cup {"probe"}, stale : BOOLEAN]
    /\ pc \in {"idle", "preflight", "probe", "asklive", "rsync", "fix", "plan", "commands", "flush"}
    /\ off \in BOOLEAN
    /\ old \in (AllKinds \cup {"none"}) \X Sites
    /\ plan \in {"plain", "prefix", "database", "skip"}
    /\ changed \in BOOLEAN
    /\ unheard \in BOOLEAN
    /\ warned \in BOOLEAN
    /\ flushed \in BOOLEAN
    /\ switches \in 0..MaxSwitches

UsedBy(s) == {k \in keys : k.of = s /\ k.at \in Reads(s)}

\* docs/object-cache.md:51, "only in a way that cannot reach live's keys": no
\* step of a sync removes what live has cached.  Excepted is a sync in which
\* live's drop-in has become another than staging's, and one that only the
\* preflight makes safe: the flush of Memcached if the probe asked a server that
\* was away, and both if live switched after it.
LiveKeysStay ==
    [][pc # "idle" /\ switches' = switches =>
        \/ UsedBy("live") \subseteq keys'
        \/ unheard /\ dropIn["stage"] = "memcached"
        \/ changed /\ (dropIn["live"] # dropIn["stage"] \/ dropIn["stage"] \in {"memcached", "ocp"})]_vars

\* objectcache.go:392-394: the sync's WP-CLI commands on staging do not write
\* where live reads, if every cache server answered while the probe asked:
\* "not found" proves nothing of a server that one of the two did not reach.
StageApart ==
    pc \in {"commands", "flush"} /\ ~changed /\ ~unheard => Reads("stage") \cap Reads("live") = {}

\* docs/object-cache.md:51, "at the end of the sync, the staging object cache is
\* flushed": after a sync whose flush gave no warning, staging reads nothing that
\* comes from its old database.
StaleGone == pc = "idle" /\ flushed => \A k \in UsedBy("stage") : ~k.stale

\* docs/object-cache.md:94-112, "when a value cannot be read, the backend counts
\* as shared" (:110) and is warned of: when no warning was given, a purge of the
\* whole backend in the staging admin does not reach live's keys.
SharedMeansWarned ==
    pc \in {"commands", "flush"} /\ ~changed /\ ~warned /\ dropIn["stage"] # "apcu" =>
        ByDatabase("stage") \cap UsedBy("live") = {}

\* The same where both files hold literal values.
ReadMeansWarned == (\A s \in Sites : cfg[s].literal) => SharedMeansWarned

\* promote.go:596-599, "with the same scope rules as the sync", and
\* docs/promote-and-restore.md:41, "only live's keys": where both sites use the
\* same drop-in and their keys are apart, the flush of live leaves staging's.
\* That is not so in two cases that ScopedFlushArgs does not look at, a live
\* prefix that begins staging's, and one database for Object Cache Pro.  The
\* same page says at :44 that the flush clears all of live's cache, and
\* staging's too on a shared Redis database or Memcached server; with prefixes
\* that differ the code clears neither.  The documents disagree with one
\* another, so no run checks this: a theorem says what the code does.
PromoteKeepsStage ==
    [][pc = "idle" /\ pc' = "idle" /\ switches' = switches
        /\ dropIn["live"] = dropIn["stage"] /\ Reads("stage") \cap Reads("live") = {} =>
            \/ UsedBy("stage") \subseteq keys'
            \/ IsPrefix(cfg["live"].prefix, cfg["stage"].prefix)
            \/ dropIn["live"] = "ocp" /\ ~OcpApart]_vars
============================================================================
