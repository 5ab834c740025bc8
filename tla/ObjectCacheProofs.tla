------------------------- MODULE ObjectCacheProofs -------------------------
(***************************************************************************)
(* Proofs about ObjectCache, for any drop-ins, key prefixes and databases: *)
(* what the preflight has proved about the two sites' keys still holds     *)
(* when the sync runs its commands on staging and flushes, unless live     *)
(* gets another drop-in meanwhile or a cache server was away at the probe. *)
(***************************************************************************)
EXTENDS ObjectCache, SequenceTheorems, TLAPS

\* The preflight has passed.
AfterCheck == {"rsync", "fix", "plan", "commands", "flush"}

\* Staging has its own settings again.
AfterFix == {"plan", "commands", "flush"}

RedisKinds == {"redis", "ocp", "hummingbird", "wpredis", "other"}
MemcachedKinds == {"memcached", "memcachedServer"}

\* With this drop-in the two sites have different keys, once staging has an
\* instance_id of its own.
KindApart(kind) ==
    /\ kind \in MemcachedKinds => cfg["live"].prefix # cfg["stage"].prefix
    /\ kind \in RedisKinds =>
         cfg["live"].prefix # cfg["stage"].prefix \/ cfg["live"].db # cfg["stage"].db

----------------------------------------------------------------------------
\* Values that cannot be computed are literals.
Literals == \A s \in Sites \ Computed : cfg[s].literal

\* Live caches nothing from staging's old database.
Fresh == \A k \in keys : k.of = "live" => ~k.stale

\* The probe runs on live's drop-in with staging's settings, and its key waits
\* if the server was there to take it.
Probing ==
    pc \in {"probe", "asklive"} =>
        /\ ~off
        /\ dropIn["stage"] \notin {"none", "apcu"}
        /\ dropIn["stage"] = "ocp" => OcpApart
        /\ dropIn["stage"] = "w3tc" => instance = "stage"
        /\ ~changed => /\ dropIn["live"] = dropIn["stage"]
                       /\ warned = SharedObjectCache(dropIn["live"])
        /\ pc = "asklive" /\ ~unheard => ProbeKey \subseteq keys

\* What the preflight has found out about live's drop-in.
Checked ==
    pc \in AfterCheck /\ ~off /\ ~changed =>
        /\ ~unheard => KindApart(dropIn["live"])
        /\ dropIn["live"] = "ocp" => OcpApart
        /\ dropIn["live"] \notin {"none", "apcu"} => warned = SharedObjectCache(dropIn["live"])

\* What the file sync and the path fixes have done to staging.
Copied ==
    /\ pc = "fix" \/ pc \in AfterFix =>
         (~off /\ ~changed => dropIn["stage"] = dropIn["live"])
    /\ pc \in AfterFix => instance = "stage" /\ (off => dropIn["stage"] = "none")

\* The plan is one for the drop-in that staging has.
Planned == pc \in {"commands", "flush"} => plan \in {StagePlan(dropIn["stage"]), "skip"}

\* The inductive invariant.
IInv ==
    /\ TypeOK /\ Literals /\ Fresh /\ Probing /\ Checked /\ Copied /\ Planned
    /\ pc # "idle" => ~flushed
    /\ StaleGone

----------------------------------------------------------------------------
\* What the types say of the two sites.
LEMMA SiteTypes ==
    ASSUME TypeOK, NEW s \in Sites
    PROVE  /\ cfg[s].prefix \in KeyPrefixes /\ cfg[s].db \in Databases /\ cfg[s].literal \in BOOLEAN
           /\ dropIn[s] \in AllKinds \cup {"none"} /\ instance \in Sites
           /\ Len(cfg[s].prefix) \in Nat
<1>1. cfg[s] \in [prefix : KeyPrefixes, db : Databases, literal : BOOLEAN]
  BY DEF TypeOK
<1>2. cfg[s].prefix \in Seq(STRING)
  BY <1>1, CacheAssumption
<1> QED BY <1>1, <1>2, LenProperties DEF TypeOK

\* PlaceOf, kind by kind.
LEMMA PlaceOfKind ==
    ASSUME NEW kind, NEW s
    PROVE  /\ kind \in {"docket", "sqlite"} => PlaceOf(kind, s) = Place(s, 0, <<>>)
           /\ kind = "apcu" => PlaceOf(kind, s) = Place("php", 0, <<s>>)
           /\ kind = "litespeed" => PlaceOf(kind, s) = Place("redis", 0, <<s>>)
           /\ kind = "w3tc" =>
                PlaceOf(kind, s) = Place("redis", 0, <<IF s = "stage" THEN instance ELSE s>>)
           /\ kind \in MemcachedKinds => PlaceOf(kind, s) = Place("memcached", 0, cfg[s].prefix)
           /\ kind \in RedisKinds => PlaceOf(kind, s) = Place("redis", cfg[s].db, cfg[s].prefix)
<1>1. CASE kind \in {"docket", "sqlite"}
  BY <1>1 DEF PlaceOf, MemcachedKinds, RedisKinds
<1>2. CASE kind = "apcu"
  BY <1>2 DEF PlaceOf, MemcachedKinds, RedisKinds
<1>3. CASE kind = "litespeed"
  BY <1>3 DEF PlaceOf, MemcachedKinds, RedisKinds
<1>4. CASE kind = "w3tc"
  BY <1>4 DEF PlaceOf, MemcachedKinds, RedisKinds
<1>5. CASE kind \in MemcachedKinds
  BY <1>5 DEF PlaceOf, MemcachedKinds, RedisKinds
<1>6. CASE kind \in RedisKinds
  BY <1>6 DEF PlaceOf, MemcachedKinds, RedisKinds
<1> QED BY <1>1, <1>2, <1>3, <1>4, <1>5, <1>6

LEMMA KindCases ==
    \A kind \in AllKinds :
        \/ kind \in {"docket", "sqlite"} \/ kind = "apcu" \/ kind = "litespeed" \/ kind = "w3tc"
        \/ kind \in MemcachedKinds \/ kind \in RedisKinds
BY DEF AllKinds, MemcachedKinds, RedisKinds

LEMMA PlaceType ==
    ASSUME TypeOK, NEW kind \in AllKinds, NEW s \in Sites
    PROVE  PlaceOf(kind, s) \in Places
<1>1. /\ cfg[s].prefix \in KeyPrefixes /\ cfg[s].db \in Databases /\ instance \in Sites
      /\ <<>> \in KeyPrefixes /\ 0 \in Databases
  BY SiteTypes, CacheAssumption
<1>2. /\ [server : {"live", "stage"}, db : {0}, prefix : {<<>>}] \subseteq Places
      /\ [server : {"php", "redis"}, db : {0}, prefix : {<<t>> : t \in Sites}] \subseteq Places
      /\ [server : {"redis", "memcached"}, db : Databases, prefix : KeyPrefixes] \subseteq Places
  BY DEF Places
<1>3. CASE kind \in {"docket", "sqlite"}
  <2>1. PlaceOf(kind, s) \in [server : {"live", "stage"}, db : {0}, prefix : {<<>>}]
    BY <1>3, PlaceOfKind DEF Place, Sites
  <2> QED BY <1>2, <2>1
<1>4. CASE kind \in {"apcu", "litespeed", "w3tc"}
  <2>1. PICK t \in Sites : PlaceOf(kind, s) \in {Place("php", 0, <<t>>), Place("redis", 0, <<t>>)}
    BY <1>1, <1>4, PlaceOfKind
  <2>2. PlaceOf(kind, s) \in [server : {"php", "redis"}, db : {0}, prefix : {<<u>> : u \in Sites}]
    BY <2>1 DEF Place
  <2> QED BY <1>2, <2>2
<1>5. CASE kind \in MemcachedKinds \cup RedisKinds
  <2>1. PlaceOf(kind, s) \in [server : {"redis", "memcached"}, db : Databases, prefix : KeyPrefixes]
    BY <1>1, <1>5, PlaceOfKind DEF Place
  <2> QED BY <1>2, <2>1
<1> QED BY <1>3, <1>4, <1>5, KindCases

Entries == [at : Places, of : Sites \cup {"probe"}, stale : BOOLEAN]

LEMMA EntryTypes ==
    ASSUME TypeOK, NEW s \in Sites
    PROVE  /\ Reads(s) \subseteq Places
           /\ Written(s) \subseteq Entries /\ ProbeKey \subseteq Entries
           /\ \A k \in Written(s) : k.of = s /\ k.stale = (s = "stage" /\ pc # "idle")
           /\ \A k \in ProbeKey : k.of = "probe"
<1>1. \A t \in Sites : Reads(t) \subseteq Places
  BY PlaceType, SiteTypes DEF Reads
<1>2. "stage" \in Sites /\ (s = "stage" /\ pc # "idle") \in BOOLEAN
  BY DEF Sites
<1>3. \A p \in Places, b \in BOOLEAN : [at |-> p, of |-> s, stale |-> b] \in Entries
  BY DEF Entries
<1>4. \A p \in Places : [at |-> p, of |-> "probe", stale |-> FALSE] \in Entries
  BY DEF Entries
<1>5. Written(s) = {[at |-> p, of |-> s, stale |-> (s = "stage" /\ pc # "idle")] : p \in Reads(s)}
  BY DEF Written, Entry
<1>6. \A k \in Written(s) : \E p \in Reads(s) :
        k = [at |-> p, of |-> s, stale |-> (s = "stage" /\ pc # "idle")]
  BY <1>5
<1>7. Written(s) \subseteq Entries
  BY <1>1, <1>2, <1>3, <1>6
<1>8. \A k \in Written(s) : k.of = s /\ k.stale = (s = "stage" /\ pc # "idle")
  BY <1>6
<1>9. \A k \in ProbeKey : \E p \in Reads("stage") : k = [at |-> p, of |-> "probe", stale |-> FALSE]
  BY DEF ProbeKey
<1>10. ProbeKey \subseteq Entries /\ \A k \in ProbeKey : k.of = "probe"
  BY <1>1, <1>2, <1>4, <1>9
<1> QED BY <1>1, <1>7, <1>8, <1>10

\* What a site reads stays the same with its settings.
LEMMA ReadsKept ==
    ASSUME UNCHANGED <<cfg, dropIn, instance>>, NEW s
    PROVE  Reads(s)' = Reads(s) /\ ProbeKey' = ProbeKey
BY DEF Reads, PlaceOf, ProbeKey

\* The places differ just where the code's rules take them to differ.
LEMMA ApartMeans ==
    ASSUME TypeOK, NEW kind \in AllKinds, kind = "w3tc" => instance = "stage"
    PROVE  KindApart(kind) <=> PlaceOf(kind, "stage") # PlaceOf(kind, "live")
<1> DEFINE P == PlaceOf(kind, "stage")
           Q == PlaceOf(kind, "live")
<1>1. CASE kind \in {"docket", "sqlite"}
  <2>1. P = Place("stage", 0, <<>>) /\ Q = Place("live", 0, <<>>)
    BY <1>1, PlaceOfKind
  <2>2. P # Q
    BY <2>1 DEF Place
  <2> QED BY <1>1, <2>2 DEF KindApart, MemcachedKinds, RedisKinds
<1>2. CASE kind \in {"apcu", "litespeed", "w3tc"}
  <2>1. <<"stage">> # <<"live">>
    <3>1. <<"stage">>[1] = "stage" /\ <<"live">>[1] = "live"
      OBVIOUS
    <3> QED BY <3>1
  <2>2. \E server : P = Place(server, 0, <<"stage">>) /\ Q = Place(server, 0, <<"live">>)
    BY <1>2, PlaceOfKind
  <2>3. P # Q
    BY <2>1, <2>2 DEF Place
  <2> QED BY <1>2, <2>3 DEF KindApart, MemcachedKinds, RedisKinds
<1>3. CASE kind \in MemcachedKinds
  <2>1. /\ P = Place("memcached", 0, cfg["stage"].prefix)
        /\ Q = Place("memcached", 0, cfg["live"].prefix)
    BY <1>3, PlaceOfKind
  <2>2. P = Q <=> cfg["stage"].prefix = cfg["live"].prefix
    BY <2>1 DEF Place
  <2> QED BY <1>3, <2>2 DEF KindApart, MemcachedKinds, RedisKinds
<1>4. CASE kind \in RedisKinds
  <2>1. /\ P = Place("redis", cfg["stage"].db, cfg["stage"].prefix)
        /\ Q = Place("redis", cfg["live"].db, cfg["live"].prefix)
    BY <1>4, PlaceOfKind
  <2>2. P = Q <=> cfg["stage"].prefix = cfg["live"].prefix /\ cfg["stage"].db = cfg["live"].db
    BY <2>1 DEF Place
  <2> QED BY <1>4, <2>2 DEF KindApart, MemcachedKinds, RedisKinds
<1> QED BY <1>1, <1>2, <1>3, <1>4, KindCases

----------------------------------------------------------------------------
\* The plans of a flush.
LEMMA FlushPlanKind ==
    ASSUME NEW kind \in AllKinds \cup {"none"}, NEW mine, NEW other
    PROVE  LET how == FlushPlan(kind, mine, other) IN
           /\ how \in {"plain", "prefix", "skip"}
           /\ kind \in {"redis", "wpredis"} /\ how # "skip" =>
                how = "prefix" /\ mine # <<>> /\ ~IsPrefix(mine, other)
           /\ kind = "hummingbird" /\ how # "skip" =>
                how = "plain" /\ mine # <<>> /\ ~IsPrefix(mine, other)
           /\ kind = "litespeed" => how = "prefix"
           /\ kind \in {"none", "w3tc", "memcached", "sqlite", "docket"} => how = "plain"
           /\ kind \in {"ocp", "apcu", "memcachedServer", "other"} => how = "skip"
<1>1. CASE kind \in {"redis", "wpredis", "hummingbird"}
  BY <1>1 DEF FlushPlan
<1>2. CASE kind \in {"none", "litespeed", "w3tc", "memcached", "sqlite", "docket"}
  BY <1>2 DEF FlushPlan
<1>3. CASE kind \in {"ocp", "apcu", "memcachedServer", "other"}
  BY <1>3 DEF FlushPlan
<1> QED BY <1>1, <1>2, <1>3 DEF AllKinds

LEMMA StagePlanType ==
    ASSUME TypeOK, NEW kind \in AllKinds \cup {"none"}
    PROVE  StagePlan(kind) \in {"plain", "prefix", "database", "skip"}
<1>1. CASE kind = "ocp"
  BY <1>1 DEF StagePlan, OcpFlushPlan
<1>2. CASE kind # "ocp"
  BY <1>2, FlushPlanKind DEF StagePlan
<1> QED BY <1>1, <1>2

LEMMA LiteralPrefix ==
    ASSUME NEW s
    PROVE  /\ CachePrefix(s) # <<>> => cfg[s].literal /\ CachePrefix(s) = cfg[s].prefix
           /\ cfg[s].literal => CachePrefix(s) = cfg[s].prefix
BY DEF CachePrefix

LEMMA PrefixFacts ==
    /\ \A p : Len(p) \in Nat => IsPrefix(p, p)
    /\ IsPrefix(<<"stage">>, <<"stage">>)
    /\ ~IsPrefix(<<"stage">>, <<"live">>) /\ ~IsPrefix(<<"live">>, <<"stage">>)
<1>1. ASSUME NEW p, Len(p) \in Nat PROVE IsPrefix(p, p)
  BY <1>1 DEF IsPrefix
<1>2. IsPrefix(<<"stage">>, <<"stage">>)
  <2>1. Len(<<"stage">>) \in Nat
    OBVIOUS
  <2> QED BY <1>1, <2>1
<1>3. ASSUME NEW a \in Sites, NEW b \in Sites, IsPrefix(<<a>>, <<b>>) PROVE a = b
  <2>1. Len(<<a>>) = 1
    OBVIOUS
  <2>2. SubSeq(<<a>>, 1, 1) = SubSeq(<<b>>, 1, 1)
    BY <1>3, <2>1 DEF IsPrefix
  <2>3. SubSeq(<<a>>, 1, 1)[1] = a /\ SubSeq(<<b>>, 1, 1)[1] = b
    OBVIOUS
  <2> QED BY <2>2, <2>3
<1>0. "stage" \in Sites /\ "live" \in Sites /\ "stage" # "live"
  BY DEF Sites
<1>4. ~IsPrefix(<<"stage">>, <<"live">>)
  BY <1>3, <1>0
<1>5. ~IsPrefix(<<"live">>, <<"stage">>)
  BY <1>3, <1>0
<1>6. \A p : Len(p) \in Nat => IsPrefix(p, p)
  BY <1>1
<1> QED BY <1>2, <1>4, <1>5, <1>6

\* After the flush staging has nothing that was there before.
LEMMA FlushCovers ==
    ASSUME TypeOK, plan = StagePlan(dropIn["stage"]), plan # "skip",
           NEW k \in keys, k.at \in Reads("stage")
    PROVE  k \in Removes("stage", plan)
<1> DEFINE kind == dropIn["stage"]
           p == PlaceOf(kind, "stage")
<1>1. /\ kind # "none" /\ kind \in AllKinds /\ k.at = p /\ p \in Reads("stage")
      /\ Len(cfg["stage"].prefix) \in Nat
  BY SiteTypes DEF Reads, Sites
<1>2. k \in ByDatabase("stage")
  BY <1>1 DEF ByDatabase, SameDatabase
<1>3. IsPrefix(p.prefix, p.prefix) => k \in ByPrefix("stage")
  BY <1>1 DEF ByPrefix, SameDatabase
<1> HIDE DEF p
<1>4. CASE kind \in {"redis", "wpredis"}
  <2>1. plan = "prefix"
    BY <1>4, FlushPlanKind DEF StagePlan, AllKinds
  <2>2. p.prefix = cfg["stage"].prefix
    BY <1>4, PlaceOfKind DEF p, Place, RedisKinds
  <2> QED BY <1>1, <1>3, <2>1, <2>2, PrefixFacts DEF Removes
<1>5. CASE kind = "litespeed"
  <2>1. plan = "prefix"
    BY <1>5, FlushPlanKind DEF StagePlan, AllKinds
  <2>2. p.prefix = <<"stage">>
    BY <1>5, PlaceOfKind DEF p, Place
  <2> QED BY <1>3, <2>1, <2>2, PrefixFacts DEF Removes
<1>6. CASE kind = "hummingbird"
  <2>1. plan = "plain" /\ CachePrefix("stage") # <<>>
    BY <1>6, FlushPlanKind DEF StagePlan, AllKinds
  <2>2. cfg["stage"].prefix # <<>>
    BY <2>1, LiteralPrefix
  <2>3. p.prefix = cfg["stage"].prefix
    BY <1>6, PlaceOfKind DEF p, Place, RedisKinds
  <2> QED BY <1>1, <1>3, <1>6, <2>1, <2>2, <2>3, PrefixFacts DEF Removes, Plain
<1>7. CASE kind \in {"w3tc", "memcached", "sqlite", "docket"}
  <2>1. plan = "plain"
    BY <1>7, FlushPlanKind DEF StagePlan, AllKinds
  <2> QED BY <1>1, <1>2, <1>7, <2>1 DEF Removes, Plain
<1>8. CASE kind = "ocp"
  <2>1. plan = "database"
    BY <1>8 DEF StagePlan, OcpFlushPlan
  <2> QED BY <1>2, <2>1 DEF Removes
<1>9. CASE kind \in {"apcu", "memcachedServer", "other"}
  BY <1>9, FlushPlanKind DEF StagePlan, AllKinds
<1> QED BY <1>1, <1>4, <1>5, <1>6, <1>7, <1>8, <1>9 DEF AllKinds

\* Without a drop-in nothing is removed.
LEMMA NothingRead ==
    ASSUME NEW s, dropIn[s] = "none", NEW how \in {"plain", "prefix", "database", "skip"}
    PROVE  Reads(s) = {} /\ ByDatabase(s) = {} /\ Removes(s, how) = {}
<1>1. Reads(s) = {}
  BY DEF Reads
<1> QED BY <1>1 DEF ByDatabase, ByPrefix, Removes, Plain

\* A planned flush of staging leaves what live uses with the same drop-in.
LEMMA FlushSpares ==
    ASSUME TypeOK, cfg["live"].literal, dropIn["live"] = dropIn["stage"], instance = "stage",
           KindApart(dropIn["stage"]) \/ dropIn["stage"] \notin {"memcached", "ocp"},
           plan = StagePlan(dropIn["stage"]), plan # "skip",
           plan = "database" => cfg["stage"].db # cfg["live"].db,
           NEW k \in UsedBy("live")
    PROVE  k \notin Removes("stage", plan)
<1> DEFINE kind == dropIn["stage"]
           p == PlaceOf(kind, "stage")
           q == PlaceOf(kind, "live")
<1>1. /\ kind # "none" /\ kind \in AllKinds /\ k.at = q /\ Reads("stage") = {p}
  BY SiteTypes DEF Reads, Sites, UsedBy
<1>2. k \in ByPrefix("stage") => SameDatabase(q, p) /\ IsPrefix(p.prefix, q.prefix)
  BY <1>1 DEF ByPrefix
<1>3. k \in ByDatabase("stage") => SameDatabase(q, p)
  BY <1>1 DEF ByDatabase
<1>4. CachePrefix("live") = cfg["live"].prefix
  BY LiteralPrefix
<1> HIDE DEF p, q
<1>5. CASE kind \in {"redis", "wpredis", "hummingbird"}
  <2>1. /\ CachePrefix("stage") # <<>> /\ ~IsPrefix(CachePrefix("stage"), CachePrefix("live"))
        /\ plan = IF kind = "hummingbird" THEN "plain" ELSE "prefix"
    BY <1>5, FlushPlanKind DEF StagePlan, AllKinds
  <2>2. ~IsPrefix(cfg["stage"].prefix, cfg["live"].prefix) /\ cfg["stage"].prefix # <<>>
    BY <1>4, <2>1, LiteralPrefix
  <2>3. p.prefix = cfg["stage"].prefix /\ q.prefix = cfg["live"].prefix
    BY <1>5, PlaceOfKind DEF p, q, Place, RedisKinds
  <2>4. k \notin ByPrefix("stage")
    BY <1>2, <2>2, <2>3
  <2>5. Removes("stage", plan) = ByPrefix("stage")
    BY <1>5, <2>1, <2>2 DEF Removes, Plain
  <2> QED BY <2>4, <2>5
<1>6. CASE kind = "litespeed"
  <2>1. plan = "prefix"
    BY <1>6, FlushPlanKind DEF StagePlan, AllKinds
  <2>2. p.prefix = <<"stage">> /\ q.prefix = <<"live">>
    BY <1>6, PlaceOfKind DEF p, q, Place
  <2> QED BY <1>2, <2>1, <2>2, PrefixFacts DEF Removes
<1>7. CASE kind \in {"w3tc", "memcached"}
  <2>1. plan = "plain"
    BY <1>7, FlushPlanKind DEF StagePlan, AllKinds
  <2>2. KindApart(kind)
    BY <1>7 DEF KindApart, MemcachedKinds, RedisKinds
  <2>3. p # q
    BY <1>1, <2>2, ApartMeans DEF p, q
  <2>4. Removes("stage", plan) = {j \in keys : j.at \in Reads("stage")}
    BY <1>7, <2>1 DEF Removes, Plain
  <2> QED BY <1>1, <2>3, <2>4
<1>8. CASE kind \in {"sqlite", "docket"}
  <2>1. plan = "plain"
    BY <1>8, FlushPlanKind DEF StagePlan, AllKinds
  <2>2. p.server = "stage" /\ q.server = "live"
    BY <1>8, PlaceOfKind DEF p, q, Place
  <2>3. Removes("stage", plan) = ByDatabase("stage")
    BY <1>8, <2>1 DEF Removes, Plain
  <2> QED BY <1>3, <2>2, <2>3 DEF SameDatabase
<1>9. CASE kind = "ocp"
  <2>1. plan = "database"
    BY <1>9 DEF StagePlan, OcpFlushPlan
  <2>2. p.db = cfg["stage"].db /\ q.db = cfg["live"].db
    BY <1>9, PlaceOfKind DEF p, q, Place, RedisKinds
  <2> QED BY <1>3, <2>1, <2>2 DEF SameDatabase, Removes
<1>10. CASE kind \in {"apcu", "memcachedServer", "other"}
  BY <1>10, FlushPlanKind DEF StagePlan, AllKinds
<1> QED BY <1>1, <1>5, <1>6, <1>7, <1>8, <1>9, <1>10 DEF AllKinds

\* Object Cache Pro's flush of its database is safe where the databases differ.
LEMMA OcpSpares ==
    ASSUME TypeOK, dropIn["stage"] = "ocp", dropIn["live"] = "ocp", OcpApart, NEW k \in UsedBy("live")
    PROVE  k \notin ByDatabase("stage")
<1>1. /\ Reads("stage") = {PlaceOf("ocp", "stage")} /\ k.at = PlaceOf("ocp", "live")
      /\ cfg["live"].db # cfg["stage"].db
  BY DEF Reads, UsedBy, OcpApart
<1>2. /\ PlaceOf("ocp", "stage").db = cfg["stage"].db /\ PlaceOf("ocp", "live").db = cfg["live"].db
  BY PlaceOfKind DEF Place, RedisKinds
<1> QED BY <1>1, <1>2 DEF ByDatabase, SameDatabase

----------------------------------------------------------------------------
\* The steps of a sync.
LEMMA TypeStep ==
    ASSUME TypeOK, [Next]_vars
    PROVE  TypeOK'
<1>1. /\ cfg \in [Sites -> [prefix : KeyPrefixes, db : Databases, literal : BOOLEAN]]
      /\ dropIn \in [Sites -> AllKinds \cup {"none"}] /\ instance \in Sites
      /\ keys \subseteq Entries /\ off \in BOOLEAN
      /\ pc \in {"idle", "preflight", "probe", "asklive", "rsync", "fix", "plan", "commands", "flush"}
      /\ old \in (AllKinds \cup {"none"}) \X Sites
      /\ plan \in {"plain", "prefix", "database", "skip"}
      /\ changed \in BOOLEAN /\ unheard \in BOOLEAN /\ warned \in BOOLEAN /\ flushed \in BOOLEAN
      /\ switches \in 0..MaxSwitches
  BY DEF TypeOK, Entries
<1>2. "live" \in Sites /\ "stage" \in Sites /\ <<"none", "live">> \in (AllKinds \cup {"none"}) \X Sites
  BY DEF Sites
<1>3. /\ ProbeKey \subseteq Entries
      /\ \A s \in Sites : Written(s) \subseteq Entries
  BY EntryTypes, <1>2
<1>4. CASE Begin \/ NothingToCheck \/ RemoveDropIn \/ NotProbed
  <2>1. CASE Begin
    BY <1>1, <2>1 DEF Begin, TypeOK, Entries
  <2>2. CASE NothingToCheck
    BY <1>1, <2>2 DEF NothingToCheck, config, history, TypeOK, Entries
  <2>3. CASE RemoveDropIn
    BY <1>1, <2>3 DEF RemoveDropIn, config, history, TypeOK, Entries
  <2>4. CASE NotProbed
    BY <1>1, <2>4 DEF NotProbed, config, history, TypeOK, Entries
  <2> QED BY <1>4, <2>1, <2>2, <2>3, <2>4
<1>5. CASE Refuse
  BY <1>1, <1>2, <1>5 DEF Refuse, End, config, TypeOK, Entries
<1>6. CASE SwapDropIn
  <2>1. dropIn["live"] \in AllKinds \cup {"none"} /\ dropIn["stage"] \in AllKinds \cup {"none"}
    BY <1>1, <1>2
  <2>2. SharedObjectCache(dropIn["live"]) \in BOOLEAN
    BY DEF SharedObjectCache, OcpApart
  <2> QED BY <1>1, <1>2, <1>6, <2>1, <2>2 DEF SwapDropIn, config, TypeOK, Entries
<1>7. CASE ProbeSet \/ RunCommands
  <2>1. \A kept \in Booted : kept \subseteq keys
    BY DEF Booted
  <2>2. keys' \subseteq Entries
    BY <1>1, <1>2, <1>3, <1>7, <2>1 DEF ProbeSet, RunCommands
  <2>3. CASE ProbeSet
    <3>1. unheard' \in BOOLEAN
      BY <1>1, <2>3 DEF ProbeSet
    <3> QED BY <1>1, <2>2, <2>3, <3>1 DEF ProbeSet, config, TypeOK, Entries
  <2>4. CASE RunCommands
    BY <1>1, <2>2, <2>4 DEF RunCommands, config, history, TypeOK, Entries
  <2> QED BY <1>7, <2>3, <2>4
<1>8. CASE ProbeGet \/ ProbeFails
  <2>1. old[1] \in AllKinds \cup {"none"} /\ old[2] \in Sites
    BY <1>1
  <2>2. CASE ProbeGet
    <3>1. unheard' \in BOOLEAN
      BY <1>1, <2>2 DEF ProbeGet
    <3> QED BY <1>1, <2>2, <3>1 DEF ProbeGet, config, TypeOK, Entries
  <2>3. CASE ProbeFails
    <3>1. dropIn' \in [Sites -> AllKinds \cup {"none"}] /\ instance' \in Sites
      BY <1>1, <1>2, <2>1, <2>3 DEF ProbeFails, Restore
    <3> QED BY <1>1, <1>2, <2>3, <3>1 DEF ProbeFails, Restore, End, config, TypeOK, Entries
  <2> QED BY <1>8, <2>2, <2>3
<1>9. CASE Rsync
  <2>1. \A k \in Entries : [k EXCEPT !.stale = (k.of = "stage")] \in Entries
    BY DEF Entries
  <2>2. keys' \subseteq Entries
    BY <1>1, <1>9, <2>1 DEF Rsync
  <2> QED BY <1>1, <1>2, <1>9, <2>2 DEF Rsync, config, history, TypeOK, Entries
<1>10. CASE FixLivePaths
  BY <1>1, <1>2, <1>10 DEF FixLivePaths, config, history, TypeOK, Entries
<1>11. CASE PlanFlush
  <2>1. dropIn["stage"] \in AllKinds \cup {"none"}
    BY <1>1, <1>2
  <2>2. plan' \in {"plain", "prefix", "database", "skip"}
    BY <1>11, <2>1, StagePlanType DEF PlanFlush
  <2> QED BY <1>1, <1>11, <2>2 DEF PlanFlush, config, history, TypeOK, Entries
<1>12. CASE Flush
  <2>1. flushed' \in BOOLEAN /\ keys' \subseteq keys
    BY <1>1, <1>12 DEF Flush
  <2> QED BY <1>1, <1>2, <1>12, <2>1 DEF Flush, End, config, TypeOK, Entries
<1>13. CASE Stop
  BY <1>1, <1>2, <1>13 DEF Stop, End, config, TypeOK, Entries
<1>14. CASE PromoteFlush
  BY <1>1, <1>14 DEF PromoteFlush, config, history, TypeOK, Entries
<1>15. CASE LiveSwitches
  <2>1. switches' \in 0..MaxSwitches
    BY <1>1, <1>15, CacheAssumption DEF LiveSwitches
  <2>2. dropIn' \in [Sites -> AllKinds \cup {"none"}]
    BY <1>1, <1>15, CacheAssumption DEF LiveSwitches
  <2> QED BY <1>1, <1>15, <2>1, <2>2 DEF LiveSwitches, TypeOK, Entries
<1>16. ASSUME NEW s \in Sites, Request(s) PROVE TypeOK'
  BY <1>1, <1>3, <1>16 DEF Request, config, history, TypeOK, Entries
<1>17. CASE UNCHANGED vars
  BY <1>1, <1>17 DEF vars, TypeOK, Entries
<1> QED BY <1>4, <1>5, <1>6, <1>7, <1>8, <1>9, <1>10, <1>11, <1>12, <1>13, <1>14, <1>15, <1>16, <1>17
        DEF Next, Sync, Preflight

----------------------------------------------------------------------------
\* What a step must keep.
LEMMA FreshKept ==
    ASSUME TypeOK, Fresh,
           \A k \in keys' : k \in keys \/ k \in ProbeKey \/ \E s \in Sites : k \in Written(s)
    PROVE  Fresh'
<1>1. ASSUME NEW s \in Sites, NEW k \in Written(s), k.of = "live" PROVE ~k.stale
  <2>1. k.of = s /\ k.stale = (s = "stage" /\ pc # "idle")
    BY EntryTypes
  <2>2. s = "live"
    BY <1>1, <2>1
  <2> QED BY <2>1, <2>2
<1>2. \A k \in ProbeKey : k.of = "probe"
  BY EntryTypes DEF Sites
<1> QED BY <1>1, <1>2 DEF Fresh

LEMMA IdleKeeps ==
    ASSUME IInv, TypeOK', Fresh', cfg' = cfg, pc' = "idle", ~flushed'
    PROVE  IInv'
<1>1. Literals' /\ Probing' /\ Checked' /\ Copied' /\ Planned' /\ StaleGone'
  BY DEF IInv, Literals, Probing, Checked, Copied, Planned, StaleGone, AfterCheck, AfterFix
<1> QED BY <1>1 DEF IInv

LEMMA BeginSafe ==
    ASSUME IInv, TypeOK', Begin \/ RemoveDropIn \/ NothingToCheck \/ NotProbed
    PROVE  IInv'
<1>1. /\ UNCHANGED <<cfg, keys, changed, unheard>> /\ dropIn'["live"] = dropIn["live"]
      /\ ~flushed'
  <2>1. CASE Begin
    BY <2>1 DEF Begin
  <2>2. CASE RemoveDropIn
    BY <2>2 DEF RemoveDropIn, config, history, IInv, TypeOK, Sites
  <2>3. CASE NothingToCheck \/ NotProbed
    BY <2>3 DEF NothingToCheck, NotProbed, config, history, IInv
  <2> QED BY <2>1, <2>2, <2>3
<1>2. \/ pc' = "preflight"
      \/ /\ pc' = "rsync"
         /\ off' \/ (~changed => dropIn["live"] \in {"none", "apcu"})
  BY DEF Begin, RemoveDropIn, NothingToCheck, NotProbed
<1>3. Literals' /\ Fresh' /\ Probing' /\ Copied' /\ Planned' /\ StaleGone'
  BY <1>1, <1>2 DEF IInv, Literals, Fresh, Probing, Copied, Planned, StaleGone, AfterFix
<1>4. KindApart("none")' /\ KindApart("apcu")'
  BY DEF KindApart, RedisKinds, MemcachedKinds
<1>5. Checked'
  BY <1>1, <1>2, <1>4 DEF Checked, AfterCheck
<1> QED BY <1>1, <1>2, <1>3, <1>5 DEF IInv

LEMMA RefuseSafe ==
    ASSUME IInv, TypeOK', Refuse \/ Stop
    PROVE  IInv'
<1>1. /\ UNCHANGED <<cfg, keys, flushed>> /\ pc # "idle" /\ pc' = "idle"
  BY DEF Refuse, Stop, End, config
<1>2. Fresh' /\ ~flushed'
  BY <1>1 DEF IInv, Fresh
<1> QED BY <1>1, <1>2, IdleKeeps

LEMMA SwapSafe ==
    ASSUME IInv, TypeOK', SwapDropIn
    PROVE  IInv'
<1>1. /\ UNCHANGED <<cfg, keys, changed, unheard, flushed, off>> /\ pc = "preflight" /\ pc' = "probe" /\ ~off
      /\ dropIn["live"] \notin {"none", "apcu"}
      /\ dropIn["live"] = "ocp" => OcpApart
      /\ dropIn' = [dropIn EXCEPT !["stage"] = dropIn["live"]]
      /\ instance' = IF dropIn["live"] = "w3tc" THEN "stage" ELSE instance
      /\ warned' = SharedObjectCache(dropIn["live"])
  BY DEF SwapDropIn, config
<1>2. dropIn'["stage"] = dropIn["live"] /\ dropIn'["live"] = dropIn["live"]
  BY <1>1 DEF IInv, TypeOK, Sites
<1>3. OcpApart' = OcpApart /\ SharedObjectCache(dropIn["live"])' = SharedObjectCache(dropIn["live"])
  BY <1>1, <1>2 DEF OcpApart, SharedObjectCache, CachePrefix, ReadDatabase
<1>4. Probing'
  BY <1>1, <1>2, <1>3 DEF Probing
<1>5. Literals' /\ Fresh' /\ Checked' /\ Copied' /\ Planned' /\ StaleGone'
  BY <1>1 DEF IInv, Literals, Fresh, Checked, Copied, Planned, StaleGone, AfterCheck, AfterFix
<1> QED BY <1>1, <1>4, <1>5 DEF IInv

LEMMA ProbeSetSafe ==
    ASSUME IInv, TypeOK', ProbeSet
    PROVE  IInv'
<1>1. /\ UNCHANGED <<cfg, dropIn, instance, off, changed, warned, flushed>>
      /\ pc = "probe" /\ pc' = "asklive"
      /\ unheard' \/ \E kept \in Booted : keys' = kept \cup ProbeKey
      /\ keys' = keys \/ \E kept \in Booted : keys' = kept \cup ProbeKey
  BY DEF ProbeSet, config
<1>2. ProbeKey' = ProbeKey
  BY <1>1, ReadsKept
<1>3. \A kept \in Booted : kept \subseteq keys
  BY DEF Booted
<1>4. Fresh'
  <2>1. CASE keys' = keys
    BY <2>1 DEF IInv, Fresh
  <2>2. CASE \E kept \in Booted : keys' = kept \cup ProbeKey
    BY <1>3, <2>2, FreshKept DEF IInv
  <2> QED BY <1>1, <2>1, <2>2
<1>5. ~unheard' => ProbeKey \subseteq keys'
  BY <1>1
<1>6. Probing'
  BY <1>1, <1>2, <1>5 DEF IInv, Probing, OcpApart, SharedObjectCache, CachePrefix, ReadDatabase
<1>7. Literals' /\ Checked' /\ Copied' /\ Planned' /\ StaleGone'
  BY <1>1 DEF IInv, Literals, Checked, Copied, Planned, StaleGone, AfterCheck, AfterFix
<1> QED BY <1>1, <1>4, <1>6, <1>7 DEF IInv

\* Live cannot read the probe's key on a server that was there for both: the two
\* sites have different places.
LEMMA ProbeGetSafe ==
    ASSUME IInv, TypeOK', ProbeGet
    PROVE  IInv'
<1>1. /\ UNCHANGED <<cfg, dropIn, instance, off, changed, warned, flushed>>
      /\ pc = "asklive" /\ pc' = "rsync" /\ keys' = keys \ ProbeKey
      /\ ~unheard' => ~Found /\ ~unheard
  BY DEF ProbeGet, config
<1>2. Fresh'
  BY <1>1 DEF IInv, Fresh
<1>3. ASSUME ~changed, ~unheard' PROVE KindApart(dropIn["live"])
  <2>1. PICK kind \in AllKinds : kind = dropIn["stage"] /\ kind = dropIn["live"] /\ kind # "none"
    BY <1>1, <1>3, SiteTypes DEF IInv, Probing, Sites
  <2>2. /\ ProbeKey \subseteq keys
        /\ kind = "w3tc" => instance = "stage"
    BY <1>1, <1>3, <2>1 DEF IInv, Probing
  <2>3. Reads("stage") = {PlaceOf(kind, "stage")} /\ Reads("live") = {PlaceOf(kind, "live")}
    BY <2>1 DEF Reads
  <2>4. ProbeKey = {[at |-> PlaceOf(kind, "stage"), of |-> "probe", stale |-> FALSE]}
    BY <2>3 DEF ProbeKey
  <2>5. \A k \in ProbeKey : k.at \notin Reads("live")
    <3>1. ~Found
      BY <1>1, <1>3
    <3> QED BY <2>2, <3>1 DEF Found
  <2>6. PlaceOf(kind, "stage") # PlaceOf(kind, "live")
    BY <2>3, <2>4, <2>5
  <2>7. KindApart(kind)
    BY <2>2, <2>6, ApartMeans DEF IInv
  <2> QED BY <2>1, <2>7
<1>4. ~changed => /\ dropIn["live"] = "ocp" => OcpApart
                  /\ warned = SharedObjectCache(dropIn["live"])
  BY <1>1 DEF IInv, Probing
<1>5. Checked'
  BY <1>1, <1>3, <1>4 DEF Checked, KindApart, OcpApart, SharedObjectCache, CachePrefix, ReadDatabase
<1>6. Literals' /\ Probing' /\ Copied' /\ Planned' /\ StaleGone'
  BY <1>1 DEF IInv, Literals, Probing, Copied, Planned, StaleGone, AfterFix
<1> QED BY <1>1, <1>2, <1>5, <1>6 DEF IInv

LEMMA ProbeFailsSafe ==
    ASSUME IInv, TypeOK', ProbeFails
    PROVE  IInv'
<1>1. /\ UNCHANGED <<cfg, flushed>> /\ pc # "idle" /\ pc' = "idle" /\ keys' \subseteq keys
  BY DEF ProbeFails, Restore, End, config
<1>2. Fresh' /\ ~flushed'
  BY <1>1 DEF IInv, Fresh
<1> QED BY <1>1, <1>2, IdleKeeps

LEMMA RsyncSafe ==
    ASSUME IInv, TypeOK', Rsync
    PROVE  IInv'
<1>1. /\ UNCHANGED <<cfg, off, changed, unheard, warned, flushed>>
      /\ pc = "rsync" /\ pc' = "fix"
      /\ keys' = {[k EXCEPT !.stale = (k.of = "stage")] : k \in keys}
      /\ dropIn' = [dropIn EXCEPT !["stage"] = IF off THEN @ ELSE dropIn["live"]]
  BY DEF Rsync, config, history
<1>2. dropIn'["live"] = dropIn["live"] /\ (~off => dropIn'["stage"] = dropIn["live"])
  BY <1>1 DEF IInv, TypeOK, Sites
<1>3. Fresh'
  <2>1. ASSUME NEW j \in keys', j.of = "live" PROVE ~j.stale
    <3>1. PICK k \in keys : j = [k EXCEPT !.stale = (k.of = "stage")]
      BY <1>1
    <3>2. k \in Entries
      BY DEF IInv, TypeOK, Entries
    <3>3. j.of = k.of /\ j.stale = (k.of = "stage")
      BY <3>1, <3>2 DEF Entries
    <3> QED BY <2>1, <3>3
  <2> QED BY <2>1 DEF Fresh
<1>4. Checked'
  BY <1>1, <1>2 DEF IInv, Checked, AfterCheck, KindApart, OcpApart, SharedObjectCache, CachePrefix, ReadDatabase
<1>5. Copied'
  BY <1>1, <1>2 DEF Copied, AfterFix
<1>6. Literals' /\ Probing' /\ Planned' /\ StaleGone'
  BY <1>1 DEF IInv, Literals, Probing, Planned, StaleGone
<1> QED BY <1>1, <1>3, <1>4, <1>5, <1>6 DEF IInv

LEMMA FixSafe ==
    ASSUME IInv, TypeOK', FixLivePaths
    PROVE  IInv'
<1>1. /\ UNCHANGED <<cfg, keys, off, changed, unheard, warned, flushed>>
      /\ pc = "fix" /\ pc' = "plan" /\ instance' = "stage"
      /\ dropIn' = [dropIn EXCEPT !["stage"] = IF off THEN "none" ELSE @]
  BY DEF FixLivePaths, config, history
<1>2. /\ dropIn'["live"] = dropIn["live"]
      /\ dropIn'["stage"] = IF off THEN "none" ELSE dropIn["stage"]
  BY <1>1 DEF IInv, TypeOK, Sites
<1>3. Checked'
  BY <1>1, <1>2 DEF IInv, Checked, AfterCheck, KindApart, OcpApart, SharedObjectCache, CachePrefix, ReadDatabase
<1>4. Copied'
  BY <1>1, <1>2 DEF IInv, Copied, AfterFix
<1>5. Literals' /\ Fresh' /\ Probing' /\ Planned' /\ StaleGone'
  BY <1>1 DEF IInv, Literals, Fresh, Probing, Planned, StaleGone
<1> QED BY <1>1, <1>3, <1>4, <1>5 DEF IInv

\* The plan and the checks look at wp-config.php and the drop-ins only.
LEMMA PlanKept ==
    ASSUME cfg' = cfg, NEW kind
    PROVE  /\ StagePlan(kind)' = StagePlan(kind)
           /\ KindApart(kind)' = KindApart(kind)
           /\ SharedObjectCache(kind)' = SharedObjectCache(kind)
           /\ OcpApart' = OcpApart
BY DEF StagePlan, OcpFlushPlan, CachePrefix, FlushPlan, KindApart, SharedObjectCache, OcpApart, ReadDatabase

LEMMA PlanSafe ==
    ASSUME IInv, TypeOK', PlanFlush
    PROVE  IInv'
<1>1. /\ UNCHANGED <<cfg, dropIn, instance, keys, off, changed, unheard, warned, flushed>>
      /\ pc = "plan" /\ pc' = "commands"
      /\ plan' \in {StagePlan(dropIn["stage"]), "skip"}
  BY DEF PlanFlush, config, history
<1>2. Planned'
  BY <1>1, PlanKept DEF Planned
<1>3. Checked'
  BY <1>1, PlanKept DEF IInv, Checked, AfterCheck
<1>4. Literals' /\ Fresh' /\ Probing' /\ Copied' /\ StaleGone'
  BY <1>1 DEF IInv, Literals, Fresh, Probing, Copied, AfterFix, StaleGone
<1> QED BY <1>1, <1>2, <1>3, <1>4 DEF IInv

LEMMA CommandsSafe ==
    ASSUME IInv, TypeOK', RunCommands
    PROVE  IInv'
<1>1. /\ UNCHANGED <<cfg, dropIn, instance, off, plan, changed, unheard, warned, flushed>>
      /\ pc = "commands" /\ pc' = "flush"
      /\ \E kept \in Booted : keys' = kept \cup Written("stage")
  BY DEF RunCommands, config, history
<1>2. \A kept \in Booted : kept \subseteq keys
  BY DEF Booted
<1>3. Fresh'
  BY <1>1, <1>2, FreshKept DEF IInv, Sites
<1>4. Planned' /\ Checked'
  BY <1>1, PlanKept DEF IInv, Planned, Checked, AfterCheck
<1>5. Literals' /\ Probing' /\ Copied' /\ StaleGone'
  BY <1>1 DEF IInv, Literals, Probing, Copied, AfterFix, StaleGone
<1> QED BY <1>1, <1>3, <1>4, <1>5 DEF IInv

\* The flush leaves nothing where staging reads.
LEMMA FlushSafe ==
    ASSUME IInv, TypeOK', Flush
    PROVE  IInv'
<1>1. /\ UNCHANGED <<cfg, dropIn, instance>> /\ pc = "flush" /\ pc' = "idle" /\ ~flushed
      /\ \/ keys' = keys \ Removes("stage", plan) /\ flushed' = (plan # "skip")
         \/ UNCHANGED <<keys, flushed>>
  BY DEF Flush, End, config, IInv
<1>2. Fresh'
  BY <1>1 DEF IInv, Fresh
<1>3. CASE ~flushed'
  BY <1>1, <1>2, <1>3, IdleKeeps
<1>4. CASE flushed'
  <2>1. plan # "skip" /\ keys' = keys \ Removes("stage", plan)
    BY <1>1, <1>4
  <2>2. plan = StagePlan(dropIn["stage"])
    BY <1>1, <2>1 DEF IInv, Planned
  <2>3. \A k \in keys : k.at \in Reads("stage") => k \in Removes("stage", plan)
    BY <2>1, <2>2, FlushCovers DEF IInv
  <2>4. \A k \in keys' : k.at \notin Reads("stage")'
    BY <1>1, <2>1, <2>3, ReadsKept
  <2>5. StaleGone'
    BY <2>4 DEF StaleGone, UsedBy
  <2>6. Literals' /\ Probing' /\ Checked' /\ Copied' /\ Planned'
    BY <1>1 DEF IInv, Literals, Probing, Checked, Copied, Planned, AfterCheck, AfterFix
  <2> QED BY <1>1, <1>2, <2>5, <2>6 DEF IInv
<1> QED BY <1>3, <1>4

\* The steps beside a sync.
LEMMA PromoteSafe ==
    ASSUME IInv, TypeOK', PromoteFlush
    PROVE  IInv'
<1>1. /\ UNCHANGED <<cfg, dropIn, instance, off, plan, changed, unheard, warned, flushed>>
      /\ pc = "idle" /\ pc' = "idle" /\ keys' \subseteq keys
  BY DEF PromoteFlush, config, history
<1>2. Reads("stage")' = Reads("stage")
  BY <1>1, ReadsKept
<1>3. Fresh' /\ StaleGone'
  BY <1>1, <1>2 DEF IInv, Fresh, StaleGone, UsedBy
<1>4. Literals' /\ Probing' /\ Checked' /\ Copied' /\ Planned'
  BY <1>1 DEF IInv, Literals, Probing, Checked, Copied, Planned, AfterCheck, AfterFix
<1> QED BY <1>1, <1>3, <1>4 DEF IInv

LEMMA RequestSafe ==
    ASSUME IInv, TypeOK', NEW s \in Sites, Request(s)
    PROVE  IInv'
<1>1. /\ UNCHANGED <<cfg, dropIn, instance, pc, off, plan, changed, unheard, warned, flushed>>
      /\ keys' = keys \cup Written(s)
  BY DEF Request, config, history
<1>2. Reads("stage")' = Reads("stage") /\ ProbeKey' = ProbeKey /\ Reads("live")' = Reads("live")
  BY <1>1, ReadsKept
<1>3. Fresh'
  BY <1>1, FreshKept DEF IInv
<1>4. StaleGone'
  <2>1. ASSUME pc = "idle", flushed, NEW k \in Written(s) PROVE ~k.stale
    BY <2>1, EntryTypes DEF IInv
  <2> QED BY <1>1, <1>2, <2>1 DEF IInv, StaleGone, UsedBy
<1>5. Probing' /\ Checked' /\ Planned'
  BY <1>1, <1>2, PlanKept DEF IInv, Probing, Checked, Planned
<1>6. Literals' /\ Copied'
  BY <1>1 DEF IInv, Literals, Copied
<1> QED BY <1>1, <1>3, <1>4, <1>5, <1>6 DEF IInv

\* Live gets another drop-in: from then on nothing is known of the two sites.
LEMMA SwitchSafe ==
    ASSUME IInv, TypeOK', LiveSwitches
    PROVE  IInv'
<1>1. /\ UNCHANGED <<cfg, instance, pc, off, plan, unheard, flushed>> /\ pc # "idle" /\ changed'
      /\ keys' = {k \in keys : k.of # "live"}
      /\ \E kind : dropIn' = [dropIn EXCEPT !["live"] = kind]
  BY DEF LiveSwitches
<1>2. dropIn'["stage"] = dropIn["stage"]
  BY <1>1 DEF IInv, TypeOK, Sites
<1>3. Reads("stage")' = Reads("stage") /\ ProbeKey' = ProbeKey
  BY <1>1, <1>2 DEF Reads, PlaceOf, ProbeKey
<1>4. ProbeKey \subseteq keys => ProbeKey \subseteq keys'
  BY <1>1, EntryTypes DEF IInv, Sites
<1>5. Probing'
  BY <1>1, <1>2, <1>3, <1>4, PlanKept DEF IInv, Probing
<1>6. Checked' /\ Copied'
  BY <1>1, <1>2 DEF IInv, Checked, Copied
<1>7. Planned'
  BY <1>1, <1>2, PlanKept DEF IInv, Planned
<1>8. Literals' /\ Fresh' /\ StaleGone'
  BY <1>1 DEF IInv, Literals, Fresh, StaleGone
<1> QED BY <1>1, <1>5, <1>6, <1>7, <1>8 DEF IInv

----------------------------------------------------------------------------
LEMMA TypeInit == Init => TypeOK
<1> SUFFICES ASSUME Init PROVE TypeOK
  OBVIOUS
<1>1. dropIn \in [Sites -> AllKinds \cup {"none"}]
  BY CacheAssumption DEF Init
<1>2. <<"none", "live">> \in (AllKinds \cup {"none"}) \X Sites /\ instance \in Sites
  BY DEF Init, Sites
<1>3. switches \in 0..MaxSwitches
  BY CacheAssumption DEF Init
<1> QED BY <1>1, <1>2, <1>3 DEF Init, TypeOK

LEMMA Initial == Init => IInv
<1> SUFFICES ASSUME Init PROVE IInv
  OBVIOUS
<1>1. TypeOK
  BY TypeInit
<1>2. Literals /\ Fresh
  BY DEF Init, Literals, Fresh
<1>3. Probing /\ Checked /\ Copied /\ Planned /\ StaleGone /\ ~flushed
  BY DEF Init, Probing, Checked, Copied, Planned, StaleGone, AfterCheck, AfterFix
<1> QED BY <1>1, <1>2, <1>3 DEF IInv

LEMMA Inductive == IInv /\ [Next]_vars => IInv'
<1> SUFFICES ASSUME IInv, [Next]_vars PROVE IInv'
  OBVIOUS
<1>1. TypeOK'
  BY TypeStep DEF IInv
<1>2. CASE UNCHANGED vars
  <2>1. Reads("stage")' = Reads("stage") /\ ProbeKey' = ProbeKey
    BY <1>2, ReadsKept DEF vars
  <2>2. Probing' /\ Checked' /\ Planned'
    BY <1>2, <2>1, PlanKept DEF vars, IInv, Probing, Checked, Planned
  <2>3. Literals' /\ Fresh' /\ Copied' /\ StaleGone'
    BY <1>2, <2>1 DEF vars, IInv, Literals, Fresh, Copied, StaleGone, UsedBy
  <2> QED BY <1>1, <1>2, <2>2, <2>3 DEF vars, IInv
<1>3. CASE Sync
  BY <1>1, <1>3, BeginSafe, RefuseSafe, SwapSafe, ProbeSetSafe, ProbeGetSafe, ProbeFailsSafe, RsyncSafe,
     FixSafe, PlanSafe, CommandsSafe, FlushSafe
     DEF Sync, Preflight
<1> QED BY <1>1, <1>2, <1>3, PromoteSafe, SwitchSafe, RequestSafe DEF Next

LEMMA Invariant == Spec => []IInv
BY Initial, Inductive, PTL DEF Spec

\* The variables of the model have their types, whatever live's drop-in becomes.
THEOREM TypesHold == Spec => []TypeOK
<1>1. IInv => TypeOK
  BY DEF IInv
<1> QED BY <1>1, Invariant, PTL

\* objectcache.go:392-394, for any key prefixes and databases: while the commands
\* run on staging, it has no place of its keys in common with live.  For a
\* drop-in that needs different prefixes or databases, the probe has seen that if
\* the cache server was there for it.
THEOREM StageStaysApart == Spec => []StageApart
<1>1. ASSUME IInv PROVE StageApart
  <2> SUFFICES ASSUME pc \in {"commands", "flush"}, ~changed, ~unheard
               PROVE  Reads("stage") \cap Reads("live") = {}
    BY DEF StageApart
  <2>1. CASE dropIn["stage"] = "none"
    BY <2>1 DEF Reads
  <2>2. CASE dropIn["stage"] # "none"
    <3>1. instance = "stage" /\ dropIn["live"] = dropIn["stage"] /\ KindApart(dropIn["live"])
      BY <1>1, <2>2 DEF IInv, Copied, Checked, AfterCheck, AfterFix
    <3>2. dropIn["stage"] \in AllKinds
      BY <1>1, <2>2, SiteTypes DEF IInv, Sites
    <3>3. PlaceOf(dropIn["stage"], "stage") # PlaceOf(dropIn["stage"], "live")
      BY <1>1, <3>1, <3>2, ApartMeans DEF IInv
    <3> QED BY <3>1, <3>3 DEF Reads
  <2> QED BY <2>1, <2>2
<1>2. IInv => StageApart
  BY <1>1
<1> QED BY <1>2, Invariant, PTL

\* docs/object-cache.md:51: after a sync whose flush gave no warning, staging
\* reads nothing that its old database left in the cache.
THEOREM NothingStale == Spec => []StaleGone
<1>1. IInv => StaleGone
  BY DEF IInv
<1> QED BY <1>1, Invariant, PTL

\* docs/object-cache.md:94-112: with literal values, a sync that gave no warning
\* has found the two sites in different databases or on different servers.
THEOREM SharedIsWarned == Spec => []ReadMeansWarned
<1>1. ASSUME IInv PROVE ReadMeansWarned
  <2> SUFFICES ASSUME \A s \in Sites : cfg[s].literal, pc \in {"commands", "flush"}, ~changed, ~warned,
                      dropIn["stage"] # "apcu"
               PROVE  ByDatabase("stage") \cap UsedBy("live") = {}
    BY DEF ReadMeansWarned, SharedMeansWarned
  <2>1. CASE dropIn["stage"] = "none"
    BY <2>1 DEF ByDatabase, Reads
  <2>2. CASE dropIn["stage"] # "none"
    <3> DEFINE kind == dropIn["stage"]
    <3>1. dropIn["live"] = kind /\ kind \in AllKinds /\ ~SharedObjectCache(kind)
      BY <1>1, <2>2, SiteTypes DEF IInv, Copied, Checked, AfterCheck, AfterFix, Sites
    <3>2. SUFFICES ASSUME NEW k \in UsedBy("live"), k \in ByDatabase("stage") PROVE FALSE
      OBVIOUS
    <3>3. SameDatabase(PlaceOf(kind, "live"), PlaceOf(kind, "stage"))
      BY <2>2, <3>1, <3>2 DEF ByDatabase, UsedBy, Reads
    <3>4. kind \in {"docket", "sqlite", "redis", "hummingbird", "wpredis", "ocp"}
      BY <2>2, <3>1 DEF SharedObjectCache
    <3>5. CASE kind \in {"docket", "sqlite"}
      BY <3>3, <3>5, PlaceOfKind DEF Place, SameDatabase
    <3>6. CASE kind \in {"redis", "hummingbird", "wpredis", "ocp"}
      <4>1. cfg["live"].db # cfg["stage"].db
        BY <3>1, <3>6 DEF SharedObjectCache, ReadDatabase, OcpApart, Sites
      <4>2. /\ PlaceOf(kind, "live").db = cfg["live"].db
            /\ PlaceOf(kind, "stage").db = cfg["stage"].db
        BY <3>6, PlaceOfKind DEF Place, RedisKinds
      <4> QED BY <3>3, <4>1, <4>2 DEF SameDatabase
    <3> QED BY <3>4, <3>5, <3>6
  <2> QED BY <2>1, <2>2
<1>2. IInv => ReadMeansWarned
  BY <1>1
<1> QED BY <1>2, Invariant, PTL

----------------------------------------------------------------------------
\* A boot of WordPress on staging, where Object Cache Pro may flush its database.
LEMMA BootSpares ==
    ASSUME IInv, pc \in {"probe", "commands"}, NEW kept \in Booted, NEW k \in UsedBy("live")
    PROVE  k \in kept \/ (changed /\ dropIn["stage"] = "ocp")
<1>1. k \in keys /\ kept \in (IF dropIn["stage"] = "ocp" THEN {keys, keys \ ByDatabase("stage")} ELSE {keys})
  BY DEF UsedBy, Booted
<1>2. CASE dropIn["stage"] = "ocp" /\ ~changed
  <2>1. dropIn["live"] = "ocp" /\ OcpApart
    BY <1>2 DEF IInv, Probing, Copied, Checked, AfterCheck, AfterFix
  <2>2. k \notin ByDatabase("stage")
    BY <1>2, <2>1, OcpSpares DEF IInv
  <2> QED BY <1>1, <2>2
<1>3. CASE dropIn["stage"] # "ocp"
  BY <1>1, <1>3
<1> QED BY <1>2, <1>3

\* The flush at the end of the sync.
LEMMA FlushKeeps ==
    ASSUME IInv, "live" \notin Computed, Flush, NEW k \in UsedBy("live"), k \notin keys'
    PROVE  \/ unheard /\ dropIn["stage"] = "memcached"
           \/ changed /\ (dropIn["live"] # dropIn["stage"] \/ dropIn["stage"] \in {"memcached", "ocp"})
<1>1. k \in keys /\ pc = "flush"
  BY DEF UsedBy, Flush
<1>2. k \in Removes("stage", plan) /\ (plan = "database" => cfg["stage"].db # cfg["live"].db)
  BY <1>1 DEF Flush
<1>3. plan \in {"plain", "prefix", "database", "skip"} /\ plan # "skip"
  BY <1>2 DEF IInv, TypeOK, Removes
<1>4. plan = StagePlan(dropIn["stage"]) /\ instance = "stage" /\ cfg["live"].literal
  BY <1>1, <1>3 DEF IInv, Planned, Copied, AfterFix, Literals, Sites
<1>5. dropIn["stage"] # "none"
  BY <1>2, <1>3, NothingRead
<1>6. ~changed => /\ dropIn["live"] = dropIn["stage"]
                  /\ ~unheard \/ dropIn["stage"] = "ocp" => KindApart(dropIn["stage"])
  BY <1>1, <1>5 DEF IInv, Copied, Checked, AfterCheck, AfterFix, OcpApart, KindApart, MemcachedKinds,
     RedisKinds
<1>7. ASSUME dropIn["live"] = dropIn["stage"],
             KindApart(dropIn["stage"]) \/ dropIn["stage"] \notin {"memcached", "ocp"}
      PROVE  FALSE
  BY <1>2, <1>3, <1>4, <1>7, FlushSpares DEF IInv
<1> QED BY <1>6, <1>7

\* docs/object-cache.md:51, for any settings and drop-ins: no step of a sync
\* removes a key that live uses, as long as live's prefix is a literal.  A computed
\* prefix of live counts as empty, and staging's may then begin it unseen.
THEOREM LiveKeysAreKept ==
    ASSUME "live" \notin Computed
    PROVE  Spec => LiveKeysStay
<1> DEFINE Excepted ==
             \/ unheard /\ dropIn["stage"] = "memcached"
             \/ changed /\ (dropIn["live"] # dropIn["stage"] \/ dropIn["stage"] \in {"memcached", "ocp"})
           Kept == pc # "idle" /\ switches' = switches => UsedBy("live") \subseteq keys' \/ Excepted
<1>1. ASSUME IInv, [Next]_vars PROVE Kept
  <2> SUFFICES ASSUME pc # "idle", switches' = switches, NEW k \in UsedBy("live"), k \notin keys'
               PROVE  Excepted
    OBVIOUS
  <2>1. k \in keys /\ k.of = "live" /\ k \in Entries
    BY <1>1 DEF UsedBy, IInv, TypeOK, Entries
  <2>2. k \notin ProbeKey
    BY <1>1, <2>1, EntryTypes DEF IInv, Sites
  <2>3. CASE ProbeSet \/ RunCommands
    <3>1. PICK kept \in Booted : kept \subseteq keys'
      BY <2>3 DEF ProbeSet, RunCommands, Booted
    <3>2. pc \in {"probe", "commands"}
      BY <2>3 DEF ProbeSet, RunCommands
    <3>3. k \in kept \/ (changed /\ dropIn["stage"] = "ocp")
      BY <1>1, <3>2, BootSpares
    <3> QED BY <3>1, <3>3
  <2>4. CASE Rsync
    <3>1. k.stale = FALSE
      BY <1>1, <2>1 DEF IInv, Fresh, Entries
    <3>2. [k EXCEPT !.stale = (k.of = "stage")] = k
      BY <2>1, <3>1 DEF Entries
    <3> QED BY <2>1, <2>4, <3>2 DEF Rsync
  <2>5. CASE Flush
    BY <1>1, <2>5, FlushKeeps
  <2>6. CASE ProbeGet \/ ProbeFails
    BY <2>1, <2>2, <2>6 DEF ProbeGet, ProbeFails
  <2>7. ~LiveSwitches
    BY <1>1 DEF LiveSwitches, IInv, TypeOK
  <2>8. CASE \E s \in Sites : Request(s)
    BY <2>1, <2>8 DEF Request
  <2>9. CASE Begin \/ NothingToCheck \/ RemoveDropIn \/ NotProbed \/ Refuse \/ SwapDropIn
    BY <2>1, <2>9 DEF Begin, NothingToCheck, RemoveDropIn, NotProbed, Refuse, SwapDropIn
  <2>10. CASE FixLivePaths \/ PlanFlush \/ Stop \/ UNCHANGED vars
    BY <2>1, <2>10 DEF FixLivePaths, PlanFlush, Stop, vars
  <2>11. ~PromoteFlush
    BY DEF PromoteFlush
  <2> QED BY <1>1, <2>3, <2>4, <2>5, <2>6, <2>7, <2>8, <2>9, <2>10, <2>11 DEF Next, Sync, Preflight
<1>2. Spec => [][Kept]_vars
  BY <1>1, Invariant, PTL DEF Spec
<1> QED BY <1>2, PTL DEF LiveKeysStay

\* What the flush at the end of a promote reaches, for any settings: staging's
\* keys only in the two cases that PromoteKeepsStage names, promote.go:596-599.
\* docs/promote-and-restore.md:44 expects it to reach them in more.
THEOREM PromoteSparesStage == Spec => PromoteKeepsStage
<1> DEFINE Excepted == \/ IsPrefix(cfg["live"].prefix, cfg["stage"].prefix)
                       \/ dropIn["live"] = "ocp" /\ ~OcpApart
           Apart == dropIn["live"] = dropIn["stage"] /\ Reads("stage") \cap Reads("live") = {}
           Kept == pc = "idle" /\ pc' = "idle" /\ switches' = switches /\ Apart =>
                     UsedBy("stage") \subseteq keys' \/ Excepted
<1>1. ASSUME TypeOK, Apart, ~Excepted, NEW k \in UsedBy("stage")
      PROVE  k \notin Removes("live", ScopedFlush("live"))
  <2> DEFINE kind == dropIn["live"]
             p == PlaceOf(kind, "live")
             q == PlaceOf(kind, "stage")
             how == ScopedFlush("live")
  <2>1. /\ kind # "none" /\ kind \in AllKinds /\ k.at = q /\ k.at \in Reads("stage")
        /\ Reads("live") = {p} /\ k.at \notin Reads("live")
    BY <1>1, SiteTypes DEF Reads, Sites, UsedBy
  <2>2. k \in ByPrefix("live") => SameDatabase(q, p) /\ IsPrefix(p.prefix, q.prefix)
    BY <2>1 DEF ByPrefix
  <2>3. k \in ByDatabase("live") => SameDatabase(q, p)
    BY <2>1 DEF ByDatabase
  <2>4. kind # "ocp" => how = FlushPlan(kind, CachePrefix("live"), <<>>)
    BY <2>1 DEF ScopedFlush
  <2> HIDE DEF p, q, how
  <2>5. CASE kind \in {"redis", "wpredis"}
    <3>1. how \in {"prefix", "skip"}
      BY <2>4, <2>5, FlushPlanKind DEF AllKinds
    <3>2. p.prefix = cfg["live"].prefix /\ q.prefix = cfg["stage"].prefix
      BY <2>5, PlaceOfKind DEF p, q, Place, RedisKinds
    <3> QED BY <1>1, <2>2, <3>1, <3>2 DEF Removes, how
  <2>6. CASE kind = "hummingbird"
    <3>1. how = "skip" \/ (how = "plain" /\ CachePrefix("live") # <<>>)
      BY <2>4, <2>6, FlushPlanKind DEF AllKinds
    <3>2. how = "skip" \/ (how = "plain" /\ cfg["live"].prefix # <<>>)
      BY <3>1, LiteralPrefix
    <3>3. p.prefix = cfg["live"].prefix /\ q.prefix = cfg["stage"].prefix
      BY <2>6, PlaceOfKind DEF p, q, Place, RedisKinds
    <3> QED BY <1>1, <2>2, <2>6, <3>2, <3>3 DEF Removes, Plain, how
  <2>7. CASE kind = "litespeed"
    <3>1. how = "prefix"
      BY <2>4, <2>7, FlushPlanKind DEF AllKinds
    <3>2. p.prefix = <<"live">> /\ q.prefix = <<"stage">>
      BY <2>7, PlaceOfKind DEF p, q, Place
    <3> QED BY <2>2, <3>1, <3>2, PrefixFacts DEF Removes, how
  <2>8. CASE kind \in {"w3tc", "memcached"}
    <3>1. how = "plain"
      BY <2>4, <2>8, FlushPlanKind DEF AllKinds
    <3> QED BY <2>1, <2>8, <3>1 DEF Removes, Plain, how
  <2>9. CASE kind \in {"sqlite", "docket"}
    <3>1. how = "plain"
      BY <2>4, <2>9, FlushPlanKind DEF AllKinds
    <3>2. p.server = "live" /\ q.server = "stage"
      BY <2>9, PlaceOfKind DEF p, q, Place
    <3> QED BY <2>3, <2>9, <3>1, <3>2 DEF Removes, Plain, SameDatabase, how
  <2>10. CASE kind = "ocp"
    <3>1. how = "plain" /\ cfg["live"].db # cfg["stage"].db
      BY <1>1, <2>10 DEF ScopedFlush, OcpApart, how
    <3>2. p.db = cfg["live"].db /\ q.db = cfg["stage"].db
      BY <2>10, PlaceOfKind DEF p, q, Place, RedisKinds
    <3> QED BY <2>3, <2>10, <3>1, <3>2 DEF Removes, Plain, SameDatabase, how
  <2>11. CASE kind \in {"apcu", "memcachedServer", "other"}
    <3>1. how = "skip"
      BY <2>4, <2>11, FlushPlanKind DEF AllKinds
    <3> QED BY <3>1 DEF Removes, how
  <2> QED BY <2>1, <2>5, <2>6, <2>7, <2>8, <2>9, <2>10, <2>11 DEF AllKinds
<1>2. ASSUME TypeOK, [Next]_vars PROVE Kept
  <2> SUFFICES ASSUME pc = "idle", pc' = "idle", switches' = switches, Apart, ~Excepted,
                      NEW k \in UsedBy("stage")
               PROVE  k \in keys'
    OBVIOUS
  <2>1. k \in keys
    BY DEF UsedBy
  <2>2. CASE PromoteFlush
    BY <1>1, <1>2, <2>1, <2>2 DEF PromoteFlush
  <2>3. CASE UNCHANGED vars \/ \E s \in Sites : Request(s)
    BY <2>1, <2>3 DEF vars, Request
  <2>4. ~Sync /\ ~LiveSwitches
    BY DEF Sync, Preflight, Begin, NothingToCheck, RemoveDropIn, NotProbed, Refuse, SwapDropIn, ProbeSet,
           ProbeGet, ProbeFails, Rsync, FixLivePaths, PlanFlush, RunCommands, Flush, Stop, LiveSwitches
  <2> QED BY <1>2, <2>2, <2>3, <2>4 DEF Next
<1>3. Spec => [][Kept]_vars
  BY <1>2, TypesHold, PTL DEF Spec
<1> QED BY <1>3, PTL DEF PromoteKeepsStage
=============================================================================
