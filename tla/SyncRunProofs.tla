--------------------------- MODULE SyncRunProofs ---------------------------
(***************************************************************************)
(* Proofs about SyncRun, for any integrations, any folder name and any     *)
(* number of failures.  The inductive invariant follows a run through its  *)
(* program counter: each step that a later property relies on establishes  *)
(* one conjunct, whatever state earlier runs left, and no later step, no   *)
(* request to staging and no change of live takes it back.                 *)
(***************************************************************************)
EXTENDS SyncRun, TLAPS

\* The steps that may refuse the run.
Refusing == {"hosts", "check", "readable", "cache", "probe"}

----------------------------------------------------------------------------
\* The conjuncts of the inductive invariant.

\* ReadHosts picked a host that is not live's.
Hosted == pc \notin {"idle", "hosts"} => mem.host \in Hosts \ {"live"}

\* Up to the probe staging is as the run found it, but for the drop-in that the
\* probe will put back and what a plugin did.
AsFound ==
    pc \in Refusing =>
        /\ rows = mem.found.rows
        /\ [files EXCEPT !.dropIn = "none"] = [mem.found.files EXCEPT !.dropIn = "none"]
        /\ ~mem.putBack =>
              mem.found.files.dropIn = IF pc = "probe" THEN mem.old ELSE files.dropIn

Keyless ==
    pc \in {"anonymize", "rsync", "chown", "paths", "dropin_off", "files_off", "rows_off",
            "post", "done"} => rows.keys = {}

Masked ==
    pc \in {"rsync", "chown", "paths", "dropin_off", "files_off", "rows_off", "post", "done"}
    /\ opts.anonymize => ~rows.customers

CodeCopied ==
    pc \in {"chown", "paths", "dropin_off", "files_off", "rows_off", "post", "done"} =>
        files.code = "live"

\* With the object cache on rsync decides on the drop-in, with it off
\* DisableStageObjectCache does; a torn one of an earlier run stays in between.
DropInSettled ==
    /\ pc \in {"chown", "paths"} /\ ~opts.cacheOff => files.dropIn \in {"raw", "none", "stage"}
    /\ pc \in {"dropin_off", "files_off", "rows_off", "post", "done"} => ~files.livePaths
    /\ pc \in {"dropin_off", "files_off", "rows_off"} => opts.cacheOff
    /\ pc \in {"files_off", "rows_off", "post", "done"} => files.dropIn \notin {"raw", "torn"}

\* With the object cache on live's drop-in reaches WP-CLI on staging by rsync,
\* long after the probe; with it off it does not reach it at all.
Proven ==
    /\ pc \in {"export", "aside", "base", "users", "drop", "neutralize", "anonymize", "rsync"}
       /\ ~opts.cacheOff /\ liveCache => mem.known # "none"
    /\ pc \in {"chown", "paths"} /\ ~opts.cacheOff /\ files.dropIn = "raw" => mem.known # "none"
    /\ pc \in {"post", "done"} /\ files.dropIn = "live" => mem.known # "none"
    /\ pc \in {"files_off", "rows_off", "post", "done"} /\ opts.cacheOff =>
          files.dropIn \in {"none", "stage"}

\* DisableStageObjectCache: the drop-in, then the settings.
CacheOff ==
    opts.cacheOff =>
        /\ pc \in {"files_off", "rows_off", "post", "done"} /\ ~mem.putBack => files.dropIn = "none"
        /\ pc \in {"rows_off", "post", "done"} => ~files.cacheOn
        /\ pc \in {"post", "done"} => ~rows.cacheOn

\* The search-replaces before the next command have been made.
Replacing ==
    /\ pc \in {"post", "done"} =>
          /\ rows.links \cap {Forms[k] : k \in {n \in 1..4 : n < mem.command}} = {}
          /\ mem.command > 1 => rows.home = mem.host
    /\ pc = "done" => mem.command = 5
    /\ pc \notin {"post", "done"} => mem.command = 1

IInv ==
    /\ TypeOK /\ Hosted /\ AsFound /\ Keyless /\ Masked /\ CodeCopied
    /\ DropInSettled /\ Proven /\ CacheOff /\ Replacing
    /\ CompletedRunIsStage

----------------------------------------------------------------------------
\* The type of the run's memory, as in TypeOK.
Mems == [host : Hosts \cup {"none"}, old : DropIns, aside : Rows, snapshot : BOOLEAN,
         command : 1..5, putBack : BOOLEAN, known : {"none", "apart", "switched"},
         found : {<<>>} \cup [rows : Rows, files : Files]]

LEMMA NoRowsType == NoRows \in Rows
  BY DEF NoRows, Rows

LEMMA NoMemType == NoMem \in Mems
  BY NoRowsType DEF NoMem, Mems, DropIns

\* An error ends the run and leaves nothing in memory, so only the database and
\* the files must have the right form.
LEMMA AbortInv ==
  ASSUME IInv, NEW how \in {"refused", "unrestored", "failed", "crashed"}, Abort(how),
         rows' \in Rows, files' \in Files
  PROVE  IInv'
  <1>1. TypeOK'
    BY SyncAssumption, NoMemType DEF IInv, TypeOK, Abort, Mems, PCs
  <1>2. pc' = "idle" /\ mem' = NoMem /\ outcome' # "done"
    BY DEF Abort
  <1>3. Replacing'
    BY <1>2 DEF Replacing, NoMem
  <1> QED
    BY <1>1, <1>2, <1>3 DEF IInv, Hosted, AsFound, Refusing, Keyless,
       Masked, CodeCopied, DropInSettled, Proven, CacheOff, CompletedRunIsStage

LEMMA InitInv == Init => IInv
  <1> SUFFICES ASSUME Init PROVE IInv
    OBVIOUS
  <1>1. TypeOK
    <2>1. rows \in Rows /\ files \in Files
      BY DEF Init, NoRows, Rows, Files, Hosts, DropIns
    <2>2. opts \in Options
      BY DEF Init, Options
    <2> QED
      <3>1. liveCache \in BOOLEAN /\ pc = "idle" /\ mem = NoMem /\ outcome = "none" /\ faults = 0
        BY DEF Init
      <3> QED
        BY <2>1, <2>2, <3>1, NoMemType, SyncAssumption DEF TypeOK, Mems, PCs
  <1> QED
    BY <1>1 DEF Init, NoMem, IInv, Hosted, AsFound, Refusing, Keyless, Masked, CodeCopied,
       DropInSettled, Proven, CacheOff, Replacing, CompletedRunIsStage

LEMMA BeginInv == IInv /\ Begin => IInv'
  <1> SUFFICES ASSUME IInv, Begin PROVE IInv'
    OBVIOUS
  <1>1. TypeOK'
    <2>1. mem' \in Mems
      BY NoMemType DEF IInv, TypeOK, Begin, Site, Mems, NoMem
    <2> QED
      BY <2>1 DEF IInv, TypeOK, Begin, Mems, PCs
  <1>2. AsFound'
    BY DEF Begin, NoMem, Site, AsFound
  <1>3. pc' = "hosts" /\ Replacing'
    BY DEF Begin, NoMem, Replacing
  <1> QED
    BY <1>1, <1>2, <1>3 DEF IInv, Hosted, Keyless, Masked, CodeCopied,
       DropInSettled, Proven, CacheOff, CompletedRunIsStage

LEMMA ReadHostsInv == IInv /\ ReadHosts => IInv'
  <1> SUFFICES ASSUME IInv, ReadHosts PROVE IInv'
    OBVIOUS
  <1>1. CASE GotoWith("check", [mem EXCEPT !.host = PickStageHost])
    <2> USE <1>1 DEF ReadHosts, GotoWith
    <2>1. PickStageHost \in Hosts \ {"live"}
      BY SyncAssumption DEF IInv, TypeOK, PickStageHost, SiteHost, Rows, Hosts, Abort
    <2>2. TypeOK'
      BY <2>1 DEF IInv, TypeOK, PCs, Hosts
    <2>3. Hosted' /\ AsFound' /\ Replacing'
      BY <2>1 DEF IInv, TypeOK, Hosted, AsFound, Replacing, Refusing
    <2> QED
      BY <2>2, <2>3 DEF IInv, Keyless, Masked, CodeCopied,
         DropInSettled, Proven, CacheOff, CompletedRunIsStage
  <1>2. CASE Abort("refused")
    BY <1>2, AbortInv DEF IInv, TypeOK, ReadHosts
  <1> QED
    BY <1>1, <1>2 DEF ReadHosts

\* A step that reads only.
LEMMA LookInv ==
  ASSUME IInv, NEW next, Goto(next), UNCHANGED <<rows, files>>,
         \/ pc \in {"check", "readable"} /\ next \in {"readable", "cache"}
         \/ pc = "cache" /\ next = "export" /\ ~liveCache
  PROVE  IInv'
  <1> USE DEF Goto, GotoWith
  <1>1. TypeOK'
    BY DEF IInv, TypeOK, PCs
  <1>2. AsFound'
    BY DEF IInv, AsFound, Refusing
  <1> QED
    BY <1>1, <1>2 DEF IInv, Hosted, Keyless,
       Masked, CodeCopied, DropInSettled, Proven, CacheOff, Replacing, CompletedRunIsStage

LEMMA ChecksInv ==
  ASSUME IInv, PreflightIntegrations \/ CheckNeutralize \/ NoLiveCache
  PROVE  IInv'
  <1>1. CASE \E next \in {"readable", "cache", "export"} : Goto(next)
    BY <1>1, LookInv DEF PreflightIntegrations, CheckNeutralize, NoLiveCache, Goto, GotoWith,
       Abort
  <1>2. CASE Abort("refused")
    BY <1>2, AbortInv DEF PreflightIntegrations, CheckNeutralize, NoLiveCache, IInv, TypeOK
  <1> QED
    BY <1>1, <1>2 DEF PreflightIntegrations, CheckNeutralize, NoLiveCache

----------------------------------------------------------------------------
\* The preflight of the object cache.
LEMMA RemoveBeforeInv == IInv /\ RemoveBefore => IInv'
  <1> SUFFICES ASSUME IInv, RemoveBefore PROVE IInv'
    OBVIOUS
  <1>1. [files EXCEPT !.dropIn = "none"] \in Files
    BY DEF IInv, TypeOK, Files, DropIns
  <1>2. CASE Goto("export") /\ files' = [files EXCEPT !.dropIn = "none"]
    <2>1. TypeOK'
      BY <1>1, <1>2 DEF IInv, TypeOK, PCs, Goto, GotoWith, RemoveBefore
    <2> QED
      BY <1>2, <2>1 DEF RemoveBefore, Goto, GotoWith, Refusing, IInv, Hosted, AsFound, Keyless,
         Masked, CodeCopied, DropInSettled, Proven, CacheOff, Replacing, CompletedRunIsStage
  <1>3. CASE Abort("failed")
    BY <1>1, <1>3, AbortInv DEF IInv, TypeOK, RemoveBefore
  <1> QED
    BY <1>2, <1>3 DEF RemoveBefore

LEMMA SwapDropInInv == IInv /\ SwapDropIn => IInv'
  <1> SUFFICES ASSUME IInv, SwapDropIn PROVE IInv'
    OBVIOUS
  <1>1. \A d \in DropIns : [files EXCEPT !.dropIn = d] \in Files
    BY DEF IInv, TypeOK, Files
  <1>2. CASE /\ files' = [files EXCEPT !.dropIn = "live"]
             /\ GotoWith("probe", [mem EXCEPT !.old = files.dropIn, !.known = "none"])
    <2> USE <1>2 DEF GotoWith
    <2>1. files.dropIn \in DropIns /\ files' \in Files
      BY <1>1 DEF IInv, TypeOK, Files, DropIns
    <2>2. TypeOK'
      BY <2>1 DEF IInv, TypeOK, PCs, SwapDropIn
    <2>3. AsFound'
      BY DEF IInv, TypeOK, Files, AsFound, Refusing, SwapDropIn
    <2> QED
      BY <2>2, <2>3 DEF SwapDropIn, IInv, TypeOK, Refusing, Hosted, AsFound, Keyless,
         Masked, CodeCopied, DropInSettled, Proven, CacheOff, Replacing, CompletedRunIsStage
  <1>3. CASE Abort("failed")
    BY <1>1, <1>3, AbortInv DEF IInv, TypeOK, SwapDropIn, DropIns
  <1>4. CASE Abort("refused") /\ files' = files
    BY <1>4, AbortInv DEF IInv, TypeOK, SwapDropIn
  <1> QED
    BY <1>2, <1>3, <1>4 DEF SwapDropIn

LEMMA ProbeInv == IInv /\ Probe => IInv'
  <1> SUFFICES ASSUME IInv, Probe PROVE IInv'
    OBVIOUS
  <1>1. \A d \in DropIns : [files EXCEPT !.dropIn = d] \in Files
    BY DEF IInv, TypeOK, Files
  <1>2. CASE GotoWith("export", Isolated) /\ files' = files
    <2>1. /\ Isolated = [mem EXCEPT !.known = Isolated.known]
          /\ Isolated.known \in {"apart", "switched"}
      BY DEF Isolated, IInv, TypeOK
    <2>2. TypeOK'
      BY <1>2, <2>1 DEF IInv, TypeOK, PCs, GotoWith, Probe
    <2>3. mem'.known # "none" /\ \A f \in {"host", "command", "putBack"} : mem'[f] = mem[f]
      BY <1>2, <2>1 DEF GotoWith, IInv, TypeOK
    <2> QED
      BY <1>2, <2>2, <2>3 DEF Probe, GotoWith, Refusing, IInv, Hosted, AsFound, Keyless, Masked,
         CodeCopied, DropInSettled, Proven, CacheOff, Replacing, CompletedRunIsStage
  <1>3. CASE \E how \in {"refused", "unrestored"} : Abort(how)
    <2>1. mem.old \in DropIns /\ files' \in Files /\ rows' \in Rows
      BY <1>1, <1>3 DEF IInv, TypeOK, Probe, Unrestored, DropIns, GotoWith, Abort
    <2> QED
      BY <1>3, <2>1, AbortInv
  <1> QED
    BY <1>2, <1>3 DEF Probe

----------------------------------------------------------------------------
\* The export and the steps on the database.
LEMMA ExportInv == IInv /\ Export => IInv'
  <1> SUFFICES ASSUME IInv, Export PROVE IInv'
    OBVIOUS
  <1>1. CASE GotoWith("aside", [mem EXCEPT !.snapshot = liveCache, !.found = <<>>])
    <2>1. TypeOK'
      BY <1>1 DEF IInv, TypeOK, PCs, GotoWith, Export
    <2> QED
      BY <1>1, <2>1 DEF Export, GotoWith, TypeOK, Refusing, IInv, Hosted, AsFound, Keyless,
         Masked, CodeCopied, DropInSettled, Proven, CacheOff, Replacing, CompletedRunIsStage
  <1>2. CASE Abort("failed")
    BY <1>2, AbortInv DEF IInv, TypeOK, Export
  <1> QED
    BY <1>1, <1>2 DEF Export

LEMMA ImportInv == IInv /\ Import => IInv'
  <1> SUFFICES ASSUME IInv, Import PROVE IInv'
    OBVIOUS
  <1>1. CASE MoveAside
    <2>1. TypeOK'
      BY <1>1, NoRowsType DEF IInv, TypeOK, PCs, GotoWith, MoveAside
    <2> QED
      BY <1>1, <2>1 DEF MoveAside, GotoWith, TypeOK, Refusing, IInv, Hosted, AsFound, Keyless,
         Masked, CodeCopied, DropInSettled, Proven, CacheOff, Replacing, CompletedRunIsStage
  <1>2. CASE LoadBase
    <2>1. rows' \in Rows
      BY <1>2 DEF LoadBase, Rows, Hosts, IInv, TypeOK
    <2>2. TypeOK'
      BY <1>2, <2>1 DEF IInv, TypeOK, PCs, Goto, GotoWith, LoadBase
    <2> QED
      BY <1>2, <2>2 DEF LoadBase, Goto, GotoWith, TypeOK, Refusing, IInv, Hosted, AsFound,
         Keyless, Masked, CodeCopied, DropInSettled, Proven, CacheOff, Replacing,
         CompletedRunIsStage
  <1>3. CASE LoadUsers
    <2>1. rows' \in Rows
      BY <1>3 DEF LoadUsers, Rows, IInv, TypeOK
    <2>2. TypeOK'
      BY <1>3, <2>1, NoRowsType DEF IInv, TypeOK, PCs, GotoWith, LoadUsers
    <2> QED
      BY <1>3, <2>2 DEF LoadUsers, GotoWith, TypeOK, Refusing, IInv, Hosted, AsFound, Keyless,
         Masked, CodeCopied, DropInSettled, Proven, CacheOff, Replacing, CompletedRunIsStage
  <1>4. CASE DropBackups
    <2>1. CASE Goto("neutralize")
      <3>1. TypeOK'
        BY <1>4, <2>1 DEF IInv, TypeOK, PCs, Goto, GotoWith, DropBackups
      <3> QED
        BY <1>4, <2>1, <3>1 DEF DropBackups, Goto, GotoWith, TypeOK, Refusing, IInv, Hosted,
           AsFound, Keyless, Masked, CodeCopied, DropInSettled, Proven, CacheOff, Replacing,
           CompletedRunIsStage
    <2>2. CASE Abort("failed")
      BY <1>4, <2>2, AbortInv DEF IInv, TypeOK, DropBackups
    <2> QED
      BY <1>4, <2>1, <2>2 DEF DropBackups
  <1>5. CASE ImportFails
    <2>1. mem.aside \in Rows
      BY DEF IInv, TypeOK
    <2> QED
      BY <1>5, <2>1, NoRowsType, AbortInv DEF ImportFails, IInv, TypeOK
  <1> QED
    BY <1>1, <1>2, <1>3, <1>4, <1>5 DEF Import

LEMMA NeutralizeInv == IInv /\ Neutralize => IInv'
  <1> SUFFICES ASSUME IInv, Neutralize PROVE IInv'
    OBVIOUS
  <1>1. CASE \E k \in rows.keys : /\ rows' = [rows EXCEPT !.keys = @ \ {k}]
                                   /\ Goto("neutralize")
    <2>1. rows' \in Rows
      BY <1>1 DEF IInv, TypeOK, Rows
    <2>2. TypeOK'
      BY <1>1, <2>1 DEF IInv, TypeOK, Goto, GotoWith, Neutralize
    <2> QED
      BY <1>1, <2>2 DEF Neutralize, Goto, GotoWith, Refusing, IInv, Hosted, AsFound, Keyless,
         Masked, CodeCopied, DropInSettled, Proven, CacheOff, Replacing, CompletedRunIsStage
  <1>2. CASE rows.keys = {} /\ rows' = rows /\ Goto("anonymize")
    <2>1. TypeOK'
      BY <1>2 DEF IInv, TypeOK, PCs, Goto, GotoWith, Neutralize
    <2> QED
      BY <1>2, <2>1 DEF Neutralize, Goto, GotoWith, Refusing, IInv, Hosted, AsFound, Keyless,
         Masked, CodeCopied, DropInSettled, Proven, CacheOff, Replacing, CompletedRunIsStage
  <1>3. CASE rows' = rows /\ Abort("failed")
    BY <1>3, AbortInv DEF IInv, TypeOK, Neutralize
  <1> QED
    BY <1>1, <1>2, <1>3 DEF Neutralize

LEMMA AnonymizeInv == IInv /\ Anonymize => IInv'
  <1> SUFFICES ASSUME IInv, Anonymize PROVE IInv'
    OBVIOUS
  <1>1. CASE Goto("rsync")
    <2>1. rows \in Rows /\ rows' \in {rows, [rows EXCEPT !.customers = FALSE]}
      BY <1>1 DEF IInv, TypeOK, Anonymize
    <2>2. rows' \in Rows /\ rows'.keys = rows.keys
      BY <2>1 DEF Rows
    <2>3. TypeOK'
      BY <1>1, <2>2 DEF IInv, TypeOK, PCs, Goto, GotoWith, Anonymize
    <2>4. opts.anonymize => rows' = [rows EXCEPT !.customers = FALSE]
      BY <1>1 DEF Anonymize, Goto, GotoWith, Abort
    <2>5. opts.anonymize => ~rows'.customers
      BY <2>1, <2>4 DEF Rows
    <2> QED
      BY <1>1, <2>2, <2>3, <2>5 DEF Anonymize, Goto, GotoWith, Refusing, IInv, Hosted, AsFound,
         Keyless, Masked, CodeCopied, DropInSettled, Proven, CacheOff, Replacing,
         CompletedRunIsStage
  <1>2. CASE rows' = rows /\ Abort("failed")
    BY <1>2, AbortInv DEF IInv, TypeOK, Anonymize
  <1> QED
    BY <1>1, <1>2 DEF Anonymize

----------------------------------------------------------------------------
\* The steps on the files.
LEMMA FileValues ==
  ASSUME IInv
  PROVE  /\ Copied \in Files /\ [Copied EXCEPT !.code = "mixed"] \in Files
         /\ [Copied EXCEPT !.code = "mixed", !.dropIn = files.dropIn] \in Files
         /\ \A d \in DropIns : [files EXCEPT !.dropIn = d] \in Files
         /\ files.dropIn \in DropIns /\ Fixed(files.dropIn) \in DropIns
  BY DEF IInv, TypeOK, Copied, Files, DropIns, Fixed

LEMMA RsyncInv == IInv /\ Rsync => IInv'
  <1> SUFFICES ASSUME IInv, Rsync PROVE IInv'
    OBVIOUS
  <1>1. CASE files' = Copied /\ Goto("chown")
    <2>1. TypeOK'
      BY <1>1, FileValues DEF IInv, TypeOK, PCs, Goto, GotoWith, Rsync
    <2>2. DropInSettled' /\ CodeCopied'
      BY <1>1 DEF Copied, DropInSettled, CodeCopied, Goto, GotoWith
    <2>3. Proven'
      BY <1>1 DEF IInv, Proven, Copied, Rsync, Goto, GotoWith
    <2> QED
      BY <1>1, <2>1, <2>2, <2>3 DEF Rsync, Goto, GotoWith, Refusing, IInv, Hosted, AsFound,
         Keyless, Masked, CacheOff, Replacing, CompletedRunIsStage
  <1>2. CASE Abort("failed")
    BY <1>2, FileValues, AbortInv DEF IInv, TypeOK, Rsync
  <1> QED
    BY <1>1, <1>2 DEF Rsync

LEMMA ChownInv == IInv /\ Chown => IInv'
  <1> SUFFICES ASSUME IInv, Chown PROVE IInv'
    OBVIOUS
  <1>1. CASE Goto("paths")
    <2>1. TypeOK'
      BY <1>1 DEF IInv, TypeOK, PCs, Goto, GotoWith, Chown
    <2> QED
      BY <1>1, <2>1 DEF Chown, Goto, GotoWith, Refusing, IInv, Hosted, AsFound, Keyless,
         Masked, CodeCopied, DropInSettled, Proven, CacheOff, Replacing, CompletedRunIsStage
  <1>2. CASE Abort("failed")
    BY <1>2, AbortInv DEF IInv, TypeOK, Chown
  <1> QED
    BY <1>1, <1>2 DEF Chown

LEMMA FixLivePathsInv == IInv /\ FixLivePaths => IInv'
  <1> SUFFICES ASSUME IInv, FixLivePaths PROVE IInv'
    OBVIOUS
  <1>1. CASE /\ files' = [files EXCEPT !.livePaths = FALSE, !.dropIn = Fixed(@)]
             /\ Goto(AfterPaths)
    <2>1. files' \in Files
      BY <1>1, FileValues DEF IInv, TypeOK, Files
    <2>2. TypeOK'
      BY <1>1, <2>1 DEF IInv, TypeOK, PCs, Goto, GotoWith, FixLivePaths, AfterPaths
    <2>3. DropInSettled' /\ CodeCopied'
      BY <1>1 DEF IInv, TypeOK, Files, DropInSettled, CodeCopied, Goto, GotoWith, FixLivePaths,
         AfterPaths, Fixed
    <2>4. Replacing'
      BY <1>1 DEF IInv, Replacing, Goto, GotoWith, FixLivePaths, AfterPaths
    <2>5. Proven'
      BY <1>1 DEF IInv, TypeOK, Files, Proven, DropInSettled, Fixed, Goto, GotoWith, FixLivePaths,
         AfterPaths
    <2> QED
      BY <1>1, <2>2, <2>3, <2>4, <2>5 DEF FixLivePaths, AfterPaths, Goto, GotoWith, Refusing,
         IInv, Hosted, AsFound, Keyless, Masked, CacheOff, CompletedRunIsStage
  <1>2. CASE Abort("failed")
    <2>1. files' \in Files
      <3>1. CASE files' = [files EXCEPT !.dropIn = IF @ = "raw" THEN "torn" ELSE @]
        BY <3>1 DEF IInv, TypeOK, Files, DropIns
      <3>2. CASE files' \in {files, [files EXCEPT !.dropIn = Fixed(@)]}
        BY <3>2, FileValues DEF IInv, TypeOK
      <3> QED
        BY <1>2, <3>1, <3>2 DEF FixLivePaths, AfterPaths, Goto, GotoWith, Abort
    <2> QED
      BY <1>2, <2>1, AbortInv DEF IInv, TypeOK, FixLivePaths
  <1> QED
    BY <1>1, <1>2 DEF FixLivePaths

LEMMA RemoveAfterInv == IInv /\ RemoveAfter => IInv'
  <1> SUFFICES ASSUME IInv, RemoveAfter PROVE IInv'
    OBVIOUS
  <1>1. CASE files' = [files EXCEPT !.dropIn = "none"] /\ Goto("files_off")
    <2>1. TypeOK'
      BY <1>1, FileValues DEF IInv, TypeOK, PCs, Goto, GotoWith, RemoveAfter, DropIns
    <2> QED
      BY <1>1, <2>1 DEF RemoveAfter, TypeOK, Files, Goto, GotoWith, Refusing, IInv, Hosted,
         AsFound, Keyless, Masked, CodeCopied, DropInSettled, Proven, CacheOff, Replacing,
         CompletedRunIsStage
  <1>2. CASE Abort("failed")
    BY <1>2, FileValues, AbortInv DEF IInv, TypeOK, RemoveAfter, DropIns
  <1> QED
    BY <1>1, <1>2 DEF RemoveAfter

LEMMA SwitchOffFilesInv == IInv /\ SwitchOffFiles => IInv'
  <1> SUFFICES ASSUME IInv, SwitchOffFiles PROVE IInv'
    OBVIOUS
  <1>1. CASE files' = [files EXCEPT !.cacheOn = FALSE] /\ Goto("rows_off")
    <2>1. files' \in Files
      BY <1>1 DEF IInv, TypeOK, Files
    <2>2. TypeOK'
      BY <1>1, <2>1 DEF IInv, TypeOK, PCs, Goto, GotoWith, SwitchOffFiles
    <2> QED
      BY <1>1, <2>2 DEF SwitchOffFiles, TypeOK, Files, Goto, GotoWith, Refusing, IInv, Hosted,
         AsFound, Keyless, Masked, CodeCopied, DropInSettled, Proven, CacheOff, Replacing,
         CompletedRunIsStage
  <1>2. CASE files' = files /\ Abort("failed")
    BY <1>2, AbortInv DEF IInv, TypeOK, SwitchOffFiles
  <1> QED
    BY <1>1, <1>2 DEF SwitchOffFiles

LEMMA SwitchOffRowsInv == IInv /\ SwitchOffRows => IInv'
  <1> SUFFICES ASSUME IInv, SwitchOffRows PROVE IInv'
    OBVIOUS
  <1>1. CASE rows' = [rows EXCEPT !.cacheOn = FALSE] /\ Goto("post")
    <2>1. rows' \in Rows
      BY <1>1 DEF IInv, TypeOK, Rows
    <2>2. TypeOK'
      BY <1>1, <2>1 DEF IInv, TypeOK, PCs, Goto, GotoWith, SwitchOffRows
    <2>3. Replacing'
      BY <1>1 DEF SwitchOffRows, Goto, GotoWith, IInv, Replacing
    <2> QED
      BY <1>1, <2>2, <2>3 DEF SwitchOffRows, TypeOK, Rows, Goto, GotoWith, Refusing, IInv, Hosted,
         AsFound, Keyless,
            Masked, CodeCopied, DropInSettled, Proven, CacheOff, CompletedRunIsStage
  <1>2. CASE rows' = rows /\ Abort("failed")
    BY <1>2, AbortInv DEF IInv, TypeOK, SwitchOffRows
  <1> QED
    BY <1>1, <1>2 DEF SwitchOffRows

----------------------------------------------------------------------------
\* WP-CLI, and the end of a run.
LEMMA SearchReplaceInv == IInv /\ SearchReplace => IInv'
  <1> SUFFICES ASSUME IInv, SearchReplace PROVE IInv'
    OBVIOUS
  <1> DEFINE form == Forms[mem.command]
  <1>1. mem.command \in 1..4 /\ mem.host \in Hosts /\ rows \in Rows
    BY DEF IInv, TypeOK, SearchReplace, Hosted
  <1>2. /\ Replaced(rows, form) \in Rows
        /\ Replaced(rows, form).links = rows.links \ {form}
        /\ Replaced(rows, form).keys = rows.keys
        /\ Replaced(rows, form).customers = rows.customers
        /\ Replaced(rows, form).cacheOn = rows.cacheOn
        /\ Replaced(rows, form).home = IF form = "https" THEN mem.host ELSE rows.home
    BY <1>1 DEF Replaced, Rows
  <1>3. CASE /\ rows' = Replaced(rows, form)
             /\ GotoWith("post", [mem EXCEPT !.command = @ + 1])
    <2>1. mem.command' = mem.command + 1 /\ mem.host' = mem.host /\ mem.putBack' = mem.putBack
      BY <1>3 DEF GotoWith, IInv, TypeOK
    <2>2. TypeOK'
      BY <1>1, <1>2, <1>3 DEF IInv, TypeOK, GotoWith, SearchReplace
    <2>3. Replacing'
      <3>1. rows.links \cap {Forms[k] : k \in {n \in 1..4 : n < mem.command}} = {}
        BY DEF IInv, Replacing, SearchReplace
      <3>2. rows'.links \cap {Forms[k] : k \in {n \in 1..4 : n < mem.command + 1}} = {}
        BY <1>1, <1>2, <1>3, <3>1
      <3>3. mem.command = 1 => form = "https"
        BY DEF Forms
      <3>4. rows'.home = mem.host
        BY <1>1, <1>2, <1>3, <3>3 DEF IInv, Replacing, SearchReplace
      <3> QED
        BY <1>1, <1>3, <2>1, <3>2, <3>4 DEF Replacing, GotoWith
    <2> QED
      BY <1>2, <1>3, <2>1, <2>2, <2>3 DEF SearchReplace, GotoWith, Refusing, IInv, Hosted,
         AsFound, Keyless,
            Masked, CodeCopied, DropInSettled, Proven, CacheOff, CompletedRunIsStage
  <1>4. CASE /\ rows' \in {rows, [Replaced(rows, form) EXCEPT !.links = rows.links]}
             /\ Abort("failed")
    <2>1. rows' \in Rows
      BY <1>1, <1>2, <1>4 DEF Rows
    <2> QED
      BY <1>4, <2>1, AbortInv DEF IInv, TypeOK, SearchReplace
  <1> QED
    BY <1>3, <1>4 DEF SearchReplace

\* When all four forms are replaced, no link to live is left.
LEMMA OtherCommandsInv == IInv /\ OtherCommands => IInv'
  <1> SUFFICES ASSUME IInv, OtherCommands PROVE IInv'
    OBVIOUS
  <1>1. CASE Goto("done")
    <2>1. TypeOK'
      BY <1>1 DEF IInv, TypeOK, PCs, Goto, GotoWith, OtherCommands
    <2>2. rows.links = {}
      <3>1. {n \in 1..4 : n < mem.command} = 1..4
        BY DEF OtherCommands
      <3>2. rows.links \cap AllForms = {}
        BY <3>1 DEF IInv, Replacing, OtherCommands, AllForms
      <3> QED
        BY <3>2 DEF IInv, TypeOK, Rows
    <2>3. rows.home = mem.host /\ mem.host \in Hosts \ {"live"}
      BY DEF IInv, Replacing, Hosted, OtherCommands
    <2>4. CompletedRunIsStage'
      BY <1>1, <2>2, <2>3 DEF CompletedRunIsStage, Synced, OtherCommands, Goto, GotoWith, IInv,
         TypeOK, Hosts, Keyless, Masked, CodeCopied, DropInSettled
    <2> QED
      BY <1>1, <2>1, <2>4 DEF OtherCommands, Goto, GotoWith, Refusing, IInv, Hosted, AsFound,
         Keyless, Masked, CodeCopied, DropInSettled, Proven, CacheOff, Replacing
  <1>2. CASE Abort("failed")
    BY <1>2, AbortInv DEF IInv, TypeOK, OtherCommands
  <1> QED
    BY <1>1, <1>2 DEF OtherCommands

LEMMA FinishInv == IInv /\ Finish => IInv'
  <1> SUFFICES ASSUME IInv, Finish PROVE IInv'
    OBVIOUS
  <1>1. TypeOK'
    BY NoMemType DEF IInv, TypeOK, Finish, Mems, PCs
  <1>2. Replacing'
    BY DEF Finish, NoMem, Replacing
  <1>3. CompletedRunIsStage'
    BY DEF Finish, IInv, CompletedRunIsStage, Synced
  <1> QED
    BY <1>1, <1>2, <1>3 DEF Finish, IInv, Hosted, AsFound, Refusing, Keyless,
       Masked, CodeCopied, DropInSettled, Proven, CacheOff

LEMMA CrashInv == IInv /\ Crash => IInv'
  BY AbortInv DEF Crash, IInv, TypeOK

----------------------------------------------------------------------------
\* What goes on around a run.
LEMMA PluginPutsBackInv == IInv /\ PluginPutsBack => IInv'
  <1> SUFFICES ASSUME IInv, PluginPutsBack PROVE IInv'
    OBVIOUS
  <1>1. TypeOK'
    BY FileValues DEF PluginPutsBack, IInv, TypeOK, DropIns
  <1>2. /\ files'.code = files.code /\ files'.livePaths = files.livePaths
        /\ files'.cacheOn = files.cacheOn /\ files'.dropIn = "stage"
        /\ [files' EXCEPT !.dropIn = "none"] = [files EXCEPT !.dropIn = "none"]
    BY DEF PluginPutsBack, IInv, TypeOK, Files
  <1>3. /\ mem'.host = mem.host /\ mem'.found = mem.found /\ mem'.command = mem.command
        /\ mem'.known = mem.known
        /\ pc # "idle" => mem'.putBack
    BY DEF PluginPutsBack, IInv, TypeOK
  <1>4. UNCHANGED <<rows, liveCache, pc, opts, outcome>>
    BY DEF PluginPutsBack
  <1>5. AsFound'
    BY <1>2, <1>3, <1>4 DEF IInv, AsFound, Refusing
  <1>6. CompletedRunIsStage' /\ Replacing' /\ CodeCopied'
    BY <1>2, <1>3, <1>4 DEF IInv, CompletedRunIsStage, Synced, Replacing, CodeCopied
  <1>7. DropInSettled' /\ Proven' /\ CacheOff'
    BY <1>2, <1>3, <1>4 DEF IInv, DropInSettled, Proven, CacheOff
  <1> QED
    BY <1>1, <1>3, <1>4, <1>5, <1>6, <1>7 DEF IInv, Hosted, Keyless, Masked

LEMMA LiveSwitchesCacheInv == IInv /\ LiveSwitchesCache => IInv'
  <1> SUFFICES ASSUME IInv, LiveSwitchesCache PROVE IInv'
    OBVIOUS
  <1>1. UNCHANGED <<rows, files, pc, opts, outcome, faults>>
    BY DEF LiveSwitchesCache
  <1>2. /\ \A f \in {"host", "old", "command", "putBack", "found"} : mem'[f] = mem[f]
        /\ mem'.known \in {mem.known, "switched"}
        /\ pc # "idle" => mem'.known = "switched"
    BY DEF LiveSwitchesCache, IInv, TypeOK
  <1>3. TypeOK'
    BY <1>1 DEF LiveSwitchesCache, IInv, TypeOK
  <1>4. Hosted' /\ AsFound' /\ Replacing' /\ CacheOff'
    BY <1>1, <1>2 DEF IInv, Hosted, AsFound, Refusing, Replacing, CacheOff
  <1>5. Proven'
    BY <1>1, <1>2 DEF IInv, Proven
  <1> QED
    BY <1>1, <1>3, <1>4, <1>5 DEF IInv, Keyless, Masked, CodeCopied, DropInSettled,
       CompletedRunIsStage, Synced

LEMMA StutterInv == IInv /\ UNCHANGED vars => IInv'
  BY DEF vars, TypeOK, Refusing, IInv, Synced, Hosted, AsFound, Keyless,
     Masked, CodeCopied, DropInSettled, Proven, CacheOff, Replacing, CompletedRunIsStage

LEMMA StepInv == IInv /\ [Next]_vars => IInv'
  <1> SUFFICES ASSUME IInv, [Next]_vars PROVE IInv'
    OBVIOUS
  <1>1. CASE Begin \/ Export \/ Import \/ Neutralize \/ Anonymize \/ Finish
    BY <1>1, BeginInv, ExportInv, ImportInv, NeutralizeInv, AnonymizeInv, FinishInv
  <1>2. CASE Preflight
    BY <1>2, ReadHostsInv, ChecksInv, RemoveBeforeInv, SwapDropInInv, ProbeInv DEF Preflight
  <1>3. CASE FileSteps
    BY <1>3, RsyncInv, ChownInv, FixLivePathsInv, RemoveAfterInv, SwitchOffFilesInv,
       SwitchOffRowsInv DEF FileSteps
  <1>4. CASE PostProcess
    BY <1>4, SearchReplaceInv, OtherCommandsInv DEF PostProcess
  <1>5. CASE Crash \/ PluginPutsBack \/ LiveSwitchesCache \/ UNCHANGED vars
    BY <1>5, CrashInv, PluginPutsBackInv, LiveSwitchesCacheInv, StutterInv
  <1> QED
    BY <1>1, <1>2, <1>3, <1>4, <1>5 DEF Next, Step

LEMMA Invariant == Spec => []IInv
  BY InitInv, StepInv, PTL DEF Spec

----------------------------------------------------------------------------
\* The variables keep their types: a run never leaves the list of its steps, and
\* no earlier run leaves a database or a folder of an unknown form.
THEOREM TypesHold == Spec => []TypeOK
  <1>1. IInv => TypeOK
    BY DEF IInv
  <1> QED
    BY Invariant, <1>1, PTL

\* Whatever failed before, WP-CLI runs on staging only when live's keys are gone,
\* the customers are masked if asked for, no path leads to live and the drop-in
\* is whole (main.go:337-371).
THEOREM CodeAlwaysRunsClean == Spec => []CodeRunsClean
  <1>1. IInv => CodeRunsClean
    BY DEF IInv, CodeRunsClean, Hosted, Keyless, Masked, DropInSettled
  <1> QED
    BY Invariant, <1>1, PTL

\* A completed run leaves a whole staging site, which stays whole until the next
\* run, for any integrations and any history of failures.
THEOREM CompletedRunIsStageHolds == Spec => []CompletedRunIsStage
  <1>1. IInv => CompletedRunIsStage
    BY DEF IInv
  <1> QED
    BY Invariant, <1>1, PTL

\* With stage_object_cache_off no drop-in and no setting is left that brings one
\* back, unless a plugin put it back during the run.
THEOREM NoCacheIsLeft == Spec => []NoCacheLeft
  <1>1. IInv => NoCacheLeft
    BY DEF IInv, NoCacheLeft, CacheOff
  <1> QED
    BY Invariant, <1>1, PTL

\* Whatever drop-in a run that died before its probe left on staging, WP-CLI
\* runs with live's drop-in there only after this run's own probe, or where live
\* switched its cache in between (objectcache.go:392-394).
THEOREM DropInIsProved == Spec => []DropInProved
  <1>1. IInv => DropInProved
    BY DEF IInv, TypeOK, DropInProved, Proven
  <1> QED
    BY Invariant, <1>1, PTL

\* A refused run changed nothing on staging (objectcache.go:367-380), but for the
\* drop-in where restore() failed: that refusal is one of `Refused` as well, and
\* the drop-in is the one thing that can differ then.
THEOREM RefusalsChangeNothing == Spec => RefusalChangesNothing
  <1> DEFINE Unchanged ==
        pc # "idle" /\ pc' = "idle" /\ outcome' \in Refused =>
          /\ rows' = mem.found.rows
          /\ [files' EXCEPT !.dropIn = "none"] = [mem.found.files EXCEPT !.dropIn = "none"]
          /\ ~mem.putBack /\ outcome' # "unrestored" => files'.dropIn = mem.found.files.dropIn
  <1>1. IInv /\ [Next]_vars => [Unchanged]_vars
    <2> SUFFICES ASSUME IInv, Next, pc # "idle", pc' = "idle", outcome' \in Refused
                 PROVE  /\ rows' = mem.found.rows
                        /\ [files' EXCEPT !.dropIn = "none"]
                               = [mem.found.files EXCEPT !.dropIn = "none"]
                        /\ ~mem.putBack /\ outcome' # "unrestored" =>
                               files'.dropIn = mem.found.files.dropIn
      OBVIOUS
    <2>1. CASE ReadHosts \/ PreflightIntegrations \/ CheckNeutralize
      BY <2>1 DEF IInv, AsFound, Refusing, ReadHosts, PreflightIntegrations, CheckNeutralize,
         Goto, GotoWith
    <2>2. CASE Probe
      <3>1. rows' = rows /\ pc = "probe"
        BY <2>2 DEF Probe
      <3>2. [files' EXCEPT !.dropIn = "none"] = [files EXCEPT !.dropIn = "none"]
        BY <2>2 DEF Probe, Unrestored, IInv, TypeOK, Files
      <3>3. outcome' # "unrestored" => files' = [files EXCEPT !.dropIn = mem.old]
        BY <2>2 DEF Probe, GotoWith, Abort
      <3> QED
        BY <3>1, <3>2, <3>3 DEF IInv, TypeOK, Files, AsFound, Refusing
    <2>3. CASE SwapDropIn
      <3>1. files' = files /\ rows' = rows /\ pc = "cache"
        BY <2>3 DEF SwapDropIn, Refused, GotoWith, Abort
      <3> QED
        BY <3>1 DEF IInv, AsFound, Refusing
    <2>4. CASE NoLiveCache \/ RemoveBefore \/ Export \/ Import \/ Neutralize \/ Anonymize
      BY <2>4 DEF NoLiveCache, RemoveBefore, Export, Import, MoveAside, LoadBase, LoadUsers,
         DropBackups, ImportFails, Neutralize, Anonymize, Refused, Goto, GotoWith, Abort
    <2>5. CASE FileSteps \/ PostProcess
      BY <2>5 DEF FileSteps, Rsync, Chown, FixLivePaths, AfterPaths, RemoveAfter, SwitchOffFiles,
         SwitchOffRows, PostProcess, SearchReplace, OtherCommands, Refused, Goto, GotoWith, Abort
    <2>6. CASE Begin \/ Finish \/ Crash \/ PluginPutsBack \/ LiveSwitchesCache
      BY <2>6 DEF Begin, Finish, Crash, PluginPutsBack, LiveSwitchesCache, Refused, Abort
    <2> QED
      BY <2>1, <2>2, <2>3, <2>4, <2>5, <2>6 DEF Next, Step, Preflight
  <1> QED
    BY Invariant, <1>1, PTL DEF Spec, RefusalChangesNothing

----------------------------------------------------------------------------
\* The hosts that can be in the database if the folder has the staging host's name.
OwnHost ==
    /\ rows.home \in {"stage", "live", "none"}
    /\ mem.aside.home \in {"stage", "live", "none"}
    /\ pc \notin {"idle", "hosts"} => mem.host = "stage"

LEMMA OwnHostStep ==
  ASSUME DirHost = "stage", IInv, OwnHost, [Next]_vars
  PROVE  OwnHost'
  <1> USE DEF OwnHost, Goto, GotoWith
  <1>1. NoRows.home = "none" /\ NoMem.aside.home = "none"
    BY DEF NoRows, NoMem
  <1>2. CASE Begin \/ Finish
    BY <1>1, <1>2 DEF Begin, Finish, NoMem, Site
  <1>3. CASE ReadHosts
    BY <1>1, <1>3 DEF ReadHosts, Abort, PickStageHost, SiteHost, IInv, TypeOK
  <1>4. CASE PreflightIntegrations \/ CheckNeutralize \/ NoLiveCache \/ RemoveBefore \/ SwapDropIn \/ Probe
    BY <1>1, <1>4 DEF PreflightIntegrations, CheckNeutralize, NoLiveCache, RemoveBefore,
       SwapDropIn, Probe, Isolated, Abort, IInv, TypeOK
  <1>5. CASE Export \/ Import
    <2>1. CASE Export \/ DropBackups \/ ImportFails
      BY <1>1, <2>1 DEF Export, DropBackups, ImportFails, Abort, IInv, TypeOK
    <2>2. CASE MoveAside \/ LoadBase
      BY <1>1, <2>2 DEF MoveAside, LoadBase, IInv, TypeOK
    <2>3. CASE LoadUsers
      BY <1>1, <2>3 DEF LoadUsers, IInv, TypeOK, Rows
    <2> QED
      BY <1>5, <2>1, <2>2, <2>3 DEF Import
  <1>6. CASE Neutralize \/ Anonymize \/ FileSteps
    BY <1>1, <1>6 DEF Neutralize, Anonymize, FileSteps, Rsync, Chown, FixLivePaths, AfterPaths,
       RemoveAfter, SwitchOffFiles, SwitchOffRows, Abort, IInv, TypeOK, Rows
  <1>7. CASE PostProcess
    BY <1>1, <1>7 DEF PostProcess, SearchReplace, OtherCommands, Replaced, Abort, IInv, TypeOK,
       Rows
  <1>8. CASE Crash \/ PluginPutsBack \/ LiveSwitchesCache \/ UNCHANGED vars
    BY <1>1, <1>8 DEF Crash, PluginPutsBack, LiveSwitchesCache, Abort, IInv, TypeOK, vars
  <1> QED
    BY <1>2, <1>3, <1>4, <1>5, <1>6, <1>7, <1>8 DEF Next, Step, Preflight

\* The safe half of RerunRepairs: where the staging folder is named after the
\* staging host, every completed run leaves that host in the database, also the
\* run that finds live's URLs there (sync.go:263-275).
THEOREM StageHostIsKept ==
  ASSUME DirHost = "stage"
  PROVE  Spec => []StageHostKept
  <1>1. Init => OwnHost
    <2> SUFFICES ASSUME Init PROVE OwnHost
      OBVIOUS
    <2>1. rows.home = "stage" /\ mem.aside.home = "none" /\ pc = "idle"
      BY DEF Init, NoMem, NoRows
    <2> QED
      BY <2>1 DEF OwnHost
  <1>2. IInv /\ OwnHost /\ [Next]_vars => OwnHost'
    BY OwnHostStep
  <1>3. IInv /\ OwnHost => StageHostKept
    BY DEF IInv, OwnHost, StageHostKept, Replacing
  <1> QED
    BY Invariant, <1>1, <1>2, <1>3, PTL DEF Spec
============================================================================
