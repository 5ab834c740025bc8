--------------------------- MODULE PromoteProofs ---------------------------
(***************************************************************************)
(* Proofs about Promote, for any items, any retention and any number of    *)
(* promotes and restores.  The types hold in general; the backups are what *)
(* they should be if local time does not go back between two promotes      *)
(* (MaxBack = 0): a backup is then always the newest of all, so it         *)
(* overwrites none and the retention spares it.                            *)
(***************************************************************************)
EXTENDS Promote, FiniteSetTheorems, TLAPS

\* A run has items to work on, and a time stamp that it leaves behind.
Begun ==
    /\ pc # "idle" => items # {} /\ outcome # "none"
    /\ outcome # "none" => ts \in Times

TInv == TypeOK /\ Begun

----------------------------------------------------------------------------
\* The conjuncts of the inductive invariant.

\* Nothing is younger than the last promote.
Past == \A t \in Times : tar[t] # NoFile \/ meta[t] # {} => t <= clock

\* The outcome is open as long as the run goes on.
Open ==
    /\ pc \in {"create", "archive", "sidecar", "retain", "copy"} => outcome = "running" /\ ts = clock
    /\ pc \in {"load", "restore"} => outcome \in {"running", "restoring"}
    /\ pc = "idle" => outcome \notin {"running", "restoring"}

\* Until the copy begins, live is what it was.
Untouched == pc \in {"create", "archive", "sidecar", "retain"} => live = liveAt[ts]

\* The backup in the making.  Once it has its sidecar, both files say the same.
Making ==
    /\ pc = "create" => tar[ts] = NoFile
    /\ pc = "archive" => tar[ts] \in {NoFile, Torn} /\ (~wiped => tar[ts] = Torn)
    /\ pc = "sidecar" => tar[ts] \in {NoFile, Archive} /\ (~wiped => tar[ts] = Archive)
    /\ pc \in {"create", "archive", "sidecar"} => meta[ts] = {}
    /\ pc \in {"retain", "copy", "load"} /\ tar[ts] # NoFile => meta[ts] = items

\* What a failed or killed run needs has not been lost.
Held ==
    ~wiped /\ \/ pc \in {"retain", "copy", "load", "restore"}
              \/ /\ outcome \in {"promoted", "inconsistent", "crashed"}
                 /\ live # liveAt[ts]
    => Listed(ts)

\* A restore has put back the items that its loop has passed.
Restoring ==
    /\ pc = "restore" =>
          /\ todo \subseteq items
          /\ \A i \in items : tmp.held[i] = liveAt[ts][i]
          /\ ~residue => \A i \in items \ todo : live[i] = liveAt[ts][i]
    /\ RestoredIsExact

IInv ==
    /\ TInv /\ Past /\ Open /\ Untouched /\ Making /\ ListedIsExact /\ Held /\ Restoring

----------------------------------------------------------------------------
LEMMA ArchiveValues ==
    /\ NoFile \in Archives /\ Torn \in Archives /\ NoFile # Torn
    /\ NoFile.state = "none" /\ Torn.state = "torn"
    /\ TypeOK => Archive \in Archives /\ Archive.state = "whole" /\ Archive # NoFile
                 /\ \A i \in items : Archive.held[i] = live[i]
  BY DEF NoFile, Torn, Archive, Archives, Contents, Absent, TypeOK

LEMMA TimeValues ==
    /\ 0 \in 0..MaxClock
    /\ \A t \in Times : t \in 0..MaxClock /\ t \in Contents
  BY PromoteAssumption DEF Times, Contents

LEMMA ClockValues ==
    TypeOK => clock \in Nat /\ ts \in Nat /\ \A t \in Times : t \in Nat
  <1>1. 0..MaxClock \subseteq Nat /\ Times \subseteq Nat
    BY PromoteAssumption DEF Times
  <1> QED
    BY <1>1 DEF TypeOK

LEMMA LiveValues ==
  ASSUME TypeOK, NEW i \in Items, NEW c \in Contents
  PROVE  [live EXCEPT ![i] = c] \in [Items -> Contents]
  BY DEF TypeOK

\* The step of the run goes on or ends; the other variables keep their types.
LEMMA GotoTypes ==
  ASSUME TInv, NEW next \in PCs, NEW left \in SUBSET Items, GotoWith(next, left), pc # "idle",
         live' \in [Items -> Contents], tar' \in [Times -> Archives],
         meta' \in [Times -> SUBSET Items], tmp' \in Archives, residue' \in BOOLEAN
  PROVE  TInv'
  BY DEF TInv, TypeOK, Begun, GotoWith

LEMMA EndTypes ==
  ASSUME TInv, NEW how \in {"no backup", "promoted", "inconsistent", "not restored", "restored", "crashed"},
         End(how), pc # "idle", live' \in [Items -> Contents], tar' \in [Times -> Archives],
         meta' \in [Times -> SUBSET Items]
  PROVE  TInv'
  BY ArchiveValues DEF TInv, TypeOK, Begun, End, PCs, history

LEMMA InitTypes == Init => TInv
  <1> SUFFICES ASSUME Init PROVE TInv
    OBVIOUS
  <1>1. live \in [Items -> Contents] /\ tar \in [Times -> Archives]
    BY ArchiveValues, PromoteAssumption DEF Init, Contents, Original, Absent
  <1> QED
    BY <1>1, TimeValues, ArchiveValues DEF Init, TInv, TypeOK, Begun, PCs

LEMMA StepTypes ==
  ASSUME TInv, [Next]_vars
  PROVE  TInv'
  <1> USE ArchiveValues, PromoteAssumption DEF TInv
  <1>1. ASSUME NEW S \in (SUBSET Items) \ {{}}, BeginPromote(S) PROVE TInv'
    <2>1. PICK now \in Times : ts' = now /\ clock' = now /\ liveAt' = [liveAt EXCEPT ![now] = live]
      BY <1>1 DEF BeginPromote
    <2>2. now \in 0..MaxClock /\ liveAt' \in [Times -> [Items -> Contents]]
      BY <2>1, TimeValues DEF TypeOK
    <2>3. /\ pc' = "create" /\ items' = S /\ wiped' = FALSE /\ residue' = FALSE
          /\ outcome' = "running" /\ UNCHANGED <<live, tar, meta, todo, tmp>>
      BY <1>1 DEF BeginPromote
    <2>4. Begun'
      BY <2>1, <2>3 DEF Begun
    <2>5. TypeOK'
      BY <2>1, <2>2, <2>3 DEF TypeOK, PCs
    <2> QED
      BY <2>4, <2>5
  <1>2. ASSUME NEW t \in Times, BeginRestore(t) PROVE TInv'
    BY <1>2, TimeValues DEF BeginRestore, Listed, TypeOK, Begun, PCs
  <1>3. CASE OpenArchive
    <2>1. tar' \in [Times -> Archives]
      BY <1>3 DEF OpenArchive, TypeOK
    <2> QED
      BY <1>3, <2>1, GotoTypes DEF OpenArchive, Goto, TypeOK, PCs
  <1>4. CASE WriteArchive
    <2>1. tar' \in [Times -> Archives]
      BY <1>4 DEF WriteArchive, TypeOK
    <2> QED
      BY <1>4, <2>1, GotoTypes DEF WriteArchive, Goto, TypeOK, PCs
  <1>5. CASE WriteSidecar
    <2>1. meta' \in [Times -> SUBSET Items]
      BY <1>5 DEF WriteSidecar, TypeOK
    <2> QED
      BY <1>5, <2>1, GotoTypes DEF WriteSidecar, Goto, TypeOK, PCs
  <1>6. CASE EnforceRetention
    <2>1. tar' \in [Times -> Archives] /\ meta' \in [Times -> SUBSET Items]
      BY <1>6 DEF EnforceRetention, TypeOK
    <2> QED
      BY <1>6, <2>1, GotoTypes DEF EnforceRetention, Goto, TypeOK, PCs
  <1>7. CASE BackupFails
    <2>1. tar' \in [Times -> Archives]
      BY <1>7 DEF BackupFails, TypeOK
    <2> QED
      BY <1>7, <2>1, EndTypes DEF BackupFails, TypeOK
  <1>8. ASSUME NEW i \in Items, Copy(i) \/ CopyFails(i) PROVE TInv'
    <2>1. ts \in Contents /\ Mixed \in Contents
      BY <1>8, TimeValues DEF Copy, CopyFails, Begun, Contents
    <2>2. live' \in [Items -> Contents]
      BY <1>8, <2>1, LiveValues DEF Copy, CopyFails, TypeOK
    <2> QED
      BY <1>8, <2>2, GotoTypes DEF Copy, CopyFails, Goto, TypeOK, PCs
  <1>9. CASE Load
    BY <1>9, GotoTypes DEF Load, Goto, TypeOK, PCs, Begun
  <1>10. CASE Promoted \/ LoadFails \/ Restored
    BY <1>10, EndTypes DEF Promoted, LoadFails, Restored, TypeOK
  <1>11. ASSUME NEW i \in Items, RestoreItem(i) \/ RemoveAdded(i) \/ RestoreFails(i) PROVE TInv'
    <2>1. tmp.held[i] \in Contents /\ Mixed \in Contents /\ Absent \in Contents
      BY DEF TypeOK, Archives, Contents
    <2>2. live' \in [Items -> Contents]
      BY <1>11, <2>1, LiveValues DEF RestoreItem, RemoveAdded, RestoreFails, TypeOK
    <2>3. CASE RestoreItem(i) \/ RemoveAdded(i)
      BY <2>2, <2>3, GotoTypes DEF RestoreItem, RemoveAdded, Goto, TypeOK, PCs
    <2>4. CASE RestoreFails(i)
      BY <2>2, <2>4, EndTypes DEF RestoreFails, TypeOK
    <2> QED
      BY <1>11, <2>3, <2>4
  <1>12. CASE Crash
    <2>1. live' \in [Items -> Contents]
      BY <1>12, LiveValues DEF Crash, TypeOK, Contents
    <2> QED
      BY <1>12, <2>1, EndTypes DEF Crash, TypeOK
  <1>13. CASE DeleteBackups
    BY <1>13 DEF DeleteBackups, TypeOK, Begun
  <1>14. CASE UNCHANGED vars
    BY <1>14 DEF vars, history, TypeOK, Begun
  <1> QED
    BY <1>1, <1>2, <1>3, <1>4, <1>5, <1>6, <1>7, <1>8, <1>9, <1>10, <1>11, <1>12, <1>13, <1>14
       DEF Next, Step, Error

\* Every variable keeps its type, for any clock.
THEOREM TypesHold == Spec => []TypeOK
  <1>1. TInv => TypeOK
    BY DEF TInv
  <1> QED
    BY InitTypes, StepTypes, <1>1, PTL DEF Spec

----------------------------------------------------------------------------
LEMMA InitInv == Init => IInv
  <1> SUFFICES ASSUME Init PROVE IInv
    OBVIOUS
  <1>1. \A t \in Times : tar[t] = NoFile /\ meta[t] = {}
    BY DEF Init
  <1> QED
    BY <1>1, InitTypes DEF Init, IInv, Past, Open, Untouched, Making, ListedIsExact, Listed, Held,
       Restoring, RestoredIsExact

\* Local time has gone on, so the new name is nobody's.
LEMMA BeginPromoteInv ==
  ASSUME MaxBack = 0, IInv, NEW S \in (SUBSET Items) \ {{}}, BeginPromote(S), TInv'
  PROVE  IInv'
  <1>0. clock \in Nat /\ \A t \in Times : t \in Nat
    BY ClockValues DEF IInv, TInv
  <1>1. PICK now \in Times : /\ now > clock /\ clock' = now /\ ts' = now
                            /\ liveAt' = [liveAt EXCEPT ![now] = live]
    <2>1. PICK now \in Times \ {clock} : /\ now >= clock - MaxBack /\ clock' = now /\ ts' = now
                                         /\ liveAt' = [liveAt EXCEPT ![now] = live]
      BY DEF BeginPromote
    <2>2. now \in Times /\ now > clock
      BY <1>0, <2>1
    <2> QED
      BY <2>1, <2>2
  <1> USE DEF IInv, TInv
  <1>2. /\ pc' = "create" /\ items' = S /\ wiped' = FALSE /\ outcome' = "running"
        /\ UNCHANGED <<live, tar, meta, todo, tmp>>
    BY DEF BeginPromote
  <1>3. tar[now] = NoFile /\ meta[now] = {} /\ liveAt'[now] = live
    <2>1. tar[now] = NoFile /\ meta[now] = {}
      BY <1>0, <1>1 DEF Past
    <2> QED
      BY <1>1, <2>1 DEF TypeOK
  <1>4. Past'
    BY <1>1, <1>2, ClockValues DEF Past
  <1>5. Open' /\ Untouched' /\ Making' /\ Held' /\ Restoring'
    BY <1>1, <1>2, <1>3 DEF Open, Untouched, Making, Held, Restoring, RestoredIsExact
  <1>6. ListedIsExact'
    BY <1>1, <1>2, <1>3 DEF ListedIsExact, Listed, Exact, TypeOK
  <1> QED
    BY <1>4, <1>5, <1>6

LEMMA BeginRestoreInv ==
  ASSUME IInv, NEW t \in Times, BeginRestore(t), TInv'
  PROVE  IInv'
  BY DEF IInv, TInv, BeginRestore, Past, Open, Untouched, Making, ListedIsExact, Listed, Exact, Held,
     Restoring, RestoredIsExact

LEMMA OpenArchiveInv ==
  ASSUME IInv, OpenArchive, TInv'
  PROVE  IInv'
  <1> USE ArchiveValues DEF IInv, TInv, OpenArchive, Goto, GotoWith
  <1>1. ts \in Times /\ ts = clock /\ tar'[ts] = Torn /\ meta[ts] = {}
    BY ClockValues DEF Begun, Open, TypeOK, Making
  <1>2. \A t \in Times \ {ts} : tar'[t] = tar[t]
    BY DEF TypeOK
  <1>3. Past'
    BY <1>1, <1>2, ClockValues DEF Past
  <1>4. ListedIsExact'
    BY <1>1, <1>2 DEF ListedIsExact, Listed, Exact
  <1> QED
    BY <1>1, <1>3, <1>4 DEF Open, Untouched, Making, Held, Restoring, RestoredIsExact

LEMMA WriteArchiveInv ==
  ASSUME IInv, WriteArchive, TInv'
  PROVE  IInv'
  <1> USE ArchiveValues DEF IInv, TInv, WriteArchive, Goto, GotoWith
  <1>1. ts \in Times /\ ts = clock /\ meta[ts] = {} /\ Archive' = Archive
    BY ClockValues DEF Begun, Open, TypeOK, Making, Archive
  <1>2. \A t \in Times \ {ts} : tar'[t] = tar[t]
    BY DEF TypeOK
  <1>3. tar'[ts] \in {NoFile, Archive} /\ (~wiped => tar'[ts] = Archive)
    BY <1>1 DEF TypeOK, Making
  <1>4. Past'
    BY <1>1, <1>2, ClockValues DEF Past
  <1>5. ListedIsExact'
    BY <1>1, <1>2 DEF ListedIsExact, Listed, Exact
  <1> QED
    BY <1>1, <1>3, <1>4, <1>5 DEF Open, Untouched, Making, Held, Restoring, RestoredIsExact

\* The backup is complete: it holds what live has, which is what live had.
LEMMA WriteSidecarInv ==
  ASSUME IInv, WriteSidecar, TInv'
  PROVE  IInv'
  <1> USE ArchiveValues DEF IInv, TInv, WriteSidecar, Goto, GotoWith
  <1>1. ts \in Times /\ ts = clock /\ tar[ts] = Archive /\ items # {}
    BY ClockValues DEF Begun, Open, Making
  <1>2. meta'[ts] = items /\ \A t \in Times \ {ts} : meta'[t] = meta[t]
    BY <1>1 DEF TypeOK
  <1>3. Past'
    BY <1>1, <1>2, ClockValues DEF Past
  <1>4. ListedIsExact'
    BY <1>1, <1>2 DEF ListedIsExact, Listed, Exact, Untouched
  <1>5. Held'
    BY <1>1, <1>2 DEF Held, Listed
  <1> QED
    BY <1>2, <1>3, <1>4, <1>5 DEF Open, Untouched, Making, Restoring, RestoredIsExact

LEMMA BackupFailsInv ==
  ASSUME IInv, BackupFails, TInv'
  PROVE  IInv'
  <1> USE ArchiveValues DEF IInv, TInv, BackupFails, End, history
  <1>1. \A t \in Times : tar'[t] \in {NoFile, tar[t]}
    BY DEF TypeOK
  <1>2. Past' /\ ListedIsExact'
    BY <1>1 DEF Past, ListedIsExact, Listed, Exact
  <1> QED
    BY <1>2 DEF Open, Untouched, Making, Held, Restoring, RestoredIsExact

\* The newest archive is never one too many.
LEMMA NewestStays ==
  ASSUME TypeOK, Past, ts = clock
  PROVE  ts \notin Surplus
  <1>1. {u \in Archived : u > ts} = {}
    BY ClockValues DEF Archived, Past
  <1>2. Cardinality({u \in Archived : u > ts}) = 0
    BY <1>1, FS_EmptySet
  <1> QED
    BY <1>2, PromoteAssumption DEF Surplus

LEMMA EnforceRetentionInv ==
  ASSUME IInv, EnforceRetention, TInv'
  PROVE  IInv'
  <1> USE ArchiveValues DEF IInv, TInv, EnforceRetention, Goto, GotoWith
  <1>1. ts \in Times /\ ts \notin Surplus
    BY NewestStays DEF Begun, Open
  <1>2. \A t \in Times : tar'[t] \in {NoFile, tar[t]} /\ meta'[t] \in {{}, meta[t]}
    BY DEF TypeOK
  <1>3. tar'[ts] = tar[ts] /\ meta'[ts] = meta[ts]
    BY <1>1
  <1>4. Past' /\ ListedIsExact'
    BY <1>2 DEF Past, ListedIsExact, Listed, Exact
  <1>5. Making' /\ Held'
    BY <1>3 DEF Making, Held, Listed
  <1> QED
    BY <1>4, <1>5 DEF Open, Untouched, Restoring, RestoredIsExact

----------------------------------------------------------------------------
\* Steps that leave the backups and the clock alone.
BackupsStay == UNCHANGED <<tar, meta, clock, ts, items, liveAt, wiped>>

LEMMA StayInv ==
  ASSUME IInv, BackupsStay
  PROVE  Past' /\ ListedIsExact' /\ (\A t \in Times : Listed(t)' = Listed(t))
  BY DEF IInv, BackupsStay, Past, ListedIsExact, Listed, Exact

LEMMA CopyInv ==
  ASSUME IInv, NEW i \in Items, Copy(i) \/ CopyFails(i), TInv'
  PROVE  IInv'
  <1> USE DEF IInv, TInv, Copy, CopyFails, Goto, GotoWith
  <1>1. pc = "copy" /\ pc' \in {"copy", "load"} /\ BackupsStay
        /\ UNCHANGED <<outcome, residue, tmp>>
    BY DEF BackupsStay
  <1>2. Past' /\ ListedIsExact'
    BY <1>1, StayInv
  <1> QED
    BY <1>1, <1>2 DEF BackupsStay, Open, Untouched, Making, Held, Listed, Restoring, RestoredIsExact

LEMMA PromotedInv ==
  ASSUME IInv, Promoted, TInv'
  PROVE  IInv'
  <1> USE DEF IInv, TInv, Promoted, End, history
  <1>1. Past' /\ ListedIsExact'
    BY StayInv DEF BackupsStay
  <1> QED
    BY <1>1 DEF Open, Untouched, Making, Held, Listed, Restoring, RestoredIsExact

\* The archive that is extracted is exact for all items of the run.
LEMMA LoadInv ==
  ASSUME IInv, Load, TInv'
  PROVE  IInv'
  <1> USE ArchiveValues DEF IInv, TInv, Load, Goto, GotoWith
  <1>1. ts \in Times /\ items # {} /\ tar[ts] # NoFile /\ meta[ts] = items
    BY DEF Begun, Making
  <1>2. \A i \in items : tar[ts].held[i] = liveAt[ts][i]
    BY <1>1 DEF ListedIsExact, Listed, Exact
  <1>3. Past' /\ ListedIsExact'
    BY StayInv DEF BackupsStay
  <1>4. Restoring'
    BY <1>2 DEF Restoring, RestoredIsExact, Open
  <1> QED
    BY <1>3, <1>4 DEF Open, Untouched, Making, Held, Listed

LEMMA LoadFailsInv ==
  ASSUME IInv, LoadFails, TInv'
  PROVE  IInv'
  <1> USE DEF IInv, TInv, LoadFails, End, history
  <1>1. Past' /\ ListedIsExact'
    BY StayInv DEF BackupsStay
  <1> QED
    BY <1>1 DEF Open, Untouched, Making, Held, Listed, Restoring, RestoredIsExact

LEMMA RestoreItemInv ==
  ASSUME IInv, NEW i \in Items, RestoreItem(i) \/ RemoveAdded(i), TInv'
  PROVE  IInv'
  <1> USE DEF IInv, TInv, RestoreItem, RemoveAdded, Goto, GotoWith
  <1>1. pc = "restore" /\ pc' = "restore" /\ i \in todo /\ todo' = todo \ {i} /\ BackupsStay
        /\ UNCHANGED <<outcome, tmp>>
    BY DEF BackupsStay
  <1>2. Past' /\ ListedIsExact'
    BY <1>1, StayInv
  <1>3. ~residue' => ~residue /\ live' = [live EXCEPT ![i] = tmp.held[i]]
    BY DEF TypeOK
  <1>4. Restoring'
    <2>1. todo' \subseteq items' /\ \A j \in items' : tmp'.held[j] = liveAt'[ts'][j]
      BY <1>1 DEF Restoring, BackupsStay
    <2>2. ASSUME ~residue', NEW j \in items' \ todo' PROVE live'[j] = liveAt'[ts'][j]
      <3>1. j \in items /\ j \in Items /\ (j = i \/ j \notin todo)
        BY <1>1 DEF BackupsStay, TypeOK
      <3>2. live'[j] = IF j = i THEN tmp.held[i] ELSE live[j]
        BY <1>3, <2>2, <3>1 DEF TypeOK
      <3> QED
        BY <1>1, <1>3, <2>2, <3>1, <3>2 DEF Restoring, BackupsStay
    <2> QED
      BY <1>1, <2>1, <2>2 DEF Restoring, RestoredIsExact, Open
  <1> QED
    BY <1>1, <1>2, <1>4 DEF BackupsStay, Open, Untouched, Making, Held, Listed

LEMMA RestoreFailsInv ==
  ASSUME IInv, NEW i \in Items, RestoreFails(i), TInv'
  PROVE  IInv'
  <1> USE DEF IInv, TInv, RestoreFails, End, history
  <1>1. Past' /\ ListedIsExact'
    BY StayInv DEF BackupsStay
  <1> QED
    BY <1>1 DEF Open, Untouched, Making, Held, Listed, Restoring, RestoredIsExact

LEMMA RestoredInv ==
  ASSUME IInv, Restored, TInv'
  PROVE  IInv'
  <1> USE DEF IInv, TInv, Restored, End, history
  <1>1. Past' /\ ListedIsExact'
    BY StayInv DEF BackupsStay
  <1> QED
    BY <1>1 DEF Open, Untouched, Making, Held, Listed, Restoring, RestoredIsExact

LEMMA CrashInv ==
  ASSUME IInv, Crash, TInv'
  PROVE  IInv'
  <1> USE DEF IInv, TInv, Crash, End, history
  <1>1. Past' /\ ListedIsExact'
    BY StayInv DEF BackupsStay
  <1>2. Held'
    <2>1. CASE pc \in {"create", "archive", "sidecar"}
      BY <2>1 DEF Untouched, Held
    <2>2. CASE pc \in {"retain", "copy", "load", "restore"}
      BY <2>2 DEF Held, Listed
    <2> QED
      BY <2>1, <2>2 DEF TypeOK, PCs
  <1> QED
    BY <1>1, <1>2 DEF Open, Untouched, Making, Restoring, RestoredIsExact

LEMMA DeleteBackupsInv ==
  ASSUME IInv, DeleteBackups, TInv'
  PROVE  IInv'
  <1> USE DEF IInv, TInv, DeleteBackups
  <1>1. wiped' /\ \A t \in Times : tar'[t] = NoFile /\ meta'[t] = {}
    OBVIOUS
  <1> QED
    BY <1>1 DEF Begun, Past, Open, Untouched, Making, ListedIsExact, Listed, Held, Restoring,
       RestoredIsExact

LEMMA StutterInv ==
  ASSUME IInv, UNCHANGED vars, TInv'
  PROVE  IInv'
  BY DEF IInv, vars, history, Past, Open, Untouched, Making, Archive, ListedIsExact, Listed, Exact,
     Held, Restoring, RestoredIsExact

LEMMA StepInv ==
  ASSUME MaxBack = 0, IInv, [Next]_vars
  PROVE  IInv'
  <1>1. TInv'
    BY StepTypes DEF IInv
  <1>2. CASE Step
    BY <1>1, <1>2, OpenArchiveInv, WriteArchiveInv, WriteSidecarInv, EnforceRetentionInv, PromotedInv,
       LoadInv, RestoredInv, CopyInv, RestoreItemInv DEF Step
  <1>3. CASE Error
    BY <1>1, <1>3, BackupFailsInv, LoadFailsInv, CopyInv, RestoreFailsInv DEF Error
  <1> QED
    BY <1>1, <1>2, <1>3, BeginPromoteInv, BeginRestoreInv, CrashInv, DeleteBackupsInv, StutterInv
       DEF Next

LEMMA Invariant ==
  ASSUME MaxBack = 0
  PROVE  Spec => []IInv
  <1>1. IInv /\ [Next]_vars => IInv'
    BY StepInv
  <1> QED
    BY InitInv, <1>1, PTL DEF Spec

----------------------------------------------------------------------------
\* Every backup in the restore list is whole and holds what live had when its
\* promote began, whatever failed, died or was deleted since, unless local time
\* went back between two promotes (promote.go:114-151).
THEOREM ListedBackupsAreExact ==
  ASSUME MaxBack = 0
  PROVE  Spec => []ListedIsExact
  <1>1. IInv => ListedIsExact
    BY DEF IInv
  <1> QED
    BY Invariant, <1>1, PTL

\* As long as a promote or restore has left live changed, and no other process has
\* deleted the backups, the backup that undoes the change is listed and exact:
\* the retention never takes it (promote.go:301-318).
THEOREM BackupIsHeld ==
  ASSUME MaxBack = 0
  PROVE  Spec => []BackupHeld
  <1>1. IInv => BackupHeld
    <2> SUFFICES ASSUME IInv, outcome \in {"running", "promoted", "inconsistent", "crashed"}, ~wiped,
                        NEW i \in Items, live[i] # liveAt[ts][i]
                 PROVE  Listed(ts) /\ Exact(ts)
      BY DEF BackupHeld
    <2>1. ts \in Times
      BY DEF IInv, TInv, Begun
    <2>2. Listed(ts)
      BY DEF IInv, TInv, TypeOK, PCs, Open, Untouched, Held
    <2> QED
      BY <2>1, <2>2 DEF IInv, ListedIsExact
  <1> QED
    BY Invariant, <1>1, PTL

\* A restore that reports success has put every item back, unless the removal of an
\* added item failed without an error (promote.go:429).
THEOREM RestoresAreExact ==
  ASSUME MaxBack = 0
  PROVE  Spec => []RestoredIsExact
  <1>1. IInv => RestoredIsExact
    BY DEF IInv, Restoring
  <1> QED
    BY Invariant, <1>1, PTL

\* When the copy begins the backup is there: README.md:23 holds for every retention
\* if local time does not go back.
THEOREM BackupIsMadeFirst ==
  ASSUME MaxBack = 0
  PROVE  Spec => []BackupBeforeChanges
  <1>1. IInv => BackupBeforeChanges
    BY DEF IInv, BackupBeforeChanges, Held
  <1> QED
    BY Invariant, <1>1, PTL
============================================================================
