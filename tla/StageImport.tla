---------------------------- MODULE StageImport ----------------------------
(***************************************************************************)
(* sync.Import (internal/sync/sync.go): the staging tables are moved aside *)
(* by RENAME, the exported statements are executed, and the moved tables   *)
(* are dropped, or moved back when a statement failed.  Every SQL call may *)
(* fail and the process may die between any two of them; a later run finds *)
(* whatever the earlier one left.                                          *)
(*                                                                         *)
(* MySQL commits each of these statements by itself, so one statement is   *)
(* one step.  Two readings of the source are fixed here: the order in      *)
(* which a Go map or SHOW TABLES is walked is left open, and the rows of a *)
(* table are its provenance (whose rows they are, and which copy).         *)
(***************************************************************************)
EXTENDS Naturals, FiniteSets

CONSTANTS
    Tables,     \* table names, of the staging site or of live
    Exported,   \* the tables the export wrote (export.Result)
    Bucket,     \* per exported table: 1 SchemaOnly, 2 Base, 3 Users, 4 Orders
    StageTables,\* the staging tables before the first run
    NoTable,    \* a backup name that is not in use
    MaxRuns     \* bound: how many imports are started

ASSUME ImportAssumption ==
    /\ IsFiniteSet(Tables)
    /\ Exported \subseteq Tables
    /\ StageTables \subseteq Tables
    /\ Bucket \in [Exported -> 1..4]
    /\ NoTable \notin Tables
    /\ MaxRuns \in Nat

Absent == [of |-> "nothing", ver |-> "none"]
Shell(t) == [of |-> t, ver |-> "shell"]   \* CREATE TABLE ran, not all the rows
Copy(t)  == [of |-> t, ver |-> "copy"]    \* live's rows
Prev(t)  == [of |-> t, ver |-> "prev"]    \* the rows staging had at first

Data == [of : Tables, ver : {"prev", "shell", "copy"}]

\* Backup names: _wpss_bak_<i>, numbered from 0 in each run.
Slots == 0..(Cardinality(Tables) - 1)

VARIABLES
    tab,      \* staging tables under their own names
    bak,      \* staging tables under backup names
    phase,    \* where Import is
    outcome,  \* how the last Import ended
    backups,  \* the map `backups`: backup name -> original name
    index,    \* the number the next backup name gets
    todo,     \* the names the current loop has still to visit
    loaded,   \* exported tables whose statements have all run
    runs,
    \* history, read by properties only
    before,   \* tab when this Import began
    cause,    \* which statement sent Import to restoreBackups
    clean     \* no statement of restoreBackups has failed

ram == <<phase, outcome, backups, index, todo, loaded, runs>>
history == <<before, cause, clean>>
vars == <<tab, bak, ram, history>>

Phases == {"idle", "clear", "move", "load", "list", "drop", "rename", "discard"}

Present == {t \in Tables : tab[t] # Absent}
Filled  == {s \in Slots : bak[s] # Absent}
Moved   == {s \in Slots : backups[s] # NoTable}

\* What the export's statements leave of a table.
Goal(t) == IF Bucket[t] = 1 THEN Shell(t) ELSE Copy(t)

----------------------------------------------------------------------------
Init ==
    /\ tab = [t \in Tables |-> IF t \in StageTables THEN Prev(t) ELSE Absent]
    /\ bak = [s \in Slots |-> Absent]
    /\ phase = "idle"
    /\ outcome = "none"
    /\ backups = [s \in Slots |-> NoTable]
    /\ index = 0
    /\ todo = {}
    /\ loaded = {}
    /\ runs = 0
    /\ before = tab
    /\ cause = "none"
    /\ clean = TRUE

\* A name of the form Action_Word is a faulty variant of Action; no specification
\* uses it, it is there to show that a property can fail.
Begin_KeepsStale ==
    /\ phase = "idle"
    /\ runs < MaxRuns
    /\ phase' = "clear"
    /\ todo' = {}
    /\ backups' = [s \in Slots |-> NoTable]
    /\ index' = 0
    /\ loaded' = {}
    /\ runs' = runs + 1
    /\ outcome' = "running"
    /\ before' = tab
    /\ cause' = "none"
    /\ clean' = TRUE
    /\ UNCHANGED <<tab, bak>>

\* SET FOREIGN_KEY_CHECKS=0 and SHOW TABLES answer; the listing is split into
\* leftover backups, dropped first, and the tables to move aside.
Begin ==
    /\ phase = "idle"
    /\ runs < MaxRuns
    /\ phase' = "clear"
    /\ todo' = Filled
    /\ backups' = [s \in Slots |-> NoTable]
    /\ index' = 0
    /\ loaded' = {}
    /\ runs' = runs + 1
    /\ outcome' = "running"
    /\ before' = tab
    /\ cause' = "none"
    /\ clean' = TRUE
    /\ UNCHANGED <<tab, bak>>

\* DROP of a leftover _wpss_bak_ table.
ClearStale(s) ==
    /\ phase = "clear"
    /\ s \in todo
    /\ bak' = [bak EXCEPT ![s] = Absent]
    /\ todo' = todo \ {s}
    /\ UNCHANGED <<tab, phase, outcome, backups, index, loaded, runs, history>>

Cleared ==
    /\ phase = "clear"
    /\ todo = {}
    /\ phase' = "move"
    /\ todo' = Present
    /\ UNCHANGED <<tab, bak, outcome, backups, index, loaded, runs, history>>

MoveAside_OffByOne(t) ==
    /\ phase = "move"
    /\ t \in todo
    /\ bak[index] = Absent
    /\ bak' = [bak EXCEPT ![index] = tab[t]]
    /\ tab' = [tab EXCEPT ![t] = Absent]
    /\ backups' = [backups EXCEPT ![index + 1] = t]
    /\ index' = index + 1
    /\ todo' = todo \ {t}
    /\ UNCHANGED <<phase, outcome, loaded, runs, history>>

\* RENAME TABLE t TO _wpss_bak_<index>.
MoveAside(t) ==
    /\ phase = "move"
    /\ t \in todo
    /\ bak[index] = Absent
    /\ bak' = [bak EXCEPT ![index] = tab[t]]
    /\ tab' = [tab EXCEPT ![t] = Absent]
    /\ backups' = [backups EXCEPT ![index] = t]
    /\ index' = index + 1
    /\ todo' = todo \ {t}
    /\ UNCHANGED <<phase, outcome, loaded, runs, history>>

MoveFails ==
    /\ phase = "move"
    /\ todo # {}
    /\ phase' = "list"
    /\ cause' = "move"
    /\ UNCHANGED <<tab, bak, outcome, backups, index, todo, loaded, runs, before, clean>>

AllMoved ==
    /\ phase = "move"
    /\ todo = {}
    /\ phase' = "load"
    /\ todo' = Exported
    /\ UNCHANGED <<tab, bak, outcome, backups, index, loaded, runs, history>>

\* execImport walks the groups in order; the statements of one table are
\* adjacent: DROP and CREATE in one call, then its INSERTs.
NextToLoad(t) ==
    /\ phase = "load"
    /\ t \in todo
    /\ \A u \in todo : Bucket[t] <= Bucket[u]
    /\ \A u \in todo \ {t} : tab[u] = Absent

LoadSchema(t) ==
    /\ NextToLoad(t)
    /\ tab[t] = Absent
    /\ tab' = [tab EXCEPT ![t] = Shell(t)]
    /\ IF Bucket[t] = 1
       THEN /\ todo' = todo \ {t}
            /\ loaded' = loaded \cup {t}
       ELSE UNCHANGED <<todo, loaded>>
    /\ UNCHANGED <<bak, phase, outcome, backups, index, runs, history>>

LoadRows(t) ==
    /\ NextToLoad(t)
    /\ tab[t] = Shell(t)
    /\ tab' = [tab EXCEPT ![t] = Copy(t)]
    /\ todo' = todo \ {t}
    /\ loaded' = loaded \cup {t}
    /\ UNCHANGED <<bak, phase, outcome, backups, index, runs, history>>

LoadFails_NoRestore ==
    /\ phase = "load"
    /\ todo # {}
    /\ phase' = "discard"
    /\ todo' = Moved
    /\ cause' = "load"
    /\ UNCHANGED <<tab, bak, outcome, backups, index, loaded, runs, before, clean>>

LoadFails ==
    /\ phase = "load"
    /\ todo # {}
    /\ phase' = "list"
    /\ cause' = "load"
    /\ UNCHANGED <<tab, bak, outcome, backups, index, todo, loaded, runs, before, clean>>

AllLoaded_DropsOriginals ==
    /\ phase = "load"
    /\ todo = {}
    /\ phase' = "discard"
    /\ todo' = {backups[s] : s \in Moved}
    /\ UNCHANGED <<tab, bak, outcome, backups, index, loaded, runs, history>>

\* Mutant: the last rows are not waited for.
AllLoaded_Early ==
    /\ phase = "load"
    /\ \A t \in todo : tab[t] # Absent
    /\ phase' = "discard"
    /\ todo' = Moved
    /\ UNCHANGED <<tab, bak, outcome, backups, index, loaded, runs, history>>

AllLoaded ==
    /\ phase = "load"
    /\ todo = {}
    /\ phase' = "discard"
    /\ todo' = Moved
    /\ UNCHANGED <<tab, bak, outcome, backups, index, loaded, runs, history>>

----------------------------------------------------------------------------
\* restoreBackups: list the tables and drop every one without the backup
\* prefix, then rename the backups back.  Its failures are only logged.
RestoreList ==
    /\ phase = "list"
    /\ \/ /\ phase' = "drop"
          /\ todo' = Present
          /\ UNCHANGED clean
       \/ /\ phase' = "rename"              \* listTables failed
          /\ todo' = Moved
          /\ clean' = FALSE
    /\ UNCHANGED <<tab, bak, outcome, backups, index, loaded, runs, before, cause>>

RestoreDrop(t) ==
    /\ phase = "drop"
    /\ t \in todo
    /\ todo' = todo \ {t}
    /\ \/ /\ tab' = [tab EXCEPT ![t] = Absent]
          /\ UNCHANGED clean
       \/ /\ clean' = FALSE                 \* the DROP's error is ignored
          /\ UNCHANGED tab
    /\ UNCHANGED <<bak, phase, outcome, backups, index, loaded, runs, before, cause>>

RestoreDropped_SkipsFirst ==
    /\ phase = "drop"
    /\ todo = {}
    /\ phase' = "rename"
    /\ todo' = Moved \ {0}
    /\ UNCHANGED <<tab, bak, outcome, backups, index, loaded, runs, history>>

RestoreDropped ==
    /\ phase = "drop"
    /\ todo = {}
    /\ phase' = "rename"
    /\ todo' = Moved
    /\ UNCHANGED <<tab, bak, outcome, backups, index, loaded, runs, history>>

RestoreRename_Retries(s) ==
    /\ phase = "rename"
    /\ s \in todo
    /\ \/ /\ tab[backups[s]] = Absent
          /\ tab' = [tab EXCEPT ![backups[s]] = bak[s]]
          /\ bak' = [bak EXCEPT ![s] = Absent]
          /\ todo' = todo \ {s}
          /\ UNCHANGED clean
       \/ /\ clean' = FALSE
          /\ UNCHANGED <<tab, bak, todo>>
    /\ UNCHANGED <<phase, outcome, backups, index, loaded, runs, before, cause>>

\* A RENAME onto a name that is taken fails, like any other failure.
RestoreRename(s) ==
    /\ phase = "rename"
    /\ s \in todo
    /\ todo' = todo \ {s}
    /\ \/ /\ tab[backups[s]] = Absent
          /\ tab' = [tab EXCEPT ![backups[s]] = bak[s]]
          /\ bak' = [bak EXCEPT ![s] = Absent]
          /\ UNCHANGED clean
       \/ /\ clean' = FALSE
          /\ UNCHANGED <<tab, bak>>
    /\ UNCHANGED <<phase, outcome, backups, index, loaded, runs, before, cause>>

RestoreDone ==
    /\ phase = "rename"
    /\ todo = {}
    /\ phase' = "idle"
    /\ outcome' = "restored"
    /\ UNCHANGED <<tab, bak, backups, index, todo, loaded, runs, history>>

----------------------------------------------------------------------------
\* The import succeeded: DROP the moved tables.
Discard(s) ==
    /\ phase = "discard"
    /\ s \in todo
    /\ bak' = [bak EXCEPT ![s] = Absent]
    /\ todo' = todo \ {s}
    /\ UNCHANGED <<tab, phase, outcome, backups, index, loaded, runs, history>>

Finish ==
    /\ phase = "discard"
    /\ todo = {}
    /\ phase' = "idle"
    /\ outcome' = "ok"
    /\ UNCHANGED <<tab, bak, backups, index, todo, loaded, runs, history>>

\* An error that Import returns as it is: a stale backup that cannot be
\* dropped, a moved table that cannot be dropped after the import, or foreign
\* key checks that cannot be set again.
ReturnError ==
    /\ phase \in {"clear", "discard"}
    /\ phase' = "idle"
    /\ outcome' = "error"
    /\ UNCHANGED <<tab, bak, backups, index, todo, loaded, runs, history>>

\* The process dies (a signal, a power loss, Ctrl-C in the TUI).  Its memory
\* goes; `backups` and `loaded` keep their value for the properties only, the
\* next Begin clears them.
Crash ==
    /\ phase # "idle"
    /\ phase' = "idle"
    /\ outcome' = "crashed"
    /\ UNCHANGED <<tab, bak, backups, index, todo, loaded, runs, history>>

\* The steps that are sure to come; an error of the database is not.
Step ==
    \/ \E s \in Slots : ClearStale(s) \/ RestoreRename(s) \/ Discard(s)
    \/ \E t \in Tables : MoveAside(t) \/ LoadSchema(t) \/ LoadRows(t) \/ RestoreDrop(t)
    \/ Cleared \/ AllMoved \/ AllLoaded
    \/ RestoreList \/ RestoreDropped \/ RestoreDone \/ Finish

Next == Begin \/ Step \/ MoveFails \/ LoadFails \/ ReturnError \/ Crash

Spec == Init /\ [][Next]_vars /\ WF_vars(Step)

----------------------------------------------------------------------------
\* Types of the variables.
TypeOK ==
    /\ tab \in [Tables -> Data \cup {Absent}]
    /\ bak \in [Slots -> Data \cup {Absent}]
    /\ phase \in Phases
    /\ outcome \in {"none", "running", "ok", "restored", "error", "crashed"}
    /\ backups \in [Slots -> Tables \cup {NoTable}]
    /\ index \in Nat
    /\ todo \subseteq (IF phase \in {"clear", "rename", "discard"} THEN Slots
                       ELSE IF phase \in {"move", "load", "drop"} THEN Tables
                       ELSE Tables \cup Slots)
    /\ loaded \subseteq Exported
    /\ runs \in 0..MaxRuns
    /\ before \in [Tables -> Data \cup {Absent}]
    /\ cause \in {"none", "move", "load"}
    /\ clean \in BOOLEAN

\* A table holds its own rows, whatever sequence of failed moves, partial
\* restores and crashed runs came before: a numbered backup is never renamed
\* back to another table's name.
OwnRows == \A t \in Tables : tab[t] # Absent => tab[t].of = t

\* Until every exported statement has run, the previous rows of a table that
\* was moved aside still exist, under its name or its backup name: when a
\* statement fails, when restoreBackups itself fails, and after a crash, up to
\* the start of the next import.
AsideSurvives ==
    loaded # Exported =>
        \A s \in Moved : before[backups[s]] \in {tab[backups[s]], bak[s]}

\* An import whose exported statements failed leaves the staging database as
\* before, with no leftover backup, unless restoreBackups logged a failure.
RollbackExact ==
    outcome = "restored" /\ cause = "load" /\ clean =>
        tab = before /\ Filled = {}

\* A successful import leaves exactly the exported tables, complete, and no
\* backup, whatever an earlier run that failed or died had left.
ImportExact ==
    outcome = "ok" =>
        /\ tab = [t \in Tables |-> IF t \in Exported THEN Goal(t) ELSE Absent]
        /\ Filled = {}

\* Import always returns or dies: none of its loops can go round for ever.
ImportEnds == (phase # "idle") ~> (phase = "idle")

\* docs/troubleshooting.md:10 on a run that stops in the import, "the staging
\* tables are restored as they were": whenever restoreBackups ran and none of
\* its own statements failed.
RestoredAsTheyWere == outcome = "restored" /\ clean => tab = before

\* The refinement: what a caller can tell of the staging database.
NewTables == [t \in Tables |-> IF t \in Exported THEN Goal(t) ELSE Absent]

Status == IF phase = "idle" THEN outcome ELSE "importing"

Stage ==
    IF tab = NewTables THEN "new" ELSE IF tab = before THEN "old" ELSE "between"

Safe == \A s \in Moved : before[backups[s]] \in {tab[backups[s]], bak[s]}

Contract == INSTANCE ImportContract WITH status <- Status, stage <- Stage, safe <- Safe

\* The renames, drops and restores of sync.Import implement its contract: no
\* interleaving of failures and crashes gives up old rows before the new tables
\* are complete, or reports success of anything else.
ImplementsContract == Contract!Spec

============================================================================
