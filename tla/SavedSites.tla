------------------------------ MODULE SavedSites ------------------------------
(***************************************************************************)
(* The saved sites on disk (internal/config/config.go): one folder per     *)
(* site name with config.json and the promote backups.  The operators read *)
(* the files or say how one call changes them; the processes that call     *)
(* them are in TuiNav.                                                     *)
(*                                                                         *)
(* config.json is written in place (os.WriteFile), so a reader can meet a  *)
(* file that is cut off: Torn.  A backup is the live webroot it was taken  *)
(* from and a number for its timestamp; Orphan is an archive whose list of *)
(* items is missing.                                                       *)
(***************************************************************************)
EXTENDS Discovery

CONSTANTS
    NoConfig,  \* no config.json in the folder
    Torn,      \* a config.json that does not parse
    Orphan,    \* an archive without its sidecar
    MaxBackups \* bound: backups of a webroot

NoPath == <<>>

VARIABLES
    sites,    \* config.json of each site folder
    flat,     \* config files in the layout of old versions, sites/NAME.json
    backups   \* the backups of each site folder

disk == <<sites, flat, backups>>

Backup == [live : Paths, time : 1..MaxBackups]

Names == UNION {NamesOf(p) : p \in Paths}

\* The fields the screens tell apart: modes says whether the file has a table_modes map.
Config == [live : Paths \cup {NoPath}, stage : Paths \cup {NoPath}, modes : BOOLEAN]

\* A config is saved once its webroots are known.
Saved == {c \in Config : c.live # NoPath}

Disks == [sites : [Names -> Saved \cup {NoConfig, Torn}],
          flat : [Names -> Saved \cup {NoConfig}],
          backups : [Names -> SUBSET (Backup \cup {Orphan})]]

DiskOK == [sites |-> sites, flat |-> flat, backups |-> backups] \in Disks

\* Load succeeds: the file is there and parses.
Readable(n) == sites[n] \notin {NoConfig, Torn}

\* Mutant: the saved config's path is not compared.
DomainFromPath_AnyPath(p) == IF Readable(Base(p)) THEN Base(p) ELSE ExtractDomain(p)

\* A site saved under its plain folder name by an old version keeps that name.
DomainFromPath(p) ==
    IF Readable(Base(p)) /\ sites[Base(p)].live = p THEN Base(p) ELSE ExtractDomain(p)

\* The readable configs, as the list of one process.
ListSites ==
    LET found == {n \in Names : Readable(n)}
    IN  SetToSeq({[domain |-> n, config |-> sites[n]] : n \in found})

\* Save writes in place: it can fail before the file is opened or half way.
Save(c) ==
    \E result \in {c, sites[DomainFromPath(c.live)], Torn} :
        sites' = [sites EXCEPT ![DomainFromPath(c.live)] = result]

\* DeleteSite of several names; a removal can stop half way.
DeleteSites(cut, emptied) ==
    /\ sites' = [n \in Names |-> IF n \in cut THEN NoConfig ELSE sites[n]]
    /\ backups' = [n \in Names |-> IF n \in emptied THEN {} ELSE backups[n]]

\* Every start of the program moves the old layout's files into folders.
MigrateLegacyConfigs ==
    \E moved \in SUBSET {n \in Names : flat[n] # NoConfig} :
        /\ sites' = [n \in Names |-> IF n \in moved THEN flat[n] ELSE sites[n]]
        /\ flat' = [n \in Names |-> IF n \in moved THEN NoConfig ELSE flat[n]]
        /\ UNCHANGED backups

\* HasBackups looks at archives only, ListBackups needs their sidecars.
HasBackups(n) == backups[n] # {}

ListBackups(n) == SetToSeq(backups[n] \ {Orphan})

=============================================================================
