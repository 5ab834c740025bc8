-------------------------------- MODULE TuiNav --------------------------------
(***************************************************************************)
(* The interactive app (internal/tui/tui.go) on the saved sites of         *)
(* SavedSites: one session after the other, while other processes of the   *)
(* program save and delete sites.  One key is one step: Update and the     *)
(* View that follows it.  What a run does is in SyncRun and Promote; here  *)
(* it starts, ends, and may leave a backup.                                *)
(*                                                                         *)
(* cfg is a pointer in the code.  It points to a config of its own (own)   *)
(* or to the config of an entry of savedSites (alias = its place): what is *)
(* written through it is written to the entry.  Indices count from 0, as   *)
(* in the code; entry i is savedSites[i + 1].                              *)
(*                                                                         *)
(* Left out: what the options are (order count, modes, excludes, cache),   *)
(* the folder browser's position, the news, and all drawing that cannot    *)
(* fail.  A panic, in a handler or in View, is the step "crashed".         *)
(***************************************************************************)
EXTENDS SavedSites

CONSTANTS
    Browse,       \* folders the user may select in the folder browser
    MaxItems,     \* bound: tables or folders to exclude, if there are any
    MaxSections,  \* bound: sections of the promote list, if there are any
    MaxSessions,  \* bound: sessions in a behaviour
    MaxOthers,    \* bound: saves and deletes of other processes
    InitialDisks  \* what can be on disk at first: [sites, flat, backups]

ASSUME TuiAssumption ==
    /\ Browse \subseteq Paths
    /\ {MaxItems, MaxSections, MaxSessions, MaxOthers} \subseteq Nat
    /\ NoConfig # Torn
    /\ {NoConfig, Torn} \cap Config = {}
    /\ MaxBackups \in Nat /\ Orphan \notin Backup
    /\ InitialDisks \subseteq Disks

VARIABLES
    step, cursor, pathMode, showHelp, confirmQuit,  \* the screen
    savedSites, own, alias,                         \* configs in memory
    liveWP, stageWP,                                \* whose wp-config.php was parsed
    shown,                                          \* the lists on the screens
    gone,                                           \* history: sites this session deleted
    sessions, others, writing                       \* sessions, others' calls, a save under way

screen == <<step, cursor, pathMode, showHelp, confirmQuit>>
memory == <<savedSites, own, alias>>
parsed == <<liveWP, stageWP>>
outside == <<sessions, others, writing>>
vars == <<disk, screen, memory, parsed, shown, gone, outside>>

Running == {"running", "promoteRunning", "restoreRunning"}
Done == {"done", "promoteDone", "restoreDone"}
Ended == {"quit", "crashed"}
Screens == {"startup", "paths", "credentials", "syncParams", "tableSelect", "excludes",
            "confirm", "promoteSelect", "promoteConfirm", "restoreList", "restoreConfirm",
            "deleteSelect", "deleteConfirm", "settings"} \cup Running \cup Done

Keys == {"up", "down", "pgup", "pgdown", "home", "end", "space", "enter", "esc", "tab",
         "ctrl+c", "q", "h", "s", "p", "r", "d", "a", "y", "rune"}

\* Rows of the table and exclude lists that one page holds, at the smallest window.
PageSize == 5

\* An unparsed wp-config.php, and a promote list that was never read.
Nil == <<>>
NoAssets == [live |-> NoPath, stage |-> NoPath]

\* What m.cfg points to, and a write through it.
Cfg == IF alias = 0 THEN own ELSE savedSites[alias].config

WriteCfg(c) ==
    /\ alias' = alias
    /\ own' = IF alias = 0 THEN c ELSE own
    /\ savedSites' = IF alias = 0 THEN savedSites
                     ELSE [savedSites EXCEPT ![alias].config = c]

\* The pairs of the site list; the map walk leaves their order open.
sitePairs == SetToSeq(PairSites(Scan))

GoTo(s, c) == step' = s /\ cursor' = c

-----------------------------------------------------------------------------
(* Update: which part of it takes a key.                                      *)

NoEsc == Running \cup Done \cup {"deleteConfirm"}

\* The screens whose footer offers s.
AtHome == step = "startup" \/ (step = "paths" /\ pathMode = "pairs")

Branch(k) ==
    CASE confirmQuit -> "answer"
      [] ~ confirmQuit /\ k \in {"q", "ctrl+c"} -> "quit"
      [] ~ confirmQuit /\ k = "h" /\ step \notin Running -> "help"
      [] ~ confirmQuit /\ showHelp /\ k \notin {"q", "ctrl+c", "h"} -> "inHelp"
      [] ~ confirmQuit /\ ~ showHelp /\ k = "esc" /\ step \notin NoEsc -> "back"
      [] ~ confirmQuit /\ ~ showHelp /\ k = "s" /\ AtHome -> "settings"
      [] OTHER -> "screen"

Elsewhere == UNCHANGED <<disk, gone, outside>>
KeepMode == UNCHANGED <<pathMode, showHelp, confirmQuit>>

\* Any key takes the question away, y quits; the run may have ended meanwhile.
AnswerQuit(k) ==
    /\ confirmQuit' = FALSE
    /\ step' = IF k = "y" THEN "quit" ELSE step
    /\ UNCHANGED <<cursor, pathMode, showHelp, memory, parsed, shown>> /\ Elsewhere

AskQuit ==
    /\ step \in Running
    /\ confirmQuit' = TRUE
    /\ UNCHANGED <<step, cursor, pathMode, showHelp, memory, parsed, shown>> /\ Elsewhere

Quit(k) ==
    /\ step \notin Running /\ ~ (k = "q" /\ step = "settings")
    /\ step' = "quit"
    /\ UNCHANGED <<cursor, pathMode, showHelp, confirmQuit, memory, parsed, shown>>
    /\ Elsewhere

ToggleHelp ==
    /\ showHelp' = ~ showHelp
    /\ UNCHANGED <<step, cursor, pathMode, confirmQuit, memory, parsed, shown>> /\ Elsewhere

CloseHelp(k) ==
    /\ k = "esc"
    /\ showHelp' = FALSE
    /\ UNCHANGED <<step, cursor, pathMode, confirmQuit, memory, parsed, shown>> /\ Elsewhere

OpenSettings ==
    /\ GoTo("settings", 0)
    /\ KeepMode /\ UNCHANGED <<memory, parsed, shown>> /\ Elsewhere

\* The first screen of a session without a command line mode.
FirstScreen(saved) == IF saved # <<>> THEN "startup" ELSE "paths"

Home == FirstScreen(savedSites)

(***************************************************************************)
(* goBack, called by Esc and by q on the settings screen.  It looks for    *)
(* WooCommerce among the tables only.                                      *)
(***************************************************************************)
BackTo ==
    CASE step = "paths" /\ pathMode = "manual" /\ cursor = 1 -> "paths"
      [] step = "paths" /\ pathMode = "manual" /\ cursor # 1 /\ sitePairs # <<>> -> "paths"
      [] step \in {"paths", "settings"} -> Home
      [] step = "credentials" -> "paths"
      [] step = "syncParams" -> "credentials"
      [] step = "tableSelect" -> IF shown.woo THEN "syncParams" ELSE "credentials"
      [] step = "excludes" -> "tableSelect"
      [] step = "confirm" -> "excludes"
      [] step \in {"promoteSelect", "restoreList", "deleteSelect"} ->
           IF savedSites # <<>> THEN "startup" ELSE step
      [] step = "promoteConfirm" -> "promoteSelect"
      [] step = "restoreConfirm" -> "restoreList"
      [] OTHER -> step

\* Without anywhere to go, the cursor stays.
Stuck ==
    \/ step \in {"paths", "promoteSelect", "restoreList", "deleteSelect"} /\ savedSites = <<>>
       /\ ~ (step = "paths" /\ pathMode = "manual" /\ (cursor = 1 \/ sitePairs # <<>>))

GoBack ==
    /\ GoTo(BackTo, IF Stuck THEN cursor ELSE 0)
    /\ pathMode' = IF step = "paths" /\ pathMode = "manual" /\ cursor # 1 /\ sitePairs # <<>>
                   THEN "pairs" ELSE pathMode
    /\ shown' = [shown EXCEPT !.inputOK = IF step = "tableSelect" /\ shown.woo THEN TRUE ELSE @]
    /\ UNCHANGED <<showHelp, confirmQuit, memory, parsed>> /\ Elsewhere

\* The arrow keys, and the jump keys of long lists.
Moved(k, last) ==
    CASE k = "up" /\ cursor > 0 -> cursor - 1
      [] k = "down" /\ cursor < last -> cursor + 1
      [] OTHER -> cursor

\* Mutant: a page up may go above the first row.
Jumped_Unclamped(k, last) ==
    CASE k = "pgup" -> cursor - PageSize
      [] k = "pgdown" -> IF cursor + PageSize > last THEN last ELSE cursor + PageSize
      [] k = "home" -> 0
      [] k = "end" -> last
      [] OTHER -> Moved(k, last)

Jumped(k, last) ==
    CASE k = "pgup" -> IF cursor - PageSize < 0 THEN 0 ELSE cursor - PageSize
      [] k = "pgdown" -> IF cursor + PageSize > last THEN last ELSE cursor + PageSize
      [] k = "home" -> 0
      [] k = "end" -> last
      [] OTHER -> Moved(k, last)

Scroll(c) ==
    /\ cursor' = c
    /\ UNCHANGED <<step, pathMode, showHelp, confirmQuit, memory, parsed, shown>> /\ Elsewhere

Crash ==
    /\ step' = "crashed"
    /\ UNCHANGED <<cursor, pathMode, showHelp, confirmQuit, memory, parsed, shown>>
    /\ Elsewhere

-----------------------------------------------------------------------------
(* The home screen.                                                           *)

\* wpconfig.Parse of a webroot: it, or nothing when the file cannot be read.
Parse(p) == IF p = NoPath THEN {Nil} ELSE {p, Nil}

\* Live is parsed first; its error leaves the staging credentials of before.
ParseBoth(c) ==
    /\ liveWP' \in Parse(c.live)
    /\ stageWP' \in IF liveWP' = Nil THEN {stageWP} ELSE Parse(c.stage)

BothParsed == liveWP' # Nil /\ stageWP' # Nil

StartupMove(k) == step = "startup" /\ k \in {"up", "down"} /\ Scroll(Moved(k, Len(savedSites)))

StartupNew(k) ==
    /\ step = "startup" /\ k = "enter" /\ cursor = Len(savedSites)
    /\ GoTo("paths", 0)
    /\ KeepMode /\ UNCHANGED <<memory, parsed, shown>> /\ Elsewhere

\* The entry under the cursor becomes m.cfg.
SelectEntry ==
    /\ cursor < Len(savedSites)
    /\ alias' = cursor + 1
    /\ UNCHANGED <<own, savedSites>>

\* The credentials screen is drawn even when a file could not be parsed.  This
\* selects the live webroot, whose other name may have been deleted.
StartupOpen(k) ==
    /\ step = "startup" /\ k = "enter"
    /\ SelectEntry
    /\ LET entry == savedSites[cursor + 1]
       IN  /\ ParseBoth(entry.config)
           /\ gone' = gone \ (NamesOf(entry.config.live) \ {entry.domain})
    /\ GoTo(IF BothParsed THEN "credentials" ELSE "crashed", 0)
    /\ KeepMode /\ UNCHANGED <<shown, disk, outside>>

\* A section is a header and, here, one item; the cursor starts on an item.
Labels(sections) == [i \in 1..(2 * sections) |-> IF i % 2 = 1 THEN "header" ELSE "item"]

EnterPromote(c) ==
    \E n \in {0, MaxSections} :
        /\ shown' = [shown EXCEPT !.labels = Labels(n), !.picked = {},
                                  !.assets = [live |-> c.live, stage |-> c.stage]]
        /\ GoTo("promoteSelect", IF n > 0 THEN 1 ELSE 0)

EnterRestore(c) ==
    /\ shown' = [shown EXCEPT !.restores = ListBackups(DomainFromPath(c.live))]
    /\ GoTo("restoreList", 0)

StartupPromote(k) ==
    /\ step = "startup" /\ k = "p"
    /\ SelectEntry
    /\ EnterPromote(savedSites[cursor + 1].config)
    /\ KeepMode /\ UNCHANGED parsed /\ Elsewhere

\* The footer and this key ask for the entry's name, the list for the path's.
StartupRestore(k) ==
    /\ step = "startup" /\ k = "r"
    /\ SelectEntry
    /\ HasBackups(savedSites[cursor + 1].domain)
    /\ EnterRestore(savedSites[cursor + 1].config)
    /\ KeepMode /\ UNCHANGED parsed /\ Elsewhere

StartupDelete(k) ==
    /\ step = "startup" /\ k = "d" /\ savedSites # <<>>
    /\ GoTo("deleteSelect", 0)
    /\ shown' = [shown EXCEPT !.marked = {}]
    /\ KeepMode /\ UNCHANGED <<memory, parsed>> /\ Elsewhere

UpdateStartup(k) ==
    \/ StartupMove(k)
    \/ StartupNew(k)
    \/ StartupOpen(k)
    \/ StartupPromote(k)
    \/ StartupRestore(k)
    \/ StartupDelete(k)

-----------------------------------------------------------------------------
(* Site selection: pairs, or the folder browser with cursor 0 for live and 1  *)
(* for staging.                                                               *)

OnPairs == pathMode = "pairs" /\ sitePairs # <<>>

PairsMove(k) ==
    step = "paths" /\ OnPairs /\ k \in {"up", "down"} /\ Scroll(Moved(k, Len(sitePairs)))

PairsCustom(k) ==
    /\ step = "paths" /\ OnPairs /\ k = "enter" /\ cursor = Len(sitePairs)
    /\ GoTo("paths", 0) /\ pathMode' = "manual"
    /\ UNCHANGED <<showHelp, confirmQuit, memory, parsed, shown>> /\ Elsewhere

(***************************************************************************)
(* A saved config is read anew; without one the paths go into the config   *)
(* that m.cfg happens to point to.  A pair without staging is refused.     *)
(***************************************************************************)
PairsSelect(k) ==
    /\ step = "paths" /\ OnPairs /\ k = "enter" /\ cursor < Len(sitePairs)
    /\ LET pair == sitePairs[cursor + 1]
           on(c) == [c EXCEPT !.live = pair.live, !.stage = pair.stage]
       IN  /\ pair.stage # NoPath
           /\ IF Readable(pair.domain)
              THEN alias' = 0 /\ own' = on(sites[pair.domain]) /\ UNCHANGED savedSites
              ELSE WriteCfg(on(Cfg))
           /\ ParseBoth(pair)
           /\ gone' = gone \ NamesOf(pair.live)
    /\ IF BothParsed THEN GoTo("credentials", 0) ELSE UNCHANGED <<step, cursor>>
    /\ KeepMode /\ UNCHANGED <<disk, shown, outside>>

ManualLive(k) ==
    /\ step = "paths" /\ ~ OnPairs /\ k = "space" /\ cursor = 0
    /\ \E p \in Browse : WriteCfg([Cfg EXCEPT !.live = p]) /\ gone' = gone \ NamesOf(p)
    /\ GoTo("paths", 1)
    /\ KeepMode /\ UNCHANGED <<disk, parsed, shown, outside>>

ManualStage(k) ==
    /\ step = "paths" /\ ~ OnPairs /\ k = "space" /\ cursor # 0
    /\ \E p \in Browse :
          LET c == [Cfg EXCEPT !.stage = p] IN WriteCfg(c) /\ ParseBoth(c)
    /\ GoTo(IF BothParsed THEN "credentials" ELSE "paths", 0)
    /\ KeepMode /\ UNCHANGED shown /\ Elsewhere

UpdatePaths(k) ==
    \/ PairsMove(k)
    \/ PairsCustom(k)
    \/ PairsSelect(k)
    \/ ManualLive(k)
    \/ ManualStage(k)

-----------------------------------------------------------------------------
(* The screens of a sync.                                                     *)

\* Writing a mode into the missing map of a config panics.
ToTables(tables) ==
    IF tables > 0 /\ ~ Cfg.modes THEN step' = "crashed" /\ UNCHANGED cursor
    ELSE GoTo("tableSelect", 0)

\* The tables are read anew each time; WooCommerce shows as a folder or as tables.
UpdateCredentials(k) ==
    /\ step = "credentials" /\ k = "enter"
    /\ \E n \in {0, MaxItems}, wooTables, wooFolder \in BOOLEAN :
          /\ wooTables => n > 0
          /\ shown' = [shown EXCEPT !.tables = n, !.woo = wooTables, !.inputOK = TRUE]
          /\ IF wooTables \/ wooFolder THEN GoTo("syncParams", 0) ELSE ToTables(n)
    /\ KeepMode /\ UNCHANGED <<memory, parsed>> /\ Elsewhere

ParamsType(k) ==
    /\ step = "syncParams" /\ k = "rune" /\ cursor = 0
    /\ \E ok \in BOOLEAN : shown' = [shown EXCEPT !.inputOK = ok]
    /\ KeepMode /\ UNCHANGED <<step, cursor, memory, parsed>> /\ Elsewhere

\* The count must be a number above 0 before the cursor leaves it.
ParamsNext(k) ==
    /\ step = "syncParams" /\ k \in {"tab", "enter"}
    /\ cursor = 0 => shown.inputOK
    /\ CASE cursor < 2 -> GoTo("syncParams", cursor + 1)
         [] cursor = 2 /\ k = "tab" -> GoTo("syncParams", 0)
         [] cursor = 2 /\ k = "enter" -> ToTables(shown.tables)
    /\ KeepMode /\ UNCHANGED <<memory, parsed, shown>> /\ Elsewhere

TablesMove(k) ==
    step = "tableSelect" /\ k \notin {"enter", "space"} /\ Scroll(Jumped(k, shown.tables - 1))

\* Space reads the table under the cursor before it changes its mode.
TablesCycle(k) ==
    /\ step = "tableSelect" /\ k = "space"
    /\ cursor \notin 0..(shown.tables - 1)
    /\ Crash

\* Mutant: the cursor stays where it was.
TablesEnter_KeepCursor(k) ==
    /\ step = "tableSelect" /\ k = "enter"
    /\ \E n \in {0, MaxItems} : shown' = [shown EXCEPT !.excludes = n]
    /\ GoTo("excludes", cursor)
    /\ KeepMode /\ UNCHANGED <<memory, parsed>> /\ Elsewhere

TablesEnter(k) ==
    /\ step = "tableSelect" /\ k = "enter"
    /\ \E n \in {0, MaxItems} : shown' = [shown EXCEPT !.excludes = n]
    /\ GoTo("excludes", 0)
    /\ KeepMode /\ UNCHANGED <<memory, parsed>> /\ Elsewhere

ExcludesMove(k) ==
    /\ step = "excludes" /\ shown.excludes > 0 /\ k # "enter"
    /\ Scroll(Jumped(k, shown.excludes - 1))

ExcludesEnter(k) ==
    /\ step = "excludes" /\ k = "enter"
    /\ GoTo("confirm", IF shown.excludes = 0 THEN cursor ELSE 0)
    /\ KeepMode /\ UNCHANGED <<memory, parsed, shown>> /\ Elsewhere

\* The sync starts whether or not the config could be saved.
UpdateConfirm(k) ==
    /\ step = "confirm" /\ k = "enter"
    /\ Save(Cfg)
    /\ step' = "running"
    /\ KeepMode /\ UNCHANGED <<cursor, flat, backups, memory, parsed, shown, gone, outside>>

UpdateSync(k) ==
    \/ UpdateCredentials(k)
    \/ ParamsType(k)
    \/ ParamsNext(k)
    \/ TablesMove(k)
    \/ TablesCycle(k)
    \/ TablesEnter(k)
    \/ ExcludesMove(k)
    \/ ExcludesEnter(k)
    \/ UpdateConfirm(k)

-----------------------------------------------------------------------------
(* Promote and restore.                                                       *)

IsHeader(c) == shown.labels[c + 1] = "header"

\* The cursor steps over a header, except over the first one.
PromoteMove(k) ==
    /\ step = "promoteSelect" /\ k \in {"up", "down"}
    /\ LET last == Len(shown.labels) - 1
           c == Moved(k, last)
       IN  Scroll(CASE c = cursor -> c
                    [] c # cursor /\ k = "up" -> IF IsHeader(c) /\ c > 0 THEN c - 1 ELSE c
                    [] c # cursor /\ k = "down" -> IF IsHeader(c) /\ c < last THEN c + 1 ELSE c)

\* Space reads the label under the cursor.
PromoteToggle(k) ==
    /\ step = "promoteSelect" /\ k = "space"
    /\ IF cursor >= Len(shown.labels) THEN Crash
       ELSE /\ ~ IsHeader(cursor)
            /\ shown' = [shown EXCEPT !.picked = SymDiff(@, {cursor})]
            /\ KeepMode /\ UNCHANGED <<step, cursor, memory, parsed>> /\ Elsewhere

PromoteEnter(k) ==
    /\ k = "enter"
    /\ \/ step = "promoteSelect" /\ shown.picked # {} /\ step' = "promoteConfirm"
       \/ step = "promoteConfirm" /\ step' = "promoteRunning"
    /\ KeepMode /\ UNCHANGED <<cursor, memory, parsed, shown>> /\ Elsewhere

RestoreMove(k) ==
    /\ step = "restoreList" /\ k \in {"up", "down"} /\ shown.restores # <<>>
    /\ Scroll(Moved(k, Len(shown.restores) - 1))

RestoreEnter(k) ==
    /\ k = "enter"
    /\ \/ step = "restoreList" /\ shown.restores # <<>> /\ step' = "restoreConfirm"
       \/ step = "restoreConfirm" /\ step' = "restoreRunning"
    /\ KeepMode /\ UNCHANGED <<cursor, memory, parsed, shown>> /\ Elsewhere

UpdateAssets(k) ==
    \/ PromoteMove(k)
    \/ PromoteToggle(k)
    \/ PromoteEnter(k)
    \/ RestoreMove(k)
    \/ RestoreEnter(k)

-----------------------------------------------------------------------------
(* Deleting sites, and the settings.                                          *)

DeleteMove(k) ==
    step = "deleteSelect" /\ k \in {"up", "down"} /\ Scroll(Moved(k, Len(savedSites) - 1))

DeleteMark(k) ==
    /\ step = "deleteSelect"
    /\ \/ k = "space" /\ shown' = [shown EXCEPT !.marked = SymDiff(@, {cursor})] /\ UNCHANGED step
       \/ /\ k = "a" /\ step' = "deleteConfirm"
          /\ shown' = [shown EXCEPT !.marked = 0..(Len(savedSites) - 1)]
       \/ k = "enter" /\ shown.marked # {} /\ step' = "deleteConfirm" /\ UNCHANGED shown
    /\ KeepMode /\ UNCHANGED <<cursor, memory, parsed>> /\ Elsewhere

\* Mutant: the list in memory is not read again.
UpdateDeleteConfirm_StaleList(k) ==
    /\ step = "deleteConfirm" /\ k = "enter"
    /\ \E cut, emptied \in SUBSET {savedSites[i + 1].domain : i \in shown.marked} :
          DeleteSites(cut, emptied) /\ gone' = gone \cup cut
    /\ UNCHANGED memory
    /\ shown' = [shown EXCEPT !.marked = {}]
    /\ GoTo(FirstScreen(savedSites'), 0)
    /\ KeepMode /\ UNCHANGED <<flat, parsed, outside>>

(***************************************************************************)
(* The marked folders go, without a word about one that cannot be removed  *)
(* or only in part; m.cfg keeps a config that has left the list.           *)
(***************************************************************************)
UpdateDeleteConfirm(k) ==
    /\ step = "deleteConfirm" /\ k = "enter"
    /\ \E cut, emptied \in SUBSET {savedSites[i + 1].domain : i \in shown.marked} :
          DeleteSites(cut, emptied) /\ gone' = gone \cup cut
    /\ savedSites' = ListSites'
    /\ own' = Cfg /\ alias' = 0
    /\ shown' = [shown EXCEPT !.marked = {}]
    /\ GoTo(FirstScreen(savedSites'), 0)
    /\ KeepMode /\ UNCHANGED <<flat, parsed, outside>>

DeleteBack(k) ==
    /\ step = "deleteConfirm" /\ k = "esc"
    /\ GoTo("deleteSelect", 0)
    /\ KeepMode /\ UNCHANGED <<memory, parsed, shown>> /\ Elsewhere

SettingsMove(k) == step = "settings" /\ k \in {"up", "down"} /\ Scroll(Moved(k, 1))

SettingsLeave(k) ==
    /\ step = "settings" /\ k = "s"
    /\ GoTo(Home, 0)
    /\ KeepMode /\ UNCHANGED <<memory, parsed, shown>> /\ Elsewhere

UpdateSites(k) ==
    \/ DeleteMove(k)
    \/ DeleteMark(k)
    \/ UpdateDeleteConfirm(k)
    \/ DeleteBack(k)
    \/ SettingsMove(k)
    \/ SettingsLeave(k)

-----------------------------------------------------------------------------
(* Runs and sessions.                                                         *)

\* The archive comes before its list of items; retention keeps the new one.
PromoteWorks ==
    /\ step = "promoteRunning"
    /\ \E t \in 1..MaxBackups :
          LET old == backups[DomainFromPath(Cfg.live)]
              new == [live |-> Cfg.live, time |-> t]
          IN  \E left \in {old \cup {Orphan}, old \cup {new}, {new}} :
                  backups' = [backups EXCEPT ![DomainFromPath(Cfg.live)] = left]
    /\ UNCHANGED <<sites, flat, screen, memory, parsed, shown, gone, outside>>

\* syncDoneMsg; a question about quitting stays on.
RunEnds ==
    /\ step \in Running
    /\ step' = CASE step = "promoteRunning" -> "promoteDone"
                 [] step = "restoreRunning" -> "restoreDone"
                 [] step = "running" -> "done"
    /\ KeepMode /\ UNCHANGED <<cursor, memory, parsed, shown>> /\ Elsewhere

DoneEnter(k) ==
    /\ step \in Done /\ k = "enter"
    /\ step' = "quit"
    /\ KeepMode /\ UNCHANGED <<cursor, memory, parsed, shown>> /\ Elsewhere

\* The terminal goes away or the process is killed.
Hangup ==
    /\ step \in Screens
    /\ step' = "quit"
    /\ KeepMode /\ UNCHANGED <<cursor, memory, parsed, shown>> /\ Elsewhere

Blank == [tables |-> 0, woo |-> FALSE, inputOK |-> TRUE, excludes |-> 0, labels |-> <<>>,
          picked |-> {}, assets |-> NoAssets, restores |-> <<>>, marked |-> {}]

NewConfig == [live |-> NoPath, stage |-> NoPath, modes |-> TRUE]

\* A new process: main up to the mode flags, and the memory of initialModel.
Start ==
    /\ step \in Ended /\ sessions < MaxSessions
    /\ sessions' = sessions + 1
    /\ MigrateLegacyConfigs
    /\ GoTo("starting", 0)
    /\ pathMode' = "pairs" /\ showHelp' = FALSE /\ confirmQuit' = FALSE
    /\ savedSites' = <<>> /\ own' = NewConfig /\ alias' = 0
    /\ liveWP' = Nil /\ stageWP' = Nil
    /\ shown' = Blank /\ gone' = {}
    /\ UNCHANGED <<others, writing>>

StartTui ==
    /\ step = "starting"
    /\ savedSites' = ListSites
    /\ GoTo(FirstScreen(savedSites'), 0)
    /\ KeepMode /\ UNCHANGED <<own, alias, parsed, shown>> /\ Elsewhere

(***************************************************************************)
(* --promote takes --site or the only site, --restore only the latter.     *)
(* The sites are listed a second time for the screens.                     *)
(***************************************************************************)
ResolveConfig(mode) ==
    /\ step = "starting"
    /\ LET found == {n \in Names : Readable(n)}
       IN  \/ /\ mode = "promoteMode" \/ Cardinality(found) = 1
             /\ step' = mode
             /\ \E n \in found : own' = sites[n]
          \/ /\ mode = "promoteMode" \/ Cardinality(found) # 1
             /\ step' = "quit" /\ UNCHANGED own
    /\ KeepMode /\ UNCHANGED <<cursor, savedSites, alias, parsed, shown>> /\ Elsewhere

RunWithMode ==
    /\ step \in {"promoteMode", "restoreMode"}
    /\ savedSites' = ListSites
    /\ IF step = "promoteMode" THEN EnterPromote(own) ELSE EnterRestore(own)
    /\ KeepMode /\ UNCHANGED <<own, alias, parsed>> /\ Elsewhere

-----------------------------------------------------------------------------
(* Other processes of the program: a sync of a pair that saves, --delete or   *)
(* the delete screen, --reset.                                                *)

Inside == UNCHANGED <<screen, memory, parsed, shown, sessions>>

OtherSaveBegin ==
    /\ others < MaxOthers /\ writing = <<>>
    /\ others' = others + 1
    /\ \E pair \in PairSites(Scan) :
          LET c == [live |-> pair.live, stage |-> pair.stage, modes |-> TRUE]
              n == DomainFromPath(pair.live)
          IN  /\ pair.stage # NoPath
              /\ sites' = [sites EXCEPT ![n] = Torn]
              /\ writing' = <<n, c>>
              /\ gone' = gone \ {n}
    /\ UNCHANGED <<flat, backups>> /\ Inside

\* A file that was deleted meanwhile stays away; two writers can leave a mixture.
OtherSaveEnd ==
    /\ writing # <<>>
    /\ writing' = <<>>
    /\ LET n == writing[1]
       IN  \E result \in IF sites[n] = NoConfig THEN {NoConfig}
                         ELSE {writing[2], sites[n], Torn} :
               sites' = [sites EXCEPT ![n] = result]
    /\ UNCHANGED <<flat, backups, others, gone>> /\ Inside

OtherDelete ==
    /\ others < MaxOthers
    /\ others' = others + 1
    /\ LET saved == {n \in Names : sites[n] # NoConfig \/ backups[n] # {}}
       IN  \E names \in {saved} \cup {{n} : n \in saved} : DeleteSites(names, names)
    /\ UNCHANGED <<flat, writing, gone>> /\ Inside

-----------------------------------------------------------------------------
Init ==
    /\ \E d \in InitialDisks : sites = d.sites /\ flat = d.flat /\ backups = d.backups
    /\ step = "quit" /\ cursor = 0 /\ pathMode = "pairs"
    /\ showHelp = FALSE /\ confirmQuit = FALSE
    /\ savedSites = <<>> /\ own = NewConfig /\ alias = 0
    /\ liveWP = Nil /\ stageWP = Nil
    /\ shown = Blank /\ gone = {}
    /\ sessions = 0 /\ others = 0 /\ writing = <<>>

\* Update for one key: the switch over the screens, and the keys before it.
UpdateScreen(k) ==
    \/ step = "startup" /\ UpdateStartup(k)
    \/ step = "paths" /\ UpdatePaths(k)
    \/ step \in {"credentials", "syncParams", "tableSelect", "excludes", "confirm"} /\ UpdateSync(k)
    \/ step \in {"promoteSelect", "promoteConfirm", "restoreList", "restoreConfirm"} /\ UpdateAssets(k)
    \/ step \in {"deleteSelect", "deleteConfirm", "settings"} /\ UpdateSites(k)
    \/ DoneEnter(k)

Update(k) ==
    \E branch \in {Branch(k)} :
       \/ branch = "answer" /\ AnswerQuit(k)
       \/ branch = "quit" /\ AskQuit
       \/ branch = "quit" /\ Quit(k)
       \/ branch = "quit" /\ k = "q" /\ step = "settings" /\ GoBack
       \/ branch = "help" /\ ToggleHelp
       \/ branch = "inHelp" /\ CloseHelp(k)
       \/ branch = "back" /\ GoBack
       \/ branch = "settings" /\ OpenSettings
       \/ branch = "screen" /\ UpdateScreen(k)

Next ==
    \/ step \in Screens /\ \E k \in Keys : Update(k)
    \/ PromoteWorks
    \/ RunEnds
    \/ Hangup
    \/ Start
    \/ StartTui
    \/ \E mode \in {"promoteMode", "restoreMode"} : ResolveConfig(mode)
    \/ RunWithMode
    \/ OtherSaveBegin
    \/ OtherSaveEnd
    \/ OtherDelete

Spec == Init /\ [][Next]_vars

-----------------------------------------------------------------------------
(* Properties.                                                                *)

\* The lists that the screens show.
Lists == [tables : Nat, woo : BOOLEAN, inputOK : BOOLEAN, excludes : Nat,
          labels : Seq({"header", "item"}), picked : SUBSET Nat,
          assets : [live : Paths \cup {NoPath}, stage : Paths \cup {NoPath}],
          restores : Seq(Backup), marked : SUBSET Nat]

\* The type invariant; cursors are -1 only on an empty table list.
TypeOK ==
    /\ DiskOK
    /\ step \in Screens \cup Ended \cup {"starting", "promoteMode", "restoreMode"}
    /\ cursor \in Nat \cup {-1} /\ (cursor = -1 => shown.tables = 0)
    /\ pathMode \in {"pairs", "manual"} /\ {showHelp, confirmQuit} \subseteq BOOLEAN
    /\ savedSites \in Seq([domain : Names, config : Config])
    /\ own \in Config /\ alias \in 0..Len(savedSites)
    /\ {liveWP, stageWP} \subseteq Paths \cup {Nil}
    /\ shown \in Lists /\ gone \subseteq Names
    /\ writing = <<>> \/ writing \in Names \X Saved
    /\ sessions \in 0..MaxSessions /\ others \in 0..MaxOthers

\* What a run works on is one site's: the databases of the wp-config.php files
\* under the very paths whose files it copies, the staging items and live
\* targets of those paths, and a backup that was taken from that live webroot.
OneSitePerRun ==
    /\ step = "running" => liveWP = Cfg.live /\ stageWP = Cfg.stage
    /\ step \in {"promoteConfirm", "promoteRunning"} =>
          shown.assets = [live |-> Cfg.live, stage |-> Cfg.stage]
    /\ step = "restoreRunning" => shown.restores[cursor + 1].live = Cfg.live

\* What OneSitePerRun needs of the server and its saved sites: no webroot is found
\* under a name that another one can be saved under, and the folder of a name holds
\* one webroot's files.  Of two webroots with one name only one may stay saved, says
\* docs/servers.md; a folder name they share, public_html, can be the old name of one.
DistinctNames == \A p, q \in Paths : ExtractDomain(p) \in NamesOf(q) => p = q

HoldsOnly(s, f, b, n, p) ==
    /\ n \in NamesOf(p)
    /\ s[n] \in Saved => s[n].live = p
    /\ f[n] \in Saved => f[n].live = p
    /\ \A backup \in b[n] \ {Orphan} : backup.live = p

OneOwner(d) == \A n \in Names : \E p \in Paths : HoldsOnly(d.sites, d.flat, d.backups, n, p)

\* Every screen has what it draws and what its keys index: sites, pairs, rows,
\* labels and backups under the cursor, and both parsed wp-config.php files.
\* The lists of tables and of promote items can be empty.
Drawable ==
    /\ step = "startup" => savedSites # <<>> /\ cursor <= Len(savedSites)
    /\ step = "paths" /\ OnPairs => cursor <= Len(sitePairs)
    /\ step \in {"credentials", "syncParams", "tableSelect", "excludes", "confirm", "running"} =>
          liveWP # Nil /\ stageWP # Nil
    /\ step = "tableSelect" /\ shown.tables > 0 => cursor \in 0..(shown.tables - 1)
    /\ step = "excludes" /\ shown.excludes > 0 => cursor \in 0..(shown.excludes - 1)
    /\ step \in {"promoteSelect", "promoteConfirm"} /\ shown.labels # <<>> =>
          cursor \in 0..(Len(shown.labels) - 1)
    /\ step = "promoteConfirm" => \A i \in shown.picked : shown.labels[i + 1] = "item"
    /\ step \in {"restoreConfirm", "restoreRunning"} => cursor \in 0..(Len(shown.restores) - 1)
    /\ step \in {"deleteSelect", "deleteConfirm"} =>
          cursor < Len(savedSites) /\ \A i \in shown.marked : i < Len(savedSites)

\* A site that was deleted in this session is not saved again by it, unless its
\* live webroot is selected anew; no screen of the session still offers it.
StaysDeleted == \A n \in gone : sites[n] = NoConfig

\* "Promote themes and plugins of the selected site" (docs/interactive.md): the
\* promote and restore screens work on the site that was under the cursor.
SelectedSite ==
    step \in {"promoteSelect", "promoteConfirm", "promoteRunning",
              "restoreList", "restoreConfirm", "restoreRunning"} /\ alias > 0 =>
        savedSites[alias].domain \in NamesOf(Cfg.live)

=============================================================================
