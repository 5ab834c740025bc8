------------------------------ MODULE RunLock ------------------------------
(***************************************************************************)
(* config.LockPaths (internal/config/lock.go) and the runs that use it: a  *)
(* sync (runUnattended, runSync), a promote and a restore each lock the    *)
(* live and the staging webroot, write, and unlock.  A lock is an flock on *)
(* a file named after the cleaned path; the file also holds the process    *)
(* ID of its owner, for the message of a run that is turned away.          *)
(*                                                                         *)
(* A path is a number: its place in the order of sort.Strings.             *)
(***************************************************************************)
EXTENDS Naturals

CONSTANTS
    Runs,        \* processes
    Paths,       \* cleaned webroot paths, by their place in the sort order
    Pairs,       \* the <<live, stage>> pairs that runs are started with
    Webroot,     \* the folder a path resolves to, symlinks followed
    NoRun,       \* no owner
    MaxAttempts  \* bound: how often each process calls LockPaths

ASSUME LockAssumption ==
    /\ Paths \subseteq Nat
    /\ Pairs \subseteq Paths \X Paths
    /\ Pairs # {}
    /\ DOMAIN Webroot = Paths
    /\ NoRun \notin Runs
    /\ MaxAttempts \in Nat

VARIABLES
    pc,        \* where each run is
    want,      \* `clean`: the two paths, sorted
    next,      \* the position of the path to lock next
    held,      \* `held`: the positions whose lock file the run has locked
    attempt,   \* how many times the run has called LockPaths
    holder,    \* the owner of each lock file's flock, kept by the kernel
    pidfile,   \* the process ID each lock file holds
    named,     \* the process ID a refused run prints
    blocker    \* history: which attempt of which run refused this one

vars == <<pc, want, next, held, attempt, holder, pidfile, named, blocker>>

PCs == {"idle", "lock", "truncate", "stamp", "blocked", "unwind", "write", "release"}

PathsOf(r) == {want[r][1], want[r][2]}

\* A name of the form Action_Word is a faulty variant of Action; no specification
\* uses it, it is there to show that a property can fail.
LockOrder_AsGiven(live, stage) == <<live, stage>>

\* The order in which two paths are locked: sort.Strings.
LockOrder(live, stage) ==
    IF live <= stage THEN <<live, stage>> ELSE <<stage, live>>

----------------------------------------------------------------------------
Init ==
    /\ pc = [r \in Runs |-> "idle"]
    /\ want = [r \in Runs |-> CHOOSE pair \in Pairs : TRUE]   \* not read before Start
    /\ next = [r \in Runs |-> 1]
    /\ held = [r \in Runs |-> {}]
    /\ attempt = [r \in Runs |-> 0]
    /\ holder = [p \in Paths |-> NoRun]
    /\ pidfile = [p \in Paths |-> NoRun]
    /\ named = [r \in Runs |-> NoRun]
    /\ blocker = [r \in Runs |-> <<NoRun, 0>>]

Start(r, live, stage) ==
    /\ pc[r] = "idle"
    /\ attempt[r] < MaxAttempts
    /\ pc' = [pc EXCEPT ![r] = "lock"]
    /\ want' = [want EXCEPT ![r] = LockOrder(live, stage)]
    /\ next' = [next EXCEPT ![r] = 1]
    /\ held' = [held EXCEPT ![r] = {}]
    /\ attempt' = [attempt EXCEPT ![r] = @ + 1]
    /\ named' = [named EXCEPT ![r] = NoRun]
    /\ blocker' = [blocker EXCEPT ![r] = <<NoRun, 0>>]
    /\ UNCHANGED <<holder, pidfile>>

Target(r) == want[r][next[r]]

Flock_Shared(r) ==
    /\ pc[r] = "lock"
    /\ next[r] <= 2
    /\ holder' = [holder EXCEPT ![Target(r)] = r]
    /\ held' = [held EXCEPT ![r] = @ \cup {next[r]}]
    /\ next' = [next EXCEPT ![r] = @ + 1]
    /\ pc' = [pc EXCEPT ![r] = "truncate"]
    /\ UNCHANGED <<want, attempt, pidfile, named, blocker>>

\* flock(LOCK_EX|LOCK_NB) on the next lock file succeeds when nobody has it.
Flock(r) ==
    /\ pc[r] = "lock"
    /\ next[r] <= 2
    /\ holder[Target(r)] = NoRun
    /\ holder' = [holder EXCEPT ![Target(r)] = r]
    /\ held' = [held EXCEPT ![r] = @ \cup {next[r]}]
    /\ next' = [next EXCEPT ![r] = @ + 1]
    /\ pc' = [pc EXCEPT ![r] = "truncate"]
    /\ UNCHANGED <<want, attempt, pidfile, named, blocker>>

\* Truncate(0) and WriteAt(pid) follow; their errors are ignored.
Truncate(r) ==
    /\ pc[r] = "truncate"
    /\ \/ pidfile' = [pidfile EXCEPT ![want[r][next[r] - 1]] = NoRun]
       \/ UNCHANGED pidfile
    /\ pc' = [pc EXCEPT ![r] = "stamp"]
    /\ UNCHANGED <<want, next, held, attempt, holder, named, blocker>>

WritePid_WrongNumber(r) ==
    /\ pc[r] = "stamp"
    /\ pidfile' = [pidfile EXCEPT ![want[r][next[r] - 1]] = attempt[r]]
    /\ pc' = [pc EXCEPT ![r] = "lock"]
    /\ UNCHANGED <<want, next, held, attempt, holder, named, blocker>>

WritePid(r) ==
    /\ pc[r] = "stamp"
    /\ \/ pidfile' = [pidfile EXCEPT ![want[r][next[r] - 1]] = r]
       \/ UNCHANGED pidfile
    /\ pc' = [pc EXCEPT ![r] = "lock"]
    /\ UNCHANGED <<want, next, held, attempt, holder, named, blocker>>

Blocked_Waits(r) ==
    /\ pc[r] = "lock"
    /\ next[r] <= 2
    /\ holder[Target(r)] # NoRun
    /\ UNCHANGED vars

\* flock fails: some run has the file, possibly this one through its first path.
Blocked(r) ==
    /\ pc[r] = "lock"
    /\ next[r] <= 2
    /\ holder[Target(r)] # NoRun
    /\ pc' = [pc EXCEPT ![r] = "blocked"]
    /\ blocker' = [blocker EXCEPT ![r] = <<holder[Target(r)], attempt[holder[Target(r)]]>>]
    /\ UNCHANGED <<want, next, held, attempt, holder, pidfile, named>>

\* The file is read after the failed flock, so its content may be older or
\* newer than the lock that was met.
ReadOwner(r) ==
    /\ pc[r] = "blocked"
    /\ named' = [named EXCEPT ![r] = pidfile[Target(r)]]
    /\ pc' = [pc EXCEPT ![r] = "unwind"]
    /\ UNCHANGED <<want, next, held, attempt, holder, pidfile, blocker>>

\* The lock file cannot be opened.
OpenFails(r) ==
    /\ pc[r] = "lock"
    /\ next[r] <= 2
    /\ pc' = [pc EXCEPT ![r] = "unwind"]
    /\ UNCHANGED <<want, next, held, attempt, holder, pidfile, named, blocker>>

Granted_AfterFirst(r) ==
    /\ pc[r] = "lock"
    /\ next[r] >= 2
    /\ pc' = [pc EXCEPT ![r] = "write"]
    /\ UNCHANGED <<want, next, held, attempt, holder, pidfile, named, blocker>>

Granted(r) ==
    /\ pc[r] = "lock"
    /\ next[r] = 3
    /\ pc' = [pc EXCEPT ![r] = "write"]
    /\ UNCHANGED <<want, next, held, attempt, holder, pidfile, named, blocker>>

\* The caller returns, with or without an error: the deferred unlock runs.
EndRun(r) ==
    /\ pc[r] = "write"
    /\ pc' = [pc EXCEPT ![r] = "release"]
    /\ UNCHANGED <<want, next, held, attempt, holder, pidfile, named, blocker>>

\* release(): LOCK_UN and Close, in the order of acquisition.
Unlock(r, i) ==
    /\ pc[r] \in {"unwind", "release"}
    /\ i \in held[r]
    /\ \A j \in held[r] : i <= j
    /\ holder' = [holder EXCEPT ![want[r][i]] = NoRun]
    /\ held' = [held EXCEPT ![r] = @ \ {i}]
    /\ UNCHANGED <<pc, want, next, attempt, pidfile, named, blocker>>

Return(r) ==
    /\ pc[r] \in {"unwind", "release"}
    /\ held[r] = {}
    /\ pc' = [pc EXCEPT ![r] = "idle"]
    /\ UNCHANGED <<want, next, held, attempt, holder, pidfile, named, blocker>>

\* The process dies anywhere; the kernel drops its flocks at once.
Crash(r) ==
    /\ pc[r] # "idle"
    /\ pc' = [pc EXCEPT ![r] = "idle"]
    /\ held' = [held EXCEPT ![r] = {}]
    /\ holder' = [p \in Paths |-> IF holder[p] = r THEN NoRun ELSE holder[p]]
    /\ UNCHANGED <<want, next, attempt, pidfile, named, blocker>>

\* The steps of a live process inside LockPaths, its run, and release(), which
\* never wait; an error of the file system is no step to count on.
Progress(r) ==
    \/ Flock(r) \/ Truncate(r) \/ WritePid(r) \/ Blocked(r) \/ ReadOwner(r)
    \/ Granted(r) \/ EndRun(r) \/ Return(r)
    \/ \E i \in {1, 2} : Unlock(r, i)

Next ==
    \E r \in Runs :
        \/ \E pair \in Pairs : Start(r, pair[1], pair[2])
        \/ Progress(r)
        \/ OpenFails(r)
        \/ Crash(r)

Spec == Init /\ [][Next]_vars /\ \A r \in Runs : WF_vars(Progress(r))

----------------------------------------------------------------------------
\* Types of the variables.
TypeOK ==
    /\ pc \in [Runs -> PCs]
    /\ want \in [Runs -> Paths \X Paths]
    /\ next \in [Runs -> 1..3]
    /\ held \in [Runs -> SUBSET {1, 2}]
    /\ attempt \in [Runs -> 0..MaxAttempts]
    /\ holder \in [Paths -> Runs \cup {NoRun}]
    /\ pidfile \in [Paths -> Runs \cup {NoRun}]
    /\ named \in [Runs -> Runs \cup {NoRun}]
    /\ blocker \in [Runs -> (Runs \cup {NoRun}) \X (0..MaxAttempts)]

\* No two runs write under the same path at the same time, wherever a third
\* run was refused, failed or killed in between (lock.go:15-19).
ExclusiveUse ==
    \A r, s \in Runs :
        r # s /\ pc[r] = "write" /\ pc[s] = "write" => PathsOf(r) \cap PathsOf(s) = {}

\* A run that has returned, was refused half way or died owns no lock: the
\* TUI process lives on after a refusal, and a leaked lock would turn every
\* later run away.
NoLeakedLock ==
    \A r \in Runs : pc[r] = "idle" => \A p \in Paths : holder[p] # r

\* Two runs that start together never turn each other away: one of them gets
\* in or was stopped by a third.  This is what the sorted order is for, since
\* a non-blocking flock can not deadlock anyway (lock.go:29).
NoMutualRefusal ==
    \A r, s \in Runs :
        ~ /\ r # s
          /\ blocker[r] = <<s, attempt[s]>>
          /\ blocker[s] = <<r, attempt[r]>>

\* LockPaths never waits for another run: an attempt is granted, refused or
\* killed, whatever the others do.
AttemptEnds == \A r \in Runs : (pc[r] = "lock") ~> (pc[r] \in {"write", "idle"})

\* The webroots a run may write to, as RunMutex sees them.
InUse == [r \in Runs |-> IF pc[r] = "write" THEN PathsOf(r) ELSE {}]

Mutex == INSTANCE RunMutex WITH using <- InUse

\* The flock protocol implements the atomic promise of RunMutex: a run gets
\* both webroots in one visible step, whatever happens between two flocks.
ImplementsMutex == Mutex!Spec

\* lock.go:15-16, "so two runs (sync, promote or restore) never write the same
\* site at once": the folders, not the paths, that two runs write differ.
OneWriterPerSite ==
    \A r, s \in Runs :
        r # s /\ pc[r] = "write" /\ pc[s] = "write" =>
            \A p \in PathsOf(r), q \in PathsOf(s) : Webroot[p] # Webroot[q]
============================================================================
