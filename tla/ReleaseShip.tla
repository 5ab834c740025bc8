---------------------------- MODULE ReleaseShip ----------------------------
(***************************************************************************)
(* The release tool (cmd/release/main.go, internal/release/plan.go): cut   *)
(* makes the release commit, ship pushes it, waits for CI, tags, pushes    *)
(* the tag and waits for the release workflow.  Ship keeps no state of its *)
(* own: it reads git and GitHub, plans the steps that are left (PlanShip)  *)
(* and can be started again after it failed or died.                       *)
(*                                                                         *)
(* Several maintainers have a clone each.  Meanwhile GitHub runs the       *)
(* workflows and other people push to main.  A commit is a number; its     *)
(* history is the set of its ancestors.                                    *)
(***************************************************************************)
EXTENDS Naturals, Sequences, FiniteSets

CONSTANTS
    Clones,       \* the maintainers' clones
    MaxCommits,   \* bound: commits in a behaviour
    MaxFaults,    \* bound: steps that fail, crashes, failed workflow runs
    BusyClone     \* a maintainer commits in a clone where the tool is running

ASSUME ShipAssumption ==
    /\ MaxCommits \in Nat \ {0, 1}
    /\ MaxFaults \in Nat
    /\ BusyClone \in BOOLEAN

Commits == 1..MaxCommits
\* Between two releases there is a commit with notes.
Versions == 1..(MaxCommits \div 2)
None == 0

Runs == {"missing", "pending", "passed", "failed"}

VARIABLES
    made,       \* the commits made so far: version, release commit or not, notes, past
    head,       \* per clone: HEAD of main
    tree,       \* per clone: "clean", or a cut that is not committed
    localTag,   \* per clone and version: the commit of the tag
    main,       \* main on GitHub
    remoteTag,  \* per version: the commit of the tag on GitHub
    ci,         \* per commit: the newest run of ci.yml
    build,      \* per commit: the newest run of release.yml
    assets,     \* the versions whose release has its files
    pc,         \* per clone: the step of the tool
    st,         \* per clone: what readState has read
    plan,       \* per clone: the steps that are left
    shipped,    \* history, per clone: the version and commit reported as shipped
    passed,     \* history: the commits that CI has passed
    faults      \* failures so far

clone == <<head, tree, localTag>>
github == <<main, remoteTag, ci, build, assets, passed>>
tool == <<pc, st, plan, shipped>>
vars == <<made, clone, github, tool, faults>>

PCs == {"idle", "check", "apply", "recheck", "commit", "fetch", "tag", "ci", "build",
        "assets", "plan", "step"}

Steps == {"push-main", "wait-ci", "tag", "push-tag", "wait-release"}

\* State of plan.go, with what readState has filled in so far.
State == [head : Commits, onOrigin : BOOLEAN, behind : BOOLEAN, localTag : Commits \cup {None},
          remoteTag : Commits \cup {None}, ci : Runs, build : Runs, exists : BOOLEAN]

NoState == [head |-> 1, onOrigin |-> FALSE, behind |-> FALSE, localTag |-> None,
            remoteTag |-> None, ci |-> "missing", build |-> "missing", exists |-> FALSE]

IsAncestor(a, b) == a \in made[b].past

Child_BumpsEveryCommit(parent, release) ==
    [ver |-> made[parent].ver + 1, release |-> release,
     notes |-> ~release, past |-> made[parent].past \cup {Len(made) + 1}]

\* The commit that adds to `parent`: a release, or a change with its notes.
Child(parent, release) ==
    [ver |-> made[parent].ver + (IF release THEN 1 ELSE 0), release |-> release,
     notes |-> ~release, past |-> made[parent].past \cup {Len(made) + 1}]

Version(m) == made[head[m]].ver

----------------------------------------------------------------------------
Init ==
    /\ made = <<[ver |-> 0, release |-> FALSE, notes |-> TRUE, past |-> {1}]>>
    /\ head = [m \in Clones |-> 1]
    /\ tree = [m \in Clones |-> "clean"]
    /\ localTag = [m \in Clones |-> [v \in Versions |-> None]]
    /\ main = 1
    /\ remoteTag = [v \in Versions |-> None]
    /\ ci = [c \in Commits |-> IF c = 1 THEN "passed" ELSE "missing"]
    /\ build = [c \in Commits |-> "missing"]
    /\ assets = {}
    /\ passed = {1}
    /\ pc = [m \in Clones |-> "idle"]
    /\ st = [m \in Clones |-> NoState]
    /\ plan = [m \in Clones |-> <<>>]
    /\ shipped = [m \in Clones |-> <<None, None>>]
    /\ faults = 0

At(m, where) == pc[m] = where

Goto(m, where) ==
    /\ pc' = [pc EXCEPT ![m] = where]
    /\ UNCHANGED <<st, plan, shipped, faults>>

\* The command ends and its memory goes.
End(m) ==
    /\ pc' = [pc EXCEPT ![m] = "idle"]
    /\ st' = [st EXCEPT ![m] = NoState]
    /\ plan' = [plan EXCEPT ![m] = <<>>]

\* It ends with an error.
Abort(m) ==
    /\ faults < MaxFaults
    /\ faults' = faults + 1
    /\ End(m)
    /\ UNCHANGED shipped

\* A refusal that the state calls for.
Refuse(m) == End(m) /\ UNCHANGED <<shipped, faults>>

----------------------------------------------------------------------------
\* cut: a clean main with notes under [Unreleased].
BeginCut(m) ==
    /\ At(m, "idle")
    /\ tree[m] = "clean"
    /\ made[head[m]].notes
    /\ Goto(m, "check")
    /\ UNCHANGED <<made, clone, github>>

FirstChecks(m) ==
    /\ At(m, "check")
    /\ Goto(m, "apply") \/ Abort(m)
    /\ UNCHANGED <<made, clone, github>>

\* restore() is git checkout of the three files; its error is ignored.
Restored(m) == tree' \in {[tree EXCEPT ![m] = "clean"], [tree EXCEPT ![m] = "cut"]}

\* applyCut writes the three files in any order.
ApplyCut(m) ==
    /\ At(m, "apply")
    /\ \/ tree' = [tree EXCEPT ![m] = "cut"] /\ Goto(m, "recheck")
       \/ Restored(m) /\ Abort(m)
    /\ UNCHANGED <<made, head, localTag, github>>

SecondChecks(m) ==
    /\ At(m, "recheck")
    /\ \/ tree' = tree /\ Goto(m, "commit")
       \/ Restored(m) /\ Abort(m)
    /\ UNCHANGED <<made, head, localTag, github>>

\* git add and git commit; with --no-ship the command ends here.  A failing add
\* restores the files, a failing commit leaves the cut in the tree (as it does at the bound).
CommitRelease(m) ==
    /\ At(m, "commit")
    /\ \/ /\ Len(made) < MaxCommits
          /\ made' = Append(made, Child(head[m], TRUE))
          /\ head' = [head EXCEPT ![m] = Len(made) + 1]
          /\ tree' = [tree EXCEPT ![m] = "clean"]
          /\ Goto(m, "fetch") \/ Refuse(m)
       \/ Abort(m) /\ Restored(m) /\ UNCHANGED <<made, head>>
       \/ Len(made) = MaxCommits /\ Refuse(m) /\ UNCHANGED <<made, head, tree>>
    /\ UNCHANGED <<localTag, github>>

----------------------------------------------------------------------------
BeginShip(m) ==
    /\ At(m, "idle")
    /\ Goto(m, "fetch")
    /\ UNCHANGED <<made, clone, github>>

\* readState: git fetch, which shows main as it is now, then the clone.  PlanShip's
\* conditions on the tree and HEAD's subject need nothing from GitHub.
Fetch(m) ==
    /\ At(m, "fetch")
    /\ \/ /\ tree[m] = "clean" /\ made[head[m]].release
          /\ st' = [st EXCEPT ![m] =
                      [NoState EXCEPT !.head = head[m],
                                      !.onOrigin = IsAncestor(head[m], main),
                                      !.behind = IsAncestor(main, head[m]),
                                      !.localTag = localTag[m][Version(m)]]]
          /\ pc' = [pc EXCEPT ![m] = "tag"]
          /\ UNCHANGED <<plan, shipped, faults>>
       \/ /\ ~(tree[m] = "clean" /\ made[head[m]].release)
          /\ Refuse(m)
       \/ Abort(m)
    /\ UNCHANGED <<made, head, tree, localTag, github>>

\* The run goes on with one more field of State.
Read(m, where, next, s) ==
    /\ At(m, where)
    /\ \/ /\ st' = [st EXCEPT ![m] = s]
          /\ pc' = [pc EXCEPT ![m] = next]
          /\ UNCHANGED <<plan, shipped, faults>>
       \/ Abort(m)
    /\ UNCHANGED <<made, clone, github>>

TheVersion(m) == made[st[m].head].ver

ReadRemoteTag(m) ==
    Read(m, "tag", "ci", [st[m] EXCEPT !.remoteTag = remoteTag[TheVersion(m)]])

ReadCI(m) == Read(m, "ci", "build", [st[m] EXCEPT !.ci = ci[st[m].head]])

ReadBuild(m) == Read(m, "build", "assets", [st[m] EXCEPT !.build = build[st[m].head]])

\* releaseExists is false when gh fails.
ReadAssets(m) ==
    \/ Read(m, "assets", "plan", [st[m] EXCEPT !.exists = TheVersion(m) \in assets])
    \/ Read(m, "assets", "plan", [st[m] EXCEPT !.exists = FALSE])

\* PlanShip: what forbids shipping.
Unsafe(s) ==
    \/ ~s.onOrigin /\ ~s.behind
    \/ \E t \in {s.localTag, s.remoteTag} : t # None /\ t # s.head
    \/ s.ci = "failed"
    \/ s.build = "failed"

If(step, wanted) == IF wanted THEN <<step>> ELSE <<>>

PlanShip_TagsAtOnce(s) ==
    If("push-main", ~s.onOrigin)
      \o If("wait-ci", s.ci = "pending" /\ s.remoteTag = None)
      \o If("tag", s.localTag = None)
      \o If("push-tag", s.remoteTag = None)
      \o If("wait-release", ~s.exists)

PlanShip_ForgetsRelease(s) ==
    If("push-main", ~s.onOrigin)
      \o If("wait-ci", s.ci # "passed" /\ s.remoteTag = None)
      \o If("tag", s.localTag = None)
      \o If("push-tag", s.remoteTag = None)
      \o If("wait-release", ~s.exists /\ s.remoteTag = None)

PlanShip_TagsAgain(s) ==
    If("push-main", ~s.onOrigin)
      \o If("wait-ci", s.ci # "passed" /\ s.remoteTag = None)
      \o If("tag", s.remoteTag = None)
      \o If("push-tag", s.remoteTag = None)
      \o If("wait-release", ~s.exists)

\* PlanShip: the steps still to do.
PlanShip(s) ==
    If("push-main", ~s.onOrigin)
      \o If("wait-ci", s.ci # "passed" /\ s.remoteTag = None)
      \o If("tag", s.localTag = None)
      \o If("push-tag", s.remoteTag = None)
      \o If("wait-release", ~s.exists)

\* Shipping is not safe, or the maintainer declines.
Decline(m) ==
    /\ At(m, "plan")
    /\ Unsafe(st[m]) \/ PlanShip(st[m]) # <<>>
    /\ Refuse(m)
    /\ UNCHANGED <<made, clone, github>>

Accept(m) ==
    /\ At(m, "plan")
    /\ ~Unsafe(st[m])
    /\ plan' = [plan EXCEPT ![m] = PlanShip(st[m])]
    /\ pc' = [pc EXCEPT ![m] = "step"]
    /\ UNCHANGED <<made, clone, github, st, shipped, faults>>

\* The first step of the plan is `step`.
Doing(m, step) == At(m, "step") /\ plan[m] # <<>> /\ Head(plan[m]) = step

Done(m) ==
    /\ plan' = [plan EXCEPT ![m] = Tail(@)]
    /\ UNCHANGED <<pc, st, shipped, faults>>

\* A push of `c` to main starts ci.yml for it.
Triggered(c) == [ci EXCEPT ![c] = IF @ = "missing" THEN "pending" ELSE @]

\* git push HEAD:main succeeds when it only adds commits.
PushMain(m) ==
    /\ Doing(m, "push-main")
    /\ \/ /\ IsAncestor(main, head[m])
          /\ main' = head[m]
          /\ ci' = Triggered(head[m])
          /\ Done(m)
       \/ ~IsAncestor(main, head[m]) /\ Refuse(m) /\ UNCHANGED <<main, ci>>
       \/ Abort(m) /\ UNCHANGED <<main, ci>>
    /\ UNCHANGED <<made, head, tree, localTag, remoteTag, build, assets, passed>>

\* waitForRun: an error of gh is retried; a failed run, one that does not start
\* or one that takes too long is an error.
WaitCI(m) ==
    /\ Doing(m, "wait-ci")
    /\ \/ ci[st[m].head] = "passed" /\ Done(m)
       \/ ci[st[m].head] = "failed" /\ Refuse(m)
       \/ ci[st[m].head] \in {"missing", "pending"} /\ Abort(m)
    /\ UNCHANGED <<made, clone, github>>

\* git tag names HEAD.
Tag(m) ==
    /\ Doing(m, "tag")
    /\ LET v == TheVersion(m) IN
       \/ /\ localTag[m][v] = None
          /\ localTag' = [localTag EXCEPT ![m][v] = head[m]]
          /\ Done(m)
       \/ localTag[m][v] # None /\ Refuse(m) /\ UNCHANGED localTag
       \/ Abort(m) /\ UNCHANGED localTag
    /\ UNCHANGED <<made, head, tree, github>>

\* A tag that is on GitHub is not moved.  The push of a tag starts release.yml.
PushTag(m) ==
    /\ Doing(m, "push-tag")
    /\ LET v == TheVersion(m) IN
       \/ /\ remoteTag[v] = None
          /\ remoteTag' = [remoteTag EXCEPT ![v] = localTag[m][v]]
          /\ build' = [build EXCEPT ![localTag[m][v]] = "pending"]
          /\ Done(m)
       \/ remoteTag[v] # None /\ Refuse(m) /\ UNCHANGED <<remoteTag, build>>
       \/ Abort(m) /\ UNCHANGED <<remoteTag, build>>
    /\ UNCHANGED <<made, clone, main, ci, assets, passed>>

\* The run of release.yml has passed and its files are there.
WaitRelease(m) ==
    /\ Doing(m, "wait-release")
    /\ \/ build[st[m].head] = "passed" /\ TheVersion(m) \in assets /\ Done(m)
       \/ build[st[m].head] = "failed" /\ Refuse(m)
       \/ build[st[m].head] \in {"missing", "pending"} /\ Abort(m)
    /\ UNCHANGED <<made, clone, github>>

\* "Shipped" and "already shipped".
ReportShipped(m) ==
    /\ At(m, "step")
    /\ plan[m] = <<>>
    /\ shipped' = [shipped EXCEPT ![m] = <<TheVersion(m), st[m].head>>]
    /\ End(m)
    /\ UNCHANGED <<made, clone, github, faults>>

\* The tool dies; a cut that was being written stays.
Crash(m) ==
    /\ ~At(m, "idle")
    /\ Abort(m)
    /\ tree' \in {tree, [tree EXCEPT ![m] = IF At(m, "apply") THEN "cut" ELSE @]}
    /\ UNCHANGED <<made, head, localTag, github>>

----------------------------------------------------------------------------
\* The maintainer throws an unfinished cut away.
CleanUp(m) ==
    /\ At(m, "idle")
    /\ tree[m] # "clean"
    /\ tree' = [tree EXCEPT ![m] = "clean"]
    /\ UNCHANGED <<made, head, localTag, github, tool, faults>>

\* git pull of a main that has moved on, with the tags of what it fetches.
Pull(m) ==
    /\ At(m, "idle")
    /\ tree[m] = "clean"
    /\ head[m] # main
    /\ IsAncestor(head[m], main)
    /\ head' = [head EXCEPT ![m] = main]
    /\ localTag' = [localTag EXCEPT ![m] =
                      [v \in Versions |-> IF @[v] = None THEN remoteTag[v] ELSE @[v]]]
    /\ UNCHANGED <<made, tree, github, tool, faults>>

\* A commit in the clone.
LocalCommit(m) ==
    /\ At(m, "idle") \/ BusyClone
    /\ tree[m] = "clean"
    /\ Len(made) < MaxCommits
    /\ made' = Append(made, Child(head[m], FALSE))
    /\ head' = [head EXCEPT ![m] = Len(made) + 1]
    /\ UNCHANGED <<tree, localTag, github, tool, faults>>

\* Somebody else pushes to main.
OthersPush ==
    /\ Len(made) < MaxCommits
    /\ made' = Append(made, Child(main, FALSE))
    /\ main' = Len(made) + 1
    /\ ci' = Triggered(Len(made) + 1)
    /\ UNCHANGED <<clone, remoteTag, build, assets, passed, tool, faults>>

\* A maintainer has a failed run done again.
CIStarts(c) ==
    /\ ci[c] = "failed"
    /\ ci' = [ci EXCEPT ![c] = "pending"]
    /\ UNCHANGED <<made, clone, main, remoteTag, build, assets, passed, tool, faults>>

CIEnds(c) ==
    /\ ci[c] = "pending"
    /\ \/ ci' = [ci EXCEPT ![c] = "passed"] /\ passed' = passed \cup {c} /\ UNCHANGED faults
       \/ /\ faults < MaxFaults
          /\ faults' = faults + 1
          /\ ci' = [ci EXCEPT ![c] = "failed"]
          /\ UNCHANGED passed
    /\ UNCHANGED <<made, clone, main, remoteTag, build, assets, tool>>

BuildStarts(v) ==
    LET c == remoteTag[v] IN
    /\ c # None
    /\ build[c] = "failed"
    /\ build' = [build EXCEPT ![c] = "pending"]
    /\ UNCHANGED <<made, clone, main, remoteTag, ci, assets, passed, tool, faults>>

\* release.yml makes the release; it fails when the tag does not match .version.
BuildEnds(v) ==
    LET c == remoteTag[v] IN
    /\ c # None
    /\ build[c] = "pending"
    /\ \/ /\ made[c].ver = v
          /\ build' = [build EXCEPT ![c] = "passed"]
          /\ assets' = assets \cup {v}
          /\ UNCHANGED faults
       \/ /\ faults < MaxFaults
          /\ faults' = faults + 1
          /\ build' = [build EXCEPT ![c] = "failed"]
          /\ UNCHANGED assets
    /\ UNCHANGED <<made, clone, main, remoteTag, ci, passed, tool>>

----------------------------------------------------------------------------
Cut(m) == FirstChecks(m) \/ ApplyCut(m) \/ SecondChecks(m) \/ CommitRelease(m)

ReadState(m) == Fetch(m) \/ ReadRemoteTag(m) \/ ReadCI(m) \/ ReadBuild(m) \/ ReadAssets(m)

RunStep(m) ==
    PushMain(m) \/ WaitCI(m) \/ Tag(m) \/ PushTag(m) \/ WaitRelease(m) \/ ReportShipped(m)

\* What the tool does without a yes.
Ask(m) == BeginShip(m) \/ ReadState(m) \/ Decline(m) \/ RunStep(m)

\* ship, from its start to the last step.
Ship(m) == Ask(m) \/ Accept(m)

GitHub ==
    \/ \E c \in Commits : CIStarts(c) \/ CIEnds(c)
    \/ \E v \in Versions : BuildStarts(v) \/ BuildEnds(v)

Next ==
    \/ \E m \in Clones : BeginCut(m) \/ Cut(m) \/ Ship(m) \/ Crash(m)
    \/ \E m \in Clones : CleanUp(m) \/ Pull(m) \/ LocalCommit(m)
    \/ OthersPush \/ GitHub

Spec == Init /\ [][Next]_vars

\* The maintainers start ship again and in the end accept its plan; a failed
\* workflow is run again and a workflow ends.
Fairness ==
    /\ \A m \in Clones : WF_vars(Ask(m)) /\ SF_vars(Accept(m))
    /\ WF_vars(GitHub)

FairSpec == Spec /\ Fairness

----------------------------------------------------------------------------
Past(c) == made[c].past

CommitType == [ver : Versions \cup {0}, release : BOOLEAN, notes : BOOLEAN, past : SUBSET Commits]

\* The type invariant.  A commit's version counts the releases of its history
\* (Bump of cut.go:21 and CutChangelog's one section per version).
TypeOK ==
    /\ made \in Seq(CommitType) /\ Len(made) \in Commits
    /\ \A c \in DOMAIN made :
         /\ c \in Past(c) /\ Past(c) \subseteq 1..c
         /\ made[c].ver = Cardinality({a \in Past(c) : made[a].release})
    /\ head \in [Clones -> DOMAIN made]
    /\ tree \in [Clones -> {"clean", "cut"}]
    /\ localTag \in [Clones -> [Versions -> DOMAIN made \cup {None}]]
    /\ main \in DOMAIN made
    /\ remoteTag \in [Versions -> DOMAIN made \cup {None}]
    /\ ci \in [Commits -> Runs] /\ build \in [Commits -> Runs]
    /\ assets \subseteq Versions /\ passed \subseteq DOMAIN made
    /\ pc \in [Clones -> PCs]
    /\ st \in [Clones -> State]
    /\ plan \in [Clones -> Seq(Steps)]
    /\ shipped \in [Clones -> (Versions \cup {None}) \X (Commits \cup {None})]
    /\ faults \in 0..MaxFaults

\* A tag that is on GitHub names the release commit of its version, on main, and
\* CI has passed that commit, whoever else cuts, ships or pushes meanwhile
\* (CONTRIBUTING.md:95: pushes main, waits for CI, tags, pushes the tag).
TagIsTestedRelease ==
    \A v \in Versions :
        LET c == remoteTag[v] IN
        c # None => /\ made[c].release /\ made[c].ver = v
                    /\ c \in Past(main)
                    /\ c \in passed

\* What the tool reports as shipped is out: the version's tag names the commit it
\* shipped, the commit is on main and the release has its files (main.go:347, 366).
ShippedMeansOut ==
    \A m \in Clones :
        LET v == shipped[m][1]
            c == shipped[m][2]
        IN v # None => remoteTag[v] = c /\ c \in Past(main) /\ v \in assets

\* The release commit of v is on main and is checked out in a clone.
Shippable(v) ==
    \E m \in Clones : LET c == made[head[m]] IN
        c.release /\ c.ver = v /\ head[m] \in Past(main)

\* Ship resumes: a version whose release commit is on main gets its release in
\* the end, wherever earlier runs of the tool stopped, unless every maintainer
\* checks out a later commit first (plan.go:60, CONTRIBUTING.md:97).
ResumeShips == \A v \in Versions : Shippable(v) ~> (v \in assets \/ ~Shippable(v))
============================================================================
