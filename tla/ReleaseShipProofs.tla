------------------------- MODULE ReleaseShipProofs -------------------------
(***************************************************************************)
(* Proofs about ReleaseShip, for any number of clones, commits and         *)
(* failures: that a tag on GitHub names a tested release commit, and that  *)
(* what the tool reports as shipped is out.  The types hold in general;    *)
(* the rest holds if no maintainer commits in a clone where the tool is    *)
(* running (BusyClone = FALSE), for git push and git tag take HEAD as it   *)
(* is then, not the commit that readState has checked.                     *)
(***************************************************************************)
EXTENDS ReleaseShip, FiniteSetTheorems, SequenceTheorems, TLAPS

CutSteps == {"check", "apply", "recheck", "commit"}
ShipSteps == {"tag", "ci", "build", "assets", "plan", "step"}

----------------------------------------------------------------------------
\* The conjuncts of TypeOK, those about git and GitHub and those about the tool.
MadeOK ==
    /\ made \in Seq(CommitType) /\ Len(made) \in Commits
    /\ \A c \in DOMAIN made :
         /\ c \in Past(c) /\ Past(c) \subseteq 1..c
         /\ made[c].ver = Cardinality({a \in Past(c) : made[a].release})

GitOK ==
    /\ head \in [Clones -> DOMAIN made]
    /\ localTag \in [Clones -> [Versions -> DOMAIN made \cup {None}]]
    /\ main \in DOMAIN made
    /\ remoteTag \in [Versions -> DOMAIN made \cup {None}]
    /\ ci \in [Commits -> Runs] /\ build \in [Commits -> Runs]
    /\ assets \subseteq Versions /\ passed \subseteq DOMAIN made

ToolOK ==
    /\ tree \in [Clones -> {"clean", "cut"}]
    /\ pc \in [Clones -> PCs]
    /\ st \in [Clones -> State]
    /\ plan \in [Clones -> Seq(Steps)]
    /\ shipped \in [Clones -> (Versions \cup {None}) \X (Commits \cup {None})]
    /\ faults \in 0..MaxFaults

\* A history contains those of its commits.  A release follows a commit with
\* notes, so there are at most half as many releases as commits.
History ==
    \A c \in DOMAIN made :
        /\ \A a \in Past(c) : Past(a) \subseteq Past(c)
        /\ 2 * made[c].ver + (IF made[c].notes THEN 1 ELSE 0) <= c

\* Workflows run for commits that exist.
Started == \A c \in Commits : ci[c] # "missing" => c \in DOMAIN made

\* What the command that runs in clone m works on exists: notes to release, or a
\* release to ship.
Begun(m) ==
    /\ pc[m] \in CutSteps => made[head[m]].notes
    /\ st[m].head \in DOMAIN made
    /\ pc[m] \in ShipSteps => made[st[m].head].release

TInv == MadeOK /\ GitOK /\ ToolOK /\ History /\ Started /\ \A m \in Clones : Begun(m)

----------------------------------------------------------------------------
\* The rest of the invariant.

\* c is the tested release commit of v, and on main.
Tested(v, c) ==
    made[c].release /\ made[c].ver = v /\ c \in Past(main) /\ c \in passed

Tags ==
    /\ \A c \in Commits : ci[c] = "passed" => c \in passed
    /\ \A v \in Versions : remoteTag[v] # None => Tested(v, remoteTag[v])
    /\ \A m \in Clones, v \in Versions : localTag[m][v] # None => Tested(v, localTag[m][v])

\* What readState has read is still so, as far as PlanShip relies on it.
StillSo(m) ==
    LET s == st[m]
        v == TheVersion(m)
    IN
    /\ pc[m] \in ShipSteps =>
         /\ s.head = head[m]
         /\ s.onOrigin => s.head \in Past(main)
         /\ s.localTag # None => localTag[m][v] = s.localTag
    /\ pc[m] \in {"ci", "build", "assets", "plan"} /\ s.remoteTag # None =>
         remoteTag[v] = s.remoteTag
    /\ pc[m] \in {"build", "assets", "plan"} /\ s.ci = "passed" => s.head \in passed
    /\ pc[m] = "plan" /\ s.exists => v \in assets

Elements(p) == {p[k] : k \in DOMAIN p}

Rank(step) ==
    CASE step = "push-main" -> 1 [] step = "wait-ci" -> 2 [] step = "tag" -> 3
      [] step = "push-tag" -> 4 [] step = "wait-release" -> 5

InOrder(p) == \A i, j \in DOMAIN p : i < j => Rank(p[i]) < Rank(p[j])

\* A step that is not in the plan has been done, by this run or an earlier one.
Planned(m) ==
    LET h == st[m].head
        v == TheVersion(m)
    IN
    pc[m] = "step" =>
        /\ InOrder(plan[m])
        /\ "push-main" \notin Elements(plan[m]) => h \in Past(main)
        /\ "wait-ci" \notin Elements(plan[m]) => h \in passed
        /\ "tag" \notin Elements(plan[m]) => localTag[m][v] = h
        /\ "push-tag" \notin Elements(plan[m]) => remoteTag[v] = h
        /\ "wait-release" \notin Elements(plan[m]) => v \in assets

\* The inductive invariant.
IInv == TInv /\ Tags /\ ShippedMeansOut /\ \A m \in Clones : StillSo(m) /\ Planned(m)

----------------------------------------------------------------------------
LEMMA TypeParts == TypeOK <=> MadeOK /\ GitOK /\ ToolOK
BY DEF TypeOK, MadeOK, GitOK, ToolOK

\* A commit is a record, and its history a finite set of commits.
LEMMA CommitTypes ==
    ASSUME MadeOK, NEW c \in DOMAIN made
    PROVE  /\ c \in Commits /\ c \in Nat /\ c <= Len(made) /\ c <= MaxCommits
           /\ Len(made) \in Nat /\ DOMAIN made = 1..Len(made)
           /\ made[c].ver \in Nat /\ made[c].release \in BOOLEAN /\ made[c].notes \in BOOLEAN
           /\ c \in Past(c) /\ Past(c) \subseteq 1..c /\ Past(c) \subseteq DOMAIN made
           /\ made[c].ver = Cardinality({a \in Past(c) : made[a].release})
           /\ IsFiniteSet(Past(c))
<1>1. DOMAIN made = 1..Len(made) /\ Len(made) \in Nat /\ made \in [1..Len(made) -> CommitType]
  BY LenProperties DEF MadeOK
<1>2. Len(made) \in Commits /\ MaxCommits \in Nat
  BY ShipAssumption DEF MadeOK
<1>3. c \in Nat /\ c <= Len(made) /\ c <= MaxCommits /\ c \in Commits
  BY <1>1, <1>2 DEF Commits
<1>4. made[c] \in CommitType
  BY <1>1
<1>5. made[c].ver \in Versions \cup {0} /\ made[c].release \in BOOLEAN /\ made[c].notes \in BOOLEAN
  BY <1>4 DEF CommitType
<1>6. made[c].ver \in Nat
  BY <1>5 DEF Versions
<1>7. /\ c \in Past(c) /\ Past(c) \subseteq 1..c
      /\ made[c].ver = Cardinality({a \in Past(c) : made[a].release})
  BY DEF MadeOK
<1>8. Past(c) \subseteq DOMAIN made
  BY <1>1, <1>3, <1>7
<1>9. IsFiniteSet(1..c)
  BY <1>3, FS_Interval
<1>10. IsFiniteSet(Past(c))
  BY <1>7, <1>9, FS_Subset
<1> QED BY <1>1, <1>3, <1>5, <1>6, <1>7, <1>8, <1>10

\* A new commit on top of p, which has notes if the new one is a release.
LEMMA ChildIsSound ==
    ASSUME MadeOK, History, Len(made) < MaxCommits, NEW p \in DOMAIN made, NEW r \in BOOLEAN,
           r => made[p].notes, made' = Append(made, Child(p, r)),
           NEW new, new = Len(made) + 1
    PROVE  /\ MadeOK' /\ History'
           /\ DOMAIN made' = DOMAIN made \cup {new} /\ new \notin DOMAIN made
           /\ \A c \in DOMAIN made : made'[c] = made[c]
           /\ made'[new] = Child(p, r) /\ Past(p) \subseteq Past(new)'
<1> DEFINE n == Len(made)
<1>1. /\ n \in Nat /\ DOMAIN made = 1..n /\ n < MaxCommits /\ MaxCommits \in Nat /\ new = n + 1
      /\ p \in Nat /\ p <= n /\ IsFiniteSet(Past(p)) /\ p \in Past(p)
      /\ made[p].ver \in Nat /\ made[p].notes \in BOOLEAN /\ Past(p) \subseteq 1..p
      /\ Past(p) \subseteq DOMAIN made
      /\ made[p].ver = Cardinality({a \in Past(p) : made[a].release})
  BY CommitTypes, ShipAssumption
<1>2. /\ Child(p, r).ver = made[p].ver + (IF r THEN 1 ELSE 0)
      /\ Child(p, r).release = r /\ Child(p, r).notes = ~ r
      /\ Child(p, r).past = Past(p) \cup {new}
      /\ Child(p, r) = [ver |-> Child(p, r).ver, release |-> r, notes |-> ~ r,
                        past |-> Past(p) \cup {new}]
  BY DEF Child, Past
<1>3. 2 * made[p].ver + (IF made[p].notes THEN 1 ELSE 0) <= p
  BY DEF History
<1>4. /\ Child(p, r).ver \in Nat
      /\ 2 * Child(p, r).ver + (IF ~ r THEN 1 ELSE 0) <= new
  <2>1. CASE r
    BY <1>1, <1>2, <1>3, <2>1
  <2>2. CASE ~ r
    BY <1>1, <1>2, <1>3, <2>2
  <2> QED BY <2>1, <2>2
<1>5. Child(p, r).ver \in Versions \cup {0}
  <2>1. 2 * Child(p, r).ver <= MaxCommits
    BY <1>1, <1>4
  <2> QED BY <1>1, <1>4, <2>1 DEF Versions
<1>6. Child(p, r) \in CommitType
  <2>1. Past(p) \cup {new} \in SUBSET Commits
    BY <1>1 DEF Commits
  <2> QED BY <1>2, <1>5, <2>1 DEF CommitType
<1> HIDE DEF n
<1>7. /\ made' \in Seq(CommitType) /\ Len(made') = new
      /\ \A c \in 1..n : made'[c] = made[c]
      /\ made'[new] = Child(p, r)
  BY <1>1, <1>6, AppendProperties DEF MadeOK, n
<1>8. DOMAIN made' = 1..new
  BY <1>7, LenProperties
<1>9. /\ DOMAIN made' = DOMAIN made \cup {new} /\ new \notin DOMAIN made
      /\ \A c \in DOMAIN made : made'[c] = made[c] /\ c # new
  BY <1>1, <1>7, <1>8
<1>a. (\A c \in DOMAIN made : Past(c)' = Past(c)) /\ Past(new)' = Past(p) \cup {new}
  BY <1>2, <1>7, <1>9 DEF Past
<1>10. \A c \in DOMAIN made : c \in Past(c) /\ Past(c) \subseteq 1..c /\ Past(c) \subseteq DOMAIN made
  BY CommitTypes
<1>11. ASSUME NEW c \in DOMAIN made'
       PROVE  /\ c \in Past(c)' /\ Past(c)' \subseteq 1..c
              /\ made'[c].ver = Cardinality({a \in Past(c)' : made'[a].release})
  <2>1. CASE c \in DOMAIN made
    <3>1. {a \in Past(c)' : made'[a].release} = {a \in Past(c) : made[a].release}
      BY <1>9, <1>a, <1>10, <2>1
    <3>2. made[c].ver = Cardinality({a \in Past(c) : made[a].release})
      BY <2>1, CommitTypes
    <3> QED BY <1>9, <1>a, <1>10, <2>1, <3>1, <3>2
  <2>2. CASE c = new
    <3> DEFINE rel == {a \in Past(p) : made[a].release}
    <3>1. c \in Past(c)' /\ Past(c)' \subseteq 1..c
      BY <1>1, <1>a, <2>2
    <3>2. {a \in Past(c)' : made'[a].release} = rel \cup (IF r THEN {new} ELSE {})
      <4>1. \A a \in Past(p) : made'[a].release <=> made[a].release
        BY <1>9, <1>10
      <4>2. Past(c)' = Past(p) \cup {new} /\ (made'[new].release <=> r)
        BY <1>2, <1>7, <1>a, <2>2
      <4> QED BY <4>1, <4>2
    <3>3. rel \in SUBSET Past(p) /\ new \notin rel
      BY <1>9, <1>10
    <3>4. IsFiniteSet(rel) /\ made[p].ver = Cardinality(rel)
      BY <1>1, <3>3, FS_Subset
    <3>5. Cardinality(rel \cup {new}) = Cardinality(rel) + 1
      BY <3>3, <3>4, FS_AddElement
    <3>6. made'[new].ver = made[p].ver + (IF r THEN 1 ELSE 0)
      BY <1>2, <1>7
    <3>7. CASE r
      BY <2>2, <3>1, <3>2, <3>4, <3>5, <3>6, <3>7
    <3>8. CASE ~ r
      <4>1. {a \in Past(c)' : made'[a].release} = rel
        BY <3>2, <3>8
      <4>2. made'[new].ver = made[p].ver
        BY <1>1, <3>6, <3>8
      <4> QED BY <2>2, <3>1, <3>4, <4>1, <4>2
    <3> QED BY <3>7, <3>8
  <2> QED BY <1>9, <2>1, <2>2
<1>12. MadeOK'
  <2>1. Len(made') \in Commits
    BY <1>1, <1>7 DEF Commits
  <2> QED BY <1>7, <1>11, <2>1 DEF MadeOK, Past
<1>13. ASSUME NEW c \in DOMAIN made'
       PROVE  /\ \A a \in Past(c)' : Past(a)' \subseteq Past(c)'
              /\ 2 * made'[c].ver + (IF made'[c].notes THEN 1 ELSE 0) <= c
  <2>1. CASE c \in DOMAIN made
    BY <1>9, <1>a, <1>10, <2>1 DEF History
  <2>2. CASE c = new
    <3>1. \A a \in Past(p) : Past(a)' \subseteq Past(p)
      BY <1>9, <1>a, <1>10 DEF History
    <3> QED BY <1>2, <1>4, <1>7, <1>a, <2>2, <3>1
  <2> QED BY <1>9, <2>1, <2>2
<1>14. History'
  BY <1>13 DEF History, Past
<1> QED BY <1>7, <1>9, <1>a, <1>12, <1>14 DEF n

----------------------------------------------------------------------------
\* Git and GitHub forget nothing: no commit changes, main goes on, a tag stays.
Grows ==
    /\ DOMAIN made \subseteq DOMAIN made'
    /\ \A c \in DOMAIN made : made'[c] = made[c]
    /\ Past(main) \subseteq Past(main)'
    /\ passed \subseteq passed' /\ assets \subseteq assets'
    /\ \A v \in Versions : remoteTag[v] # None => remoteTag'[v] = remoteTag[v]
    /\ \A m \in Clones, v \in Versions : localTag[m][v] # None => localTag'[m][v] = localTag[m][v]

\* A step of clone m: the tools in the other clones are where they were.
Own(m) ==
    \A n \in Clones \ {m} :
        pc'[n] = pc[n] /\ st'[n] = st[n] /\ plan'[n] = plan[n] /\ head'[n] = head[n]

LEMMA GitKept ==
    ASSUME MadeOK, GitOK, History, Started, UNCHANGED <<made, head, localTag, github>>
    PROVE  MadeOK' /\ GitOK' /\ History' /\ Started' /\ Grows
<1>1. /\ UNCHANGED <<made, head, localTag, main, remoteTag, ci, build, assets, passed>>
  BY DEF github
<1>2. MadeOK' /\ History'
  BY <1>1 DEF MadeOK, History, Past
<1>3. GitOK' /\ Started'
  BY <1>1 DEF GitOK, Started
<1>4. Grows
  BY <1>1 DEF Grows, Past
<1> QED BY <1>2, <1>3, <1>4

\* What begun commands work on stays.
LEMMA StayBegun ==
    ASSUME TInv, Grows, NEW n \in Clones,
           pc'[n] = pc[n] /\ st'[n] = st[n] /\ plan'[n] = plan[n] /\ head'[n] = head[n]
    PROVE  Begun(n)'
<1>1. head[n] \in DOMAIN made /\ st[n].head \in DOMAIN made /\ Begun(n)
  BY DEF TInv, GitOK, Begun
<1> QED BY <1>1 DEF Grows, Begun

LEMMA TInvKept ==
    ASSUME TInv, MadeOK', GitOK', ToolOK', History', Started', Grows,
           NEW m \in Clones, Own(m), Begun(m)'
    PROVE  TInv'
<1>1. ASSUME NEW n \in Clones PROVE Begun(n)'
  BY StayBegun DEF Own
<1> QED BY <1>1 DEF TInv

LEMMA QuietKeeps ==
    ASSUME TInv, NEW m \in Clones, UNCHANGED <<made, head, localTag, github>>,
           ToolOK', Own(m), Begun(m)'
    PROVE  TInv'
BY GitKept, TInvKept DEF TInv

\* The ways a command moves on.
LEMMA GotoMoves ==
    ASSUME ToolOK, NEW m \in Clones, NEW where \in PCs, Goto(m, where)
    PROVE  /\ pc' \in [Clones -> PCs] /\ pc'[m] = where
           /\ UNCHANGED <<st, plan, shipped, faults>>
           /\ head' = head => Own(m)
BY DEF ToolOK, Goto, Own

LEMMA NoStateType == NoState \in State /\ NoState.head = 1
<1>1. 1 \in Commits
  BY ShipAssumption DEF Commits
<1> QED BY <1>1 DEF NoState, State, Runs

LEMMA EndMoves ==
    ASSUME ToolOK, NEW m \in Clones, End(m)
    PROVE  /\ pc' \in [Clones -> PCs] /\ st' \in [Clones -> State] /\ plan' \in [Clones -> Seq(Steps)]
           /\ pc'[m] = "idle" /\ st'[m].head = 1
           /\ head' = head => Own(m)
<1>1. "idle" \in PCs /\ <<>> \in Seq(Steps)
  BY DEF PCs
<1> QED BY <1>1, NoStateType DEF ToolOK, End, Own

LEMMA LeaveMoves ==
    ASSUME ToolOK, NEW m \in Clones, Abort(m) \/ Refuse(m)
    PROVE  End(m) /\ shipped' = shipped /\ faults' \in 0..MaxFaults
<1>1. CASE Abort(m)
  BY <1>1, ShipAssumption DEF ToolOK, Abort
<1>2. CASE Refuse(m)
  BY <1>2 DEF ToolOK, Refuse
<1> QED BY <1>1, <1>2

\* A command that ends leaves no claim about what it worked on.
LEMMA LeaveKeeps ==
    ASSUME TInv, NEW m \in Clones, Abort(m) \/ Refuse(m),
           UNCHANGED <<made, head, localTag, github>>, tree' \in [Clones -> {"clean", "cut"}]
    PROVE  TInv' /\ Own(m) /\ Grows /\ pc'[m] = "idle" /\ shipped' = shipped
<1>1. End(m) /\ shipped' = shipped /\ faults' \in 0..MaxFaults
  BY LeaveMoves DEF TInv
<1>2. /\ pc' \in [Clones -> PCs] /\ st' \in [Clones -> State] /\ plan' \in [Clones -> Seq(Steps)]
      /\ pc'[m] = "idle" /\ st'[m].head = 1 /\ Own(m)
  BY <1>1, EndMoves DEF TInv
<1>3. ToolOK'
  BY <1>1, <1>2 DEF TInv, ToolOK
<1>4. 1 \in DOMAIN made'
  BY LenProperties, ShipAssumption DEF TInv, MadeOK, Commits
<1>5. Begun(m)'
  BY <1>2, <1>4 DEF Begun, CutSteps, ShipSteps
<1> QED BY <1>1, <1>2, <1>3, <1>5, QuietKeeps, GitKept DEF TInv

----------------------------------------------------------------------------
\* The cut.
LEMMA BeginCutKeeps ==
    ASSUME TInv, NEW m \in Clones, BeginCut(m) \/ BeginShip(m)
    PROVE  TInv' /\ Own(m) /\ Grows /\ shipped' = shipped
           /\ UNCHANGED <<made, head, localTag, github>> /\ pc'[m] \in {"check", "fetch"}
<1>1. /\ UNCHANGED <<made, clone, github>>
      /\ (Goto(m, "check") /\ made[head[m]].notes) \/ Goto(m, "fetch")
  BY DEF BeginCut, BeginShip
<1>2. UNCHANGED <<made, head, tree, localTag, github>>
  BY <1>1 DEF clone
<1>3. PICK where \in {"check", "fetch"} :
        Goto(m, where) /\ (where = "check" => made[head[m]].notes)
  BY <1>1
<1>4. where \in PCs
  BY DEF PCs
<1>5. /\ pc' \in [Clones -> PCs] /\ pc'[m] = where
      /\ UNCHANGED <<st, plan, shipped, faults>> /\ Own(m)
  BY <1>2, <1>3, <1>4, GotoMoves DEF TInv
<1>6. ToolOK'
  BY <1>2, <1>5 DEF TInv, ToolOK
<1>7. Begun(m)'
  BY <1>2, <1>3, <1>5 DEF TInv, Begun, CutSteps, ShipSteps
<1> QED BY <1>2, <1>3, <1>5, <1>6, <1>7, QuietKeeps, GitKept DEF TInv

LEMMA CutKeeps ==
    ASSUME TInv, NEW m \in Clones, FirstChecks(m) \/ ApplyCut(m) \/ SecondChecks(m)
    PROVE  TInv' /\ Own(m) /\ Grows /\ shipped' = shipped
           /\ UNCHANGED <<made, head, localTag, github>> /\ pc'[m] \in {"idle", "apply", "recheck", "commit"}
<1>1. tree \in [Clones -> {"clean", "cut"}]
  BY DEF TInv, ToolOK
<1>2. /\ UNCHANGED <<made, head, localTag, github>>
      /\ tree' \in [Clones -> {"clean", "cut"}]
      /\ \/ Abort(m)
         \/ \E where \in {"apply", "recheck", "commit"} : Goto(m, where) /\ pc[m] \in CutSteps
  <2>1. CASE FirstChecks(m)
    BY <1>1, <2>1 DEF FirstChecks, At, clone, CutSteps
  <2>2. CASE ApplyCut(m)
    BY <1>1, <2>2 DEF ApplyCut, At, Restored, CutSteps
  <2>3. CASE SecondChecks(m)
    BY <1>1, <2>3 DEF SecondChecks, At, Restored, CutSteps
  <2> QED BY <2>1, <2>2, <2>3
<1>3. CASE Abort(m)
  BY <1>2, <1>3, LeaveKeeps
<1>4. ASSUME NEW where \in {"apply", "recheck", "commit"}, Goto(m, where), pc[m] \in CutSteps
      PROVE  TInv' /\ Own(m) /\ Grows /\ shipped' = shipped /\ pc'[m] = where
  <2>1. where \in PCs
    BY DEF PCs
  <2>2. /\ pc' \in [Clones -> PCs] /\ pc'[m] = where
        /\ UNCHANGED <<st, plan, shipped, faults>> /\ Own(m)
    BY <1>2, <1>4, <2>1, GotoMoves DEF TInv
  <2>3. ToolOK'
    BY <1>2, <2>2 DEF TInv, ToolOK
  <2>4. Begun(m)'
    BY <1>2, <1>4, <2>2 DEF TInv, Begun, CutSteps, ShipSteps
  <2> QED BY <1>2, <2>2, <2>3, <2>4, QuietKeeps, GitKept DEF TInv
<1> QED BY <1>2, <1>3, <1>4

\* A new commit in clone m or on main.
LEMMA NewCommit ==
    ASSUME TInv, Len(made) < MaxCommits, NEW p \in DOMAIN made, NEW r \in BOOLEAN,
           r => made[p].notes, made' = Append(made, Child(p, r)),
           NEW new, new = Len(made) + 1
    PROVE  /\ MadeOK' /\ History' /\ new \in DOMAIN made' /\ new \in Commits
           /\ DOMAIN made \subseteq DOMAIN made' /\ new \notin DOMAIN made
           /\ \A c \in DOMAIN made : made'[c] = made[c]
           /\ made'[new].notes = ~ r /\ Past(p) \subseteq made'[new].past
<1>1. /\ MadeOK' /\ History'
      /\ DOMAIN made' = DOMAIN made \cup {new} /\ new \notin DOMAIN made
      /\ \A c \in DOMAIN made : made'[c] = made[c]
      /\ made'[new] = Child(p, r) /\ Past(p) \subseteq made'[new].past
  BY ChildIsSound DEF TInv, Past
<1>2. Child(p, r).notes = ~ r
  BY DEF Child
<1>3. Len(made) \in Nat /\ new \in Commits
  BY LenProperties, ShipAssumption DEF TInv, MadeOK, Commits
<1> QED BY <1>1, <1>2, <1>3

LEMMA CommitReleaseKeeps ==
    ASSUME TInv, NEW m \in Clones, CommitRelease(m)
    PROVE  TInv' /\ Own(m) /\ Grows /\ shipped' = shipped /\ UNCHANGED <<localTag, github>>
           /\ pc'[m] \in {"idle", "fetch"}
<1>1. UNCHANGED <<localTag, github>> /\ pc[m] = "commit"
  BY DEF CommitRelease, At
<1>2. ASSUME Abort(m) \/ Refuse(m), UNCHANGED <<made, head>>, Restored(m) \/ tree' = tree
      PROVE  TInv' /\ Own(m) /\ Grows /\ shipped' = shipped /\ pc'[m] = "idle"
  <2>1. tree' \in [Clones -> {"clean", "cut"}]
    BY <1>2 DEF TInv, ToolOK, Restored
  <2> QED BY <1>1, <1>2, <2>1, LeaveKeeps
<1>3. ASSUME Len(made) < MaxCommits, made' = Append(made, Child(head[m], TRUE)),
             head' = [head EXCEPT ![m] = Len(made) + 1], tree' = [tree EXCEPT ![m] = "clean"],
             Goto(m, "fetch") \/ Refuse(m)
      PROVE  TInv' /\ Own(m) /\ Grows /\ shipped' = shipped /\ pc'[m] \in {"idle", "fetch"}
  <2>1. PICK new : new = Len(made) + 1
    OBVIOUS
  <2>2. head[m] \in DOMAIN made /\ made[head[m]].notes
    BY <1>1 DEF TInv, GitOK, Begun, CutSteps
  <2>3. /\ MadeOK' /\ History' /\ new \in DOMAIN made' /\ new \in Commits
        /\ DOMAIN made \subseteq DOMAIN made' /\ \A c \in DOMAIN made : made'[c] = made[c]
    BY <1>3, <2>1, <2>2, NewCommit
  <2>4. UNCHANGED <<main, remoteTag, ci, build, assets, passed, localTag>>
    BY <1>1 DEF github
  <2>5. head' \in [Clones -> DOMAIN made']
    BY <1>3, <2>1, <2>3 DEF TInv, GitOK
  <2>6. GitOK'
    BY <2>3, <2>4, <2>5 DEF TInv, GitOK
  <2>7. Started'
    BY <2>3, <2>4 DEF TInv, Started
  <2>8. Grows
    BY <2>3, <2>4 DEF Grows, Past, TInv, GitOK
  <2>9. /\ pc' \in [Clones -> PCs] /\ st' \in [Clones -> State] /\ plan' \in [Clones -> Seq(Steps)]
        /\ pc'[m] \in {"idle", "fetch"} /\ st'[m].head \in DOMAIN made'
        /\ shipped' = shipped /\ faults' \in 0..MaxFaults
        /\ \A n \in Clones \ {m} : pc'[n] = pc[n] /\ st'[n] = st[n] /\ plan'[n] = plan[n]
    <3>1. CASE Goto(m, "fetch")
      <4>1. "fetch" \in PCs
        BY DEF PCs
      <4>2. pc' \in [Clones -> PCs] /\ pc'[m] = "fetch" /\ UNCHANGED <<st, plan, shipped, faults>>
        BY <3>1, <4>1, GotoMoves DEF TInv
      <4>3. \A n \in Clones \ {m} : pc'[n] = pc[n]
        BY <3>1 DEF Goto, TInv, ToolOK
      <4> QED BY <2>3, <4>2, <4>3 DEF TInv, ToolOK, Begun
    <3>2. CASE Refuse(m)
      <4>1. End(m) /\ shipped' = shipped /\ faults' \in 0..MaxFaults
        BY <3>2, LeaveMoves DEF TInv
      <4>2. /\ pc' \in [Clones -> PCs] /\ st' \in [Clones -> State]
            /\ plan' \in [Clones -> Seq(Steps)] /\ pc'[m] = "idle" /\ st'[m].head = 1
        BY <4>1, EndMoves DEF TInv
      <4>3. 1 \in DOMAIN made
        BY LenProperties, ShipAssumption DEF TInv, MadeOK, Commits
      <4>4. \A n \in Clones \ {m} : pc'[n] = pc[n] /\ st'[n] = st[n] /\ plan'[n] = plan[n]
        BY <4>1 DEF End, TInv, ToolOK
      <4> QED BY <2>3, <4>1, <4>2, <4>3, <4>4
    <3> QED BY <1>3, <3>1, <3>2
  <2>10. Own(m)
    BY <1>3, <2>9 DEF Own, TInv, GitOK
  <2>11. tree' \in [Clones -> {"clean", "cut"}]
    BY <1>3 DEF TInv, ToolOK
  <2>12. ToolOK'
    BY <2>9, <2>11 DEF TInv, ToolOK
  <2>13. Begun(m)'
    BY <2>9 DEF Begun, CutSteps, ShipSteps
  <2> QED BY <2>3, <2>6, <2>7, <2>8, <2>9, <2>10, <2>12, <2>13, TInvKept
<1> QED BY <1>1, <1>2, <1>3 DEF CommitRelease

----------------------------------------------------------------------------
\* Reading the state and making the plan.

\* A release is the first of its version at least.
LEMMA ReleaseVersion ==
    ASSUME MadeOK, NEW c \in DOMAIN made, made[c].release
    PROVE  made[c].ver \in Versions
<1> DEFINE rel == {a \in Past(c) : made[a].release}
<1>1. made[c].ver = Cardinality(rel) /\ c \in rel /\ IsFiniteSet(Past(c)) /\ rel \in SUBSET Past(c)
  BY CommitTypes
<1>2. IsFiniteSet(rel) /\ rel # {}
  BY <1>1, FS_Subset
<1>3. made[c].ver # 0
  BY <1>1, <1>2, FS_EmptySet
<1>4. made[c] \in CommitType
  BY LenProperties DEF MadeOK
<1> QED BY <1>3, <1>4 DEF CommitType

LEMMA ShipFacts ==
    ASSUME TInv, NEW m \in Clones
    PROVE  /\ st[m] \in State /\ st[m].head \in DOMAIN made /\ head[m] \in DOMAIN made
           /\ pc[m] \in ShipSteps => made[st[m].head].release /\ TheVersion(m) \in Versions
<1>1. st[m] \in State /\ st[m].head \in DOMAIN made /\ head[m] \in DOMAIN made
  BY DEF TInv, ToolOK, GitOK, Begun
<1>2. pc[m] \in ShipSteps => made[st[m].head].release
  BY DEF TInv, Begun
<1> QED BY <1>1, <1>2, ReleaseVersion DEF TheVersion, TInv

\* readState goes on with one more field of State.
LEMMA ReadMoves ==
    ASSUME TInv, NEW m \in Clones, NEW s \in State, NEW next \in {"tag", "ci", "build", "assets", "plan"},
           s.head \in DOMAIN made, made[s.head].release,
           st' = [st EXCEPT ![m] = s], pc' = [pc EXCEPT ![m] = next],
           UNCHANGED <<plan, shipped, faults>>, UNCHANGED <<made, clone, github>>
    PROVE  TInv' /\ Own(m) /\ Grows /\ UNCHANGED <<made, head, localTag, github>>
<1>1. UNCHANGED <<made, head, tree, localTag, github>>
  BY DEF clone
<1>2. next \in PCs
  BY DEF PCs
<1>3. ToolOK' /\ Own(m)
  BY <1>1, <1>2 DEF TInv, ToolOK, Own
<1>4. pc'[m] = next /\ st'[m] = s
  BY DEF TInv, ToolOK
<1>5. Begun(m)'
  BY <1>1, <1>4 DEF Begun, CutSteps, ShipSteps
<1> QED BY <1>1, <1>3, <1>5, QuietKeeps, GitKept DEF TInv

\* What Fetch puts into State.
Fetched(m) ==
    [NoState EXCEPT !.head = head[m], !.onOrigin = IsAncestor(head[m], main),
                    !.behind = IsAncestor(main, head[m]), !.localTag = localTag[m][Version(m)]]

LEMMA FetchedType ==
    ASSUME TInv, NEW m \in Clones, made[head[m]].release
    PROVE  /\ Fetched(m) \in State /\ Version(m) \in Versions
           /\ Fetched(m).head = head[m]
           /\ Fetched(m).onOrigin = IsAncestor(head[m], main)
           /\ Fetched(m).localTag = localTag[m][Version(m)]
<1>1. head[m] \in DOMAIN made /\ head[m] \in Commits /\ Version(m) \in Versions
  BY CommitTypes, ReleaseVersion DEF TInv, GitOK, Version
<1>2. localTag[m][Version(m)] \in DOMAIN made \cup {None}
  BY <1>1 DEF TInv, GitOK
<1>3. localTag[m][Version(m)] \in Commits \cup {None}
  BY <1>2, CommitTypes DEF TInv
<1>4. IsAncestor(head[m], main) \in BOOLEAN /\ IsAncestor(main, head[m]) \in BOOLEAN
  BY DEF IsAncestor
<1> QED BY <1>1, <1>3, <1>4, NoStateType DEF Fetched, NoState, State

LEMMA FetchKeeps ==
    ASSUME TInv, NEW m \in Clones, Fetch(m)
    PROVE  TInv' /\ Own(m) /\ Grows /\ shipped' = shipped
           /\ UNCHANGED <<made, head, localTag, github>>
<1>1. UNCHANGED <<made, head, tree, localTag, github>> /\ tree \in [Clones -> {"clean", "cut"}]
  BY DEF Fetch, TInv, ToolOK
<1>2. CASE Abort(m) \/ Refuse(m)
  BY <1>1, <1>2, LeaveKeeps
<1>3. ASSUME made[head[m]].release, st' = [st EXCEPT ![m] = Fetched(m)],
             pc' = [pc EXCEPT ![m] = "tag"], UNCHANGED <<plan, shipped, faults>>
      PROVE  TInv' /\ Own(m) /\ Grows /\ shipped' = shipped
  <2>1. head[m] \in DOMAIN made
    BY DEF TInv, GitOK
  <2>2. UNCHANGED <<made, clone, github>>
    BY <1>1 DEF clone
  <2> QED BY <1>1, <1>3, <2>1, <2>2, FetchedType, ReadMoves
<1> QED BY <1>1, <1>2, <1>3 DEF Fetch, Fetched

\* What the other queries put into State.
LEMMA ReadKeeps ==
    ASSUME TInv, NEW m \in Clones,
           ReadRemoteTag(m) \/ ReadCI(m) \/ ReadBuild(m) \/ ReadAssets(m)
    PROVE  TInv' /\ Own(m) /\ Grows /\ shipped' = shipped
           /\ UNCHANGED <<made, head, localTag, github>>
<1>1. UNCHANGED <<made, clone, github>>
  BY DEF ReadRemoteTag, ReadCI, ReadBuild, ReadAssets, Read
<1>2. UNCHANGED <<made, head, tree, localTag, github>> /\ tree \in [Clones -> {"clean", "cut"}]
  BY <1>1 DEF clone, TInv, ToolOK
<1>3. CASE Abort(m)
  BY <1>2, <1>3, LeaveKeeps
<1>4. ASSUME NEW s \in State, NEW from, NEW next, pc[m] = from,
             <<from, next>> \in {<<"tag", "ci">>, <<"ci", "build">>, <<"build", "assets">>,
                                <<"assets", "plan">>},
             s.head = st[m].head,
             st' = [st EXCEPT ![m] = s], pc' = [pc EXCEPT ![m] = next],
             UNCHANGED <<plan, shipped, faults>>
      PROVE  TInv' /\ Own(m) /\ Grows /\ shipped' = shipped
             /\ UNCHANGED <<made, head, localTag, github>>
  <2>1. from \in ShipSteps /\ next \in {"tag", "ci", "build", "assets", "plan"}
    BY <1>4 DEF ShipSteps
  <2>2. s.head \in DOMAIN made /\ made[s.head].release
    BY <1>4, <2>1, ShipFacts
  <2> QED BY <1>1, <1>4, <2>1, <2>2, ReadMoves
<1>5. /\ st[m] \in State /\ st[m].head \in Commits
      /\ pc[m] \in ShipSteps => TheVersion(m) \in Versions
  BY ShipFacts, CommitTypes DEF TInv
<1>6. CASE ReadRemoteTag(m) /\ ~ Abort(m)
  <2> DEFINE s == [st[m] EXCEPT !.remoteTag = remoteTag[TheVersion(m)]]
  <2>1. pc[m] = "tag" /\ pc' = [pc EXCEPT ![m] = "ci"] /\ st' = [st EXCEPT ![m] = s]
        /\ UNCHANGED <<plan, shipped, faults>>
    BY <1>6 DEF ReadRemoteTag, Read, At
  <2>2. remoteTag[TheVersion(m)] \in Commits \cup {None}
    BY <1>5, <2>1, CommitTypes DEF TInv, GitOK, ShipSteps
  <2>3. s \in State /\ s.head = st[m].head
    BY <1>5, <2>2 DEF State
  <2> HIDE DEF s
  <2> QED BY <1>4, <2>1, <2>3
<1>7. CASE ReadCI(m) /\ ~ Abort(m)
  <2> DEFINE s == [st[m] EXCEPT !.ci = ci[st[m].head]]
  <2>1. pc[m] = "ci" /\ pc' = [pc EXCEPT ![m] = "build"] /\ st' = [st EXCEPT ![m] = s]
        /\ UNCHANGED <<plan, shipped, faults>>
    BY <1>7 DEF ReadCI, Read, At
  <2>2. ci[st[m].head] \in Runs
    BY <1>5 DEF TInv, GitOK
  <2>3. s \in State /\ s.head = st[m].head
    BY <1>5, <2>2 DEF State
  <2> HIDE DEF s
  <2> QED BY <1>4, <2>1, <2>3
<1>8. CASE ReadBuild(m) /\ ~ Abort(m)
  <2> DEFINE s == [st[m] EXCEPT !.build = build[st[m].head]]
  <2>1. pc[m] = "build" /\ pc' = [pc EXCEPT ![m] = "assets"] /\ st' = [st EXCEPT ![m] = s]
        /\ UNCHANGED <<plan, shipped, faults>>
    BY <1>8 DEF ReadBuild, Read, At
  <2>2. build[st[m].head] \in Runs
    BY <1>5 DEF TInv, GitOK
  <2>3. s \in State /\ s.head = st[m].head
    BY <1>5, <2>2 DEF State
  <2> HIDE DEF s
  <2> QED BY <1>4, <2>1, <2>3
<1>9. CASE ReadAssets(m) /\ ~ Abort(m)
  <2>1. PICK b \in {TheVersion(m) \in assets, FALSE} :
           /\ pc[m] = "assets" /\ pc' = [pc EXCEPT ![m] = "plan"]
           /\ st' = [st EXCEPT ![m] = [st[m] EXCEPT !.exists = b]]
           /\ UNCHANGED <<plan, shipped, faults>>
    BY <1>9 DEF ReadAssets, Read, At
  <2> DEFINE s == [st[m] EXCEPT !.exists = b]
  <2>2. s \in State /\ s.head = st[m].head
    <3>1. (TheVersion(m) \in assets) \in BOOLEAN
      OBVIOUS
    <3>2. b \in BOOLEAN
      BY <3>1
    <3> QED BY <1>5, <3>2 DEF State
  <2> HIDE DEF s
  <2>3. st' = [st EXCEPT ![m] = s]
    BY <2>1 DEF s
  <2> QED BY <1>4, <2>1, <2>2, <2>3
<1> QED BY <1>2, <1>3, <1>6, <1>7, <1>8, <1>9
LEMMA PlanType ==
    ASSUME NEW s
    PROVE  PlanShip(s) \in Seq(Steps)
<1>1. \A step \in Steps : <<step>> \in Seq(Steps) /\ <<>> \in Seq(Steps)
  OBVIOUS
<1>2. /\ "push-main" \in Steps /\ "wait-ci" \in Steps /\ "tag" \in Steps
      /\ "push-tag" \in Steps /\ "wait-release" \in Steps
  BY DEF Steps
<1>3. If("push-main", ~s.onOrigin) \in Seq(Steps)
  BY <1>1, <1>2 DEF If
<1>4. If("wait-ci", s.ci # "passed" /\ s.remoteTag = None) \in Seq(Steps)
  BY <1>1, <1>2 DEF If
<1>5. If("tag", s.localTag = None) \in Seq(Steps)
  BY <1>1, <1>2 DEF If
<1>6. If("push-tag", s.remoteTag = None) \in Seq(Steps)
  BY <1>1, <1>2 DEF If
<1>7. If("wait-release", ~s.exists) \in Seq(Steps)
  BY <1>1, <1>2 DEF If
<1> QED BY <1>3, <1>4, <1>5, <1>6, <1>7, ConcatProperties DEF PlanShip

LEMMA PlanKeeps ==
    ASSUME TInv, NEW m \in Clones, Decline(m) \/ Accept(m)
    PROVE  TInv' /\ Own(m) /\ Grows /\ shipped' = shipped
           /\ UNCHANGED <<made, head, localTag, github>>
<1>1. UNCHANGED <<made, head, tree, localTag, github>> /\ tree \in [Clones -> {"clean", "cut"}]
  BY DEF Decline, Accept, clone, TInv, ToolOK
<1>2. CASE Decline(m)
  BY <1>1, <1>2, LeaveKeeps DEF Decline
<1>3. CASE Accept(m)
  <2>1. /\ pc[m] = "plan" /\ plan' = [plan EXCEPT ![m] = PlanShip(st[m])]
        /\ pc' = [pc EXCEPT ![m] = "step"] /\ UNCHANGED <<st, shipped, faults>>
    BY <1>3 DEF Accept, At
  <2>2. "step" \in PCs /\ PlanShip(st[m]) \in Seq(Steps)
    BY PlanType DEF PCs
  <2>3. ToolOK' /\ Own(m) /\ pc'[m] = "step"
    BY <1>1, <2>1, <2>2 DEF TInv, ToolOK, Own
  <2>4. Begun(m)'
    BY <1>1, <2>1, <2>3 DEF TInv, Begun, CutSteps, ShipSteps
  <2> QED BY <1>1, <2>1, <2>3, <2>4, QuietKeeps, GitKept DEF TInv
<1> QED BY <1>2, <1>3

----------------------------------------------------------------------------
\* The steps of the plan.
LEMMA DoneMoves ==
    ASSUME ToolOK, NEW m \in Clones, plan[m] # <<>>, Done(m), tree' = tree, head' = head
    PROVE  /\ ToolOK' /\ Own(m) /\ plan' \in [Clones -> Seq(Steps)]
           /\ plan'[m] = Tail(plan[m]) /\ UNCHANGED <<pc, st, shipped, faults>>
<1>1. plan[m] \in Seq(Steps) /\ Tail(plan[m]) \in Seq(Steps)
  BY HeadTailProperties DEF ToolOK
<1> QED BY <1>1 DEF ToolOK, Done, Own

\* A step that is done, where `made` and the clones stay.
LEMMA DoneKeeps ==
    ASSUME TInv, NEW m \in Clones, plan[m] # <<>>, Done(m), UNCHANGED <<made, head, tree>>,
           GitOK', Started', Grows
    PROVE  TInv' /\ Own(m) /\ Grows /\ shipped' = shipped
<1>1. ToolOK' /\ Own(m) /\ UNCHANGED <<pc, st, shipped>>
  BY DoneMoves DEF TInv
<1>2. MadeOK' /\ History'
  BY DEF TInv, MadeOK, History, Past
<1>3. Begun(m)'
  BY <1>1 DEF TInv, Begun
<1> QED BY <1>1, <1>2, <1>3, TInvKept

LEMMA WaitKeeps ==
    ASSUME TInv, NEW m \in Clones, WaitCI(m) \/ WaitRelease(m)
    PROVE  TInv' /\ Own(m) /\ Grows /\ shipped' = shipped
           /\ UNCHANGED <<made, head, localTag, github>>
<1>1. UNCHANGED <<made, head, tree, localTag, github>> /\ tree \in [Clones -> {"clean", "cut"}]
  BY DEF WaitCI, WaitRelease, clone, TInv, ToolOK
<1>2. plan[m] # <<>>
  BY DEF WaitCI, WaitRelease, Doing
<1>3. CASE Done(m)
  BY <1>1, <1>2, <1>3, GitKept, DoneKeeps DEF TInv
<1> QED BY <1>1, <1>3, LeaveKeeps DEF WaitCI, WaitRelease

LEMMA PushMainKeeps ==
    ASSUME TInv, NEW m \in Clones, PushMain(m)
    PROVE  /\ TInv' /\ Own(m) /\ Grows /\ shipped' = shipped
           /\ UNCHANGED <<made, head, localTag, remoteTag, build, assets, passed>>
<1>1. /\ UNCHANGED <<made, head, tree, localTag, remoteTag, build, assets, passed>>
      /\ tree \in [Clones -> {"clean", "cut"}] /\ plan[m] # <<>>
  BY DEF PushMain, Doing, TInv, ToolOK
<1>2. CASE (Abort(m) \/ Refuse(m)) /\ UNCHANGED <<main, ci>>
  <2>1. UNCHANGED github
    BY <1>1, <1>2 DEF github
  <2> QED BY <1>1, <1>2, <2>1, LeaveKeeps
<1>3. CASE IsAncestor(main, head[m]) /\ main' = head[m] /\ ci' = Triggered(head[m]) /\ Done(m)
  <2>1. head[m] \in DOMAIN made /\ main \in DOMAIN made /\ ci \in [Commits -> Runs]
    BY DEF TInv, GitOK
  <2>2. main \in Past(head[m]) /\ Past(main) \subseteq Past(head[m])
    BY <1>3, <2>1 DEF IsAncestor, Past, TInv, History
  <2>3. Past(main)' = Past(head[m])
    BY <1>1, <1>3 DEF Past
  <2>4. Grows
    BY <1>1, <2>2, <2>3 DEF Grows
  <2>5. ci' \in [Commits -> Runs] /\ \A c \in Commits \ {head[m]} : ci'[c] = ci[c]
    BY <1>3, <2>1 DEF Triggered, Runs
  <2>6. GitOK'
    BY <1>1, <1>3, <2>1, <2>5 DEF TInv, GitOK
  <2>7. Started'
    BY <1>1, <2>1, <2>5 DEF TInv, Started
  <2> QED BY <1>1, <1>3, <2>4, <2>6, <2>7, DoneKeeps
<1> QED BY <1>1, <1>2, <1>3 DEF PushMain

LEMMA TagKeeps ==
    ASSUME TInv, NEW m \in Clones, Tag(m)
    PROVE  TInv' /\ Own(m) /\ Grows /\ shipped' = shipped /\ UNCHANGED <<made, head, github>>
<1>1. /\ UNCHANGED <<made, head, tree, github>> /\ pc[m] = "step"
      /\ tree \in [Clones -> {"clean", "cut"}] /\ plan[m] # <<>>
  BY DEF Tag, Doing, At, TInv, ToolOK
<1>2. TheVersion(m) \in Versions /\ head[m] \in DOMAIN made
  BY <1>1, ShipFacts DEF ShipSteps
<1>3. CASE (Abort(m) \/ Refuse(m)) /\ UNCHANGED localTag
  BY <1>1, <1>3, LeaveKeeps
<1>4. ASSUME NEW v \in Versions, localTag[m][v] = None,
             localTag' = [localTag EXCEPT ![m][v] = head[m]], Done(m)
      PROVE  TInv' /\ Own(m) /\ Grows /\ shipped' = shipped
  <2>1. UNCHANGED <<main, remoteTag, ci, build, assets, passed>>
    BY <1>1 DEF github
  <2>2. localTag \in [Clones -> [Versions -> DOMAIN made \cup {None}]]
    BY DEF TInv, GitOK
  <2>3. /\ localTag' \in [Clones -> [Versions -> DOMAIN made \cup {None}]]
        /\ \A n \in Clones, w \in Versions : localTag[n][w] # None => localTag'[n][w] = localTag[n][w]
    BY <1>2, <1>4, <2>2
  <2>4. GitOK' /\ Started'
    BY <1>1, <2>1, <2>3 DEF TInv, GitOK, Started
  <2>5. Grows
    BY <1>1, <2>1, <2>3 DEF Grows, Past
  <2> QED BY <1>1, <1>4, <2>4, <2>5, DoneKeeps
<1> QED BY <1>1, <1>2, <1>3, <1>4 DEF Tag

LEMMA PushTagKeeps ==
    ASSUME TInv, NEW m \in Clones, PushTag(m)
    PROVE  /\ TInv' /\ Own(m) /\ Grows /\ shipped' = shipped
           /\ UNCHANGED <<made, head, localTag, main, ci, assets, passed>>
<1>1. /\ UNCHANGED <<made, head, tree, localTag, main, ci, assets, passed>> /\ pc[m] = "step"
      /\ tree \in [Clones -> {"clean", "cut"}] /\ plan[m] # <<>>
  BY DEF PushTag, Doing, At, clone, TInv, ToolOK
<1>2. TheVersion(m) \in Versions
  BY <1>1, ShipFacts DEF ShipSteps
<1>3. CASE (Abort(m) \/ Refuse(m)) /\ UNCHANGED <<remoteTag, build>>
  <2>1. UNCHANGED github
    BY <1>1, <1>3 DEF github
  <2> QED BY <1>1, <1>3, <2>1, LeaveKeeps
<1>4. ASSUME NEW v \in Versions, remoteTag[v] = None,
             remoteTag' = [remoteTag EXCEPT ![v] = localTag[m][v]],
             build' = [build EXCEPT ![localTag[m][v]] = "pending"], Done(m)
      PROVE  TInv' /\ Own(m) /\ Grows /\ shipped' = shipped
  <2>1. localTag[m][v] \in DOMAIN made \cup {None}
    BY DEF TInv, GitOK
  <2>2. /\ remoteTag' \in [Versions -> DOMAIN made \cup {None}]
        /\ \A w \in Versions : remoteTag[w] # None => remoteTag'[w] = remoteTag[w]
    BY <1>4, <2>1 DEF TInv, GitOK
  <2>3. build' \in [Commits -> Runs]
    BY <1>4 DEF TInv, GitOK, Runs
  <2>4. GitOK' /\ Started'
    BY <1>1, <2>2, <2>3 DEF TInv, GitOK, Started
  <2>5. Grows
    BY <1>1, <2>2 DEF Grows, Past
  <2> QED BY <1>1, <1>4, <2>4, <2>5, DoneKeeps
<1> QED BY <1>1, <1>2, <1>3, <1>4 DEF PushTag

LEMMA ReportKeeps ==
    ASSUME TInv, NEW m \in Clones, ReportShipped(m)
    PROVE  TInv' /\ Own(m) /\ Grows /\ UNCHANGED <<made, head, localTag, github>>
           /\ pc'[m] = "idle"
<1>1. /\ UNCHANGED <<made, head, tree, localTag, github, faults>> /\ pc[m] = "step" /\ End(m)
      /\ shipped' = [shipped EXCEPT ![m] = <<TheVersion(m), st[m].head>>]
  BY DEF ReportShipped, At, clone
<1>2. TheVersion(m) \in Versions /\ st[m].head \in Commits
  BY <1>1, ShipFacts, CommitTypes DEF ShipSteps, TInv
<1>3. shipped' \in [Clones -> (Versions \cup {None}) \X (Commits \cup {None})]
  BY <1>1, <1>2 DEF TInv, ToolOK
<1>4. /\ pc' \in [Clones -> PCs] /\ st' \in [Clones -> State] /\ plan' \in [Clones -> Seq(Steps)]
      /\ pc'[m] = "idle" /\ st'[m].head = 1 /\ Own(m)
  BY <1>1, EndMoves DEF TInv
<1>5. ToolOK'
  BY <1>1, <1>3, <1>4 DEF TInv, ToolOK
<1>6. 1 \in DOMAIN made'
  BY <1>1, LenProperties, ShipAssumption DEF TInv, MadeOK, Commits
<1>7. Begun(m)'
  BY <1>4, <1>6 DEF Begun, CutSteps, ShipSteps
<1> QED BY <1>1, <1>4, <1>5, <1>7, QuietKeeps, GitKept DEF TInv

LEMMA CrashKeeps ==
    ASSUME TInv, NEW m \in Clones, Crash(m)
    PROVE  TInv' /\ Own(m) /\ Grows /\ UNCHANGED <<made, head, localTag, github>>
           /\ shipped' = shipped /\ pc'[m] = "idle"
<1>1. /\ UNCHANGED <<made, head, localTag, github>> /\ Abort(m)
      /\ tree' \in {tree, [tree EXCEPT ![m] = IF At(m, "apply") THEN "cut" ELSE @]}
  BY DEF Crash
<1>2. tree' \in [Clones -> {"clean", "cut"}]
  BY <1>1 DEF TInv, ToolOK
<1> QED BY <1>1, <1>2, LeaveKeeps
----------------------------------------------------------------------------
\* The maintainers and GitHub.
LEMMA CleanUpKeeps ==
    ASSUME TInv, NEW m \in Clones, CleanUp(m)
    PROVE  TInv' /\ Own(m) /\ Grows /\ UNCHANGED <<made, head, localTag, github, tool>>
<1>1. /\ UNCHANGED <<made, head, localTag, github, pc, st, plan, shipped, faults, tool>>
      /\ tree' = [tree EXCEPT ![m] = "clean"]
  BY DEF CleanUp, tool
<1>2. ToolOK' /\ Own(m) /\ Begun(m)'
  BY <1>1 DEF TInv, ToolOK, Own, Begun
<1> QED BY <1>1, <1>2, QuietKeeps, GitKept DEF TInv

LEMMA PullKeeps ==
    ASSUME TInv, NEW m \in Clones, Pull(m)
    PROVE  TInv' /\ Own(m) /\ Grows /\ UNCHANGED <<made, github, tool>> /\ pc[m] = "idle"
<1>1. /\ UNCHANGED <<made, tree, github, tool, faults>> /\ pc[m] = "idle"
      /\ head' = [head EXCEPT ![m] = main]
      /\ localTag' = [localTag EXCEPT ![m] =
                        [v \in Versions |-> IF @[v] = None THEN remoteTag[v] ELSE @[v]]]
  BY DEF Pull, At
<1>2. UNCHANGED <<main, remoteTag, ci, build, assets, passed, pc, st, plan, shipped, tree, faults>>
  BY <1>1 DEF github, tool
<1>3. MadeOK' /\ History' /\ ToolOK' /\ Started'
  <2>1. MadeOK' /\ History'
    BY <1>1 DEF TInv, MadeOK, History, Past
  <2>2. ToolOK' /\ Started'
    BY <1>1, <1>2 DEF TInv, ToolOK, Started
  <2> QED BY <2>1, <2>2
<1>4. head' \in [Clones -> DOMAIN made] /\ Own(m)
  BY <1>1, <1>2 DEF TInv, GitOK, Own
<1>5. \A v \in Versions : remoteTag[v] \in DOMAIN made \cup {None}
  BY DEF TInv, GitOK
<1>6. localTag \in [Clones -> [Versions -> DOMAIN made \cup {None}]]
  BY DEF TInv, GitOK
<1>7. /\ localTag' \in [Clones -> [Versions -> DOMAIN made \cup {None}]]
      /\ \A n \in Clones, v \in Versions : localTag[n][v] # None => localTag'[n][v] = localTag[n][v]
  BY <1>1, <1>5, <1>6
<1>8. GitOK'
  BY <1>1, <1>2, <1>4, <1>7 DEF TInv, GitOK
<1>9. Grows
  BY <1>1, <1>2, <1>7 DEF Grows, Past
<1>10. Begun(m)'
  BY <1>1, <1>2 DEF TInv, Begun, CutSteps, ShipSteps
<1> QED BY <1>1, <1>3, <1>4, <1>8, <1>9, <1>10, TInvKept

LEMMA LocalCommitKeeps ==
    ASSUME TInv, NEW m \in Clones, LocalCommit(m)
    PROVE  TInv' /\ Own(m) /\ Grows /\ UNCHANGED <<localTag, github, tool>>
<1>1. /\ UNCHANGED <<tree, localTag, github, tool, faults>> /\ Len(made) < MaxCommits
      /\ made' = Append(made, Child(head[m], FALSE))
      /\ head' = [head EXCEPT ![m] = Len(made) + 1]
  BY DEF LocalCommit
<1>2. UNCHANGED <<main, remoteTag, ci, build, assets, passed, pc, st, plan, shipped, tree, faults>>
  BY <1>1 DEF github, tool
<1>3. PICK new : new = Len(made) + 1
  OBVIOUS
<1>4. head[m] \in DOMAIN made
  BY DEF TInv, GitOK
<1>5. /\ MadeOK' /\ History' /\ new \in DOMAIN made'
      /\ DOMAIN made \subseteq DOMAIN made' /\ \A c \in DOMAIN made : made'[c] = made[c]
      /\ made'[new].notes
  BY <1>1, <1>3, <1>4, NewCommit
<1>6. head' \in [Clones -> DOMAIN made'] /\ Own(m) /\ head'[m] = new
  BY <1>1, <1>2, <1>3, <1>5 DEF TInv, GitOK, Own
<1>7. GitOK' /\ Started' /\ ToolOK'
  BY <1>1, <1>2, <1>5, <1>6 DEF TInv, GitOK, Started, ToolOK
<1>8. Grows
  BY <1>1, <1>2, <1>5 DEF Grows, Past, TInv, GitOK
<1>9. Begun(m)'
  BY <1>2, <1>5, <1>6 DEF TInv, Begun
<1> QED BY <1>1, <1>5, <1>6, <1>7, <1>8, <1>9, TInvKept

\* A step of GitHub or of other people, with the tools and the clones as they were.
LEMMA OutsideKeeps ==
    ASSUME TInv, UNCHANGED <<clone, tool>>, MadeOK', History', GitOK', Started', Grows,
           faults' \in 0..MaxFaults
    PROVE  TInv'
<1>1. UNCHANGED <<head, tree, pc, st, plan, shipped>>
  BY DEF clone, tool
<1>2. ToolOK'
  BY <1>1 DEF TInv, ToolOK
<1>3. ASSUME NEW n \in Clones PROVE Begun(n)'
  BY <1>1, StayBegun
<1> QED BY <1>2, <1>3 DEF TInv

LEMMA OthersPushKeeps ==
    ASSUME TInv, OthersPush
    PROVE  TInv' /\ Grows /\ UNCHANGED <<clone, tool, remoteTag, passed, assets>>
           /\ \A c \in Commits : ci'[c] = "passed" => ci[c] = "passed"
<1>1. /\ UNCHANGED <<clone, remoteTag, build, assets, passed, tool, faults>> /\ Len(made) < MaxCommits
      /\ made' = Append(made, Child(main, FALSE))
  BY DEF OthersPush
<1>2. UNCHANGED <<head, localTag>>
  BY <1>1 DEF clone
<1>3. PICK new : new = Len(made) + 1
  OBVIOUS
<1>4. main \in DOMAIN made
  BY DEF TInv, GitOK
<1>5. /\ MadeOK' /\ History' /\ new \in DOMAIN made' /\ new \in Commits
      /\ DOMAIN made \subseteq DOMAIN made' /\ \A c \in DOMAIN made : made'[c] = made[c]
      /\ Past(main) \subseteq made'[new].past
  BY <1>1, <1>3, <1>4, NewCommit
<1>6. main' = new /\ ci' = Triggered(new)
  BY <1>3 DEF OthersPush
<1>7. /\ ci' \in [Commits -> Runs] /\ \A c \in Commits \ {new} : ci'[c] = ci[c]
      /\ \A c \in Commits : ci'[c] = "passed" => ci[c] = "passed"
  BY <1>6 DEF Triggered, Runs, TInv, GitOK
<1>8. GitOK'
  BY <1>1, <1>2, <1>5, <1>6, <1>7 DEF TInv, GitOK
<1>9. Started'
  BY <1>5, <1>7 DEF TInv, Started
<1>10. Past(main)' = made'[new].past
  BY <1>6 DEF Past
<1>11. Grows
  BY <1>1, <1>2, <1>5, <1>10 DEF Grows, TInv, GitOK
<1>12. faults' \in 0..MaxFaults
  BY <1>1 DEF TInv, ToolOK
<1> QED BY <1>1, <1>5, <1>7, <1>8, <1>9, <1>11, <1>12, OutsideKeeps

LEMMA GitHubKeeps ==
    ASSUME TInv, GitHub
    PROVE  /\ TInv' /\ Grows /\ UNCHANGED <<made, clone, tool, main, remoteTag>>
           /\ \A c \in Commits : ci'[c] = "passed" => ci[c] = "passed" \/ c \in passed'
<1>1. ASSUME UNCHANGED <<made, clone, main, remoteTag, tool>>, faults' \in 0..MaxFaults,
             ci' \in [Commits -> Runs], build' \in [Commits -> Runs],
             passed \subseteq passed', passed' \subseteq DOMAIN made,
             assets \subseteq assets', assets' \subseteq Versions,
             \A c \in Commits : /\ ci[c] = "missing" => ci'[c] = "missing"
                                /\ ci'[c] = "passed" => ci[c] = "passed" \/ c \in passed'
      PROVE  /\ TInv' /\ Grows /\ UNCHANGED <<made, clone, tool, main, remoteTag>>
             /\ \A c \in Commits : ci'[c] = "passed" => ci[c] = "passed" \/ c \in passed'
  <2>1. UNCHANGED <<head, localTag>>
    BY <1>1 DEF clone
  <2>2. MadeOK' /\ History' /\ GitOK'
    <3>1. MadeOK' /\ History'
      <4>1. made' = made
        BY <1>1
      <4> QED BY <4>1 DEF TInv, MadeOK, History, Past
    <3>2. GitOK'
      BY <1>1, <2>1 DEF TInv, GitOK
    <3> QED BY <3>1, <3>2
  <2>3. Started'
    BY <1>1 DEF TInv, Started
  <2>4. Grows
    BY <1>1, <2>1 DEF Grows, Past
  <2> QED BY <1>1, <2>2, <2>3, <2>4, OutsideKeeps
<1>2. /\ ci \in [Commits -> Runs] /\ build \in [Commits -> Runs] /\ faults \in 0..MaxFaults
      /\ passed \subseteq DOMAIN made /\ assets \subseteq Versions /\ MaxFaults \in Nat
  BY ShipAssumption DEF TInv, GitOK, ToolOK
<1>3. ASSUME NEW c \in Commits, CIStarts(c)
      PROVE  /\ TInv' /\ Grows /\ UNCHANGED <<made, clone, tool, main, remoteTag>>
             /\ \A d \in Commits : ci'[d] = "passed" => ci[d] = "passed" \/ d \in passed'
  <2>1. /\ ci' \in [Commits -> Runs]
        /\ \A d \in Commits : /\ ci[d] = "missing" => ci'[d] = "missing"
                              /\ ci'[d] = "passed" => ci[d] = "passed"
    BY <1>2, <1>3 DEF CIStarts, Runs
  <2> QED BY <1>1, <1>2, <1>3, <2>1 DEF CIStarts
<1>4. ASSUME NEW c \in Commits, CIEnds(c)
      PROVE  /\ TInv' /\ Grows /\ UNCHANGED <<made, clone, tool, main, remoteTag>>
             /\ \A d \in Commits : ci'[d] = "passed" => ci[d] = "passed" \/ d \in passed'
  <2>1. c \in DOMAIN made
    BY <1>4 DEF CIEnds, TInv, Started
  <2>2. faults' \in 0..MaxFaults
    BY <1>2, <1>4 DEF CIEnds
  <2>3. /\ ci' \in [Commits -> Runs] /\ passed \subseteq passed' /\ passed' \subseteq DOMAIN made
        /\ \A d \in Commits : /\ ci[d] = "missing" => ci'[d] = "missing"
                              /\ ci'[d] = "passed" => ci[d] = "passed" \/ d \in passed'
    BY <1>2, <1>4, <2>1 DEF CIEnds, Runs
  <2> QED BY <1>1, <1>2, <1>4, <2>2, <2>3 DEF CIEnds
<1>5. ASSUME NEW v \in Versions, BuildStarts(v) \/ BuildEnds(v)
      PROVE  /\ TInv' /\ Grows /\ UNCHANGED <<made, clone, tool, main, remoteTag>>
             /\ \A d \in Commits : ci'[d] = "passed" => ci[d] = "passed" \/ d \in passed'
  <2>1. UNCHANGED <<made, clone, main, remoteTag, ci, passed, tool>>
    BY <1>5 DEF BuildStarts, BuildEnds
  <2>2. /\ faults' \in 0..MaxFaults /\ build' \in [Commits -> Runs]
        /\ assets \subseteq assets' /\ assets' \subseteq Versions
    <3>1. CASE BuildStarts(v)
      BY <1>2, <3>1 DEF BuildStarts, Runs
    <3>2. CASE BuildEnds(v)
      BY <1>2, <3>2 DEF BuildEnds, Runs
    <3> QED BY <1>5, <3>1, <3>2
  <2> QED BY <1>1, <1>2, <2>1, <2>2
<1> QED BY <1>3, <1>4, <1>5 DEF GitHub

----------------------------------------------------------------------------
\* The types.
LEMMA InitTypes == Init => TInv
<1> SUFFICES ASSUME Init PROVE TInv
  OBVIOUS
<1> DEFINE one == [ver |-> 0, release |-> FALSE, notes |-> TRUE, past |-> {1}]
<1>1. made = <<one>> /\ 1 \in Commits /\ MaxFaults \in Nat
  BY ShipAssumption DEF Init, Commits
<1>2. one \in CommitType
  BY <1>1 DEF CommitType
<1>3. /\ one.ver = 0 /\ ~ one.release /\ one.notes = TRUE /\ one.past = {1}
  OBVIOUS
<1> HIDE DEF one
<1>4. made \in Seq(CommitType) /\ Len(made) = 1 /\ DOMAIN made = {1} /\ made[1] = one
  BY <1>1, <1>2
<1>5. Past(1) = {1} /\ {a \in Past(1) : made[a].release} = {}
  BY <1>3, <1>4 DEF Past
<1>6. MadeOK
  <2>1. Cardinality({a \in Past(1) : made[a].release}) = 0
    BY <1>5, FS_EmptySet
  <2>2. 1 \in Past(1) /\ Past(1) \subseteq 1..1
    BY <1>5
  <2> QED BY <1>1, <1>3, <1>4, <2>1, <2>2 DEF MadeOK
<1>7. GitOK
  BY <1>4 DEF Init, GitOK, Runs
<1>8. ToolOK
  BY <1>1, NoStateType DEF Init, ToolOK, PCs
<1>9. History
  BY <1>3, <1>4, <1>5 DEF History
<1>10. Started
  BY <1>4 DEF Init, Started
<1>11. \A m \in Clones : Begun(m)
  BY <1>4, NoStateType DEF Init, Begun, CutSteps, ShipSteps
<1> QED BY <1>6, <1>7, <1>8, <1>9, <1>10, <1>11 DEF TInv
LEMMA NextTypes == TInv /\ [Next]_vars => TInv' /\ Grows
<1> SUFFICES ASSUME TInv, [Next]_vars PROVE TInv' /\ Grows
  OBVIOUS
<1>1. ASSUME NEW m \in Clones, BeginCut(m) \/ Cut(m) \/ Ship(m) \/ Crash(m)
      PROVE  TInv' /\ Grows
  <2>1. CASE BeginCut(m) \/ BeginShip(m)
    BY <2>1, BeginCutKeeps
  <2>2. CASE Cut(m)
    BY <2>2, CutKeeps, CommitReleaseKeeps DEF Cut
  <2>3. CASE ReadState(m)
    BY <2>3, FetchKeeps, ReadKeeps DEF ReadState
  <2>4. CASE Decline(m) \/ Accept(m)
    BY <2>4, PlanKeeps
  <2>5. CASE RunStep(m)
    BY <2>5, PushMainKeeps, WaitKeeps, TagKeeps, PushTagKeeps, ReportKeeps DEF RunStep
  <2>6. CASE Crash(m)
    BY <2>6, CrashKeeps
  <2> QED BY <1>1, <2>1, <2>2, <2>3, <2>4, <2>5, <2>6 DEF Ship, Ask
<1>2. ASSUME NEW m \in Clones, CleanUp(m) \/ Pull(m) \/ LocalCommit(m)
      PROVE  TInv' /\ Grows
  BY <1>2, CleanUpKeeps, PullKeeps, LocalCommitKeeps
<1>3. CASE OthersPush \/ GitHub
  BY <1>3, OthersPushKeeps, GitHubKeeps
<1>4. CASE UNCHANGED vars
  <2>1. UNCHANGED <<made, head, tree, localTag, github, pc, st, plan, shipped, faults, clone, tool>>
    BY <1>4 DEF vars, clone, tool
  <2>2. MadeOK' /\ GitOK' /\ History' /\ Started' /\ Grows
    BY <2>1, GitKept DEF TInv
  <2>3. faults' \in 0..MaxFaults
    BY <2>1 DEF TInv, ToolOK
  <2> QED BY <2>1, <2>2, <2>3, OutsideKeeps
<1> QED BY <1>1, <1>2, <1>3, <1>4 DEF Next

LEMMA TypesInductive == Spec => []TInv
<1>1. TInv /\ [Next]_vars => TInv'
  BY NextTypes
<1> QED BY <1>1, InitTypes, PTL DEF Spec

\* The types hold, whatever is committed meanwhile: among others, every commit
\* has the version that its history counts, and the tool's plan has known steps.
THEOREM TypesHold == Spec => []TypeOK
<1>1. TInv => TypeOK
  BY TypeParts DEF TInv
<1> QED BY <1>1, TypesInductive, PTL
----------------------------------------------------------------------------
\* What PlanShip leaves out need not be done, and the rest is in order.
LEMMA AddStep ==
    ASSUME NEW p \in Seq(Steps), InOrder(p), NEW step \in Steps, NEW w \in BOOLEAN,
           \A x \in Elements(p) : Rank(x) < Rank(step)
    PROVE  LET q == p \o If(step, w) IN
           /\ q \in Seq(Steps) /\ InOrder(q)
           /\ Elements(p) \subseteq Elements(q) /\ Elements(q) \subseteq Elements(p) \cup {step}
           /\ w => step \in Elements(q)
<1> DEFINE q == p \o If(step, w)
<1>1. CASE w = TRUE
  <2>1. If(step, w) = <<step>> /\ <<step>> \in Seq(Steps) /\ Len(p) \in Nat
    BY <1>1, LenProperties DEF If
  <2>2. /\ q \in Seq(Steps) /\ Len(q) = Len(p) + 1
        /\ \A k \in 1..Len(q) : q[k] = IF k <= Len(p) THEN p[k] ELSE step
    BY <2>1
  <2>3. DOMAIN p = 1..Len(p) /\ DOMAIN q = 1..Len(q)
    BY <2>2, LenProperties
  <2> HIDE DEF q
  <2>4. \A k \in DOMAIN p : k \in DOMAIN q /\ q[k] = p[k]
    BY <2>1, <2>2, <2>3
  <2>5. \A k \in DOMAIN q : k \notin DOMAIN p => q[k] = step
    BY <2>1, <2>2, <2>3
  <2>6. Len(q) \in DOMAIN q /\ q[Len(q)] = step
    BY <2>1, <2>2, <2>3
  <2>7. ASSUME NEW i \in DOMAIN q, NEW j \in DOMAIN q, i < j
        PROVE  Rank(q[i]) < Rank(q[j])
    <3>1. i \in DOMAIN p
      BY <2>1, <2>2, <2>3, <2>7
    <3>2. CASE j \in DOMAIN p
      BY <2>4, <2>7, <3>1, <3>2 DEF InOrder
    <3>3. CASE j \notin DOMAIN p
      BY <2>4, <2>5, <3>1, <3>3 DEF Elements
    <3> QED BY <3>2, <3>3
  <2>8. InOrder(q)
    BY <2>7 DEF InOrder
  <2>9. /\ Elements(p) \subseteq Elements(q) /\ Elements(q) \subseteq Elements(p) \cup {step}
        /\ step \in Elements(q)
    BY <2>4, <2>5, <2>6 DEF Elements
  <2> QED BY <2>2, <2>8, <2>9 DEF q
<1>2. CASE w = FALSE
  <2>1. If(step, w) = <<>>
    BY <1>2 DEF If
  <2>2. q = p
    BY <2>1
  <2> QED BY <1>2, <2>2
<1> QED BY <1>1, <1>2

LEMMA PlanIsDue ==
    ASSUME NEW s
    PROVE  /\ InOrder(PlanShip(s))
           /\ "push-main" \notin Elements(PlanShip(s)) => s.onOrigin
           /\ "wait-ci" \notin Elements(PlanShip(s)) => s.ci = "passed" \/ s.remoteTag # None
           /\ "tag" \notin Elements(PlanShip(s)) => s.localTag # None
           /\ "push-tag" \notin Elements(PlanShip(s)) => s.remoteTag # None
           /\ "wait-release" \notin Elements(PlanShip(s)) => s.exists
<1> DEFINE w1 == ~s.onOrigin
           w2 == s.ci # "passed" /\ s.remoteTag = None
           w3 == s.localTag = None
           w4 == s.remoteTag = None
           w5 == ~s.exists
           p1 == <<>> \o If("push-main", w1)
           p2 == p1 \o If("wait-ci", w2)
           p3 == p2 \o If("tag", w3)
           p4 == p3 \o If("push-tag", w4)
           p5 == p4 \o If("wait-release", w5)
<1>0. w1 \in BOOLEAN /\ w2 \in BOOLEAN /\ w3 \in BOOLEAN /\ w4 \in BOOLEAN /\ w5 \in BOOLEAN
  OBVIOUS
<1>a. If("push-main", w1) \in Seq(Steps)
  <2>1. "push-main" \in Steps
    BY DEF Steps
  <2>2. <<"push-main">> \in Seq(Steps) /\ <<>> \in Seq(Steps)
    BY <2>1
  <2> QED BY <2>2 DEF If
<1>b. p1 = If("push-main", w1)
  BY <1>a
<1>c. PlanShip(s) = p5
  BY <1>b DEF PlanShip
<1>d. /\ "push-main" \in Steps /\ "wait-ci" \in Steps /\ "tag" \in Steps
      /\ "push-tag" \in Steps /\ "wait-release" \in Steps
  BY DEF Steps
<1>e. /\ Rank("push-main") = 1 /\ Rank("wait-ci") = 2 /\ Rank("tag") = 3
      /\ Rank("push-tag") = 4 /\ Rank("wait-release") = 5
  BY DEF Rank
<1>f. <<>> \in Seq(Steps) /\ InOrder(<<>>) /\ Elements(<<>>) = {}
  BY DEF InOrder, Elements
<1> HIDE DEF w1, w2, w3, w4, w5
<1>1. /\ p1 \in Seq(Steps) /\ InOrder(p1) /\ Elements(p1) \subseteq {"push-main"}
      /\ w1 => "push-main" \in Elements(p1)
  BY <1>0, <1>d, <1>f, AddStep
<1> HIDE DEF p1
<1>2. /\ p2 \in Seq(Steps) /\ InOrder(p2) /\ Elements(p2) \subseteq {"push-main", "wait-ci"}
      /\ Elements(p1) \subseteq Elements(p2) /\ (w2 => "wait-ci" \in Elements(p2))
  <2>1. \A x \in Elements(p1) : Rank(x) < Rank("wait-ci")
    BY <1>1, <1>e
  <2> QED BY <1>0, <1>1, <1>d, <2>1, AddStep
<1> HIDE DEF p2
<1>3. /\ p3 \in Seq(Steps) /\ InOrder(p3) /\ Elements(p3) \subseteq {"push-main", "wait-ci", "tag"}
      /\ Elements(p2) \subseteq Elements(p3) /\ (w3 => "tag" \in Elements(p3))
  <2>1. \A x \in Elements(p2) : Rank(x) < Rank("tag")
    BY <1>2, <1>e
  <2> QED BY <1>0, <1>2, <1>d, <2>1, AddStep
<1> HIDE DEF p3
<1>4. /\ p4 \in Seq(Steps) /\ InOrder(p4)
      /\ Elements(p4) \subseteq {"push-main", "wait-ci", "tag", "push-tag"}
      /\ Elements(p3) \subseteq Elements(p4) /\ (w4 => "push-tag" \in Elements(p4))
  <2>1. \A x \in Elements(p3) : Rank(x) < Rank("push-tag")
    BY <1>3, <1>e
  <2> QED BY <1>0, <1>3, <1>d, <2>1, AddStep
<1> HIDE DEF p4
<1>5. /\ InOrder(p5) /\ Elements(p4) \subseteq Elements(p5)
      /\ w5 => "wait-release" \in Elements(p5)
  <2>1. \A x \in Elements(p4) : Rank(x) < Rank("wait-release")
    BY <1>4, <1>e
  <2> QED BY <1>0, <1>4, <1>d, <2>1, AddStep
<1>6. /\ w1 => "push-main" \in Elements(PlanShip(s))
      /\ w2 => "wait-ci" \in Elements(PlanShip(s))
      /\ w3 => "tag" \in Elements(PlanShip(s))
      /\ w4 => "push-tag" \in Elements(PlanShip(s))
      /\ w5 => "wait-release" \in Elements(PlanShip(s))
      /\ InOrder(PlanShip(s))
  BY <1>1, <1>2, <1>3, <1>4, <1>5, <1>c
<1> QED BY <1>6 DEF w1, w2, w3, w4, w5

\* The first step of a plan that is in order is not done again, and those that
\* come before it are behind.
LEMMA NextStep ==
    ASSUME NEW p \in Seq(Steps), p # <<>>, InOrder(p)
    PROVE  /\ InOrder(Tail(p))
           /\ \A x \in Steps : x \notin Elements(Tail(p)) /\ x # Head(p) => x \notin Elements(p)
           /\ \A x \in Steps : Rank(x) < Rank(Head(p)) => x \notin Elements(p)
<1>1. /\ Head(p) = p[1] /\ Len(p) \in Nat \ {0} /\ DOMAIN p = 1..Len(p)
      /\ Tail(p) \in Seq(Steps) /\ Len(Tail(p)) = Len(p) - 1
      /\ \A k \in 1..(Len(p) - 1) : Tail(p)[k] = p[k + 1]
  BY HeadTailProperties, LenProperties, EmptySeq
<1>2. DOMAIN Tail(p) = 1..(Len(p) - 1)
  BY <1>1, LenProperties
<1>3. InOrder(Tail(p))
  <2> SUFFICES ASSUME NEW i \in DOMAIN Tail(p), NEW j \in DOMAIN Tail(p), i < j
               PROVE  Rank(Tail(p)[i]) < Rank(Tail(p)[j])
    BY DEF InOrder
  <2>1. i + 1 \in DOMAIN p /\ j + 1 \in DOMAIN p /\ i + 1 < j + 1
    BY <1>1, <1>2
  <2> QED BY <1>1, <1>2, <2>1 DEF InOrder
<1>4. ASSUME NEW x \in Steps, x \in Elements(p), x # Head(p) PROVE x \in Elements(Tail(p))
  <2>1. PICK k \in 1..Len(p) : x = p[k] /\ k # 1
    BY <1>1, <1>4 DEF Elements
  <2>2. k - 1 \in 1..(Len(p) - 1)
    BY <1>1, <2>1
  <2>3. Tail(p)[k - 1] = p[(k - 1) + 1] /\ (k - 1) + 1 = k
    BY <1>1, <2>1, <2>2
  <2> QED BY <1>2, <2>1, <2>2, <2>3 DEF Elements
<1>5. ASSUME NEW k \in 1..Len(p), Rank(p[k]) < Rank(p[1]) PROVE FALSE
  <2>1. CASE k = 1
    <3>1. \A x \in Steps : Rank(x) \in Nat
      BY DEF Steps, Rank
    <3>2. p[1] \in Steps
      BY <1>1
    <3> QED BY <1>5, <2>1, <3>1, <3>2
  <2>2. CASE k # 1
    <3>1. Rank(p[1]) < Rank(p[k])
      BY <1>1, <2>2 DEF InOrder
    <3>2. \A x \in Steps : Rank(x) \in Nat
      BY DEF Steps, Rank
    <3>3. p[1] \in Steps /\ p[k] \in Steps
      BY <1>1
    <3> QED BY <1>5, <3>1, <3>2, <3>3
  <2> QED BY <2>1, <2>2
<1> QED BY <1>1, <1>3, <1>4, <1>5 DEF Elements
----------------------------------------------------------------------------
\* What is known of a commit, and what a tool knows, stays so.
LEMMA TestedStays ==
    ASSUME TInv, Grows, NEW v \in Versions, NEW c \in DOMAIN made, Tested(v, c)
    PROVE  Tested(v, c)'
BY DEF Grows, Tested, Past

LEMMA TagTypes ==
    ASSUME TInv
    PROVE  /\ 0 \notin DOMAIN made
           /\ \A v \in Versions : remoteTag[v] # None => remoteTag[v] \in DOMAIN made
           /\ \A m \in Clones, v \in Versions : localTag[m][v] # None => localTag[m][v] \in DOMAIN made
<1>1. 0 \notin DOMAIN made
  BY LenProperties DEF TInv, MadeOK
<1> QED BY <1>1 DEF TInv, GitOK

LEMMA StillSoStays ==
    ASSUME TInv, Grows, NEW n \in Clones, StillSo(n), pc'[n] = pc[n], st'[n] = st[n], head'[n] = head[n]
    PROVE  StillSo(n)'
<1>1. pc[n] \in ShipSteps => TheVersion(n) \in Versions /\ TheVersion(n)' = TheVersion(n)
  BY ShipFacts DEF Grows, TheVersion
<1>2. {"ci", "build", "assets", "plan"} \subseteq ShipSteps
  BY DEF ShipSteps
<1>3. pc[n] \in ShipSteps =>
        /\ st[n].localTag # None => localTag'[n][TheVersion(n)] = localTag[n][TheVersion(n)]
        /\ remoteTag[TheVersion(n)] # None => remoteTag'[TheVersion(n)] = remoteTag[TheVersion(n)]
  BY <1>1 DEF Grows, StillSo
<1>4. Past(main) \subseteq Past(main)' /\ passed \subseteq passed' /\ assets \subseteq assets'
  BY DEF Grows
<1>5. CASE pc[n] \in ShipSteps
  <2>1. /\ st[n].head = head[n]
        /\ st[n].onOrigin => st[n].head \in Past(main)
        /\ st[n].localTag # None => localTag[n][TheVersion(n)] = st[n].localTag
        /\ pc[n] \in {"ci", "build", "assets", "plan"} /\ st[n].remoteTag # None =>
             remoteTag[TheVersion(n)] = st[n].remoteTag
        /\ pc[n] \in {"build", "assets", "plan"} /\ st[n].ci = "passed" => st[n].head \in passed
        /\ pc[n] = "plan" /\ st[n].exists => TheVersion(n) \in assets
    BY <1>5 DEF StillSo
  <2> QED BY <1>1, <1>3, <1>4, <1>5, <2>1 DEF StillSo
<1>6. CASE pc[n] \notin ShipSteps
  BY <1>2, <1>6 DEF StillSo
<1> QED BY <1>5, <1>6

LEMMA PlannedStays ==
    ASSUME TInv, Grows, NEW n \in Clones, Planned(n), pc'[n] = pc[n], st'[n] = st[n], plan'[n] = plan[n]
    PROVE  Planned(n)'
<1>1. CASE pc[n] = "step"
  <2>1. /\ TheVersion(n) \in Versions /\ TheVersion(n)' = TheVersion(n)
        /\ st[n].head \in DOMAIN made /\ st[n].head # None
    BY <1>1, ShipFacts, TagTypes DEF Grows, TheVersion, ShipSteps, None
  <2> QED BY <1>1, <2>1 DEF Planned, Grows
<1>2. CASE pc[n] # "step"
  BY <1>2 DEF Planned
<1> QED BY <1>1, <1>2

\* A clone where ship has not read the state, or no longer runs, claims nothing.
LEMMA NoClaim ==
    ASSUME NEW m \in Clones, pc'[m] \notin ShipSteps
    PROVE  StillSo(m)' /\ Planned(m)'
BY DEF StillSo, Planned, ShipSteps

LEMMA ShippedStays ==
    ASSUME TInv, Grows, ShippedMeansOut, shipped' = shipped
    PROVE  ShippedMeansOut'
<1> SUFFICES ASSUME NEW m \in Clones, shipped[m][1] # None
             PROVE  /\ remoteTag'[shipped[m][1]] = shipped[m][2]
                    /\ shipped[m][2] \in Past(main)' /\ shipped[m][1] \in assets'
  BY DEF ShippedMeansOut, Past
<1>1. shipped[m][1] \in Versions
  BY DEF TInv, ToolOK
<1>2. /\ remoteTag[shipped[m][1]] = shipped[m][2] /\ shipped[m][2] \in Past(main)
      /\ shipped[m][1] \in assets
  BY DEF ShippedMeansOut
<1>3. 0 \notin Past(main)
  BY TagTypes, CommitTypes DEF TInv, GitOK
<1> QED BY <1>1, <1>2, <1>3 DEF Grows, None

\* Every new tag names a tested release.
LEMMA TagsStay ==
    ASSUME TInv, Grows, Tags,
           \A c \in Commits : ci'[c] = "passed" => ci[c] = "passed" \/ c \in passed',
           \A v \in Versions : remoteTag'[v] # None =>
               remoteTag'[v] = remoteTag[v] \/ Tested(v, remoteTag[v])',
           \A m \in Clones, v \in Versions : localTag'[m][v] # None =>
               localTag'[m][v] = localTag[m][v] \/ Tested(v, localTag[m][v])'
    PROVE  Tags'
<1>1. \A c \in Commits : ci'[c] = "passed" => c \in passed'
  BY DEF Tags, Grows
<1>2. ASSUME NEW v \in Versions, remoteTag'[v] # None PROVE Tested(v, remoteTag[v])'
  <2>1. CASE remoteTag'[v] = remoteTag[v]
    <3>1. PICK c \in DOMAIN made : c = remoteTag[v]
      BY <1>2, <2>1, TagTypes
    <3>2. Tested(v, c)'
      BY <1>2, <2>1, <3>1, TestedStays DEF Tags
    <3> QED BY <2>1, <3>1, <3>2 DEF Tested
  <2>2. CASE Tested(v, remoteTag[v])'
    BY <2>2
  <2> QED BY <1>2, <2>1, <2>2
<1>3. ASSUME NEW m \in Clones, NEW v \in Versions, localTag'[m][v] # None
      PROVE  Tested(v, localTag[m][v])'
  <2>1. CASE localTag'[m][v] = localTag[m][v]
    <3>1. PICK c \in DOMAIN made : c = localTag[m][v]
      BY <1>3, <2>1, TagTypes
    <3>2. Tested(v, c)'
      BY <1>3, <2>1, <3>1, TestedStays DEF Tags
    <3> QED BY <2>1, <3>1, <3>2 DEF Tested
  <2>2. CASE Tested(v, localTag[m][v])'
    BY <2>2
  <2> QED BY <1>3, <2>1, <2>2
<1> QED BY <1>1, <1>2, <1>3 DEF Tags
LEMMA StepKeeps ==
    ASSUME IInv, TInv', Grows, NEW m \in Clones, Own(m), Tags', ShippedMeansOut',
           StillSo(m)', Planned(m)'
    PROVE  IInv'
<1>1. ASSUME NEW n \in Clones PROVE StillSo(n)' /\ Planned(n)'
  BY StillSoStays, PlannedStays DEF IInv, Own
<1> QED BY <1>1 DEF IInv

\* A step that leaves the tags and GitHub alone.
LEMMA QuietStep ==
    ASSUME IInv, TInv', Grows, NEW m \in Clones, Own(m), shipped' = shipped,
           UNCHANGED <<localTag, github>>, StillSo(m)', Planned(m)'
    PROVE  IInv'
<1>1. UNCHANGED <<localTag, remoteTag, ci>>
  BY DEF github
<1>2. Tags' /\ ShippedMeansOut'
  BY <1>1, TagsStay, ShippedStays DEF IInv
<1> QED BY <1>2, StepKeeps

LEMMA LeavingStep ==
    ASSUME IInv, TInv', Grows, NEW m \in Clones, Own(m), shipped' = shipped,
           UNCHANGED <<localTag, github>>, Abort(m) \/ Refuse(m)
    PROVE  IInv'
<1>1. pc'[m] = "idle"
  BY LeaveMoves, EndMoves DEF IInv, TInv
<1>2. StillSo(m)' /\ Planned(m)'
  BY <1>1, NoClaim DEF ShipSteps
<1> QED BY <1>2, QuietStep

\* Cutting and giving up claim nothing.
LEMMA CutSafe ==
    ASSUME IInv, NEW m \in Clones, BeginCut(m) \/ BeginShip(m) \/ Cut(m) \/ Crash(m) \/ Decline(m)
    PROVE  IInv'
<1>1. CASE Decline(m)
  BY <1>1, PlanKeeps, LeavingStep DEF Decline, IInv
<1>2. CASE BeginCut(m) \/ BeginShip(m) \/ Cut(m) \/ Crash(m)
  <2>1. /\ TInv' /\ Own(m) /\ Grows /\ shipped' = shipped /\ UNCHANGED <<localTag, github>>
        /\ pc'[m] \in {"idle", "check", "fetch", "apply", "recheck", "commit"}
    BY <1>2, BeginCutKeeps, CutKeeps, CommitReleaseKeeps, CrashKeeps DEF IInv, Cut
  <2>2. StillSo(m)' /\ Planned(m)'
    BY <2>1, NoClaim DEF ShipSteps
  <2> QED BY <2>1, <2>2, QuietStep
<1> QED BY <1>1, <1>2

\* What readState reads is so, and what PlanShip relies on stays so.
LEMMA FetchSafe ==
    ASSUME IInv, NEW m \in Clones, Fetch(m)
    PROVE  IInv'
<1>1. TInv' /\ Own(m) /\ Grows /\ shipped' = shipped /\ UNCHANGED <<made, head, localTag, github>>
  BY FetchKeeps DEF IInv
<1>2. CASE Abort(m) \/ Refuse(m)
  BY <1>1, <1>2, LeavingStep
<1>3. CASE ~ (Abort(m) \/ Refuse(m))
  <2>1. /\ made[head[m]].release /\ st' = [st EXCEPT ![m] = Fetched(m)]
        /\ pc' = [pc EXCEPT ![m] = "tag"]
    BY <1>3 DEF Fetch, Fetched
  <2>2. pc'[m] = "tag" /\ st'[m] = Fetched(m)
    BY <2>1 DEF IInv, TInv, ToolOK
  <2>3. /\ st'[m].head = head[m] /\ st'[m].onOrigin = IsAncestor(head[m], main)
        /\ st'[m].localTag = localTag[m][Version(m)]
    BY <2>1, <2>2, FetchedType DEF IInv
  <2>4. TheVersion(m)' = Version(m)
    BY <1>1, <2>3 DEF TheVersion, Version
  <2>5. UNCHANGED main
    BY <1>1 DEF github
  <2>6. StillSo(m)'
    BY <1>1, <2>2, <2>3, <2>4, <2>5 DEF StillSo, IsAncestor, Past
  <2>7. Planned(m)'
    BY <2>2 DEF Planned
  <2> QED BY <1>1, <2>6, <2>7, QuietStep
<1> QED BY <1>2, <1>3

LEMMA ReadSafe ==
    ASSUME IInv, NEW m \in Clones,
           ReadRemoteTag(m) \/ ReadCI(m) \/ ReadBuild(m) \/ ReadAssets(m)
    PROVE  IInv'
<1>1. TInv' /\ Own(m) /\ Grows /\ shipped' = shipped /\ UNCHANGED <<made, head, localTag, github>>
  BY ReadKeeps DEF IInv
<1>2. CASE Abort(m) \/ Refuse(m)
  BY <1>1, <1>2, LeavingStep
<1>3. /\ UNCHANGED <<main, remoteTag, ci, assets, passed>>
      /\ st[m] \in State /\ st[m].head \in Commits /\ StillSo(m)
  BY <1>1, ShipFacts, CommitTypes DEF github, IInv, TInv
<1>4. ASSUME NEW s, NEW next, st' = [st EXCEPT ![m] = s], pc' = [pc EXCEPT ![m] = next]
      PROVE  st'[m] = s /\ pc'[m] = next
  BY <1>4 DEF IInv, TInv, ToolOK
<1>5. CASE ReadRemoteTag(m) /\ ~ Abort(m)
  <2>1. /\ pc[m] = "tag" /\ pc'[m] = "ci"
        /\ st'[m] = [st[m] EXCEPT !.remoteTag = remoteTag[TheVersion(m)]]
    BY <1>4, <1>5 DEF ReadRemoteTag, Read, At
  <2>2. /\ st'[m].head = st[m].head /\ st'[m].onOrigin = st[m].onOrigin
        /\ st'[m].localTag = st[m].localTag /\ st'[m].remoteTag = remoteTag[TheVersion(m)]
    BY <1>3, <2>1 DEF State
  <2>3. TheVersion(m)' = TheVersion(m)
    BY <1>1, <2>2 DEF TheVersion
  <2>4. StillSo(m)'
    BY <1>1, <1>3, <2>1, <2>2, <2>3 DEF StillSo, ShipSteps, Past
  <2>5. Planned(m)'
    BY <2>1 DEF Planned
  <2> QED BY <1>1, <2>4, <2>5, QuietStep
<1>6. CASE ReadCI(m) /\ ~ Abort(m)
  <2>1. /\ pc[m] = "ci" /\ pc'[m] = "build"
        /\ st'[m] = [st[m] EXCEPT !.ci = ci[st[m].head]]
    BY <1>4, <1>6 DEF ReadCI, Read, At
  <2>2. /\ st'[m].head = st[m].head /\ st'[m].onOrigin = st[m].onOrigin
        /\ st'[m].localTag = st[m].localTag /\ st'[m].remoteTag = st[m].remoteTag
        /\ st'[m].ci = ci[st[m].head]
    BY <1>3, <2>1 DEF State
  <2>3. TheVersion(m)' = TheVersion(m)
    BY <1>1, <2>2 DEF TheVersion
  <2>4. ci[st[m].head] = "passed" => st[m].head \in passed
    BY <1>3 DEF IInv, Tags
  <2>5. StillSo(m)'
    BY <1>1, <1>3, <2>1, <2>2, <2>3, <2>4 DEF StillSo, ShipSteps, Past
  <2>6. Planned(m)'
    BY <2>1 DEF Planned
  <2> QED BY <1>1, <2>5, <2>6, QuietStep
<1>7. CASE ReadBuild(m) /\ ~ Abort(m)
  <2>1. /\ pc[m] = "build" /\ pc'[m] = "assets"
        /\ st'[m] = [st[m] EXCEPT !.build = build[st[m].head]]
    BY <1>4, <1>7 DEF ReadBuild, Read, At
  <2>2. /\ st'[m].head = st[m].head /\ st'[m].onOrigin = st[m].onOrigin
        /\ st'[m].localTag = st[m].localTag /\ st'[m].remoteTag = st[m].remoteTag
        /\ st'[m].ci = st[m].ci
    BY <1>3, <2>1 DEF State
  <2>3. TheVersion(m)' = TheVersion(m)
    BY <1>1, <2>2 DEF TheVersion
  <2>4. StillSo(m)'
    BY <1>1, <1>3, <2>1, <2>2, <2>3 DEF StillSo, ShipSteps, Past
  <2>5. Planned(m)'
    BY <2>1 DEF Planned
  <2> QED BY <1>1, <2>4, <2>5, QuietStep
<1>8. CASE ReadAssets(m) /\ ~ Abort(m)
  <2>1. PICK b \in {TheVersion(m) \in assets, FALSE} :
           /\ pc[m] = "assets" /\ pc'[m] = "plan"
           /\ st'[m] = [st[m] EXCEPT !.exists = b]
    BY <1>4, <1>8 DEF ReadAssets, Read, At
  <2>2. /\ st'[m].head = st[m].head /\ st'[m].onOrigin = st[m].onOrigin
        /\ st'[m].localTag = st[m].localTag /\ st'[m].remoteTag = st[m].remoteTag
        /\ st'[m].ci = st[m].ci /\ st'[m].exists = b
    BY <1>3, <2>1 DEF State
  <2>3. TheVersion(m)' = TheVersion(m)
    BY <1>1, <2>2 DEF TheVersion
  <2>4. st'[m].exists => TheVersion(m) \in assets
    BY <2>2
  <2>5. StillSo(m)'
    BY <1>1, <1>3, <2>1, <2>2, <2>3, <2>4 DEF StillSo, ShipSteps, Past
  <2>6. Planned(m)'
    BY <2>1 DEF Planned
  <2> QED BY <1>1, <2>5, <2>6, QuietStep
<1> QED BY <1>2, <1>5, <1>6, <1>7, <1>8

\* A plan leaves out what has been done: a version that has its tag on GitHub has
\* passed CI, so the plan need not wait for it.
LEMMA AcceptSafe ==
    ASSUME IInv, NEW m \in Clones, Accept(m)
    PROVE  IInv'
<1> DEFINE s == st[m]
           v == TheVersion(m)
<1>1. TInv' /\ Own(m) /\ Grows /\ shipped' = shipped /\ UNCHANGED <<made, head, localTag, github>>
  BY PlanKeeps DEF IInv
<1>2. /\ pc[m] = "plan" /\ ~ Unsafe(s) /\ st' = st
      /\ plan' = [plan EXCEPT ![m] = PlanShip(s)] /\ pc' = [pc EXCEPT ![m] = "step"]
  BY DEF Accept, At
<1>3. pc'[m] = "step" /\ plan'[m] = PlanShip(s) /\ st'[m] = s
  BY <1>2 DEF IInv, TInv, ToolOK
<1>4. UNCHANGED <<main, remoteTag, assets, passed>> /\ TheVersion(m)' = v
  BY <1>1, <1>2 DEF github, TheVersion
<1>5. /\ v \in Versions /\ s.head = head[m] /\ s.head \in DOMAIN made
      /\ s.onOrigin => s.head \in Past(main)
      /\ s.localTag # None => localTag[m][v] = s.localTag
      /\ s.remoteTag # None => remoteTag[v] = s.remoteTag
      /\ s.ci = "passed" => s.head \in passed
      /\ s.exists => v \in assets
  BY <1>2, ShipFacts DEF IInv, StillSo, ShipSteps
<1>6. /\ s.localTag # None => localTag[m][v] = s.head
      /\ s.remoteTag # None => remoteTag[v] = s.head /\ s.head \in passed
  <2>1. /\ s.localTag # None => s.localTag = s.head
        /\ s.remoteTag # None => s.remoteTag = s.head
    BY <1>2 DEF Unsafe
  <2> QED BY <1>5, <2>1 DEF IInv, Tags, Tested
<1> HIDE DEF s, v
<1>7. StillSo(m)'
  BY <1>1, <1>3, <1>4, <1>5 DEF StillSo, Past
<1>8. Planned(m)'
  BY <1>1, <1>3, <1>4, <1>5, <1>6, PlanIsDue DEF Planned, Past
<1> QED BY <1>1, <1>7, <1>8, QuietStep
----------------------------------------------------------------------------
\* The steps of the plan: what is not in the plan any more has been done.
LEMMA StepFacts ==
    ASSUME IInv, NEW m \in Clones, NEW step \in Steps, Doing(m, step)
    PROVE  /\ pc[m] = "step" /\ plan[m] \in Seq(Steps) /\ plan[m] # <<>>
           /\ TheVersion(m) \in Versions /\ made[st[m].head].release
           /\ st[m].head \in DOMAIN made /\ st[m].head = head[m]
           /\ InOrder(Tail(plan[m]))
           /\ \A x \in Steps : x \notin Elements(Tail(plan[m])) /\ x # step => x \notin Elements(plan[m])
           /\ \A x \in Steps : Rank(x) < Rank(step) => x \notin Elements(plan[m])
<1>1. /\ pc[m] = "step" /\ plan[m] # <<>> /\ Head(plan[m]) = step /\ plan[m] \in Seq(Steps)
      /\ StillSo(m) /\ Planned(m) /\ TInv
  BY DEF Doing, At, IInv, TInv, ToolOK
<1>2. /\ TheVersion(m) \in Versions /\ made[st[m].head].release /\ st[m].head \in DOMAIN made
      /\ st[m].head = head[m]
  BY <1>1, ShipFacts DEF ShipSteps, StillSo
<1>3. InOrder(plan[m])
  BY <1>1 DEF Planned
<1> QED BY <1>1, <1>2, <1>3, NextStep

\* A step is done: its own claim is new, the others stay.
LEMMA DoneStep ==
    ASSUME IInv, NEW m \in Clones, NEW step \in Steps, Doing(m, step), Done(m),
           TInv', Grows, Own(m), UNCHANGED <<made, head, tree>>, Tags',
           step = "push-main" => st[m].head \in Past(main)',
           step = "wait-ci" => st[m].head \in passed',
           step = "tag" => localTag'[m][TheVersion(m)] = st[m].head,
           step = "push-tag" => remoteTag'[TheVersion(m)] = st[m].head,
           step = "wait-release" => TheVersion(m) \in assets'
    PROVE  IInv'
<1> DEFINE p == plan[m]
           v == TheVersion(m)
           h == st[m].head
<1>1. /\ pc[m] = "step" /\ p \in Seq(Steps) /\ p # <<>> /\ v \in Versions /\ h \in DOMAIN made
      /\ InOrder(Tail(p))
      /\ \A x \in Steps : x \notin Elements(Tail(p)) /\ x # step => x \notin Elements(p)
  BY StepFacts
<1>2. plan'[m] = Tail(p) /\ UNCHANGED <<pc, st, shipped>> /\ pc'[m] = "step" /\ st'[m].head = h
  BY <1>1, DoneMoves DEF IInv, TInv
<1>3. TheVersion(m)' = v
  BY <1>2 DEF TheVersion
<1>4. /\ "push-main" \notin Elements(p) => h \in Past(main)
      /\ "wait-ci" \notin Elements(p) => h \in passed
      /\ "tag" \notin Elements(p) => localTag[m][v] = h
      /\ "push-tag" \notin Elements(p) => remoteTag[v] = h
      /\ "wait-release" \notin Elements(p) => v \in assets
  BY <1>1 DEF IInv, Planned
<1>5. h # None
  BY <1>1, TagTypes DEF IInv, None
<1>6. /\ "push-main" \notin Elements(p) => h \in Past(main)'
      /\ "wait-ci" \notin Elements(p) => h \in passed'
      /\ "tag" \notin Elements(p) => localTag'[m][v] = h
      /\ "push-tag" \notin Elements(p) => remoteTag'[v] = h
      /\ "wait-release" \notin Elements(p) => v \in assets'
  BY <1>1, <1>4, <1>5 DEF Grows
<1>7. /\ "push-main" \in Steps /\ "wait-ci" \in Steps /\ "tag" \in Steps
      /\ "push-tag" \in Steps /\ "wait-release" \in Steps
  BY DEF Steps
<1>8. /\ step = "push-main" => h \in Past(main)'
      /\ step = "wait-ci" => h \in passed'
      /\ step = "tag" => localTag'[m][v] = h
      /\ step = "push-tag" => remoteTag'[v] = h
      /\ step = "wait-release" => v \in assets'
  OBVIOUS
<1> HIDE DEF p, v, h
<1>9. /\ "push-main" \notin Elements(Tail(p)) => h \in Past(main)'
      /\ "wait-ci" \notin Elements(Tail(p)) => h \in passed'
      /\ "tag" \notin Elements(Tail(p)) => localTag'[m][v] = h
      /\ "push-tag" \notin Elements(Tail(p)) => remoteTag'[v] = h
      /\ "wait-release" \notin Elements(Tail(p)) => v \in assets'
  BY <1>1, <1>6, <1>7, <1>8
<1>10. Planned(m)'
  BY <1>1, <1>2, <1>3, <1>9 DEF Planned
<1>11. StillSo(m)'
  BY <1>2, StillSoStays DEF IInv
<1>12. ShippedMeansOut'
  BY <1>2, ShippedStays DEF IInv
<1> QED BY <1>10, <1>11, <1>12, StepKeeps

LEMMA PushMainSafe ==
    ASSUME IInv, NEW m \in Clones, PushMain(m)
    PROVE  IInv'
<1>1. /\ TInv' /\ Own(m) /\ Grows /\ shipped' = shipped
      /\ UNCHANGED <<made, head, tree, localTag, remoteTag, build, assets, passed>>
  BY PushMainKeeps DEF IInv, PushMain
<1>2. Doing(m, "push-main") /\ "push-main" \in Steps
  BY DEF PushMain, Steps
<1>3. CASE (Abort(m) \/ Refuse(m)) /\ UNCHANGED <<main, ci>>
  <2>1. UNCHANGED <<localTag, github>>
    BY <1>1, <1>3 DEF github
  <2> QED BY <1>1, <1>3, <2>1, LeavingStep
<1>4. CASE main' = head[m] /\ ci' = Triggered(head[m]) /\ Done(m)
  <2>1. /\ st[m].head = head[m] /\ head[m] \in DOMAIN made /\ head[m] \in Past(head[m])
    BY <1>2, StepFacts, CommitTypes DEF IInv, TInv
  <2>2. st[m].head \in Past(main)'
    BY <1>1, <1>4, <2>1 DEF Past
  <2>3. \A c \in Commits : ci'[c] = "passed" => ci[c] = "passed"
    BY <1>4 DEF Triggered, IInv, TInv, GitOK
  <2>4. Tags'
    BY <1>1, <2>3, TagsStay DEF IInv
  <2> QED BY <1>1, <1>2, <1>4, <2>2, <2>4, DoneStep
<1> QED BY <1>3, <1>4 DEF PushMain

LEMMA WaitSafe ==
    ASSUME IInv, NEW m \in Clones, WaitCI(m) \/ WaitRelease(m)
    PROVE  IInv'
<1>1. /\ TInv' /\ Own(m) /\ Grows /\ shipped' = shipped
      /\ UNCHANGED <<made, head, tree, localTag, github>>
  BY WaitKeeps DEF IInv, WaitCI, WaitRelease, clone
<1>2. CASE Abort(m) \/ Refuse(m)
  BY <1>1, <1>2, LeavingStep
<1>3. Tags' /\ UNCHANGED <<passed, assets>>
  <2>1. UNCHANGED <<remoteTag, ci, localTag, passed, assets>>
    BY <1>1 DEF github
  <2> QED BY <1>1, <2>1, TagsStay DEF IInv
<1>4. CASE WaitCI(m) /\ Done(m) /\ ci[st[m].head] = "passed"
  <2>1. Doing(m, "wait-ci") /\ "wait-ci" \in Steps
    BY <1>4 DEF WaitCI, Steps
  <2>2. st[m].head \in Commits
    BY <2>1, StepFacts, CommitTypes DEF IInv, TInv
  <2>3. st[m].head \in passed'
    BY <1>3, <1>4, <2>2 DEF IInv, Tags
  <2> QED BY <1>1, <1>3, <1>4, <2>1, <2>3, DoneStep
<1>5. CASE WaitRelease(m) /\ Done(m) /\ TheVersion(m) \in assets
  <2>1. Doing(m, "wait-release") /\ "wait-release" \in Steps
    BY <1>5 DEF WaitRelease, Steps
  <2> QED BY <1>1, <1>3, <1>5, <2>1, DoneStep
<1> QED BY <1>2, <1>4, <1>5 DEF WaitCI, WaitRelease

\* git tag takes HEAD: it is still the commit that was checked.
LEMMA TagSafe ==
    ASSUME IInv, NEW m \in Clones, Tag(m)
    PROVE  IInv'
<1>1. /\ TInv' /\ Own(m) /\ Grows /\ shipped' = shipped
      /\ UNCHANGED <<made, head, tree, github>>
  BY TagKeeps DEF IInv, Tag
<1>2. Doing(m, "tag") /\ "tag" \in Steps
  BY DEF Tag, Steps
<1>3. CASE (Abort(m) \/ Refuse(m)) /\ UNCHANGED localTag
  BY <1>1, <1>3, LeavingStep
<1>4. CASE localTag' = [localTag EXCEPT ![m][TheVersion(m)] = head[m]] /\ Done(m)
  <2>1. PICK v \in Versions : v = TheVersion(m)
    BY <1>2, StepFacts
  <2>2. PICK h \in DOMAIN made : h = st[m].head
    BY <1>2, StepFacts
  <2>3. /\ h = head[m] /\ made[h].release /\ pc[m] = "step"
        /\ "push-main" \notin Elements(plan[m]) /\ "wait-ci" \notin Elements(plan[m])
    BY <1>2, <2>2, StepFacts DEF Steps, Rank
  <2>4. h \in Past(main) /\ h \in passed
    BY <2>2, <2>3 DEF IInv, Planned
  <2>5. Tested(v, h)
    BY <2>1, <2>2, <2>3, <2>4 DEF Tested, TheVersion
  <2>6. Tested(v, h)'
    BY <1>1, <2>5, TestedStays DEF IInv
  <2>7. localTag \in [Clones -> [Versions -> DOMAIN made \cup {None}]]
    BY DEF IInv, TInv, GitOK
  <2>8. localTag' = [localTag EXCEPT ![m][v] = h]
    BY <1>4, <2>1, <2>3
  <2>9. localTag'[m][v] = h
    BY <2>7, <2>8
  <2>10. \A n \in Clones, w \in Versions :
            localTag'[n][w] = localTag[n][w] \/ (w = v /\ localTag'[n][w] = h)
    BY <2>7, <2>8
  <2>11. \A n \in Clones, w \in Versions : localTag'[n][w] # None =>
           localTag'[n][w] = localTag[n][w] \/ Tested(w, localTag[n][w])'
    BY <2>6, <2>10 DEF Tested
  <2>12. UNCHANGED <<remoteTag, ci>>
    BY <1>1 DEF github
  <2>13. Tags'
    BY <1>1, <2>11, <2>12, TagsStay DEF IInv
  <2> QED BY <1>1, <1>2, <1>4, <2>1, <2>2, <2>9, <2>13, DoneStep
<1> QED BY <1>3, <1>4 DEF Tag

\* The tag that is pushed is the clone's own, of the commit that was tested.
LEMMA PushTagSafe ==
    ASSUME IInv, NEW m \in Clones, PushTag(m)
    PROVE  IInv'
<1>1. /\ TInv' /\ Own(m) /\ Grows /\ shipped' = shipped
      /\ UNCHANGED <<made, head, tree, localTag, main, ci, assets, passed>>
  BY PushTagKeeps DEF IInv, PushTag, clone
<1>2. Doing(m, "push-tag") /\ "push-tag" \in Steps
  BY DEF PushTag, Steps
<1>3. CASE (Abort(m) \/ Refuse(m)) /\ UNCHANGED <<remoteTag, build>>
  <2>1. UNCHANGED <<localTag, github>>
    BY <1>1, <1>3 DEF github
  <2> QED BY <1>1, <1>3, <2>1, LeavingStep
<1>4. CASE remoteTag' = [remoteTag EXCEPT ![TheVersion(m)] = localTag[m][TheVersion(m)]] /\ Done(m)
  <2>1. PICK v \in Versions : v = TheVersion(m)
    BY <1>2, StepFacts
  <2>2. PICK h \in DOMAIN made : h = st[m].head
    BY <1>2, StepFacts
  <2>3. pc[m] = "step" /\ "tag" \notin Elements(plan[m])
    BY <1>2, StepFacts DEF Steps, Rank
  <2>4. localTag[m][v] = h /\ h # None
    BY <2>1, <2>2, <2>3, TagTypes DEF IInv, Planned, None
  <2>5. Tested(v, h)'
    BY <1>1, <2>4, TestedStays DEF IInv, Tags
  <2>6. remoteTag \in [Versions -> DOMAIN made \cup {None}]
    BY DEF IInv, TInv, GitOK
  <2>7. remoteTag' = [remoteTag EXCEPT ![v] = h]
    BY <1>4, <2>1, <2>4
  <2>8. remoteTag'[v] = h /\ \A w \in Versions : w # v => remoteTag'[w] = remoteTag[w]
    BY <2>6, <2>7
  <2>9. \A w \in Versions : remoteTag'[w] # None =>
          remoteTag'[w] = remoteTag[w] \/ Tested(w, remoteTag[w])'
    BY <2>5, <2>8 DEF Tested
  <2>10. Tags'
    BY <1>1, <2>9, TagsStay DEF IInv
  <2> QED BY <1>1, <1>2, <1>4, <2>1, <2>2, <2>8, <2>10, DoneStep
<1> QED BY <1>3, <1>4 DEF PushTag

\* Nothing is left to do: everything that a release needs is there.
LEMMA ReportSafe ==
    ASSUME IInv, NEW m \in Clones, ReportShipped(m)
    PROVE  IInv'
<1>1. /\ TInv' /\ Own(m) /\ Grows /\ UNCHANGED <<made, head, localTag, github>> /\ pc'[m] = "idle"
  BY ReportKeeps DEF IInv
<1>2. /\ pc[m] = "step" /\ plan[m] = <<>>
      /\ shipped' = [shipped EXCEPT ![m] = <<TheVersion(m), st[m].head>>]
  BY DEF ReportShipped, At
<1>3. UNCHANGED <<main, remoteTag, ci, assets, passed, localTag, made>>
  BY <1>1 DEF github
<1>4. Elements(plan[m]) = {}
  BY <1>2 DEF Elements
<1>5. /\ st[m].head \in Past(main) /\ remoteTag[TheVersion(m)] = st[m].head
      /\ TheVersion(m) \in assets
  BY <1>2, <1>4 DEF IInv, Planned
<1>6. ASSUME NEW n \in Clones, shipped'[n][1] # None
      PROVE  /\ remoteTag'[shipped'[n][1]] = shipped'[n][2]
             /\ shipped'[n][2] \in Past(main)' /\ shipped'[n][1] \in assets'
  <2>1. CASE n = m
    BY <1>2, <1>3, <1>5, <2>1 DEF IInv, TInv, ToolOK, Past
  <2>2. CASE n # m
    <3>1. shipped'[n] = shipped[n]
      BY <1>2, <2>2 DEF IInv, TInv, ToolOK
    <3> QED BY <1>3, <1>6, <3>1 DEF IInv, ShippedMeansOut, Past
  <2> QED BY <2>1, <2>2
<1>7. ShippedMeansOut'
  BY <1>6 DEF ShippedMeansOut, Past
<1>8. Tags'
  BY <1>1, <1>3, TagsStay DEF IInv
<1>9. StillSo(m)' /\ Planned(m)'
  BY <1>1, NoClaim DEF ShipSteps
<1> QED BY <1>1, <1>7, <1>8, <1>9, StepKeeps

----------------------------------------------------------------------------
\* The maintainers and GitHub.
LEMMA PullSafe ==
    ASSUME IInv, NEW m \in Clones, Pull(m)
    PROVE  IInv'
<1>1. TInv' /\ Own(m) /\ Grows /\ UNCHANGED <<made, github, tool>> /\ pc[m] = "idle"
  BY PullKeeps DEF IInv
<1>2. UNCHANGED <<remoteTag, ci, pc, shipped>>
  BY <1>1 DEF github, tool
<1>3. \A n \in Clones, v \in Versions :
        localTag'[n][v] = localTag[n][v] \/ localTag'[n][v] = remoteTag[v]
  BY DEF Pull, IInv, TInv, GitOK
<1>4. ASSUME NEW n \in Clones, NEW v \in Versions, localTag'[n][v] # None,
             localTag'[n][v] = remoteTag[v]
      PROVE  Tested(v, localTag[n][v])'
  <2>1. PICK c \in DOMAIN made : c = remoteTag[v]
    BY <1>4, TagTypes DEF IInv
  <2>2. Tested(v, c)'
    BY <1>1, <1>4, <2>1, TestedStays DEF IInv, Tags
  <2> QED BY <1>4, <2>1, <2>2 DEF Tested
<1>5. Tags'
  BY <1>1, <1>2, <1>3, <1>4, TagsStay DEF IInv
<1>6. ShippedMeansOut'
  BY <1>1, <1>2, ShippedStays DEF IInv
<1>7. StillSo(m)' /\ Planned(m)'
  BY <1>1, <1>2, NoClaim DEF ShipSteps
<1> QED BY <1>1, <1>5, <1>6, <1>7, StepKeeps

LEMMA CleanUpSafe ==
    ASSUME IInv, NEW m \in Clones, CleanUp(m)
    PROVE  IInv'
<1>1. TInv' /\ Own(m) /\ Grows /\ UNCHANGED <<made, head, localTag, github, tool>>
  BY CleanUpKeeps DEF IInv
<1>2. UNCHANGED <<pc, st, plan, shipped>>
  BY <1>1 DEF tool
<1>3. StillSo(m)' /\ Planned(m)'
  BY <1>1, <1>2, StillSoStays, PlannedStays DEF IInv
<1> QED BY <1>1, <1>2, <1>3, QuietStep

\* The one step that needs the assumption: HEAD moves only where no tool runs.
LEMMA LocalCommitSafe ==
    ASSUME BusyClone = FALSE, IInv, NEW m \in Clones, LocalCommit(m)
    PROVE  IInv'
<1>1. TInv' /\ Own(m) /\ Grows /\ UNCHANGED <<localTag, github, tool>>
  BY LocalCommitKeeps DEF IInv
<1>2. pc[m] = "idle" /\ UNCHANGED <<pc, shipped>>
  BY <1>1 DEF LocalCommit, At, tool
<1>3. StillSo(m)' /\ Planned(m)'
  BY <1>2, NoClaim DEF ShipSteps
<1> QED BY <1>1, <1>2, <1>3, QuietStep

LEMMA OutsideSafe ==
    ASSUME IInv, OthersPush \/ GitHub
    PROVE  IInv'
<1>1. TInv' /\ Grows /\ UNCHANGED <<clone, tool, remoteTag>>
      /\ \A c \in Commits : ci'[c] = "passed" => ci[c] = "passed" \/ c \in passed'
  BY OthersPushKeeps, GitHubKeeps DEF IInv
<1>2. UNCHANGED <<head, localTag, pc, st, plan, shipped>>
  BY <1>1 DEF clone, tool
<1>3. Tags'
  BY <1>1, <1>2, TagsStay DEF IInv
<1>4. ShippedMeansOut'
  BY <1>1, <1>2, ShippedStays DEF IInv
<1>5. ASSUME NEW n \in Clones PROVE StillSo(n)' /\ Planned(n)'
  BY <1>1, <1>2, StillSoStays, PlannedStays DEF IInv
<1> QED BY <1>1, <1>3, <1>4, <1>5 DEF IInv

----------------------------------------------------------------------------
LEMMA InitSafe == Init => IInv
<1> SUFFICES ASSUME Init PROVE IInv
  OBVIOUS
<1>1. TInv
  BY InitTypes
<1>2. Tags
  BY DEF Init, Tags
<1>3. ShippedMeansOut
  BY DEF Init, ShippedMeansOut
<1>4. \A m \in Clones : StillSo(m) /\ Planned(m)
  BY DEF Init, StillSo, Planned, ShipSteps
<1> QED BY <1>1, <1>2, <1>3, <1>4 DEF IInv

LEMMA NextSafe ==
    ASSUME BusyClone = FALSE, IInv, [Next]_vars
    PROVE  IInv'
<1>1. ASSUME NEW m \in Clones, BeginCut(m) \/ Cut(m) \/ Ship(m) \/ Crash(m)
      PROVE  IInv'
  <2>1. CASE BeginCut(m) \/ BeginShip(m) \/ Cut(m) \/ Crash(m) \/ Decline(m)
    BY <2>1, CutSafe
  <2>2. CASE ReadState(m)
    BY <2>2, FetchSafe, ReadSafe DEF ReadState
  <2>3. CASE Accept(m)
    BY <2>3, AcceptSafe
  <2>4. CASE RunStep(m)
    BY <2>4, PushMainSafe, WaitSafe, TagSafe, PushTagSafe, ReportSafe DEF RunStep
  <2> QED BY <1>1, <2>1, <2>2, <2>3, <2>4 DEF Ship, Ask
<1>2. ASSUME NEW m \in Clones, CleanUp(m) \/ Pull(m) \/ LocalCommit(m)
      PROVE  IInv'
  BY <1>2, CleanUpSafe, PullSafe, LocalCommitSafe
<1>3. CASE OthersPush \/ GitHub
  BY <1>3, OutsideSafe
<1>4. CASE UNCHANGED vars
  <2>1. UNCHANGED <<made, head, tree, localTag, github, clone, tool, faults>>
    BY <1>4 DEF vars, clone
  <2>2. UNCHANGED <<pc, st, plan, shipped, main, remoteTag, ci, build, assets, passed>>
    BY <2>1 DEF tool, github
  <2>3. TInv' /\ Grows
    BY <1>4, NextTypes DEF IInv
  <2>4. Tags' /\ ShippedMeansOut'
    BY <2>1, <2>2, <2>3, TagsStay, ShippedStays DEF IInv
  <2>5. ASSUME NEW n \in Clones PROVE StillSo(n)' /\ Planned(n)'
    BY <2>1, <2>2, <2>3, StillSoStays, PlannedStays DEF IInv
  <2> QED BY <2>3, <2>4, <2>5 DEF IInv
<1> QED BY <1>1, <1>2, <1>3, <1>4 DEF Next

LEMMA Inductive ==
    ASSUME BusyClone = FALSE
    PROVE  Spec => []IInv
<1>1. IInv /\ [Next]_vars => IInv'
  BY NextSafe
<1> QED BY <1>1, InitSafe, PTL DEF Spec

\* A tag that is on GitHub names the release commit of its version, which is on
\* main and which CI has passed, whatever the other clones and people do and
\* wherever runs of the tool failed or died, unless a maintainer commits in a
\* clone where the tool runs.
THEOREM TagIsTested ==
    ASSUME BusyClone = FALSE
    PROVE  Spec => []TagIsTestedRelease
<1>1. IInv => TagIsTestedRelease
  BY DEF IInv, Tags, Tested, TagIsTestedRelease
<1> QED BY <1>1, Inductive, PTL

\* What the tool reports as shipped is out, and stays so.
THEOREM ShippedIsOut ==
    ASSUME BusyClone = FALSE
    PROVE  Spec => []ShippedMeansOut
<1>1. IInv => ShippedMeansOut
  BY DEF IInv
<1> QED BY <1>1, Inductive, PTL
=============================================================================
