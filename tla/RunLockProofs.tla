--------------------------- MODULE RunLockProofs ---------------------------
(***************************************************************************)
(* Proofs about RunLock, for any number of processes, paths, pairs and     *)
(* attempts.                                                               *)
(***************************************************************************)
EXTENDS RunLock, TLAPS

\* The kernel's view of an flock and the run's own list of lock files agree.
Owns == \A r \in Runs : \A p \in Paths :
            holder[p] = r <=> \E i \in held[r] : want[r][i] = p

\* Which positions a run has locked, by where it is in LockPaths.
Bookkeeping ==
    \A r \in Runs :
        /\ held[r] \subseteq 1..(next[r] - 1)
        /\ pc[r] # "idle" => attempt[r] > 0
        /\ pc[r] = "idle" => held[r] = {}
        /\ pc[r] \in {"lock", "blocked"} => held[r] = 1..(next[r] - 1)
        /\ pc[r] = "blocked" => next[r] <= 2
        /\ pc[r] \in {"lock", "truncate", "stamp"} => blocker[r][1] = NoRun
        /\ pc[r] \in {"truncate", "stamp"} => held[r] = 1..(next[r] - 1) /\ next[r] >= 2
        /\ pc[r] = "write" => held[r] = {1, 2}
        /\ held[r] = {1, 2} => want[r][1] # want[r][2]

\* Positions follow the order of the paths.
Sorted == \A r \in Runs : attempt[r] > 0 => want[r][1] <= want[r][2]

\* What a refusal says of the two attempts that met: the owner had locked, in
\* that attempt, the path the other one wanted; and a run that stops at its
\* second path because both are the same was stopped by itself.
RefusedBy(r, s) ==
    blocker[r] = <<s, attempt[s]>> /\ r # s =>
        /\ attempt[r] > 0 /\ attempt[s] > 0
        /\ next[r] \in {1, 2}
        /\ \E j \in 1..(next[s] - 1) : want[s][j] = want[r][next[r]]
        /\ next[r] = 2 => want[r][1] # want[r][2]

Refusals == \A r, s \in Runs : RefusedBy(r, s)

\* A refusal names an attempt that has begun.
Past == \A r, s \in Runs : blocker[r][1] = s => blocker[r][2] <= attempt[s]

IInv == TypeOK /\ Owns /\ Bookkeeping /\ Sorted /\ Refusals /\ Past

----------------------------------------------------------------------------
LEMMA InitInv == Init => IInv
  <1> SUFFICES ASSUME Init PROVE IInv
    OBVIOUS
  <1> USE LockAssumption DEF Init
  <1>1. (CHOOSE pair \in Pairs : TRUE) \in Paths \X Paths
    OBVIOUS
  <1>2. TypeOK
    BY <1>1 DEF TypeOK, PCs
  <1>3. Owns /\ Bookkeeping /\ Sorted /\ Past
    BY DEF Owns, Bookkeeping, Sorted, Past
  <1>4. Refusals
    BY DEF Refusals, RefusedBy
  <1> QED
    BY <1>2, <1>3, <1>4 DEF IInv

\* The two paths of a request, and its path at a position.
LEMMA Positions ==
  ASSUME TypeOK, NEW r \in Runs
  PROVE  /\ want[r][1] \in Paths /\ want[r][2] \in Paths
         /\ \A i \in {1, 2} : want[r][i] \in Paths
         /\ next[r] \in {1, 2, 3}
  BY DEF TypeOK

LEMMA TargetIsPath ==
  ASSUME TypeOK, NEW r \in Runs, next[r] <= 2
  PROVE  Target(r) \in Paths /\ next[r] \in {1, 2}
  <1>1. next[r] \in {1, 2}
    BY DEF TypeOK
  <1> QED
    BY <1>1, Positions DEF Target

LEMMA StartInv ==
  ASSUME IInv, NEW r \in Runs, NEW pair \in Pairs, Start(r, pair[1], pair[2])
  PROVE  IInv'
  <1> USE LockAssumption DEF IInv, Start
  <1>1. LockOrder(pair[1], pair[2]) \in Paths \X Paths
    BY DEF LockOrder
  <1>2. LockOrder(pair[1], pair[2])[1] <= LockOrder(pair[1], pair[2])[2]
    <2>1. pair[1] \in Nat /\ pair[2] \in Nat
      OBVIOUS
    <2> QED
      BY <2>1 DEF LockOrder
  <1>3. TypeOK'
    BY <1>1 DEF TypeOK, PCs
  <1>4. Owns' /\ Bookkeeping'
    <2>1. held' = held
      BY DEF Bookkeeping, TypeOK
    <2>2. Owns'
      BY <2>1 DEF Owns, Bookkeeping, TypeOK
    <2>3. /\ held'[r] = {} /\ next'[r] = 1 /\ pc'[r] = "lock"
          /\ attempt'[r] > 0 /\ blocker'[r][1] = NoRun
      BY DEF TypeOK
    <2>4. 1..(next'[r] - 1) = {}
      BY <2>3
    <2>5. ASSUME NEW x \in Runs \ {r}
          PROVE  /\ held'[x] = held[x] /\ next'[x] = next[x] /\ pc'[x] = pc[x]
                 /\ attempt'[x] = attempt[x] /\ blocker'[x] = blocker[x]
                 /\ want'[x] = want[x]
      BY <2>1 DEF TypeOK
    <2>6. Bookkeeping'
      <3>1. held'[r] # {1, 2} /\ held'[r] = 1..(next'[r] - 1)
        BY <2>3, <2>4
      <3> SUFFICES ASSUME NEW x \in Runs
                   PROVE  /\ held'[x] \subseteq 1..(next'[x] - 1)
                          /\ pc'[x] # "idle" => attempt'[x] > 0
                          /\ pc'[x] = "idle" => held'[x] = {}
                          /\ pc'[x] \in {"lock", "blocked"} => held'[x] = 1..(next'[x] - 1)
                          /\ pc'[x] = "blocked" => next'[x] <= 2
                          /\ pc'[x] \in {"lock", "truncate", "stamp"} => blocker'[x][1] = NoRun
                          /\ pc'[x] \in {"truncate", "stamp"} =>
                                held'[x] = 1..(next'[x] - 1) /\ next'[x] >= 2
                          /\ pc'[x] = "write" => held'[x] = {1, 2}
                          /\ held'[x] = {1, 2} => want'[x][1] # want'[x][2]
        BY DEF Bookkeeping
      <3>2. CASE x = r
        BY <2>3, <3>1, <3>2
      <3>3. CASE x # r
        BY <2>5, <3>3 DEF Bookkeeping
      <3> QED
        BY <3>2, <3>3
    <2> QED
      BY <2>2, <2>6
  <1>5. Sorted'
    BY <1>2 DEF Sorted, TypeOK
  <1>6. Past'
    BY DEF Past, TypeOK
  <1>7. Refusals'
    <2> SUFFICES ASSUME NEW x \in Runs, NEW y \in Runs, x # y,
                        blocker'[x] = <<y, attempt'[y]>>
                 PROVE  RefusedBy(x, y)'
      BY DEF Refusals, RefusedBy
    <2>1. x # r /\ blocker[x] = blocker'[x]
      BY DEF TypeOK
    <2>2. y # r
      BY <2>1 DEF Past, TypeOK
    <2> QED
      BY <2>1, <2>2 DEF Refusals, RefusedBy, TypeOK
  <1> QED
    BY <1>3, <1>4, <1>5, <1>6, <1>7

LEMMA FlockInv ==
  ASSUME IInv, NEW r \in Runs, Flock(r)
  PROVE  IInv'
  <1> USE LockAssumption, Positions DEF IInv, Flock
  <1>1. TypeOK'
    BY DEF TypeOK, PCs, Target
  <1>2. Owns'
    BY SMTT(30) DEF Owns, Bookkeeping, TypeOK, Target
  <1>3. Bookkeeping'
    <2>1. held'[r] = 1..(next'[r] - 1) /\ next'[r] \in {2, 3}
      <3>1. held[r] = 1..(next[r] - 1) /\ next[r] \in {1, 2}
        BY DEF Bookkeeping
      <3> QED
        BY <3>1 DEF TypeOK
    <2>2. held'[r] = {1, 2} => want[r][1] # want[r][2]
      <3>1. held'[r] = {1, 2} => next[r] = 2 /\ 1 \in held[r]
        <4>1. held[r] = 1..(next[r] - 1) /\ next[r] \in {1, 2}
          BY DEF Bookkeeping
        <4>2. held'[r] = held[r] \cup {next[r]}
          BY DEF TypeOK
        <4>3. next[r] = 1 => held'[r] = {1}
          BY <4>1, <4>2
        <4> QED
          BY <4>1, <4>3
      <3>2. want[r][1] = want[r][2] /\ 1 \in held[r] => holder[want[r][2]] = r
        <4>1. want[r][2] \in Paths
          BY Positions
        <4>2. \A p \in Paths : holder[p] = r <=> \E i \in held[r] : want[r][i] = p
          BY DEF Owns
        <4> QED
          BY <4>1, <4>2
      <3> QED
        BY <3>1, <3>2 DEF Target, TypeOK
    <2>3. pc'[r] = "truncate" /\ blocker'[r][1] = NoRun
      BY DEF Bookkeeping, TypeOK
    <2>4. ASSUME NEW x \in Runs \ {r}
          PROVE  /\ held'[x] = held[x] /\ next'[x] = next[x] /\ pc'[x] = pc[x]
      BY DEF TypeOK
    <2> QED
      BY <2>1, <2>2, <2>3, <2>4 DEF Bookkeeping, TypeOK
  <1>4. Sorted' /\ Past'
    BY DEF Sorted, Past, TypeOK
  <1>5. Refusals'
    <2>1. blocker[r][1] = NoRun
      BY DEF Bookkeeping
    <2>2. ASSUME NEW z \in Runs PROVE next'[z] \in Nat /\ next[z] \in Nat /\ next'[z] >= next[z]
      <3>1. next \in [Runs -> 1..3]
        BY DEF TypeOK
      <3>2. next'[z] = (IF z = r THEN next[z] + 1 ELSE next[z])
        BY <3>1
      <3>3. next[z] \in 1..3
        BY <3>1
      <3> QED
        BY <3>2, <3>3
    <2>3. ASSUME NEW x \in Runs, NEW s \in Runs PROVE RefusedBy(x, s)'
      <3>1. SUFFICES ASSUME blocker[x] = <<s, attempt[s]>>, x # s
                     PROVE  RefusedBy(x, s)'
        BY DEF RefusedBy
      <3>2. x # r
        BY <3>1, <2>1
      <3>3. next'[x] = next[x]
        BY <3>2 DEF TypeOK
      <3>4. RefusedBy(x, s)
        BY DEF Refusals
      <3>5. PICK j \in 1..(next[s] - 1) : want[s][j] = want[x][next[x]]
        BY <3>4, <3>1 DEF RefusedBy
      <3>6. j \in 1..(next'[s] - 1)
        BY <3>5, <2>2
      <3> QED
        BY <3>1, <3>3, <3>4, <3>5, <3>6 DEF RefusedBy
    <2> QED
      BY <2>3 DEF Refusals
  <1> QED
    BY <1>1, <1>2, <1>3, <1>4, <1>5

LEMMA TruncateInv ==
  ASSUME IInv, NEW r \in Runs, Truncate(r)
  PROVE  IInv'
  <1> USE LockAssumption, Positions DEF IInv, Truncate
  <1>1. TypeOK'
    BY DEF TypeOK, PCs, Target
  <1>2. Owns'
    BY DEF Owns, Bookkeeping, TypeOK, Target
  <1>3. Bookkeeping'
    BY DEF Bookkeeping, TypeOK, Target, Owns
  <1>4. Sorted' /\ Past'
    BY DEF Sorted, Past, TypeOK
  <1>5. Refusals'
    BY DEF Refusals, RefusedBy
  <1> QED
    BY <1>1, <1>2, <1>3, <1>4, <1>5

LEMMA WritePidInv ==
  ASSUME IInv, NEW r \in Runs, WritePid(r)
  PROVE  IInv'
  <1> USE LockAssumption, Positions DEF IInv, WritePid
  <1>1. TypeOK'
    BY DEF TypeOK, PCs, Target
  <1>2. Owns'
    BY DEF Owns, Bookkeeping, TypeOK, Target
  <1>3. Bookkeeping'
    BY DEF Bookkeeping, TypeOK, Target, Owns
  <1>4. Sorted' /\ Past'
    BY DEF Sorted, Past, TypeOK
  <1>5. Refusals'
    BY DEF Refusals, RefusedBy
  <1> QED
    BY <1>1, <1>2, <1>3, <1>4, <1>5

LEMMA BlockedInv ==
  ASSUME IInv, NEW r \in Runs, Blocked(r)
  PROVE  IInv'
  <1> USE LockAssumption, Positions DEF IInv, Blocked
  <1>1. TypeOK'
    <2>1. Target(r) \in Paths /\ holder[Target(r)] \in Runs
      <3>1. Target(r) \in Paths
        BY TargetIsPath
      <3> QED
        BY <3>1 DEF TypeOK
    <2>2. attempt[holder[Target(r)]] \in 0..MaxAttempts
      BY <2>1 DEF TypeOK
    <2> QED
      BY <2>1, <2>2 DEF TypeOK, PCs
  <1>2. Owns'
    BY DEF Owns, Bookkeeping, TypeOK, Target
  <1>3. Bookkeeping'
    BY DEF Bookkeeping, TypeOK, Target, Owns
  <1>4. Sorted' /\ Past'
    BY DEF Sorted, Past, TypeOK
  <1>5. Refusals'
    <2> DEFINE h == holder[Target(r)]
    <2>1. h \in Runs /\ Target(r) \in Paths /\ next[r] \in {1, 2}
      <3>1. Target(r) \in Paths /\ next[r] \in {1, 2}
        BY TargetIsPath
      <3> QED
        BY <3>1 DEF TypeOK
    <2>2. \E i \in held[h] : want[h][i] = Target(r)
      BY <2>1 DEF Owns
    <2>3. held[h] \subseteq 1..(next[h] - 1) /\ attempt[h] > 0
      BY <2>1, <2>2 DEF Bookkeeping
    <2>4. attempt[r] > 0 /\ held[r] = 1..(next[r] - 1)
      BY DEF Bookkeeping
    <2>5. h # r /\ next[r] = 2 => want[r][1] # want[r][2]
      <3>1. next[r] = 2 => 1 \in held[r]
        BY <2>4
      <3>2. next[r] = 2 => holder[want[r][1]] = r
        BY <3>1 DEF Owns
      <3> QED
        BY <3>2 DEF Target
    <2>6. blocker' = [blocker EXCEPT ![r] = <<h, attempt[h]>>]
      OBVIOUS
    <2> HIDE DEF h
    <2> SUFFICES ASSUME NEW x \in Runs, NEW y \in Runs, x # y,
                        blocker'[x] = <<y, attempt[y]>>
                 PROVE  RefusedBy(x, y)'
      BY DEF Refusals, RefusedBy
    <2>7. CASE x = r
      <3>1. y = h
        BY <2>6, <2>7 DEF TypeOK
      <3> QED
        BY <2>1, <2>2, <2>3, <2>4, <2>5, <2>7, <3>1 DEF RefusedBy, Target
    <2>8. CASE x # r
      <3>1. blocker[x] = <<y, attempt[y]>> /\ blocker'[x] = blocker[x]
        BY <2>6, <2>8 DEF TypeOK
      <3> QED
        BY <3>1 DEF Refusals, RefusedBy
    <2> QED
      BY <2>7, <2>8
  <1> QED
    BY <1>1, <1>2, <1>3, <1>4, <1>5

LEMMA ReadOwnerInv ==
  ASSUME IInv, NEW r \in Runs, ReadOwner(r)
  PROVE  IInv'
  <1> USE LockAssumption, Positions DEF IInv, ReadOwner
  <1>1. TypeOK'
    <2>1. Target(r) \in Paths
      BY TargetIsPath DEF Bookkeeping
    <2> QED
      BY <2>1 DEF TypeOK, PCs
  <1>2. Owns'
    BY DEF Owns, Bookkeeping, TypeOK, Target
  <1>3. Bookkeeping'
    BY DEF Bookkeeping, TypeOK, Target, Owns
  <1>4. Sorted' /\ Past'
    BY DEF Sorted, Past, TypeOK
  <1>5. Refusals'
    BY DEF Refusals, RefusedBy
  <1> QED
    BY <1>1, <1>2, <1>3, <1>4, <1>5

LEMMA OpenFailsInv ==
  ASSUME IInv, NEW r \in Runs, OpenFails(r)
  PROVE  IInv'
  <1> USE LockAssumption, Positions DEF IInv, OpenFails
  <1>1. TypeOK'
    BY DEF TypeOK, PCs, Target
  <1>2. Owns'
    BY DEF Owns, Bookkeeping, TypeOK, Target
  <1>3. Bookkeeping'
    BY DEF Bookkeeping, TypeOK, Target, Owns
  <1>4. Sorted' /\ Past'
    BY DEF Sorted, Past, TypeOK
  <1>5. Refusals'
    BY DEF Refusals, RefusedBy
  <1> QED
    BY <1>1, <1>2, <1>3, <1>4, <1>5

LEMMA GrantedInv ==
  ASSUME IInv, NEW r \in Runs, Granted(r)
  PROVE  IInv'
  <1> USE LockAssumption, Positions DEF IInv, Granted
  <1>1. TypeOK'
    BY DEF TypeOK, PCs, Target
  <1>2. Owns'
    BY DEF Owns, Bookkeeping, TypeOK, Target
  <1>3. Bookkeeping'
    BY DEF Bookkeeping, TypeOK, Target, Owns
  <1>4. Sorted' /\ Past'
    BY DEF Sorted, Past, TypeOK
  <1>5. Refusals'
    BY DEF Refusals, RefusedBy
  <1> QED
    BY <1>1, <1>2, <1>3, <1>4, <1>5

LEMMA EndRunInv ==
  ASSUME IInv, NEW r \in Runs, EndRun(r)
  PROVE  IInv'
  <1> USE LockAssumption, Positions DEF IInv, EndRun
  <1>1. TypeOK'
    BY DEF TypeOK, PCs, Target
  <1>2. Owns'
    BY DEF Owns, Bookkeeping, TypeOK, Target
  <1>3. Bookkeeping'
    BY DEF Bookkeeping, TypeOK, Target, Owns
  <1>4. Sorted' /\ Past'
    BY DEF Sorted, Past, TypeOK
  <1>5. Refusals'
    BY DEF Refusals, RefusedBy
  <1> QED
    BY <1>1, <1>2, <1>3, <1>4, <1>5

LEMMA ReturnInv ==
  ASSUME IInv, NEW r \in Runs, Return(r)
  PROVE  IInv'
  <1> USE LockAssumption, Positions DEF IInv, Return
  <1>1. TypeOK'
    BY DEF TypeOK, PCs, Target
  <1>2. Owns'
    BY DEF Owns, Bookkeeping, TypeOK, Target
  <1>3. Bookkeeping'
    BY DEF Bookkeeping, TypeOK, Target, Owns
  <1>4. Sorted' /\ Past'
    BY DEF Sorted, Past, TypeOK
  <1>5. Refusals'
    BY DEF Refusals, RefusedBy
  <1> QED
    BY <1>1, <1>2, <1>3, <1>4, <1>5

LEMMA UnlockInv ==
  ASSUME IInv, NEW r \in Runs, NEW i \in {1, 2}, Unlock(r, i)
  PROVE  IInv'
  <1> USE LockAssumption, Positions DEF IInv, Unlock
  <1>1. TypeOK'
    BY DEF TypeOK, PCs, Target
  <1>2. Owns'
    <2>1. \A j \in held[r] \ {i} : want[r][j] # want[r][i]
      <3>1. held[r] \subseteq {1, 2}
        BY DEF TypeOK
      <3>2. held[r] = {1, 2} => want[r][1] # want[r][2]
        BY DEF Bookkeeping
      <3> QED
        BY <3>1, <3>2
    <2>2. holder[want[r][i]] = r
      BY DEF Owns
    <2>3. ASSUME NEW x \in Runs, NEW p \in Paths
          PROVE  holder'[p] = x <=> \E j \in held'[x] : want'[x][j] = p
      <3>1. CASE x = r
        BY <2>1, <3>1 DEF Owns, TypeOK
      <3>2. CASE x # r
        BY <2>2, <3>2 DEF Owns, TypeOK
      <3> QED
        BY <3>1, <3>2
    <2> QED
      BY <2>3 DEF Owns
  <1>3. Bookkeeping'
    BY DEF Bookkeeping, TypeOK, Target, Owns
  <1>4. Sorted' /\ Past'
    BY DEF Sorted, Past, TypeOK
  <1>5. Refusals'
    BY DEF Refusals, RefusedBy
  <1> QED
    BY <1>1, <1>2, <1>3, <1>4, <1>5

LEMMA CrashInv ==
  ASSUME IInv, NEW r \in Runs, Crash(r)
  PROVE  IInv'
  <1> USE LockAssumption, Positions DEF IInv, Crash
  <1>1. TypeOK'
    BY DEF TypeOK, PCs, Target
  <1>2. Owns'
    BY DEF Owns, Bookkeeping, TypeOK, Target
  <1>3. Bookkeeping'
    BY DEF Bookkeeping, TypeOK, Target, Owns
  <1>4. Sorted' /\ Past'
    BY DEF Sorted, Past, TypeOK
  <1>5. Refusals'
    BY DEF Refusals, RefusedBy
  <1> QED
    BY <1>1, <1>2, <1>3, <1>4, <1>5

LEMMA StepInv == IInv /\ [Next]_vars => IInv'
  <1> SUFFICES ASSUME IInv, [Next]_vars PROVE IInv'
    OBVIOUS
  <1>1. CASE UNCHANGED vars
    BY <1>1 DEF vars, IInv, TypeOK, Owns, Bookkeeping, Sorted, Refusals,
                RefusedBy, Past
  <1>2. ASSUME NEW r \in Runs, NEW pair \in Pairs, Start(r, pair[1], pair[2])
        PROVE  IInv'
    BY <1>2, StartInv
  <1>3. ASSUME NEW r \in Runs, Progress(r)
        PROVE  IInv'
    BY <1>3, FlockInv, TruncateInv, WritePidInv, BlockedInv, ReadOwnerInv,
       GrantedInv, EndRunInv, ReturnInv, UnlockInv DEF Progress
  <1>4. ASSUME NEW r \in Runs, Crash(r)
        PROVE  IInv'
    BY <1>4, CrashInv
  <1>5. ASSUME NEW r \in Runs, OpenFails(r)
        PROVE  IInv'
    BY <1>5, OpenFailsInv
  <1> QED
    BY <1>1, <1>2, <1>3, <1>4, <1>5 DEF Next

----------------------------------------------------------------------------
\* The strengthened invariant holds in every reachable state.
THEOREM IInvHolds == Spec => []IInv
  BY InitInv, StepInv, PTL DEF Spec

\* The variables keep their types.
THEOREM TypesHold == Spec => []TypeOK
  <1>1. IInv => TypeOK
    BY DEF IInv
  <1> QED
    BY <1>1, IInvHolds, PTL

\* No two runs that LockPaths let in share a path: both would own its lock
\* file, and an flock has one owner.
THEOREM ExclusiveUseHolds == Spec => []ExclusiveUse
  <1>1. IInv => ExclusiveUse
    <2> SUFFICES ASSUME IInv, NEW r \in Runs, NEW s \in Runs, r # s,
                        pc[r] = "write", pc[s] = "write",
                        NEW p \in PathsOf(r) \cap PathsOf(s)
                 PROVE  FALSE
      BY DEF ExclusiveUse
    <2>1. p \in Paths
      BY Positions DEF PathsOf, IInv
    <2>2. held[r] = {1, 2} /\ held[s] = {1, 2}
      BY DEF IInv, Bookkeeping
    <2>3. holder[p] = r /\ holder[p] = s
      BY <2>1, <2>2 DEF PathsOf, IInv, Owns
    <2> QED
      BY <2>3
  <1> QED
    BY <1>1, IInvHolds, PTL

\* A process that is not in a run owns no lock file.
THEOREM NoLeakedLockHolds == Spec => []NoLeakedLock
  <1>1. IInv => NoLeakedLock
    BY DEF IInv, NoLeakedLock, Owns, Bookkeeping
  <1> QED
    BY <1>1, IInvHolds, PTL

\* Two attempts never turn each other away.  Each would own a path the other
\* one wanted next; positions follow the sort order, so both would have
\* stopped at their second path with the same first path in hand.
THEOREM NoMutualRefusalHolds == Spec => []NoMutualRefusal
  <1>1. IInv => NoMutualRefusal
    <2> SUFFICES ASSUME IInv, NEW r \in Runs, NEW s \in Runs, r # s,
                        blocker[r] = <<s, attempt[s]>>,
                        blocker[s] = <<r, attempt[r]>>
                 PROVE  FALSE
      BY DEF NoMutualRefusal
    <2>1. /\ attempt[r] > 0 /\ attempt[s] > 0
          /\ next[r] \in {1, 2} /\ next[s] \in {1, 2}
          /\ \E j \in 1..(next[s] - 1) : want[s][j] = want[r][next[r]]
          /\ \E j \in 1..(next[r] - 1) : want[r][j] = want[s][next[s]]
          /\ next[r] = 2 => want[r][1] # want[r][2]
          /\ next[s] = 2 => want[s][1] # want[s][2]
      BY DEF IInv, Refusals, RefusedBy
    <2>2. next[r] = 2 /\ next[s] = 2
      BY <2>1
    <2>3. want[s][1] = want[r][2] /\ want[r][1] = want[s][2]
      BY <2>1, <2>2
    <2>4. want[r][1] <= want[r][2] /\ want[s][1] <= want[s][2]
      BY <2>1 DEF IInv, Sorted
    <2>5. want[r][1] \in Nat /\ want[r][2] \in Nat
      BY Positions, LockAssumption DEF IInv
    <2> QED
      BY <2>1, <2>2, <2>3, <2>4, <2>5
  <1> QED
    BY <1>1, IInvHolds, PTL

\* The same promise for the folders behind the paths, which is what the
\* comment at lock.go:15-16 says, holds when no two paths lead to one folder.
THEOREM OneWriterPerSiteHolds ==
  ASSUME \A p, q \in Paths : Webroot[p] = Webroot[q] => p = q
  PROVE  Spec => []OneWriterPerSite
  <1>1. TypeOK /\ ExclusiveUse => OneWriterPerSite
    <2> SUFFICES ASSUME TypeOK, ExclusiveUse, NEW r \in Runs, NEW s \in Runs,
                        r # s, pc[r] = "write", pc[s] = "write",
                        NEW p \in PathsOf(r), NEW q \in PathsOf(s)
                 PROVE  Webroot[p] # Webroot[q]
      BY DEF OneWriterPerSite
    <2>1. p \in Paths /\ q \in Paths
      BY Positions DEF PathsOf
    <2>2. p # q
      BY DEF ExclusiveUse
    <2> QED
      BY <2>1, <2>2
  <1> QED
    BY <1>1, TypesHold, ExclusiveUseHolds, PTL

----------------------------------------------------------------------------
\* A run that LockPaths lets in enters the mutex in that one step.
LEMMA GrantedEnters ==
  ASSUME IInv, NEW r \in Runs, Granted(r), ExclusiveUse'
  PROVE  Mutex!Next \/ UNCHANGED InUse
  <1>1. /\ InUse[r] = {} /\ PathsOf(r) \in SUBSET Paths
        /\ InUse' = [InUse EXCEPT ![r] = PathsOf(r)]
    <2>1. PathsOf(r) \in SUBSET Paths
      BY Positions DEF PathsOf, IInv
    <2> QED
      BY <2>1 DEF InUse, Granted, IInv, TypeOK, PathsOf
  <1>2. ASSUME NEW s \in Runs PROVE InUse[s] \cap PathsOf(r) = {}
    <2>1. CASE s = r
      BY <2>1, <1>1
    <2>2. CASE s # r
      <3>1. CASE pc[s] # "write"
        BY <3>1 DEF InUse
      <3>2. CASE pc[s] = "write"
        <4>1. /\ pc' = [pc EXCEPT ![r] = "write"] /\ want' = want
          BY DEF Granted
        <4>2. pc \in [Runs -> PCs]
          BY DEF IInv, TypeOK
        <4>3. pc'[r] = "write" /\ pc'[s] = "write"
          BY <4>1, <4>2, <3>2, <2>2
        <4>4. PathsOf(r)' \cap PathsOf(s)' = {}
          BY <4>3, <2>2 DEF ExclusiveUse
        <4>5. PathsOf(r)' = PathsOf(r) /\ PathsOf(s)' = PathsOf(s)
          BY <4>1 DEF PathsOf
        <4> QED
          BY <4>4, <4>5, <3>2 DEF InUse
      <3> QED
        BY <3>1, <3>2
    <2> QED
      BY <2>1, <2>2
  <1>3. Mutex!Enter(r, PathsOf(r))
    BY <1>1, <1>2 DEF Mutex!Enter, InUse
  <1> QED
    BY <1>1, <1>3 DEF Mutex!Next, Mutex!Enter

\* A run that ends, or dies while it writes, leaves the mutex.
LEMMA EndLeaves ==
  ASSUME IInv, NEW r \in Runs, EndRun(r) \/ Crash(r)
  PROVE  Mutex!Next \/ UNCHANGED InUse
  <1>1. CASE pc[r] = "write"
    <2>1. InUse[r] # {}
      BY <1>1 DEF InUse, PathsOf
    <2>2. InUse' = [InUse EXCEPT ![r] = {}]
      BY <1>1 DEF InUse, EndRun, Crash, IInv, TypeOK, PathsOf
    <2>3. Mutex!Leave(r)
      BY <2>1, <2>2 DEF Mutex!Leave, InUse
    <2> QED
      BY <2>3 DEF Mutex!Next
  <1>2. CASE pc[r] # "write"
    BY <1>2 DEF InUse, EndRun, Crash, IInv, TypeOK, PathsOf
  <1> QED
    BY <1>1, <1>2

\* Every other step is invisible in the mutex.
LEMMA OthersStutter ==
  ASSUME IInv, NEW r \in Runs,
         \/ \E pair \in Pairs : Start(r, pair[1], pair[2])
         \/ Flock(r) \/ Truncate(r) \/ WritePid(r) \/ Blocked(r)
         \/ ReadOwner(r) \/ OpenFails(r) \/ Return(r)
         \/ \E i \in {1, 2} : Unlock(r, i)
  PROVE  UNCHANGED InUse
  <1>1. \A s \in Runs : (pc'[s] = "write") <=> (pc[s] = "write")
    BY DEF IInv, TypeOK, Start, Flock, Truncate, WritePid, Blocked, ReadOwner,
           OpenFails, Return, Unlock
  <1>2. \A s \in Runs : pc[s] = "write" => PathsOf(s)' = PathsOf(s)
    BY DEF IInv, TypeOK, Start, Flock, Truncate, WritePid, Blocked, ReadOwner,
           OpenFails, Return, Unlock, PathsOf
  <1> QED
    BY <1>1, <1>2 DEF InUse

\* The flock protocol implements the atomic mutex: both paths of a run are
\* taken in one visible step, and given back in one.
THEOREM LockImplementsMutex == Spec => ImplementsMutex
  <1>1. Init => Mutex!Init
    BY DEF Init, Mutex!Init, InUse
  <1>2. IInv /\ ExclusiveUse' /\ [Next]_vars => [Mutex!Next]_InUse
    <2> SUFFICES ASSUME IInv, ExclusiveUse', [Next]_vars
                 PROVE  Mutex!Next \/ UNCHANGED InUse
      OBVIOUS
    <2>1. CASE UNCHANGED vars
      BY <2>1 DEF vars, InUse, PathsOf
    <2>2. ASSUME NEW r \in Runs, NEW pair \in Pairs, Start(r, pair[1], pair[2])
          PROVE  UNCHANGED InUse
      BY <2>2, OthersStutter
    <2>3. ASSUME NEW r \in Runs, Progress(r)
          PROVE  Mutex!Next \/ UNCHANGED InUse
      BY <2>3, GrantedEnters, EndLeaves, OthersStutter DEF Progress
    <2>4. ASSUME NEW r \in Runs, Crash(r)
          PROVE  Mutex!Next \/ UNCHANGED InUse
      BY <2>4, EndLeaves
    <2>5. ASSUME NEW r \in Runs, OpenFails(r)
          PROVE  UNCHANGED InUse
      BY <2>5, OthersStutter
    <2> QED
      BY <2>1, <2>2, <2>3, <2>4, <2>5 DEF Next
  <1> QED
    BY <1>1, <1>2, IInvHolds, ExclusiveUseHolds, PTL
       DEF Spec, ImplementsMutex, Mutex!Spec

============================================================================
