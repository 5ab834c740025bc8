------------------------------ MODULE RunMutex ------------------------------
(***************************************************************************)
(* What config.LockPaths promises (internal/config/lock.go:15-19): a run   *)
(* gets both of its webroots in one step, or neither, and no two runs use  *)
(* a webroot at the same time.  RunLock shows how flock provides this.     *)
(***************************************************************************)
CONSTANTS Runs, Paths

VARIABLE using   \* the webroots each run may write to

Init == using = [r \in Runs |-> {}]

Enter(r, S) ==
    /\ using[r] = {}
    /\ \A s \in Runs : using[s] \cap S = {}
    /\ using' = [using EXCEPT ![r] = S]

Leave(r) ==
    /\ using[r] # {}
    /\ using' = [using EXCEPT ![r] = {}]

Next == \E r \in Runs : Leave(r) \/ \E S \in SUBSET Paths : Enter(r, S)

Spec == Init /\ [][Next]_using
============================================================================
