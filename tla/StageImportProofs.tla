------------------------- MODULE StageImportProofs -------------------------
(***************************************************************************)
(* Proofs about StageImport, for every set of tables, every export and any *)
(* number of runs.  The inductive invariant IInv says, phase by phase,     *)
(* where the rows that were there when the import began now are.           *)
(***************************************************************************)
EXTENDS StageImport, FiniteSetTheorems, TLAPS

\* The rows of table t, as the import found them, are in backup s.
Holds(s) == before[backups[s]] # Absent /\ bak[s] = before[backups[s]]

\* Some backup name stands for t.
Covered(t) == \E s \in Slots : backups[s] = t

Restored(t) == tab[t] = before[t]

----------------------------------------------------------------------------
\* The conjuncts of the inductive invariant.

Running == phase # "idle" => outcome = "running"

\* A name that is in no backup is not in the database either, once the
\* leftovers of earlier runs are gone.
Quiet ==
    phase \in {"move", "load", "list", "drop", "rename", "discard"} \/ outcome = "restored" =>
        \A s \in Slots : backups[s] = NoTable => bak[s] = Absent

Clearing ==
    phase = "clear" =>
        /\ tab = before
        /\ Filled \subseteq todo
        /\ index = 0 /\ loaded = {}
        /\ \A s \in Slots : backups[s] = NoTable

Moving ==
    phase = "move" =>
        /\ todo \subseteq Tables /\ loaded = {}
        /\ index + Cardinality(todo) <= Cardinality(Tables)
        /\ \A s \in Slots : s >= index => backups[s] = NoTable
        /\ \A t \in Tables :
              IF t \in todo
              THEN tab[t] = before[t] /\ tab[t] # Absent
              ELSE tab[t] = Absent /\ (before[t] # Absent => Covered(t))

Aside ==
    /\ phase \in {"move", "load", "list", "drop"} => \A s \in Moved : Holds(s)
    /\ phase = "rename" => todo \subseteq Moved /\ \A s \in todo : Holds(s)
    /\ loaded # Exported =>
          \A s \in Moved : /\ before[backups[s]] # Absent
                           /\ Holds(s) \/ Restored(backups[s])

\* After a failed statement of the export, no table was left unmoved.
AllCovered ==
    phase = "load" \/ cause = "load" =>
        \A t \in Tables : before[t] # Absent => Covered(t)

Loading ==
    phase = "load" =>
        /\ todo \subseteq Exported
        /\ todo \cap loaded = {}
        /\ Exported \subseteq todo \cup loaded
        /\ \A t \in loaded : tab[t] = Goal(t)
        /\ \A t \in Tables \ loaded :
              \/ tab[t] = Absent
              \/ t \in todo /\ Bucket[t] # 1 /\ tab[t] = Shell(t)

Discarding ==
    /\ phase = "discard" => loaded = Exported /\ tab = NewTables /\ Filled \subseteq todo
    /\ outcome = "ok" => phase = "idle" /\ tab = NewTables /\ Filled = {}

Restoring ==
    /\ phase = "drop" /\ clean => Present \subseteq todo
    /\ (phase = "rename" \/ outcome = "restored") /\ clean =>
          /\ \A t \in Tables : tab[t] # Absent => Restored(t)
          /\ \A s \in Moved : \/ phase = "rename" /\ s \in todo
                              \/ bak[s] = Absent /\ Restored(backups[s])

IInv ==
    /\ TypeOK /\ OwnRows /\ Running /\ Quiet /\ Clearing /\ Moving
    /\ Aside /\ AllCovered /\ Loading /\ Discarding /\ Restoring
    /\ \A t \in Tables : before[t] # Absent => before[t].of = t

----------------------------------------------------------------------------
\* What the proofs use of the row values: nothing below looks inside them.
LEMMA Values ==
    /\ Absent \notin Data
    /\ \A t \in Tables : Shell(t) \in Data /\ Shell(t) # Absent /\ Shell(t).of = t
    /\ \A t \in Tables : Copy(t) \in Data /\ Copy(t) # Absent /\ Copy(t).of = t
    /\ \A t \in Tables : Prev(t) \in Data /\ Prev(t) # Absent /\ Prev(t).of = t
  BY DEF Absent, Data, Shell, Copy, Prev

LEMMA GoalValue ==
    \A t \in Exported : Goal(t) \in Data /\ Goal(t) # Absent /\ Goal(t).of = t
  BY Values, ImportAssumption DEF Goal

LEMMA Sizes == Cardinality(Tables) \in Nat
  BY ImportAssumption, FS_CardinalityType

LEMMA InitInv == Init => IInv
  <1> SUFFICES ASSUME Init PROVE IInv
    OBVIOUS
  <1> USE ImportAssumption, Values DEF Init
  <1>1. TypeOK
    BY Sizes DEF TypeOK, Slots, Phases
  <1>2. OwnRows /\ \A t \in Tables : before[t] # Absent => before[t].of = t
    BY DEF OwnRows
  <1>3. Running /\ Quiet /\ Clearing /\ Moving /\ Loading /\ AllCovered /\ Discarding /\ Restoring
    BY DEF Running, Quiet, Clearing, Moving, Loading, AllCovered, Discarding, Restoring
  <1>4. Aside
    BY DEF Aside, Moved
  <1> QED
    BY <1>1, <1>2, <1>3, <1>4 DEF IInv
LEMMA BeginInv ==
  ASSUME IInv, Begin
  PROVE  IInv'
  <1> USE ImportAssumption, Values DEF IInv, Begin, ram, history
  <1>1. TypeOK'
    BY DEF TypeOK, Phases, Filled
  <1>2. OwnRows' /\ (\A u \in Tables : before[u] # Absent => before[u].of = u)'
    BY DEF OwnRows, TypeOK
  <1>3. Running' /\ Quiet' /\ Clearing'
    BY DEF Running, Quiet, Clearing, TypeOK, Filled, Moved
  <1>4. Moving'
    BY DEF Running, Moving, TypeOK, Covered
  <1>5. Aside'
    BY DEF Aside, Holds, Restored, Moved, TypeOK
  <1>6. AllCovered' /\ Loading'
    BY DEF AllCovered, Loading, Covered, Moving, TypeOK
  <1>7. Discarding' /\ Restoring'
    BY DEF Running, Discarding, Restoring, Filled, Moved, Restored, Present, TypeOK, NewTables
  <1> QED
    BY <1>1, <1>2, <1>3, <1>4, <1>5, <1>6, <1>7

LEMMA ClearStaleInv ==
  ASSUME IInv, NEW s \in Slots, ClearStale(s)
  PROVE  IInv'
  <1> USE ImportAssumption, Values DEF IInv, ClearStale, ram, history
  <1>1. TypeOK'
    BY DEF TypeOK, Phases
  <1>2. OwnRows' /\ (\A u \in Tables : before[u] # Absent => before[u].of = u)'
    BY DEF OwnRows, TypeOK
  <1>3. Running' /\ Quiet' /\ Clearing'
    BY DEF Running, Quiet, Clearing, TypeOK, Filled, Moved
  <1>4. Moving'
    BY DEF Running, Moving, TypeOK, Covered
  <1>5. Aside'
    BY DEF Aside, Clearing, Moved
  <1>6. AllCovered' /\ Loading'
    BY DEF AllCovered, Loading, Covered, Moving, TypeOK
  <1>7. Discarding' /\ Restoring'
    BY DEF Running, Discarding, Restoring, Filled, Moved, Restored, Present, TypeOK, NewTables
  <1> QED
    BY <1>1, <1>2, <1>3, <1>4, <1>5, <1>6, <1>7

LEMMA ClearedInv ==
  ASSUME IInv, Cleared
  PROVE  IInv'
  <1> USE ImportAssumption, Values DEF IInv, Cleared, ram, history
  <1>1. TypeOK'
    BY DEF TypeOK, Phases, Present
  <1>2. OwnRows' /\ (\A u \in Tables : before[u] # Absent => before[u].of = u)'
    BY DEF OwnRows, TypeOK
  <1>3. Running' /\ Quiet' /\ Clearing'
    BY DEF Running, Quiet, Clearing, TypeOK, Filled, Moved
  <1>4. Moving'
    <2>1. Cardinality(Present) <= Cardinality(Tables) /\ Cardinality(Present) \in Nat
      BY FS_Subset, FS_CardinalityType DEF Present
    <2> QED
      BY <2>1, Sizes DEF Clearing, Moving, Present, TypeOK
  <1>5. Aside'
    BY DEF Aside, Clearing, Moved
  <1>6. AllCovered' /\ Loading'
    BY DEF AllCovered, Loading, Covered, Moving, TypeOK
  <1>7. Discarding' /\ Restoring'
    BY DEF Running, Discarding, Restoring, Filled, Moved, Restored, Present, TypeOK, NewTables
  <1> QED
    BY <1>1, <1>2, <1>3, <1>4, <1>5, <1>6, <1>7

LEMMA MoveAsideInv ==
  ASSUME IInv, NEW t \in Tables, MoveAside(t)
  PROVE  IInv'
  <1> USE ImportAssumption, Values DEF IInv, MoveAside, ram, history
  <1>1. /\ IsFiniteSet(todo)
        /\ Cardinality(todo \ {t}) = Cardinality(todo) - 1
        /\ Cardinality(todo) \in Nat
    BY FS_Subset, FS_RemoveElement, FS_CardinalityType DEF Moving
  <1>2. index \in Slots /\ index \in Nat /\ index + 1 + Cardinality(todo') <= Cardinality(Tables)
    <2>1. Cardinality(todo \ {t}) \in Nat
      BY <1>1, FS_RemoveElement, FS_CardinalityType
    <2> QED
      BY <1>1, <2>1, Sizes DEF Moving, Slots, TypeOK
  <1>3. /\ backups[index] = NoTable /\ backups'[index] = t
        /\ bak'[index] = before[t] /\ before[t] # Absent
        /\ \A s \in Slots \ {index} : backups'[s] = backups[s] /\ bak'[s] = bak[s]
    BY <1>2 DEF Moving, TypeOK
  <1>4. TypeOK'
    <2>1. tab' \in [Tables -> Data \cup {Absent}] /\ bak' \in [Slots -> Data \cup {Absent}]
      BY DEF TypeOK
    <2>2. backups' \in [Slots -> Tables \cup {NoTable}]
      BY DEF TypeOK
    <2>3. index' \in Nat /\ todo' \subseteq Tables
      BY <1>2 DEF Moving
    <2> QED
      BY <2>1, <2>2, <2>3 DEF TypeOK
  <1>5. OwnRows' /\ (\A u \in Tables : before[u] # Absent => before[u].of = u)'
    BY DEF OwnRows, TypeOK
  <1>6. Running' /\ Quiet' /\ Clearing'
    BY <1>3 DEF Running, Quiet, Clearing
  <1>7. Moving'
    <2>1. \A s \in Slots : s >= index + 1 => backups'[s] = NoTable
      BY <1>2, <1>3 DEF Moving, Slots
    <2>2. ASSUME NEW u \in Tables
          PROVE  IF u \in todo'
                 THEN tab'[u] = before[u] /\ tab'[u] # Absent
                 ELSE tab'[u] = Absent /\ (before[u] # Absent => Covered(u)')
      <3>1. CASE u = t
        BY <1>2, <1>3, <3>1 DEF TypeOK, Covered
      <3>2. CASE u # t
        BY <1>2, <1>3, <3>2 DEF TypeOK, Moving, Covered
      <3> QED
        BY <3>1, <3>2
    <2> QED
      BY <1>2, <2>1, <2>2 DEF Moving
  <1>8. Aside'
    <2>1. \A s \in Moved' : Holds(s)'
      BY <1>3 DEF Aside, Moved, Holds
    <2> QED
      BY <2>1 DEF Aside, Holds
  <1>9. AllCovered' /\ Loading' /\ Discarding' /\ Restoring'
    <2>1. cause # "load" \/ AllCovered'
      BY <1>2, <1>3 DEF AllCovered, Covered
    <2> QED
      BY <2>1 DEF AllCovered, Loading, Discarding, Restoring, Running
  <1> QED
    BY <1>4, <1>5, <1>6, <1>7, <1>8, <1>9

LEMMA MoveFailsInv ==
  ASSUME IInv, MoveFails
  PROVE  IInv'
  <1> USE ImportAssumption, Values DEF IInv, MoveFails, ram, history
  <1>1. TypeOK'
    BY DEF TypeOK, Phases
  <1>2. OwnRows' /\ (\A u \in Tables : before[u] # Absent => before[u].of = u)'
    BY DEF OwnRows, TypeOK
  <1>3. Running' /\ Quiet' /\ Clearing'
    BY DEF Running, Quiet, Clearing, TypeOK, Filled, Moved
  <1>4. Moving'
    BY DEF Running, Moving, TypeOK, Covered
  <1>5. Aside'
    BY DEF Aside, Holds, Restored, Moved, TypeOK
  <1>6. AllCovered' /\ Loading'
    BY DEF AllCovered, Loading, Covered, Moving, TypeOK
  <1>7. Discarding' /\ Restoring'
    BY DEF Running, Discarding, Restoring, Filled, Moved, Restored, Present, TypeOK, NewTables
  <1> QED
    BY <1>1, <1>2, <1>3, <1>4, <1>5, <1>6, <1>7

LEMMA AllMovedInv ==
  ASSUME IInv, AllMoved
  PROVE  IInv'
  <1> USE ImportAssumption, Values DEF IInv, AllMoved, ram, history
  <1>1. TypeOK'
    BY DEF TypeOK, Phases
  <1>2. OwnRows' /\ (\A u \in Tables : before[u] # Absent => before[u].of = u)'
    BY DEF OwnRows, TypeOK
  <1>3. Running' /\ Quiet' /\ Clearing'
    BY DEF Running, Quiet, Clearing, TypeOK, Filled, Moved
  <1>4. Moving'
    BY DEF Running, Moving, TypeOK, Covered
  <1>5. Aside'
    BY DEF Aside, Holds, Restored, Moved, TypeOK
  <1>6. AllCovered' /\ Loading'
    BY DEF AllCovered, Loading, Covered, Moving, TypeOK
  <1>7. Discarding' /\ Restoring'
    BY DEF Running, Discarding, Restoring, Filled, Moved, Restored, Present, TypeOK, NewTables
  <1> QED
    BY <1>1, <1>2, <1>3, <1>4, <1>5, <1>6, <1>7

LEMMA LoadSchemaInv ==
  ASSUME IInv, NEW t \in Tables, LoadSchema(t)
  PROVE  IInv'
  <1> USE ImportAssumption, Values DEF IInv, LoadSchema, NextToLoad, ram, history
  <1>1. TypeOK'
    BY DEF TypeOK, Phases, Loading
  <1>2. OwnRows' /\ (\A u \in Tables : before[u] # Absent => before[u].of = u)'
    BY DEF OwnRows, TypeOK
  <1>3. Running' /\ Quiet' /\ Clearing'
    BY DEF Running, Quiet, Clearing, TypeOK, Filled, Moved
  <1>4. Moving'
    BY DEF Running, Moving, TypeOK, Covered
  <1>5. Aside'
    BY DEF Aside, Holds, Restored, Moved, TypeOK
  <1>6. AllCovered' /\ Loading'
    BY DEF AllCovered, Loading, Covered, Goal, TypeOK
  <1>7. Discarding' /\ Restoring'
    BY DEF Running, Discarding, Restoring, Filled, Moved, Restored, Present, TypeOK, NewTables
  <1> QED
    BY <1>1, <1>2, <1>3, <1>4, <1>5, <1>6, <1>7

LEMMA LoadRowsInv ==
  ASSUME IInv, NEW t \in Tables, LoadRows(t)
  PROVE  IInv'
  <1> USE ImportAssumption, Values DEF IInv, LoadRows, NextToLoad, ram, history
  <1>1. TypeOK'
    BY DEF TypeOK, Phases, Loading
  <1>2. OwnRows' /\ (\A u \in Tables : before[u] # Absent => before[u].of = u)'
    BY DEF OwnRows, TypeOK
  <1>3. Running' /\ Quiet' /\ Clearing'
    BY DEF Running, Quiet, Clearing, TypeOK, Filled, Moved
  <1>4. Moving'
    BY DEF Running, Moving, TypeOK, Covered
  <1>5. Aside'
    BY DEF Aside, Holds, Restored, Moved, TypeOK
  <1>6. AllCovered' /\ Loading'
    BY DEF AllCovered, Loading, Covered, Goal, TypeOK
  <1>7. Discarding' /\ Restoring'
    BY DEF Running, Discarding, Restoring, Filled, Moved, Restored, Present, TypeOK, NewTables
  <1> QED
    BY <1>1, <1>2, <1>3, <1>4, <1>5, <1>6, <1>7

LEMMA LoadFailsInv ==
  ASSUME IInv, LoadFails
  PROVE  IInv'
  <1> USE ImportAssumption, Values DEF IInv, LoadFails, ram, history
  <1>1. TypeOK'
    BY DEF TypeOK, Phases
  <1>2. OwnRows' /\ (\A u \in Tables : before[u] # Absent => before[u].of = u)'
    BY DEF OwnRows, TypeOK
  <1>3. Running' /\ Quiet' /\ Clearing'
    BY DEF Running, Quiet, Clearing, TypeOK, Filled, Moved
  <1>4. Moving'
    BY DEF Running, Moving, TypeOK, Covered
  <1>5. Aside'
    BY DEF Aside, Holds, Restored, Moved, TypeOK
  <1>6. AllCovered' /\ Loading'
    BY DEF AllCovered, Loading, Covered, Moving, TypeOK
  <1>7. Discarding' /\ Restoring'
    BY DEF Running, Discarding, Restoring, Filled, Moved, Restored, Present, TypeOK, NewTables
  <1> QED
    BY <1>1, <1>2, <1>3, <1>4, <1>5, <1>6, <1>7

LEMMA AllLoadedInv ==
  ASSUME IInv, AllLoaded
  PROVE  IInv'
  <1> USE ImportAssumption, Values DEF IInv, AllLoaded, ram, history
  <1>1. TypeOK'
    BY DEF TypeOK, Phases, Moved
  <1>2. OwnRows' /\ (\A u \in Tables : before[u] # Absent => before[u].of = u)'
    BY DEF OwnRows, TypeOK
  <1>3. Running' /\ Quiet' /\ Clearing'
    BY DEF Running, Quiet, Clearing, TypeOK, Filled, Moved
  <1>4. Moving'
    BY DEF Running, Moving, TypeOK, Covered
  <1>5. Aside'
    BY DEF Aside, Holds, Restored, Moved, TypeOK
  <1>6. AllCovered' /\ Loading'
    BY DEF AllCovered, Loading, Covered, Moving, TypeOK
  <1>7. Discarding' /\ Restoring'
    BY DEF Running, Discarding, Restoring, Filled, Moved, Restored, Present, TypeOK, NewTables, Loading, Quiet
  <1> QED
    BY <1>1, <1>2, <1>3, <1>4, <1>5, <1>6, <1>7

LEMMA RestoreListInv ==
  ASSUME IInv, RestoreList
  PROVE  IInv'
  <1> USE ImportAssumption, Values DEF IInv, RestoreList, ram, history
  <1>1. TypeOK'
    BY DEF TypeOK, Phases, Present, Moved
  <1>2. OwnRows' /\ (\A u \in Tables : before[u] # Absent => before[u].of = u)'
    BY DEF OwnRows, TypeOK
  <1>3. Running' /\ Quiet' /\ Clearing'
    BY DEF Running, Quiet, Clearing, TypeOK, Filled, Moved
  <1>4. Moving'
    BY DEF Running, Moving, TypeOK, Covered
  <1>5. Aside'
    BY DEF Aside, Holds, Restored, Moved, TypeOK
  <1>6. AllCovered' /\ Loading'
    BY DEF AllCovered, Loading, Covered, Moving, TypeOK
  <1>7. Discarding' /\ Restoring'
    BY DEF Running, Discarding, Restoring, Filled, Moved, Restored, Present, TypeOK, NewTables
  <1> QED
    BY <1>1, <1>2, <1>3, <1>4, <1>5, <1>6, <1>7

LEMMA RestoreDropInv ==
  ASSUME IInv, NEW t \in Tables, RestoreDrop(t)
  PROVE  IInv'
  <1> USE ImportAssumption, Values DEF IInv, RestoreDrop, ram, history
  <1>1. TypeOK'
    BY DEF TypeOK, Phases
  <1>2. OwnRows' /\ (\A u \in Tables : before[u] # Absent => before[u].of = u)'
    BY DEF OwnRows, TypeOK
  <1>3. Running' /\ Quiet' /\ Clearing'
    BY DEF Running, Quiet, Clearing, TypeOK, Filled, Moved
  <1>4. Moving'
    BY DEF Running, Moving, TypeOK, Covered
  <1>5. Aside'
    BY DEF Aside, Holds, Restored, Moved, TypeOK
  <1>6. AllCovered' /\ Loading'
    BY DEF AllCovered, Loading, Covered, Moving, TypeOK
  <1>7. Discarding' /\ Restoring'
    BY DEF Running, Discarding, Restoring, Filled, Moved, Restored, Present, TypeOK, NewTables
  <1> QED
    BY <1>1, <1>2, <1>3, <1>4, <1>5, <1>6, <1>7

LEMMA RestoreDroppedInv ==
  ASSUME IInv, RestoreDropped
  PROVE  IInv'
  <1> USE ImportAssumption, Values DEF IInv, RestoreDropped, ram, history
  <1>1. TypeOK'
    BY DEF TypeOK, Phases, Moved
  <1>2. OwnRows' /\ (\A u \in Tables : before[u] # Absent => before[u].of = u)'
    BY DEF OwnRows, TypeOK
  <1>3. Running' /\ Quiet' /\ Clearing'
    BY DEF Running, Quiet, Clearing, TypeOK, Filled, Moved
  <1>4. Moving'
    BY DEF Running, Moving, TypeOK, Covered
  <1>5. Aside'
    BY DEF Aside, Holds, Restored, Moved, TypeOK
  <1>6. AllCovered' /\ Loading'
    BY DEF AllCovered, Loading, Covered, Moving, TypeOK
  <1>7. Discarding' /\ Restoring'
    BY DEF Running, Discarding, Restoring, Filled, Moved, Restored, Present, TypeOK, NewTables
  <1> QED
    BY <1>1, <1>2, <1>3, <1>4, <1>5, <1>6, <1>7

LEMMA RestoreRenameInv ==
  ASSUME IInv, NEW s \in Slots, RestoreRename(s)
  PROVE  IInv'
  <1> DEFINE b == backups[s]
  <1> USE ImportAssumption, Values DEF IInv, RestoreRename
  <1>1. b \in Tables /\ s \in Moved /\ bak[s] = before[b] /\ before[b] # Absent
    BY DEF Aside, Moved, Holds, TypeOK
  <1> HIDE DEF b
  <1>2. TypeOK'
    <2>1. tab' \in [Tables -> Data \cup {Absent}]
      <3>1. CASE tab' = tab
        BY <3>1 DEF TypeOK
      <3>2. CASE tab' = [tab EXCEPT ![b] = bak[s]]
        <4>1. tab \in [Tables -> Data \cup {Absent}] /\ bak[s] \in Data \cup {Absent}
          BY DEF TypeOK
        <4> QED
          BY <4>1, <3>2 DEF TypeOK
      <3> QED
        BY <3>1, <3>2 DEF b
    <2>2. bak' \in [Slots -> Data \cup {Absent}]
      <3>1. bak \in [Slots -> Data \cup {Absent}]
        BY DEF TypeOK
      <3>2. bak' = bak \/ bak' = [bak EXCEPT ![s] = Absent]
        OBVIOUS
      <3> QED
        BY <3>1, <3>2
    <2>3. todo' \subseteq Slots /\ phase' = "rename" /\ clean' \in BOOLEAN
      BY DEF TypeOK
    <2> QED
      BY <2>1, <2>2, <2>3 DEF TypeOK
  <1>3. tab' = tab \/ tab' = [tab EXCEPT ![b] = before[b]]
    BY <1>1 DEF b
  <1>4. OwnRows' /\ (\A u \in Tables : before[u] # Absent => before[u].of = u)'
    BY <1>1, <1>3 DEF OwnRows, TypeOK
  <1>5. Running' /\ Quiet' /\ Clearing' /\ Moving' /\ AllCovered' /\ Loading' /\ Discarding'
    BY DEF Running, Quiet, Clearing, Moving, AllCovered, Covered, Loading, Discarding, TypeOK
  <1>6. Aside'
    BY DEF Aside, Holds, Restored, Moved, TypeOK
  <1>7. Restoring'
    <2>1. CASE ~clean'
      BY <2>1 DEF Restoring
    <2>2. CASE clean'
      <3>1. /\ clean /\ tab[b] = Absent
            /\ tab' = [tab EXCEPT ![b] = before[b]]
            /\ bak' = [bak EXCEPT ![s] = Absent]
        BY <1>1, <2>2 DEF TypeOK, b
      <3>2. \A t \in Tables : tab'[t] # Absent => Restored(t)'
        BY <3>1, <1>1 DEF Restoring, Restored, TypeOK
      <3>3. ASSUME NEW z \in Moved', z \notin todo'
            PROVE  bak'[z] = Absent /\ Restored(backups[z])'
        <4>1. CASE z = s
          BY <4>1, <3>1, <1>1 DEF Restored, TypeOK, b
        <4>2. CASE z # s
          <5>1. z \in Moved /\ z \notin todo /\ z \in Slots /\ backups[z] \in Tables
            BY <4>2, <3>3 DEF Moved, TypeOK
          <5>2. bak[z] = Absent /\ Restored(backups[z])
            BY <5>1, <3>1 DEF Restoring
          <5>3. Restored(backups[z])'
            BY <5>1, <5>2, <3>1, <1>1 DEF Restored, TypeOK
          <5> QED
            BY <5>1, <5>2, <5>3, <3>1, <4>2 DEF Restored, TypeOK
        <4> QED
          BY <4>1, <4>2
      <3> QED
        BY <3>2, <3>3, <2>2 DEF Restoring, Running
    <2> QED
      BY <2>1, <2>2 DEF TypeOK
  <1> QED
    BY <1>2, <1>4, <1>5, <1>6, <1>7

LEMMA RestoreDoneInv ==
  ASSUME IInv, RestoreDone
  PROVE  IInv'
  <1> USE ImportAssumption, Values DEF IInv, RestoreDone, ram, history
  <1>1. TypeOK'
    BY DEF TypeOK, Phases
  <1>2. OwnRows' /\ (\A u \in Tables : before[u] # Absent => before[u].of = u)'
    BY DEF OwnRows, TypeOK
  <1>3. Running' /\ Quiet' /\ Clearing'
    BY DEF Running, Quiet, Clearing, TypeOK, Filled, Moved
  <1>4. Moving'
    BY DEF Running, Moving, TypeOK, Covered
  <1>5. Aside'
    BY DEF Aside, Holds, Restored, Moved, TypeOK
  <1>6. AllCovered' /\ Loading'
    BY DEF AllCovered, Loading, Covered, Moving, TypeOK
  <1>7. Discarding' /\ Restoring'
    BY DEF Running, Discarding, Restoring, Filled, Moved, Restored, Present, TypeOK, NewTables
  <1> QED
    BY <1>1, <1>2, <1>3, <1>4, <1>5, <1>6, <1>7

LEMMA DiscardInv ==
  ASSUME IInv, NEW s \in Slots, Discard(s)
  PROVE  IInv'
  <1> USE ImportAssumption, Values DEF IInv, Discard, ram, history
  <1>1. TypeOK'
    BY DEF TypeOK, Phases
  <1>2. OwnRows' /\ (\A u \in Tables : before[u] # Absent => before[u].of = u)'
    BY DEF OwnRows, TypeOK
  <1>3. Running' /\ Quiet' /\ Clearing'
    BY DEF Running, Quiet, Clearing, TypeOK, Filled, Moved
  <1>4. Moving'
    BY DEF Running, Moving, TypeOK, Covered
  <1>5. Aside'
    BY DEF Aside, Discarding
  <1>6. AllCovered' /\ Loading'
    BY DEF AllCovered, Loading, Covered, Moving, TypeOK
  <1>7. Discarding' /\ Restoring'
    BY DEF Running, Discarding, Restoring, Filled, Moved, Restored, Present, TypeOK, NewTables
  <1> QED
    BY <1>1, <1>2, <1>3, <1>4, <1>5, <1>6, <1>7

LEMMA FinishInv ==
  ASSUME IInv, Finish
  PROVE  IInv'
  <1> USE ImportAssumption, Values DEF IInv, Finish, ram, history
  <1>1. TypeOK'
    BY DEF TypeOK, Phases
  <1>2. OwnRows' /\ (\A u \in Tables : before[u] # Absent => before[u].of = u)'
    BY DEF OwnRows, TypeOK
  <1>3. Running' /\ Quiet' /\ Clearing'
    BY DEF Running, Quiet, Clearing, TypeOK, Filled, Moved
  <1>4. Moving'
    BY DEF Running, Moving, TypeOK, Covered
  <1>5. Aside'
    BY DEF Aside, Holds, Restored, Moved, TypeOK
  <1>6. AllCovered' /\ Loading'
    BY DEF AllCovered, Loading, Covered, Moving, TypeOK
  <1>7. Discarding' /\ Restoring'
    BY DEF Running, Discarding, Restoring, Filled, Moved, Restored, Present, TypeOK, NewTables
  <1> QED
    BY <1>1, <1>2, <1>3, <1>4, <1>5, <1>6, <1>7

LEMMA ReturnErrorInv ==
  ASSUME IInv, ReturnError
  PROVE  IInv'
  <1> USE ImportAssumption, Values DEF IInv, ReturnError, ram, history
  <1>1. TypeOK'
    BY DEF TypeOK, Phases
  <1>2. OwnRows' /\ (\A u \in Tables : before[u] # Absent => before[u].of = u)'
    BY DEF OwnRows, TypeOK
  <1>3. Running' /\ Quiet' /\ Clearing'
    BY DEF Running, Quiet, Clearing, TypeOK, Filled, Moved
  <1>4. Moving'
    BY DEF Running, Moving, TypeOK, Covered
  <1>5. Aside'
    BY DEF Aside, Holds, Restored, Moved, TypeOK
  <1>6. AllCovered' /\ Loading'
    BY DEF AllCovered, Loading, Covered, Moving, TypeOK
  <1>7. Discarding' /\ Restoring'
    BY DEF Running, Discarding, Restoring, Filled, Moved, Restored, Present, TypeOK, NewTables
  <1> QED
    BY <1>1, <1>2, <1>3, <1>4, <1>5, <1>6, <1>7

LEMMA CrashInv ==
  ASSUME IInv, Crash
  PROVE  IInv'
  <1> USE ImportAssumption, Values DEF IInv, Crash, ram, history
  <1>1. TypeOK'
    BY DEF TypeOK, Phases
  <1>2. OwnRows' /\ (\A u \in Tables : before[u] # Absent => before[u].of = u)'
    BY DEF OwnRows, TypeOK
  <1>3. Running' /\ Quiet' /\ Clearing'
    BY DEF Running, Quiet, Clearing, TypeOK, Filled, Moved
  <1>4. Moving'
    BY DEF Running, Moving, TypeOK, Covered
  <1>5. Aside'
    BY DEF Aside, Holds, Restored, Moved, TypeOK
  <1>6. AllCovered' /\ Loading'
    BY DEF AllCovered, Loading, Covered, Moving, TypeOK
  <1>7. Discarding' /\ Restoring'
    BY DEF Running, Discarding, Restoring, Filled, Moved, Restored, Present, TypeOK, NewTables
  <1> QED
    BY <1>1, <1>2, <1>3, <1>4, <1>5, <1>6, <1>7

LEMMA StepInv == IInv /\ [Next]_vars => IInv'
  <1> SUFFICES ASSUME IInv, [Next]_vars PROVE IInv'
    OBVIOUS
  <1>1. CASE Begin
    BY <1>1, BeginInv
  <1>2. CASE Step
    <2>1. CASE \E s \in Slots : ClearStale(s) \/ RestoreRename(s) \/ Discard(s)
      BY <2>1, ClearStaleInv, RestoreRenameInv, DiscardInv
    <2>2. CASE \E t \in Tables : MoveAside(t) \/ LoadSchema(t) \/ LoadRows(t) \/ RestoreDrop(t)
      BY <2>2, MoveAsideInv, LoadSchemaInv, LoadRowsInv, RestoreDropInv
    <2>3. CASE Cleared \/ AllMoved \/ AllLoaded
      BY <2>3, ClearedInv, AllMovedInv, AllLoadedInv
    <2>4. CASE RestoreList \/ RestoreDropped \/ RestoreDone \/ Finish
      BY <2>4, RestoreListInv, RestoreDroppedInv, RestoreDoneInv, FinishInv
    <2> QED
      BY <1>2, <2>1, <2>2, <2>3, <2>4 DEF Step
  <1>3. CASE MoveFails \/ LoadFails \/ ReturnError \/ Crash
    BY <1>3, MoveFailsInv, LoadFailsInv, ReturnErrorInv, CrashInv
  <1>4. CASE UNCHANGED vars
    BY <1>4 DEF vars, ram, history, IInv, TypeOK, OwnRows, Running, Quiet, Clearing,
                Moving, Aside, AllCovered, Loading, Discarding, Restoring,
                Filled, Moved, Present, Holds, Covered, Restored
  <1> QED
    BY <1>1, <1>2, <1>3, <1>4 DEF Next

\* The inductive invariant holds of every run of Import.
THEOREM IInvHolds == Spec => []IInv
  BY InitInv, StepInv, PTL DEF Spec

\* The variables keep their types, for any tables and any number of runs.
THEOREM TypesHold == Spec => []TypeOK
  <1>1. IInv => TypeOK
    BY DEF IInv
  <1> QED
    BY <1>1, IInvHolds, PTL

\* sync.Import never renames a backup to the name of another table.
THEOREM OwnRowsHold == Spec => []OwnRows
  <1>1. IInv => OwnRows
    BY DEF IInv
  <1> QED
    BY <1>1, IInvHolds, PTL

\* Rows that were moved aside are never lost before the import is complete.
THEOREM AsideAlwaysSurvives == Spec => []AsideSurvives
  <1>1. IInv => AsideSurvives
    BY DEF IInv, Aside, Holds, Restored, AsideSurvives
  <1> QED
    BY <1>1, IInvHolds, PTL

\* A failed statement of the export is rolled back exactly.
THEOREM RollbackIsExact == Spec => []RollbackExact
  <1>1. IInv => RollbackExact
    <2> SUFFICES ASSUME IInv, outcome = "restored", cause = "load", clean
                 PROVE  tab = before /\ Filled = {}
      BY DEF RollbackExact
    <2>1. phase = "idle"
      BY DEF IInv, Running
    <2>2. \A s \in Moved : bak[s] = Absent /\ Restored(backups[s])
      BY <2>1 DEF IInv, Restoring
    <2>3. Filled = {}
      BY <2>2 DEF IInv, Quiet, Filled, Moved
    <2>4. ASSUME NEW t \in Tables PROVE tab[t] = before[t]
      <3>1. CASE tab[t] # Absent
        BY <3>1 DEF IInv, Restoring, Restored
      <3>2. CASE tab[t] = Absent
        <4>1. before[t] # Absent => \E s \in Slots : backups[s] = t
          BY DEF IInv, AllCovered, Covered
        <4> QED
          BY <4>1, <3>2, <2>2, ImportAssumption DEF Moved, Restored
      <3> QED
        BY <3>1, <3>2
    <2> QED
      BY <2>3, <2>4 DEF IInv, TypeOK
  <1> QED
    BY <1>1, IInvHolds, PTL

\* A successful import leaves exactly the exported tables and no backup.
THEOREM ImportIsExact == Spec => []ImportExact
  <1>1. IInv => ImportExact
    BY DEF IInv, Discarding, ImportExact, NewTables
  <1> QED
    BY <1>1, IInvHolds, PTL

----------------------------------------------------------------------------
(* Import implements its contract (ImportContract), the fairness apart.       *)

\* What is moved aside had rows, and restoreBackups loses none of them.
Kept ==
    /\ \A s \in Moved : before[backups[s]] # Absent
    /\ phase = "rename" => \A s \in Moved : Holds(s) \/ Restored(backups[s])

LEMMA KeptInit == Init => Kept
  BY DEF Init, Kept, Moved

\* Only three actions can disturb Kept: a new map, a new entry, a rename back.
LEMMA KeptStep == IInv /\ Kept /\ [Next]_vars => Kept'
  <1> SUFFICES ASSUME IInv, Kept, [Next]_vars
               PROVE  Kept'
    OBVIOUS
  <1> USE ImportAssumption DEF IInv, TypeOK, ram, history
  <1>1. CASE Begin
    BY <1>1 DEF Begin, Kept, Moved
  <1>2. ASSUME NEW t \in Tables, MoveAside(t)
        PROVE  Kept'
    <2>1. before[t] # Absent
      BY <1>2 DEF MoveAside, Moving
    <2>2. index \in Slots /\ backups' = [backups EXCEPT ![index] = t]
      <3>1. Cardinality(todo) # 0 /\ Cardinality(todo) \in Nat
        BY <1>2, FS_Subset, FS_CardinalityType, FS_EmptySet DEF MoveAside
      <3> QED
        BY <1>2, <3>1, Sizes DEF MoveAside, Moving, Slots
    <2>3. \A s \in Moved' : s = index \/ (s \in Moved /\ backups'[s] = backups[s])
      <3>1. ASSUME NEW s \in Slots, backups'[s] # NoTable, s # index
            PROVE  backups[s] # NoTable /\ backups'[s] = backups[s]
        BY <2>2, <3>1
      <3> QED
        BY <3>1 DEF Moved
    <2> QED
      BY <1>2, <2>1, <2>2, <2>3 DEF MoveAside, Kept
  <1>3. ASSUME NEW s \in Slots, RestoreRename(s)
        PROVE  Kept'
    <2>1. CASE bak' = bak /\ tab' = tab
      BY <1>3, <2>1 DEF RestoreRename, Kept, Moved, Holds, Restored
    <2>2. CASE tab[backups[s]] = Absent /\ tab' = [tab EXCEPT ![backups[s]] = bak[s]]
               /\ bak' = [bak EXCEPT ![s] = Absent]
      <3>1. s \in Moved /\ Holds(s) /\ backups[s] \in Tables
        BY <1>3 DEF RestoreRename, Aside, Moved
      <3>2. ASSUME NEW u \in Moved
            PROVE  (Holds(u) \/ Restored(backups[u]))'
        <4>1. CASE backups[u] = backups[s]
          BY <1>3, <2>2, <3>1, <4>1 DEF RestoreRename, Holds, Restored
        <4>2. CASE backups[u] # backups[s]
          BY <1>3, <2>2, <3>1, <3>2, <4>2 DEF RestoreRename, Kept, Moved, Holds, Restored
        <4> QED
          BY <4>1, <4>2
      <3> QED
        BY <1>3, <3>2 DEF RestoreRename, Kept, Moved
    <2> QED
      BY <1>3, <2>1, <2>2 DEF RestoreRename
  <1>4. CASE RestoreList \/ RestoreDropped
    BY <1>4 DEF RestoreList, RestoreDropped, Kept, Moved, Holds, Aside
  <1>5. ASSUME UNCHANGED <<backups, before>>, phase' # "rename"
        PROVE  Kept'
    BY <1>5 DEF Kept, Moved
  <1>6. CASE UNCHANGED vars
    BY <1>6 DEF vars, Kept, Moved, Holds, Restored
  <1>7. ASSUME NEW t \in Tables, LoadSchema(t) \/ LoadRows(t) \/ RestoreDrop(t)
        PROVE  Kept'
    BY <1>5, <1>7 DEF LoadSchema, LoadRows, RestoreDrop, NextToLoad
  <1>8. ASSUME NEW s \in Slots, ClearStale(s) \/ Discard(s)
        PROVE  Kept'
    BY <1>5, <1>8 DEF ClearStale, Discard
  <1>9. CASE Cleared \/ AllMoved \/ AllLoaded \/ RestoreDone \/ Finish
    BY <1>5, <1>9 DEF Cleared, AllMoved, AllLoaded, RestoreDone, Finish
  <1>10. CASE MoveFails \/ LoadFails \/ ReturnError \/ Crash
    BY <1>5, <1>10 DEF MoveFails, LoadFails, ReturnError, Crash
  <1> QED
    BY <1>1, <1>2, <1>3, <1>4, <1>6, <1>7, <1>8, <1>9, <1>10 DEF Next, Step

\* Until the new tables are complete, nothing that was moved aside is lost.
LEMMA SafeOrNew ==
    IInv /\ Kept /\ phase # "idle" => Safe \/ (phase = "discard" /\ tab = NewTables)
  <1> SUFFICES ASSUME IInv, Kept, phase # "idle"
               PROVE  Safe \/ (phase = "discard" /\ tab = NewTables)
    OBVIOUS
  <1> USE DEF Safe, Holds, Restored, Moved
  <1>1. CASE phase = "clear"
    BY <1>1 DEF IInv, Clearing
  <1>2. CASE phase \in {"move", "load", "list", "drop"}
    BY <1>2 DEF IInv, Aside
  <1>3. CASE phase = "rename"
    BY <1>3 DEF Kept
  <1>4. CASE phase = "discard"
    BY <1>4 DEF IInv, Discarding
  <1> QED
    BY <1>1, <1>2, <1>3, <1>4 DEF IInv, TypeOK, Phases

\* A step inside an import is a change that the contract allows.
LEMMA InsideChanges ==
  ASSUME IInv, Kept, IInv', Kept', phase # "idle", phase' # "idle",
         UNCHANGED before,
         phase = "discard" => \E s \in Slots : Discard(s)
  PROVE  Contract!Change
  <1>1. Status = "importing" /\ Status' = "importing"
    BY DEF Status
  <1>2. Stage' \in {"old", "new", "between"} /\ Safe' \in BOOLEAN
    BY DEF Stage, Safe
  <1>3. Safe' \/ Stage' = "new"
    <2>1. (IInv /\ Kept /\ phase # "idle" => Safe \/ (phase = "discard" /\ tab = NewTables))'
      BY SafeOrNew, PTL
    <2> QED
      BY <2>1 DEF Stage
  <1>4. ASSUME ~ Safe
        PROVE  Stage' = Stage /\ Safe' = Safe
    <2>1. PICK s \in Slots : Discard(s)
      BY <1>4, SafeOrNew
    <2>2. PICK u \in Moved : before[backups[u]] \notin {tab[backups[u]], bak[u]}
      BY <1>4 DEF Safe
    <2>3. UNCHANGED <<tab, backups, before>> /\ Moved' = Moved
      BY <2>1 DEF Discard, history, Moved
    <2>4. bak'[u] \in {bak[u], Absent}
      BY <2>1, <2>2 DEF Discard, IInv, TypeOK, Moved
    <2>5. before[backups[u]] # Absent
      BY <2>2 DEF Kept
    <2>6. ~ Safe'
      BY <2>2, <2>3, <2>4, <2>5 DEF Safe
    <2> QED
      BY <1>2, <1>4, <2>3, <2>6 DEF Stage, NewTables, Safe
  <1> QED
    BY <1>1, <1>2, <1>3, <1>4 DEF Contract!Change

\* Leaving Import in any way is an end that the contract allows.
LEMMA LeavingEnds ==
  ASSUME IInv, Kept, RestoreDone \/ Finish \/ ReturnError \/ Crash
  PROVE  Contract!End
  <1> USE DEF RestoreDone, Finish, ReturnError, Crash
  <1>1. phase # "idle" /\ phase' = "idle"
    OBVIOUS
  <1>2. Status = "importing" /\ Status' = outcome'
    BY <1>1 DEF Status
  <1>3. UNCHANGED <<tab, bak, backups, before>>
    BY DEF history
  <1>4. Stage' = Stage /\ Safe' = Safe
    BY <1>3 DEF Stage, Safe, Moved, NewTables
  <1>5. outcome' = "ok" => Stage = "new"
    BY DEF IInv, Discarding, Stage
  <1>6. outcome' = "restored" => Safe
    BY SafeOrNew
  <1> QED
    BY <1>2, <1>4, <1>5, <1>6 DEF Contract!End

\* The renames, drops and restores of Import implement its contract, for every
\* export and every sequence of failures and crashes.
THEOREM ImportKeepsContract == Spec => ImplementsContract
  <1>1. Init => Contract!Init
    BY DEF Init, Contract!Init, Status, Stage, Safe, Moved
  <1>2. IInv /\ Kept /\ IInv' /\ Kept' /\ [Next]_vars => [Contract!Next]_(Contract!view)
    <2> SUFFICES ASSUME IInv, Kept, IInv', Kept', [Next]_vars
                 PROVE  Contract!Next \/ UNCHANGED Contract!view
      OBVIOUS
    <2>1. CASE Begin
      <3>1. Status # "importing" /\ Status' = "importing"
        BY <2>1 DEF Begin, Status, IInv, TypeOK
      <3>2. Stage' # "between" /\ Safe'
        BY <2>1 DEF Begin, Stage, Safe, Moved
      <3> QED
        BY <3>1, <3>2 DEF Contract!Next, Contract!Begin
    <2>2. CASE RestoreDone \/ Finish \/ ReturnError \/ Crash
      BY <2>2, LeavingEnds DEF Contract!Next
    <2>3. ASSUME NEW s \in Slots, ClearStale(s) \/ RestoreRename(s) \/ Discard(s)
          PROVE  Contract!Change
      BY <2>3, InsideChanges DEF ClearStale, RestoreRename, Discard, history
    <2>4. ASSUME NEW t \in Tables, MoveAside(t) \/ LoadSchema(t) \/ LoadRows(t) \/ RestoreDrop(t)
          PROVE  Contract!Change
      BY <2>4, InsideChanges DEF MoveAside, LoadSchema, LoadRows, NextToLoad, RestoreDrop, history
    <2>5. CASE Cleared \/ AllMoved \/ AllLoaded \/ MoveFails \/ LoadFails
      <3>1. phase # "idle" /\ phase # "discard" /\ phase' # "idle" /\ before' = before
        BY <2>5 DEF Cleared, AllMoved, AllLoaded, MoveFails, LoadFails, history
      <3> QED
        BY <3>1, InsideChanges DEF Contract!Next
    <2>7. CASE RestoreList \/ RestoreDropped
      <3>1. phase # "idle" /\ phase # "discard" /\ phase' # "idle" /\ before' = before
        BY <2>7 DEF RestoreList, RestoreDropped, history
      <3> QED
        BY <3>1, InsideChanges DEF Contract!Next
    <2>6. CASE UNCHANGED vars
      BY <2>6 DEF vars, ram, history, Contract!view, Status, Stage, Safe, Moved, NewTables
    <2> QED
      BY <2>1, <2>2, <2>3, <2>4, <2>5, <2>6, <2>7 DEF Next, Step, Contract!Next
  <1>3. Spec => []Kept
    BY KeptInit, KeptStep, IInvHolds, PTL DEF Spec
  <1> QED
    BY <1>1, <1>2, <1>3, IInvHolds, PTL DEF Spec, ImplementsContract, Contract!Spec
============================================================================
