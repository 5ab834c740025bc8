------------------------- MODULE ExportFilterProofs -------------------------
(***************************************************************************)
(* What the export takes fits together, whatever live does meanwhile: the  *)
(* proofs of ExportFilter's invariants for any number of accounts, rows    *)
(* and changes, any OrderCount and any set of modes.                       *)
(***************************************************************************)
EXTENDS ExportFilter, FiniteSetTheorems, SequenceTheorems, TLAPS

Of(s, type) == {i \in DOMAIN s.rows : s.rows[i].type = type}

\* The reference's part about the orders: fewer than Count come before.
Newest(s) ==
    {i \in Of(s, "order") :
        Cardinality({j \in Of(s, "order") : IF last THEN j > i ELSE j < i}) < Count}

Customers(s, ids) == {s.rows[i].customer : i \in ids \cap DOMAIN s.rows}

Several(s) == {u \in Users : s.role[u] = "both"}

Staff(s) == {u \in Users : s.role[u] = "staff"}

\* The tables that the export lists.
Listed ==
    IF woo THEN Tables ELSE {"comments", "commentmeta", "posts", "postmeta", "users"}

Elements(s) == {s[k] : k \in DOMAIN s}

ToDump == Elements(todo)

\* The queries are past the choice of the orders and their refunds.
OrdersTaken == woo /\ pc \in {"staff", "several", "customers", "items", "dump", "done"}

\* The queries are past the choice of the accounts.
UsersTaken == woo /\ pc \in {"items", "dump", "done"}

----------------------------------------------------------------------------
\* What every state of live keeps, and so does a snapshot of it.
Sound(s) ==
    /\ s.rows \in Seq(Row) /\ s.rows # <<>> /\ DOMAIN s.rows \subseteq Ids
    /\ s.details \subseteq DOMAIN s.rows
    /\ s.role \in [Users -> Roles]
    /\ \A i \in Of(s, "order") : s.rows[i].customer \in People
    /\ \A i \in Of(s, "refund") : s.rows[i].parent \in Of(s, "order")

\* There is a snapshot once a query was asked, and every query but those of the
\* dump is about the shop.
Snapshot ==
    /\ Sound(Live)
    /\ view = NoView \/ Sound(view)
    /\ pc \in {"store", "failed"} => view = NoView
    /\ view = NoView /\ pc \notin {"store", "failed"} =>
         ~ woo /\ pc = "dump" /\ Listed \subseteq ToDump
    /\ pc \notin {"store", "failed", "dump", "done"} => woo

\* Only orders are chosen, and the refunds of chosen orders.
Chosen ==
    /\ pc = "refunds" => targets \subseteq Of(view, "order")
    /\ OrdersTaken =>
         /\ targets \subseteq Of(view, "order") \cup Of(view, "refund")
         /\ \A i \in targets \cap Of(view, "refund") : view.rows[i].parent \in targets

\* While no query failed unnoticed, these are the orders that were wanted.
ChosenExactly ==
    ~ swallowed =>
        /\ woo /\ pc \notin {"store", "failed"} =>
             store = IF hpos THEN "wc_orders" ELSE "posts"
        /\ pc = "refunds" => targets = Newest(view)
        /\ OrdersTaken => targets = Wanted(view)

\* The accounts: those with rights, and the customers of the chosen orders.
Known ==
    /\ pc \in {"several", "customers"} => users \subseteq Staff(view) \cup Several(view)
    /\ UsersTaken =>
         /\ Customers(view, targets) \cap Users \subseteq users
         /\ users \subseteq Staff(view) \cup Several(view) \cup Customers(view, targets)
    /\ ~ swallowed =>
         /\ pc \in {"several", "customers"} \/ UsersTaken => Staff(view) \subseteq users
         /\ pc = "customers" \/ UsersTaken => Several(view) \subseteq users

\* A listed table is still to dump, or was dumped from the snapshot.
Dumped ==
    /\ dump \in [Tables -> SUBSET (People \cup Ids)]
    /\ woo /\ pc \in {"dump", "done"} => itemIds = view.details \cap Shop(view) \cap targets
    /\ pc \in {"dump", "done"} =>
         \A t \in Listed : t \in ToDump \/ dump[t] = Exported(view, t)
    /\ pc = "dump" => todo # <<>> /\ ToDump \subseteq Listed
    /\ pc = "done" => todo = <<>>

\* The inductive invariant.
IInv == TypeOK /\ Snapshot /\ Chosen /\ ChosenExactly /\ Known /\ Dumped

----------------------------------------------------------------------------
\* j comes before i in the order of the query.
Before(j, i) == IF last THEN j > i ELSE j < i

Earlier(ids, i) == {j \in ids : Before(j, i)}

\* What ORDER BY gives: each row, behind those that come before it.
IsSorted(s, ids) ==
    /\ s \in [1..Cardinality(ids) -> ids]
    /\ \A a, b \in DOMAIN s : a < b => Before(s[a], s[b])

\* The rows that come before another one are fewer than all.
LEMMA EarlierAreFewer ==
    ASSUME NEW ids \in SUBSET Nat, IsFiniteSet(ids), NEW i \in ids
    PROVE  /\ Cardinality(Earlier(ids, i)) \in Nat
           /\ Cardinality(Earlier(ids, i)) + 1 \in 1..Cardinality(ids)
           /\ \A j \in Earlier(ids, i) : Cardinality(Earlier(ids, j)) < Cardinality(Earlier(ids, i))
<1>1. Earlier(ids, i) \in SUBSET ids /\ i \notin Earlier(ids, i)
  BY DEF Earlier, Before
<1>2. /\ IsFiniteSet(Earlier(ids, i))
      /\ Cardinality(Earlier(ids, i)) <= Cardinality(ids)
      /\ Cardinality(Earlier(ids, i)) # Cardinality(ids)
  BY <1>1, FS_Subset
<1>3. Cardinality(ids) \in Nat /\ Cardinality(Earlier(ids, i)) \in Nat
  BY <1>2, FS_CardinalityType
<1>4. ASSUME NEW j \in Earlier(ids, i)
      PROVE  Cardinality(Earlier(ids, j)) < Cardinality(Earlier(ids, i))
  <2> j \in ids /\ i \in Nat /\ \A k \in ids : k \in Nat
    BY <1>4 DEF Earlier
  <2>a. \A k \in ids : Before(k, j) => Before(k, i)
    BY <1>4 DEF Earlier, Before
  <2>1. Earlier(ids, j) \in SUBSET Earlier(ids, i)
    BY <2>a DEF Earlier
  <2>b. j \notin Earlier(ids, j)
    BY DEF Earlier, Before
  <2>2. /\ IsFiniteSet(Earlier(ids, j))
        /\ Cardinality(Earlier(ids, j)) <= Cardinality(Earlier(ids, i))
        /\ Cardinality(Earlier(ids, j)) # Cardinality(Earlier(ids, i))
    BY <1>2, <1>4, <2>1, <2>b, FS_Subset
  <2>3. Cardinality(Earlier(ids, j)) \in Nat
    BY <2>2, FS_CardinalityType
  <2> QED BY <1>3, <2>2, <2>3
<1> QED BY <1>2, <1>3, <1>4

\* Any finite set of rows can be sorted: a row's place is the number of those
\* before it.
LEMMA SortedExists ==
    ASSUME NEW ids \in SUBSET Nat, IsFiniteSet(ids)
    PROVE  IsSorted(Sorted(ids), ids)
<1> DEFINE N == Cardinality(ids)
           place == [i \in ids |-> Cardinality(Earlier(ids, i)) + 1]
           sorted == [k \in 1..N |-> CHOOSE i \in ids : place[i] = k]
<1>1. N \in Nat /\ IsFiniteSet(1..N) /\ Cardinality(1..N) = N
  BY FS_CardinalityType, FS_Interval
<1>2. place \in [ids -> 1..N]
  BY EarlierAreFewer
<1>3. ASSUME NEW i \in ids, NEW j \in ids, i # j
      PROVE  place[i] # place[j]
  <2>1. i \in Earlier(ids, j) \/ j \in Earlier(ids, i)
    BY <1>3 DEF Earlier, Before
  <2> QED BY <2>1, EarlierAreFewer
<1>4. place \in Injection(ids, 1..N)
  BY <1>2, <1>3 DEF Injection, IsInjective
<1>5. place \in Surjection(ids, 1..N)
  BY <1>1, <1>4, FS_Injection
<1>6. \A k \in 1..N : sorted[k] \in ids /\ place[sorted[k]] = k
  BY <1>5 DEF Surjection
<1> HIDE DEF sorted
<1>7. ASSUME NEW a \in 1..N, NEW b \in 1..N, a < b
      PROVE  Before(sorted[a], sorted[b])
  <2>1. PICK i, j \in ids : i = sorted[a] /\ j = sorted[b] /\ place[i] = a /\ place[j] = b
    BY <1>6
  <2>2. i # j /\ j \notin Earlier(ids, i)
    BY <1>7, <2>1, EarlierAreFewer
  <2> QED BY <2>1, <2>2 DEF Earlier, Before
<1>8. IsSorted(sorted, ids)
  BY <1>6, <1>7 DEF IsSorted, sorted
<1>9. \E s \in [1..Cardinality(ids) -> ids] :
        \A a, b \in DOMAIN s : a < b => IF last THEN s[a] > s[b] ELSE s[a] < s[b]
  BY <1>8 DEF IsSorted, Before
<1> QED BY <1>9 DEF IsSorted, Before, Sorted

\* LIMIT takes the rows that fewer than Count others come before.
LEMMA LimitedIsFirst ==
    ASSUME NEW ids \in SUBSET Nat, IsFiniteSet(ids)
    PROVE  Limited(ids) = {i \in ids : Cardinality(Earlier(ids, i)) < Count}
<1> DEFINE N == Cardinality(ids)
           s == Sorted(ids)
<1>1. N \in Nat /\ IsFiniteSet(1..N) /\ Cardinality(1..N) = N
  BY FS_CardinalityType, FS_Interval
<1>2. s \in [1..N -> ids] /\ \A a, b \in 1..N : a < b => Before(s[a], s[b])
  BY SortedExists DEF IsSorted
<1>3. \A i, j \in ids : Before(i, j) => i # j /\ ~ Before(j, i)
  BY DEF Before
<1> HIDE DEF s
<1>4. ASSUME NEW a \in 1..N, NEW b \in 1..N
      PROVE  Before(s[a], s[b]) <=> a < b
  <2>1. a < b \/ a = b \/ b < a
    BY <1>1
  <2> QED BY <1>2, <1>3, <2>1
<1>5. s \in Injection(1..N, ids)
  <2>1. ASSUME NEW a \in 1..N, NEW b \in 1..N, s[a] = s[b]
        PROVE  a = b
    <3>1. ~ Before(s[a], s[b]) /\ ~ Before(s[b], s[a])
      BY <1>2, <1>3, <2>1
    <3> QED BY <1>4, <3>1
  <2> QED BY <1>2, <2>1 DEF Injection, IsInjective
<1>6. s \in Surjection(1..N, ids)
  BY <1>1, <1>5, FS_Injection
<1>7. ASSUME NEW k \in 1..N
      PROVE  Cardinality(Earlier(ids, s[k])) = k - 1
  <2> DEFINE first == [a \in 1..(k - 1) |-> s[a]]
  <2>1. 1..(k - 1) \subseteq 1..N /\ k - 1 \in Nat
    BY <1>1
  <2>2. \A a \in 1..(k - 1) : first[a] \in Earlier(ids, s[k])
    BY <1>1, <1>2, <1>4, <2>1 DEF Earlier
  <2>3. first \in Injection(1..(k - 1), Earlier(ids, s[k]))
    BY <1>5, <2>1, <2>2 DEF Injection, IsInjective
  <2>4. ASSUME NEW i \in Earlier(ids, s[k])
        PROVE  \E a \in 1..(k - 1) : first[a] = i
    <3>1. PICK a \in 1..N : s[a] = i
      BY <1>6, <2>4 DEF Surjection, Earlier
    <3>2. a < k
      BY <1>4, <2>4, <3>1 DEF Earlier
    <3> QED BY <1>1, <3>1, <3>2
  <2>5. ExistsBijection(1..(k - 1), Earlier(ids, s[k]))
    BY <2>3, <2>4 DEF ExistsBijection, Bijection, Injection, Surjection
  <2> QED BY <2>1, <2>5, FS_CountingElements
<1>8. Limited(ids) = {s[k] : k \in {n \in 1..N : n <= Count}}
  BY DEF Limited, s
<1>9. ASSUME NEW i \in Limited(ids)
      PROVE  i \in ids /\ Cardinality(Earlier(ids, i)) < Count
  BY <1>1, <1>2, <1>7, <1>8, ExportAssumption
<1>10. ASSUME NEW i \in ids, Cardinality(Earlier(ids, i)) < Count
       PROVE  i \in Limited(ids)
  <2>1. PICK k \in 1..N : s[k] = i
    BY <1>6 DEF Surjection
  <2>2. k <= Count
    BY <1>1, <1>7, <1>10, <2>1, ExportAssumption
  <2> QED BY <1>8, <2>1, <2>2
<1> QED BY <1>9, <1>10

----------------------------------------------------------------------------
\* A snapshot is not the mark that there is none, and later queries keep it.
LEMMA SeenIsSound ==
    ASSUME Snapshot
    PROVE  Sound(Seen) /\ Seen # NoView /\ (view # NoView => Seen = view)
BY DEF Snapshot, Seen, Sound, NoView

\* The posts of a type, and rows of wc_orders, are rows of this type; all of them
\* if the export reads the store that WooCommerce reads.
LEMMA StoredType ==
    ASSUME TypeOK, NEW s, NEW type \in {"order", "refund"}
    PROVE  /\ Stored(s, type) \subseteq Of(s, type)
           /\ store = (IF hpos THEN "wc_orders" ELSE "posts") => Stored(s, type) = Of(s, type)
BY DEF TypeOK, Stored, Of, PostType, WcOrders, Shop

LEMMA NewestTaken ==
    ASSUME TypeOK, NEW s, Sound(s)
    PROVE  /\ Limited(Stored(s, "order")) \subseteq Of(s, "order")
           /\ store = (IF hpos THEN "wc_orders" ELSE "posts") =>
                Limited(Stored(s, "order")) = Newest(s)
<1>1. Of(s, "order") \in SUBSET Nat /\ Of(s, "order") \subseteq Ids
  BY ExportAssumption DEF Sound, Of, Ids
<1>2. IsFiniteSet(Ids)
  BY ExportAssumption, FS_Interval DEF Ids
<1>3. Stored(s, "order") \in SUBSET Nat /\ IsFiniteSet(Stored(s, "order"))
  BY <1>1, <1>2, StoredType, FS_Subset
<1>4. Limited(Stored(s, "order")) =
        {i \in Stored(s, "order") : Cardinality(Earlier(Stored(s, "order"), i)) < Count}
  BY <1>3, LimitedIsFirst
<1>5. ASSUME NEW i
      PROVE  Earlier(Of(s, "order"), i) =
               {j \in Of(s, "order") : IF last THEN j > i ELSE j < i}
  BY DEF Earlier, Before
<1> QED BY <1>4, <1>5, StoredType DEF Newest

\* The reference in terms of Newest.
LEMMA WantedRows ==
    ASSUME NEW s
    PROVE  Wanted(s) =
             Newest(s) \cup {i \in Of(s, "refund") : s.rows[i].parent \in Newest(s)}
BY DEF Wanted, Newest, Of

----------------------------------------------------------------------------
\* The actions in groups: what a query of the export leaves alone, and what the
\* site does meanwhile.
LEMMA InitHolds == Init => IInv
<1> SUFFICES ASSUME Init PROVE IInv
  OBVIOUS
<1> USE DEF Init
<1>1. rows \in Seq(Row) /\ DOMAIN rows = {1, 2} /\ rows # <<>>
  <2>1. rows \in [1..2 -> Row] /\ DOMAIN rows = {1, 2} /\ 1..2 = {1, 2}
    OBVIOUS
  <2>2. \E n \in Nat : rows \in [1..n -> Row]
    BY <2>1
  <2>3. rows \in Seq(Row)
    BY <2>2, SeqDef
  <2> QED BY <2>1, <2>3
<1>2. {1, 2} \subseteq Ids
  BY ExportAssumption DEF Ids
<1>3. TypeOK
  <2>1. NoView.rows \in Seq(Row) /\ NoView.details \subseteq Ids /\ NoView.role \in [Users -> Roles]
    BY DEF NoView, Roles
  <2>2. changes \in 0..MaxChanges
    BY ExportAssumption
  <2>3. todo \in Seq(Tables) /\ \A t \in Tables : dump[t] = {}
    OBVIOUS
  <2> QED BY <1>1, <1>2, <2>1, <2>2, <2>3 DEF TypeOK, PCs
<1>4. Sound(Live)
  <2>1. \A i \in {1, 2} : rows[i].customer \in People \cup {NoOne}
    BY DEF Row
  <2>2. \A i \in {1, 2} : rows[i].type = "order" => rows[i].customer \in People
    BY <2>1
  <2>3. \A i \in {1, 2} : rows[i].type = "refund" => rows[1].type = "order" /\ rows[i].parent = 1
    OBVIOUS
  <2> QED BY <1>1, <1>2, <2>2, <2>3 DEF Sound, Live, Of
<1>5. Snapshot
  BY <1>4 DEF Snapshot
<1>6. Chosen /\ ChosenExactly /\ Known
  BY DEF Chosen, ChosenExactly, Known, OrdersTaken, UsersTaken
<1>7. Dumped
  BY DEF Dumped
<1> QED BY <1>3, <1>5, <1>6, <1>7 DEF IInv

\* A query of the shop takes the snapshot or keeps it, and the dump is still to come.
LEMMA QueryStep ==
    ASSUME IInv, NEW here \in PCs, NEW next \in PCs, Query(here, next), woo,
           here \notin {"dump", "done", "failed"}, next \notin {"store", "dump", "done", "failed"}
    PROVE  /\ Snapshot' /\ Dumped'
           /\ view' = Seen /\ Sound(view') /\ view' # NoView /\ (here # "store" => view' = view)
           /\ pc = here /\ pc' = next
           /\ view'.rows \in Seq(Row) /\ view'.details \subseteq Ids /\ view'.role \in [Users -> Roles]
           /\ UNCHANGED <<live, shop, modes, changes, todo, dump>>
<1>1. /\ pc = here /\ pc' = next /\ view' = Seen
      /\ UNCHANGED <<live, shop, modes, changes, todo, dump>>
  BY DEF Query
<1>2. Sound(view') /\ view' # NoView /\ (here # "store" => view' = view)
  BY <1>1, SeenIsSound DEF IInv, Snapshot
<1>3. Live' = Live
  BY <1>1 DEF Live, live
<1>4. Sound(Live)'
  BY <1>3 DEF IInv, Snapshot, Sound, Of
<1>5. Sound(view)'
  BY <1>2 DEF Sound, Of
<1>6. Snapshot'
  BY <1>1, <1>2, <1>4, <1>5 DEF Snapshot, shop, Listed, ToDump, Elements
<1>7. Dumped'
  BY <1>1 DEF IInv, Dumped
<1>8. view'.rows \in Seq(Row) /\ view'.details \subseteq Ids /\ view'.role \in [Users -> Roles]
  BY <1>2 DEF Sound
<1> QED BY <1>1, <1>2, <1>6, <1>7, <1>8

LEMMA ReadStoreKeeps == IInv /\ ReadStore => IInv'
<1> SUFFICES ASSUME IInv, ReadStore PROVE IInv'
  OBVIOUS
<1>1. woo /\ Query("store", "orders")
  BY DEF ReadStore
<1>3. /\ store' \in {"wc_orders", "posts"} /\ swallowed' \in BOOLEAN
      /\ ~ swallowed' => store' = IF hpos THEN "wc_orders" ELSE "posts"
      /\ UNCHANGED <<targets, users, itemIds>>
  BY DEF ReadStore, IInv, TypeOK
<1>4. /\ Snapshot' /\ Dumped' /\ pc' = "orders"
      /\ view'.rows \in Seq(Row) /\ view'.details \subseteq Ids /\ view'.role \in [Users -> Roles]
      /\ UNCHANGED <<live, shop, modes, changes, todo, dump>>
  BY <1>1, QueryStep DEF PCs
<1>5. TypeOK'
  BY <1>3, <1>4 DEF IInv, TypeOK, PCs, live, shop
<1>6. Chosen' /\ ChosenExactly' /\ Known'
  BY <1>3, <1>4 DEF Chosen, ChosenExactly, Known, OrdersTaken, UsersTaken, shop
<1> QED BY <1>4, <1>5, <1>6 DEF IInv

LEMMA ReadOrdersKeeps == IInv /\ ReadOrders => IInv'
<1> SUFFICES ASSUME IInv, ReadOrders PROVE IInv'
  OBVIOUS
<1>1. /\ Query("orders", "refunds") /\ woo /\ pc = "orders"
      /\ targets' = Limited(Stored(Seen, "order"))
      /\ UNCHANGED <<store, users, itemIds, swallowed>>
  BY DEF ReadOrders, Query, IInv, Snapshot
<1>2. /\ Snapshot' /\ Dumped' /\ pc' = "refunds" /\ view' = Seen /\ Sound(view')
      /\ view'.rows \in Seq(Row) /\ view'.details \subseteq Ids /\ view'.role \in [Users -> Roles]
      /\ UNCHANGED <<live, shop, modes, changes, todo, dump>>
  BY <1>1, QueryStep DEF PCs
<1>3. /\ targets' \subseteq Of(Seen, "order")
      /\ ~ swallowed => targets' = Newest(Seen)
  BY <1>1, <1>2, NewestTaken DEF IInv, ChosenExactly
<1>4. targets' \subseteq Ids
  BY <1>2, <1>3 DEF Sound, Of
<1>5. TypeOK'
  BY <1>1, <1>2, <1>4 DEF IInv, TypeOK, PCs, live, shop
<1>6. Newest(view)' = Newest(Seen) /\ Of(view, "order")' = Of(Seen, "order")
  BY <1>2 DEF Newest, Of, shop
<1>7. Chosen'
  BY <1>2, <1>3, <1>6 DEF Chosen, OrdersTaken
<1>8. ChosenExactly'
  BY <1>1, <1>2, <1>3, <1>6 DEF IInv, ChosenExactly, OrdersTaken, shop
<1>9. Known'
  BY <1>2 DEF Known, UsersTaken
<1> QED BY <1>2, <1>5, <1>7, <1>8, <1>9 DEF IInv

LEMMA ReadRefundsKeeps == IInv /\ ReadRefunds => IInv'
<1> SUFFICES ASSUME IInv, ReadRefunds PROVE IInv'
  OBVIOUS
<1>1. /\ Query("refunds", "staff") /\ woo /\ pc = "refunds"
      /\ targets' = targets \cup {i \in Stored(Seen, "refund") : Seen.rows[i].parent \in targets}
      /\ UNCHANGED <<store, users, itemIds, swallowed>>
  BY DEF ReadRefunds, Query, IInv, Snapshot
<1>2. /\ Snapshot' /\ Dumped' /\ pc' = "staff" /\ view' = Seen /\ view' = view /\ Sound(view')
      /\ view'.rows \in Seq(Row) /\ view'.details \subseteq Ids /\ view'.role \in [Users -> Roles]
      /\ UNCHANGED <<live, shop, modes, changes, todo, dump>>
  BY <1>1, QueryStep DEF PCs
<1>3. /\ targets \subseteq Of(view, "order")
      /\ Stored(view, "refund") \subseteq Of(view, "refund")
      /\ ~ swallowed => targets = Newest(view) /\ Stored(view, "refund") = Of(view, "refund")
  BY <1>1, <1>2, StoredType DEF IInv, Chosen, ChosenExactly
<1>4. targets' \subseteq Ids
  BY <1>1, <1>2, <1>3 DEF Sound, Of
<1>5. TypeOK'
  BY <1>1, <1>2, <1>4 DEF IInv, TypeOK, PCs, live, shop
<1>6. /\ Wanted(view)' = Wanted(view)
      /\ Of(view, "order")' = Of(view, "order") /\ Of(view, "refund")' = Of(view, "refund")
  BY <1>2 DEF Wanted, Of, shop
<1>7. Chosen'
  <2>1. targets' \subseteq Of(view, "order") \cup Of(view, "refund")
    BY <1>1, <1>2, <1>3
  <2>2. \A i \in targets' \cap Of(view, "refund") : view.rows[i].parent \in targets'
    BY <1>1, <1>2, <1>3 DEF Of
  <2> QED BY <1>2, <1>6, <2>1, <2>2 DEF Chosen
<1>8. ~ swallowed => targets' = Wanted(view)
  BY <1>1, <1>2, <1>3, WantedRows
<1>9. ChosenExactly'
  BY <1>1, <1>2, <1>6, <1>8 DEF IInv, ChosenExactly, OrdersTaken, shop
<1>10. Known'
  BY <1>2 DEF Known, UsersTaken
<1> QED BY <1>2, <1>5, <1>7, <1>9, <1>10 DEF IInv

\* The queries for the accounts leave the chosen orders alone.
LEMMA OrdersKept ==
    ASSUME IInv, view' = view, UNCHANGED <<store, targets, shop>>, OrdersTaken, pc' # "refunds",
           swallowed => swallowed', swallowed' \in BOOLEAN, pc' \notin {"store", "failed"}
    PROVE  Chosen' /\ ChosenExactly'
<1>1. /\ Wanted(view)' = Wanted(view)
      /\ Of(view, "order")' = Of(view, "order") /\ Of(view, "refund")' = Of(view, "refund")
  BY DEF Wanted, Of, shop
<1>2. /\ targets \subseteq Of(view, "order") \cup Of(view, "refund")
      /\ \A i \in targets \cap Of(view, "refund") : view.rows[i].parent \in targets
      /\ ~ swallowed => /\ targets = Wanted(view)
                        /\ store = IF hpos THEN "wc_orders" ELSE "posts"
  BY DEF IInv, Chosen, ChosenExactly, OrdersTaken
<1>3. targets' = targets /\ view' = view /\ store' = store /\ hpos' = hpos
  BY DEF shop
<1>4. Chosen'
  BY <1>1, <1>2, <1>3 DEF Chosen
<1>5. ChosenExactly'
  BY <1>1, <1>2, <1>3 DEF IInv, TypeOK, ChosenExactly
<1> QED BY <1>4, <1>5

LEMMA ReadStaffKeeps == IInv /\ ReadStaff => IInv'
<1> SUFFICES ASSUME IInv, ReadStaff PROVE IInv'
  OBVIOUS
<1>1. /\ Query("staff", "several") /\ woo /\ pc = "staff"
      /\ users' = Staff(Seen)
      /\ UNCHANGED <<store, targets, itemIds, swallowed>>
  BY DEF ReadStaff, Query, IInv, Snapshot, Staff
<1>2. /\ Snapshot' /\ Dumped' /\ pc' = "several" /\ view' = Seen /\ view' = view
      /\ view'.rows \in Seq(Row) /\ view'.details \subseteq Ids /\ view'.role \in [Users -> Roles]
      /\ UNCHANGED <<live, shop, modes, changes, todo, dump>>
  BY <1>1, QueryStep DEF PCs
<1>3. Chosen' /\ ChosenExactly'
  BY <1>1, <1>2, OrdersKept DEF OrdersTaken, IInv, TypeOK
<1>4. users' = Staff(view)' /\ users' \subseteq Users
  BY <1>1, <1>2 DEF Staff
<1>5. TypeOK'
  BY <1>1, <1>2, <1>4 DEF IInv, TypeOK, PCs, live, shop
<1>6. Known'
  BY <1>2, <1>4 DEF Known, UsersTaken
<1> QED BY <1>2, <1>3, <1>5, <1>6 DEF IInv

LEMMA ReadSeveralRolesKeeps == IInv /\ ReadSeveralRoles => IInv'
<1> SUFFICES ASSUME IInv, ReadSeveralRoles PROVE IInv'
  OBVIOUS
<1>1. /\ Query("several", "customers") /\ woo /\ pc = "several"
      /\ \/ users' = users \cup Several(Seen) /\ swallowed' = swallowed
         \/ users' = users /\ swallowed' = TRUE
      /\ UNCHANGED <<store, targets, itemIds>>
  BY DEF ReadSeveralRoles, Query, IInv, Snapshot, Several
<1>2. /\ Snapshot' /\ Dumped' /\ pc' = "customers" /\ view' = Seen /\ view' = view
      /\ view'.rows \in Seq(Row) /\ view'.details \subseteq Ids /\ view'.role \in [Users -> Roles]
      /\ UNCHANGED <<live, shop, modes, changes, todo, dump>>
  BY <1>1, QueryStep DEF PCs
<1>3. swallowed' \in BOOLEAN /\ (swallowed => swallowed')
  <2>1. swallowed \in BOOLEAN /\ swallowed' \in {swallowed, TRUE}
    BY <1>1 DEF IInv, TypeOK
  <2> QED BY <2>1
<1>4. Chosen' /\ ChosenExactly'
  BY <1>1, <1>2, <1>3, OrdersKept DEF OrdersTaken
<1>5. Staff(view)' = Staff(view) /\ Several(view)' = Several(view) /\ Several(view) = Several(Seen)
  BY <1>2 DEF Staff, Several
<1>6. users \subseteq Staff(view) \cup Several(view) /\ (~ swallowed => Staff(view) \subseteq users)
  BY <1>1 DEF IInv, Known
<1>7. users' \subseteq Users
  BY <1>1 DEF Several, IInv, TypeOK
<1>8. TypeOK'
  BY <1>1, <1>2, <1>3, <1>7 DEF IInv, TypeOK, PCs, live, shop
<1>9. Known'
  BY <1>1, <1>2, <1>5, <1>6 DEF Known, UsersTaken
<1> QED BY <1>2, <1>4, <1>8, <1>9 DEF IInv

LEMMA ReadCustomersKeeps == IInv /\ ReadCustomers => IInv'
<1> SUFFICES ASSUME IInv, ReadCustomers PROVE IInv'
  OBVIOUS
<1>1. /\ Query("customers", "items") /\ woo /\ pc = "customers"
      /\ users' = users \cup (Customers(Seen, targets) \cap Users)
      /\ UNCHANGED <<store, targets, itemIds, swallowed>>
  BY DEF ReadCustomers, Query, IInv, Snapshot, Customers
<1>2. /\ Snapshot' /\ Dumped' /\ pc' = "items" /\ view' = Seen /\ view' = view
      /\ view'.rows \in Seq(Row) /\ view'.details \subseteq Ids /\ view'.role \in [Users -> Roles]
      /\ UNCHANGED <<live, shop, modes, changes, todo, dump>>
  BY <1>1, QueryStep DEF PCs
<1>3. Chosen' /\ ChosenExactly'
  BY <1>1, <1>2, OrdersKept DEF OrdersTaken, IInv, TypeOK
<1>4. /\ Staff(view)' = Staff(view) /\ Several(view)' = Several(view)
      /\ Customers(view, targets)' = Customers(view, targets)
      /\ Customers(view, targets) = Customers(Seen, targets)
  BY <1>1, <1>2 DEF Staff, Several, Customers
<1>5. /\ users \subseteq Staff(view) \cup Several(view)
      /\ ~ swallowed => Staff(view) \subseteq users /\ Several(view) \subseteq users
  BY <1>1 DEF IInv, Known
<1>6. users' \subseteq Users
  BY <1>1 DEF IInv, TypeOK
<1>7. TypeOK'
  BY <1>1, <1>2, <1>6 DEF IInv, TypeOK, PCs, live, shop
<1>8. Known'
  BY <1>1, <1>2, <1>4, <1>5 DEF Known, UsersTaken
<1> QED BY <1>2, <1>3, <1>7, <1>8 DEF IInv

----------------------------------------------------------------------------
\* A concatenation has the elements of both sequences.
LEMMA InConcat ==
    ASSUME NEW S, NEW s \in Seq(S), NEW t \in Seq(S)
    PROVE  s \o t \in Seq(S) /\ Elements(s \o t) = Elements(s) \cup Elements(t)
<1>1. /\ s \o t \in Seq(S) /\ Len(s \o t) = Len(s) + Len(t)
      /\ \A i \in 1 .. Len(s) + Len(t) : (s \o t)[i] = IF i <= Len(s) THEN s[i] ELSE t[i - Len(s)]
  BY ConcatProperties
<1>2. /\ Len(s) \in Nat /\ Len(t) \in Nat
      /\ DOMAIN s = 1..Len(s) /\ DOMAIN t = 1..Len(t) /\ DOMAIN (s \o t) = 1..Len(s \o t)
  BY <1>1, LenProperties
<1>3. ASSUME NEW k \in DOMAIN s
      PROVE  k \in DOMAIN (s \o t) /\ (s \o t)[k] = s[k]
  BY <1>1, <1>2, <1>3
<1>4. ASSUME NEW k \in DOMAIN t
      PROVE  k + Len(s) \in DOMAIN (s \o t) /\ (s \o t)[k + Len(s)] = t[k]
  BY <1>1, <1>2, <1>4
<1>5. ASSUME NEW k \in DOMAIN (s \o t)
      PROVE  (s \o t)[k] \in Elements(s) \cup Elements(t)
  <2>1. k \in DOMAIN s \/ k - Len(s) \in DOMAIN t
    BY <1>1, <1>2, <1>5
  <2> QED BY <1>1, <1>2, <1>5, <2>1 DEF Elements
<1>6. Elements(s) \subseteq Elements(s \o t) /\ Elements(t) \subseteq Elements(s \o t)
  <2> DEFINE u == s \o t
  <2>1. /\ \A k \in DOMAIN s : k \in DOMAIN u /\ u[k] = s[k]
        /\ \A k \in DOMAIN t : k + Len(s) \in DOMAIN u /\ u[k + Len(s)] = t[k]
    BY <1>3, <1>4
  <2> HIDE DEF u
  <2>2. Elements(s) \subseteq Elements(u) /\ Elements(t) \subseteq Elements(u)
    BY <2>1 DEF Elements
  <2> QED BY <2>2 DEF u
<1>7. Elements(s \o t) \subseteq Elements(s) \cup Elements(t)
  <2> DEFINE u == s \o t
  <2>1. \A k \in DOMAIN u : u[k] \in Elements(s) \cup Elements(t)
    BY <1>5
  <2> HIDE DEF u
  <2>2. Elements(u) \subseteq Elements(s) \cup Elements(t)
    BY <2>1 DEF Elements
  <2> QED BY <2>2 DEF u
<1> QED BY <1>1, <1>6, <1>7

\* The list has every table of a shop, whatever the modes.
LEMMA ReadItemsLists ==
    ASSUME IInv, ReadItems
    PROVE  todo' \in Seq(Tables) /\ ToDump' = Tables /\ todo' # <<>>
<1> DEFINE listed(t, b) == IF (modes'[t] = "structure_and_data") = b THEN <<t>> ELSE <<>>
           a == <<"orders", "items", "itemmeta", "comments", "commentmeta", "users">>
           p1 == listed("posts", TRUE)
           m1 == listed("postmeta", TRUE)
           c == <<"customers", "points">>
           p2 == listed("posts", FALSE)
           m2 == listed("postmeta", FALSE)
<1>1. todo' = a \o p1 \o m1 \o c \o p2 \o m2
  BY DEF ReadItems
<1>2. /\ a \in Seq(Tables)
      /\ Elements(a) = {"orders", "items", "itemmeta", "comments", "commentmeta", "users"}
  <2>1. DOMAIN a = 1..6 /\ 1..6 = {1, 2, 3, 4, 5, 6} /\ a \in Seq(Tables)
    BY DEF Tables
  <2>2. Elements(a) = {a[1], a[2], a[3], a[4], a[5], a[6]}
    BY <2>1 DEF Elements
  <2> QED BY <2>1, <2>2
<1>3. c \in Seq(Tables) /\ Elements(c) = {"customers", "points"}
  <2>1. DOMAIN c = 1..2 /\ 1..2 = {1, 2} /\ c \in Seq(Tables)
    BY DEF Tables
  <2>2. Elements(c) = {c[1], c[2]}
    BY <2>1 DEF Elements
  <2> QED BY <2>1, <2>2
<1>4. ASSUME NEW t \in {"posts", "postmeta"}
      PROVE  /\ listed(t, TRUE) \in Seq(Tables) /\ listed(t, FALSE) \in Seq(Tables)
             /\ Elements(listed(t, TRUE)) \cup Elements(listed(t, FALSE)) = {t}
  <2>1. Elements(<<t>>) = {t} /\ Elements(<<>>) = {}
    <3>1. DOMAIN <<t>> = {1} /\ DOMAIN <<>> = {} /\ <<t>>[1] = t
      OBVIOUS
    <3> QED BY <3>1 DEF Elements
  <2>2. <<t>> \in Seq(Tables) /\ <<>> \in Seq(Tables)
    BY DEF Tables
  <2>3. CASE modes'[t] = "structure_and_data"
    <3>1. listed(t, TRUE) = <<t>> /\ listed(t, FALSE) = <<>>
      BY <2>3
    <3> QED BY <2>1, <2>2, <3>1
  <2>4. CASE modes'[t] # "structure_and_data"
    <3>1. listed(t, TRUE) = <<>> /\ listed(t, FALSE) = <<t>>
      BY <2>4
    <3> QED BY <2>1, <2>2, <3>1
  <2> QED BY <2>3, <2>4
<1>5. /\ p1 \in Seq(Tables) /\ p2 \in Seq(Tables) /\ Elements(p1) \cup Elements(p2) = {"posts"}
      /\ m1 \in Seq(Tables) /\ m2 \in Seq(Tables) /\ Elements(m1) \cup Elements(m2) = {"postmeta"}
  BY <1>4
<1> HIDE DEF a, c, p1, p2, m1, m2
<1> DEFINE s1 == a \o p1
           s2 == s1 \o m1
           s3 == s2 \o c
           s4 == s3 \o p2
           s5 == s4 \o m2
<1>6. s1 \in Seq(Tables) /\ Elements(s1) = Elements(a) \cup Elements(p1)
  BY <1>2, <1>5, InConcat
<1>7. todo' = s5
  BY <1>1
<1> HIDE DEF s1
<1>8. s2 \in Seq(Tables) /\ Elements(s2) = Elements(s1) \cup Elements(m1)
  BY <1>5, <1>6, InConcat
<1> HIDE DEF s2
<1>9. s3 \in Seq(Tables) /\ Elements(s3) = Elements(s2) \cup Elements(c)
  BY <1>3, <1>8, InConcat
<1> HIDE DEF s3
<1>10. s4 \in Seq(Tables) /\ Elements(s4) = Elements(s3) \cup Elements(p2)
  BY <1>5, <1>9, InConcat
<1> HIDE DEF s4
<1>11. s5 \in Seq(Tables) /\ Elements(s5) = Elements(s4) \cup Elements(m2)
  BY <1>5, <1>10, InConcat
<1> HIDE DEF s5
<1>12. Elements(s5) = Tables
  BY <1>2, <1>3, <1>5, <1>6, <1>8, <1>9, <1>10, <1>11 DEF Tables
<1>13. s5 # <<>>
  BY <1>12 DEF Elements, Tables
<1> QED BY <1>7, <1>11, <1>12, <1>13 DEF ToDump

LEMMA ReadItemsKeeps == IInv /\ ReadItems => IInv'
<1> SUFFICES ASSUME IInv, ReadItems PROVE IInv'
  OBVIOUS
<1>1. /\ pc = "items" /\ woo /\ pc' = "dump" /\ view' = Seen /\ view' = view
      /\ Sound(view) /\ view # NoView
      /\ itemIds' = view.details \cap Shop(view) \cap targets
      /\ modes' \in TableModes
      /\ UNCHANGED <<live, shop, changes, store, targets, users, dump, swallowed>>
  BY SeenIsSound DEF ReadItems, IInv, Snapshot
<1>2. todo' \in Seq(Tables) /\ ToDump' = Tables /\ todo' # <<>>
  BY ReadItemsLists
<1>3. /\ Sound(Live)' /\ Sound(view)' /\ view' # NoView' /\ woo'
      /\ Shop(view)' = Shop(view)
  BY <1>1 DEF IInv, Snapshot, Sound, Live, live, shop, Of, NoView, Shop
<1>4. Snapshot'
  BY <1>1, <1>3 DEF Snapshot
<1>5. itemIds' \subseteq Ids
  BY <1>1 DEF Sound
<1>6. TypeOK'
  BY <1>1, <1>2, <1>5 DEF IInv, TypeOK, PCs, live, shop
<1>7. Chosen' /\ ChosenExactly'
  BY <1>1, OrdersKept DEF OrdersTaken, IInv, TypeOK
<1>8. /\ Staff(view)' = Staff(view) /\ Several(view)' = Several(view)
      /\ Customers(view, targets)' = Customers(view, targets)
  BY <1>1 DEF Staff, Several, Customers
<1>9. Known'
  BY <1>1, <1>8 DEF IInv, Known, UsersTaken, shop
<1>10. Listed' = Tables
  BY <1>3 DEF Listed
<1>11. Dumped'
  BY <1>1, <1>2, <1>3, <1>10 DEF IInv, Dumped
<1> QED BY <1>4, <1>6, <1>7, <1>9, <1>11 DEF IInv

LEMMA NoShopKeeps == IInv /\ NoShop => IInv'
<1> SUFFICES ASSUME IInv, NoShop PROVE IInv'
  OBVIOUS
<1>1. /\ pc = "store" /\ ~ woo /\ pc' = "dump" /\ view = NoView
      /\ modes' \in TableModes
      /\ todo' = <<"comments", "commentmeta", "posts", "postmeta", "users">>
      /\ UNCHANGED <<live, shop, changes, view, store, targets, users, itemIds, dump, swallowed>>
  BY DEF NoShop, IInv, Snapshot
<1>2. woo' = woo
  BY <1>1 DEF shop
<1>3. todo' \in Seq(Tables) /\ todo' # <<>> /\ ToDump' = Listed'
  <2>1. todo' \in Seq(Tables) /\ todo' # <<>>
    BY <1>1 DEF Tables
  <2>2. DOMAIN todo' = 1..5 /\ 1..5 = {1, 2, 3, 4, 5}
    BY <1>1
  <2>3. /\ todo'[1] = "comments" /\ todo'[2] = "commentmeta" /\ todo'[3] = "posts"
        /\ todo'[4] = "postmeta" /\ todo'[5] = "users"
    BY <1>1
  <2>4. ToDump' = {todo'[1], todo'[2], todo'[3], todo'[4], todo'[5]}
    BY <2>2 DEF ToDump, Elements
  <2> QED BY <1>1, <1>2, <2>1, <2>3, <2>4 DEF Listed
<1>4. Sound(Live)'
  BY <1>1 DEF IInv, Snapshot, Sound, Live, live, Of
<1>5. Snapshot'
  BY <1>1, <1>2, <1>3, <1>4 DEF Snapshot, NoView
<1>6. TypeOK'
  BY <1>1, <1>3 DEF IInv, TypeOK, PCs, live, shop
<1>7. Chosen' /\ ChosenExactly' /\ Known'
  BY <1>1, <1>2 DEF Chosen, ChosenExactly, Known, OrdersTaken, UsersTaken
<1>8. Dumped'
  BY <1>1, <1>2, <1>3 DEF IInv, Dumped
<1> QED BY <1>5, <1>6, <1>7, <1>8 DEF IInv

\* The modes that a configuration has decide on posts and postmeta only.
LEMMA ModeValues ==
    ASSUME TypeOK
    PROVE  /\ modes \in [{"posts", "postmeta"} -> {"structure_and_data", "no_rows", "custom_rule"}]
           /\ \A t \in {"posts", "postmeta"} : Mode(t) = modes[t]
           /\ \A t \in Tables \ {"posts", "postmeta"} : Mode(t) = "structure_and_data"
<1>1. modes \in [{"posts", "postmeta"} -> {"structure_and_data", "no_rows", "custom_rule"}]
  BY ExportAssumption DEF TypeOK, NoModes
<1> QED BY <1>1 DEF Mode

\* What a listed table gets.
LEMMA ExportedRows ==
    ASSUME TypeOK, NEW s, NEW t \in Listed
    PROVE  /\ ~ woo => Exported(s, t) = IF Mode(t) = "no_rows" THEN {} ELSE Whole(s, t)
           /\ woo /\ t \in Tables \ {"posts", "postmeta"} => Exported(s, t) = Filtered(s, t)
           /\ woo /\ t \in {"posts", "postmeta"} =>
                Exported(s, t) = CASE modes[t] = "no_rows" -> {}
                                   [] modes[t] = "custom_rule" -> DOMAIN s.rows
                                   [] modes[t] = "structure_and_data" -> Filtered(s, t)
<1>1. woo \in BOOLEAN /\ Listed \subseteq Tables
  BY DEF TypeOK, Listed, Tables
<1>2. Mode(t) \in {"structure_and_data", "no_rows", "custom_rule"}
  BY <1>1, ModeValues
<1>3. CASE ~ woo
  BY <1>2, <1>3 DEF Exported
<1>4. CASE woo /\ t \in Tables \ {"posts", "postmeta"}
  BY <1>4, ModeValues DEF Exported
<1>5. CASE woo /\ t \in {"posts", "postmeta"}
  <2>1. Whole(s, t) = DOMAIN s.rows
    BY <1>5 DEF Whole
  <2> QED BY <1>2, <1>5, <2>1, ModeValues DEF Exported
<1> QED BY <1>1, <1>3, <1>4, <1>5

LEMMA ExportedType ==
    ASSUME TypeOK, NEW s, Sound(s), NEW t \in Listed
    PROVE  Exported(s, t) \subseteq IF t \in {"users", "customers"} THEN People ELSE Ids
<1>1. DOMAIN s.rows \subseteq Ids /\ s.details \subseteq Ids /\ s.details \subseteq DOMAIN s.rows
  BY DEF Sound
<1>2. Accounts(s) \subseteq People
  BY DEF Accounts, People
<1>3. Lookup(s) \subseteq People
  BY DEF Lookup, Sound, Of
<1>4. Listed \subseteq Tables
  BY DEF Listed, Tables
<1>5. t \in {"comments", "commentmeta", "posts", "postmeta", "users"} =>
        Whole(s, t) \subseteq IF t \in {"users", "customers"} THEN People ELSE Ids
  BY <1>1, <1>2 DEF Whole
<1>6. Filtered(s, t) \subseteq IF t \in {"users", "customers"} THEN People ELSE Ids
  <2>1. /\ Shop(s) \subseteq Ids /\ WcOrders(s) \subseteq Ids /\ Commented(s) \subseteq Ids
    BY <1>1 DEF Shop, WcOrders, Commented
  <2>2. CASE t \in {"orders", "items", "itemmeta", "comments", "commentmeta"}
    BY <1>1, <2>1, <2>2 DEF Filtered
  <2>3. CASE t \in {"posts", "postmeta", "points"}
    BY <1>1, <2>3 DEF Filtered
  <2>4. CASE t \in {"users", "customers"}
    BY <1>2, <1>3, <2>4 DEF Filtered
  <2> QED BY <1>4, <2>2, <2>3, <2>4 DEF Tables
<1>7. CASE ~ woo
  BY <1>5, <1>7, ExportedRows DEF Listed
<1>8. CASE woo
  <2>1. CASE t \in {"posts", "postmeta"}
    <3>1. modes[t] \in {"structure_and_data", "no_rows", "custom_rule"}
      BY <2>1, ModeValues
    <3> QED BY <1>1, <1>6, <1>8, <2>1, <3>1, ExportedRows
  <2>2. CASE t \notin {"posts", "postmeta"}
    BY <1>4, <1>6, <1>8, <2>2, ExportedRows
  <2> QED BY <2>1, <2>2
<1> QED BY <1>7, <1>8

\* The export of a table depends on the snapshot and on what the queries found.
LEMMA ExportedAgain ==
    ASSUME UNCHANGED <<shop, found>>, NEW s, view' = s, NEW t
    PROVE  Exported(view, t)' = Exported(s, t)
<1>1. /\ woo' = woo /\ hpos' = hpos /\ synced' = synced /\ store' = store
      /\ targets' = targets /\ users' = users /\ itemIds' = itemIds /\ modes' = modes
  BY DEF shop, found
<1>2. /\ Shop(view)' = Shop(s) /\ Accounts(view)' = Accounts(s) /\ Lookup(view)' = Lookup(s)
      /\ Mode(t)' = Mode(t)
  BY <1>1 DEF Shop, Accounts, Lookup, Mode
<1>3. /\ WcOrders(view)' = WcOrders(s) /\ Commented(view)' = Commented(s)
      /\ \A i : PostType(view, i)' = PostType(s, i)
  BY <1>1, <1>2 DEF WcOrders, Commented, PostType
<1>4. Whole(view, t)' = Whole(s, t)
  BY <1>2 DEF Whole
<1>5. Filtered(view, t)' = Filtered(s, t)
  BY <1>1, <1>2, <1>3 DEF Filtered
<1> QED BY <1>1, <1>2, <1>4, <1>5 DEF Exported

\* What the dump leaves to do.
LEMMA DumpTakesOne ==
    ASSUME IInv, Dump
    PROVE  /\ Head(todo) \in Listed /\ todo' \in Seq(Tables) /\ ToDump' \subseteq ToDump
           /\ ToDump \subseteq ToDump' \cup {Head(todo)}
           /\ pc' = "done" => todo' = <<>>
           /\ pc' = "dump" => todo' # <<>>
<1>1. /\ todo \in Seq(Tables) /\ todo # <<>> /\ ToDump \subseteq Listed
      /\ todo' = Tail(todo) /\ pc' = IF Len(todo) = 1 THEN "done" ELSE "dump"
  BY DEF IInv, TypeOK, Dumped, Dump
<1>2. /\ Tail(todo) \in Seq(Tables) /\ Len(Tail(todo)) = Len(todo) - 1
      /\ \A i \in 1 .. Len(Tail(todo)) : Tail(todo)[i] = todo[i + 1]
  BY <1>1, HeadTailProperties
<1>3. /\ Len(todo) \in Nat \ {0} /\ DOMAIN todo = 1..Len(todo)
      /\ DOMAIN todo' = 1..(Len(todo) - 1) /\ Len(todo') = Len(todo) - 1
  BY <1>1, <1>2, LenProperties, EmptySeq
<1>4. Head(todo) = todo[1]
  BY <1>1
<1>5. 1 \in DOMAIN todo /\ \A i \in DOMAIN todo' : i + 1 \in DOMAIN todo /\ todo'[i] = todo[i + 1]
  BY <1>1, <1>2, <1>3
<1>6. Head(todo) \in Listed /\ ToDump' \subseteq ToDump
  BY <1>1, <1>4, <1>5 DEF ToDump, Elements
<1>7. ASSUME NEW k \in DOMAIN todo
      PROVE  todo[k] \in ToDump' \cup {Head(todo)}
  <2>1. CASE k = 1
    BY <1>4, <2>1
  <2>2. CASE k # 1
    <3>1. k - 1 \in DOMAIN todo' /\ (k - 1) + 1 = k
      BY <1>3, <2>2
    <3> QED BY <1>5, <3>1 DEF ToDump, Elements
  <2> QED BY <2>1, <2>2
<1>8. pc' = "done" => todo' = <<>>
  BY <1>1, <1>2, <1>3, EmptySeq
<1>9. pc' = "dump" => todo' # <<>>
  <2>1. pc' = "dump" => Len(todo') # 0
    BY <1>1, <1>3
  <2>2. Len(<<>>) = 0
    BY EmptySeq
  <2> QED BY <2>1, <2>2
<1> QED BY <1>1, <1>2, <1>6, <1>7, <1>8, <1>9 DEF ToDump, Elements

LEMMA DumpKeeps == IInv /\ Dump => IInv'
<1> SUFFICES ASSUME IInv, Dump PROVE IInv'
  OBVIOUS
<1>1. /\ pc = "dump" /\ view' = Seen /\ pc' \in {"dump", "done"}
      /\ dump' = [dump EXCEPT ![Head(todo)] = Exported(Seen, Head(todo))]
      /\ UNCHANGED <<live, shop, changes, found, swallowed>>
  BY DEF Dump
<1>2. /\ Sound(Seen) /\ Seen # NoView /\ (view # NoView => Seen = view)
      /\ Sound(Live) /\ (woo => view # NoView)
  BY <1>1, SeenIsSound DEF IInv, Snapshot
<1>3. /\ Head(todo) \in Listed /\ todo' \in Seq(Tables) /\ ToDump' \subseteq ToDump
      /\ ToDump \subseteq ToDump' \cup {Head(todo)}
      /\ pc' = "done" => todo' = <<>>
      /\ pc' = "dump" => todo' # <<>>
  BY DumpTakesOne
<1>4. Listed \subseteq Tables /\ Listed' = Listed /\ woo' = woo
  BY <1>1 DEF Listed, Tables, shop
<1>5. Sound(Live)' /\ Sound(view)' /\ view' # NoView'
  BY <1>1, <1>2 DEF Sound, Live, live, Of, NoView
<1>6. Snapshot'
  BY <1>1, <1>4, <1>5 DEF Snapshot
<1>7. /\ dump \in [Tables -> SUBSET (People \cup Ids)]
      /\ Exported(Seen, Head(todo)) \subseteq
           IF Head(todo) \in {"users", "customers"} THEN People ELSE Ids
  BY <1>2, <1>3, ExportedType DEF IInv, Dumped
<1>8. dump' \in [Tables -> SUBSET (People \cup Ids)]
  <2>1. Exported(Seen, Head(todo)) \in SUBSET (People \cup Ids)
    BY <1>7
  <2> QED BY <1>1, <1>7, <2>1
<1>9. \A t \in Tables : dump'[t] \subseteq IF t \in {"users", "customers"} THEN People ELSE Ids
  <2>1. \A t \in Tables : dump'[t] = IF t = Head(todo) THEN Exported(Seen, t) ELSE dump[t]
    BY <1>1, <1>7
  <2> QED BY <1>7, <2>1 DEF IInv, TypeOK
<1>10. /\ view'.rows \in Seq(Row) /\ view'.details \subseteq Ids /\ view'.role \in [Users -> Roles]
       /\ pc' \in PCs
  BY <1>1, <1>2 DEF Sound, PCs
<1>11. TypeOK'
  <2>1. /\ UNCHANGED <<rows, details, role, woo, hpos, synced, last, modes, changes>>
        /\ UNCHANGED <<store, targets, itemIds, users, swallowed>>
    BY <1>1 DEF live, shop, found
  <2> QED BY <1>3, <1>9, <1>10, <2>1 DEF IInv, TypeOK
<1>12. woo => view' = view
  BY <1>1, <1>2
<1>13. Chosen' /\ ChosenExactly'
  <2>1. CASE woo
    BY <1>1, <1>12, <2>1, OrdersKept DEF OrdersTaken, IInv, TypeOK, found
  <2>2. CASE ~ woo
    BY <1>1, <1>4, <2>2 DEF Chosen, ChosenExactly, OrdersTaken
  <2> QED BY <2>1, <2>2
<1>14. Known'
  <2>1. CASE woo
    <3>1. /\ Staff(view)' = Staff(view) /\ Several(view)' = Several(view)
          /\ Customers(view, targets)' = Customers(view, targets)
      BY <1>1, <1>12, <2>1 DEF Staff, Several, Customers, found
    <3> QED BY <1>1, <1>4, <2>1, <3>1 DEF IInv, Known, UsersTaken, found
  <2>2. CASE ~ woo
    BY <1>1, <1>4, <2>2 DEF Known, UsersTaken
  <2> QED BY <2>1, <2>2
<1>15. woo => itemIds' = view'.details \cap Shop(view)' \cap targets'
  BY <1>1, <1>12 DEF IInv, Dumped, Shop, found
<1>16. ASSUME NEW t \in Listed
       PROVE  t \in ToDump' \/ dump'[t] = Exported(view, t)'
  <2>1. Exported(view, t)' = Exported(Seen, t)
    BY <1>1, ExportedAgain
  <2>2. CASE t = Head(todo)
    BY <1>1, <1>4, <1>7, <2>1, <2>2
  <2>3. CASE t # Head(todo) /\ t \in ToDump
    BY <1>3, <2>3
  <2>4. CASE t # Head(todo) /\ t \notin ToDump
    <3>1. dump[t] = Exported(view, t) /\ view # NoView
      BY <1>1, <2>4 DEF IInv, Dumped, Snapshot
    <3> QED BY <1>1, <1>2, <1>4, <1>7, <2>1, <2>4, <3>1
  <2> QED BY <2>2, <2>3, <2>4
<1>17. Dumped'
  <2>1. ToDump' \subseteq Listed'
    BY <1>1, <1>3, <1>4 DEF IInv, Dumped
  <2>2. \A t \in Listed' : t \in ToDump' \/ dump'[t] = Exported(view, t)'
    BY <1>4, <1>16
  <2> QED BY <1>3, <1>4, <1>8, <1>15, <2>1, <2>2 DEF Dumped
<1> QED BY <1>6, <1>11, <1>13, <1>14, <1>17 DEF IInv

LEMMA FailKeeps == IInv /\ Fail => IInv'
<1> SUFFICES ASSUME IInv, Fail PROVE IInv'
  OBVIOUS
<1>1. /\ pc' = "failed" /\ view' = NoView
      /\ store' = "posts" /\ targets' = {} /\ users' = {} /\ itemIds' = {} /\ modes' = NoModes
      /\ todo' = <<>> /\ dump' = [t \in Tables |-> {}] /\ swallowed' = FALSE
      /\ UNCHANGED <<live, shop, changes>>
  BY DEF Fail
<1>2. Sound(Live)'
  BY <1>1 DEF IInv, Snapshot, Sound, Live, live, Of
<1>3. Snapshot'
  BY <1>1, <1>2 DEF Snapshot, NoView
<1>4. NoView.rows \in Seq(Row) /\ NoView.details \subseteq Ids /\ NoView.role \in [Users -> Roles]
  BY DEF NoView, Roles
<1>5. todo' \in Seq(Tables) /\ \A t \in Tables : dump'[t] = {}
  BY <1>1
<1>6. TypeOK'
  BY <1>1, <1>4, <1>5 DEF IInv, TypeOK, PCs, live, shop
<1>7. Chosen' /\ ChosenExactly' /\ Known' /\ Dumped'
  BY <1>1 DEF Chosen, ChosenExactly, Known, Dumped, OrdersTaken, UsersTaken
<1> QED BY <1>3, <1>6, <1>7 DEF IInv

----------------------------------------------------------------------------
\* The site goes on without the export: what it changes leaves live sound.
LEMMA ChangeKeeps ==
    ASSUME IInv, Change, Sound(Live)'
    PROVE  IInv'
<1>1. /\ changes < MaxChanges /\ changes' = changes + 1 /\ UNCHANGED shop
      /\ UNCHANGED <<view, pc, store, targets, users, itemIds, modes, todo, dump, swallowed>>
  BY DEF Change, export, found
<1>2. UNCHANGED <<woo, hpos, synced, last>>
  BY <1>1 DEF shop
<1>3. changes' \in 0..MaxChanges
  BY <1>1, ExportAssumption DEF IInv, TypeOK
<1>4. /\ rows' \in Seq(Row) /\ DOMAIN rows' \subseteq Ids /\ details' \subseteq DOMAIN rows'
      /\ role' \in [Users -> Roles]
  BY DEF Sound, Live
<1>5. TypeOK'
  BY <1>1, <1>2, <1>3, <1>4 DEF IInv, TypeOK
<1>6. Snapshot'
  BY <1>1, <1>2 DEF IInv, Snapshot, Sound, Of, Listed, ToDump, NoView
<1>7. Chosen'
  BY <1>1, <1>2 DEF IInv, Chosen, Of, OrdersTaken
<1>8. Newest(view)' = Newest(view) /\ Wanted(view)' = Wanted(view)
  BY <1>1, <1>2 DEF Newest, Of, Wanted
<1>9. ChosenExactly'
  BY <1>1, <1>2, <1>8 DEF IInv, ChosenExactly, OrdersTaken
<1>10. Known'
  BY <1>1, <1>2 DEF IInv, Known, Staff, Several, Customers, UsersTaken
<1>11. Dumped'
  <2>1. \A t : Exported(view, t)' = Exported(view, t)
    BY <1>1, ExportedAgain DEF found
  <2>2. Shop(view)' = Shop(view) /\ Listed' = Listed /\ ToDump' = ToDump
    BY <1>1, <1>2 DEF Shop, Listed, ToDump
  <2> QED BY <1>1, <1>2, <2>1, <2>2 DEF IInv, Dumped
<1> QED BY <1>5, <1>6, <1>7, <1>9, <1>10, <1>11 DEF IInv

\* A new row has the next ID; the rows before it stay what they are.
LEMMA AppendIsSound ==
    ASSUME IInv, NEW r \in Row, rows' = Append(rows, r), details' = details, role' = role,
           Cardinality(DOMAIN rows) + 1 \in Ids,
           r.type = "order" => r.customer \in People,
           r.type = "refund" => r.parent \in DOMAIN rows /\ rows[r.parent].type = "order"
    PROVE  Sound(Live)'
<1> DEFINE n == Len(rows)
<1>1. /\ rows \in Seq(Row) /\ rows # <<>> /\ DOMAIN rows \subseteq Ids /\ details \subseteq DOMAIN rows
      /\ role \in [Users -> Roles]
      /\ \A i \in DOMAIN rows : rows[i].type = "order" => rows[i].customer \in People
      /\ \A i \in DOMAIN rows : rows[i].type = "refund" =>
           rows[i].parent \in DOMAIN rows /\ rows[rows[i].parent].type = "order"
  BY DEF IInv, Snapshot, Sound, Live, Of
<1>2. n \in Nat /\ DOMAIN rows = 1..n
  BY <1>1, LenProperties
<1>3. Cardinality(DOMAIN rows) = n
  <2>1. Cardinality(1..n) = IF 1 > n THEN 0 ELSE n - 1 + 1
    BY <1>2, FS_Interval
  <2> QED BY <1>2, <2>1
<1>4. /\ rows' \in Seq(Row) /\ DOMAIN rows' = 1..(n + 1)
      /\ \A i \in 1..n : rows'[i] = rows[i]
      /\ rows'[n + 1] = r
  BY <1>1, <1>2, AppendProperties
<1>5. DOMAIN rows' = DOMAIN rows \cup {n + 1} /\ n + 1 \in Ids
  BY <1>2, <1>3, <1>4
<1>6. rows' # <<>>
  BY <1>2, <1>4
<1>7. ASSUME NEW i \in DOMAIN rows'
      PROVE  /\ rows'[i].type = "order" => rows'[i].customer \in People
             /\ rows'[i].type = "refund" =>
                  rows'[i].parent \in DOMAIN rows' /\ rows'[rows'[i].parent].type = "order"
  <2>1. CASE i \in DOMAIN rows
    BY <1>1, <1>2, <1>4, <1>5, <2>1
  <2>2. CASE i = n + 1
    BY <1>2, <1>4, <1>5, <2>2
  <2> QED BY <1>5, <1>7, <2>1, <2>2
<1> QED BY <1>1, <1>4, <1>5, <1>6, <1>7 DEF Sound, Live, Of

LEMMA NewRowKeeps == IInv /\ NewRow => IInv'
<1> SUFFICES ASSUME IInv, NewRow PROVE IInv'
  OBVIOUS
<1>1. /\ Change /\ UNCHANGED <<details, role>> /\ Cardinality(DOMAIN rows) + 1 \in Ids
      /\ \/ \E p \in People :
              rows' = Append(rows, [type |-> "order", parent |-> 0, customer |-> p])
         \/ \E i \in DOMAIN rows :
              /\ rows[i].type = "order"
              /\ rows' = Append(rows, [type |-> "refund", parent |-> i, customer |-> NoOne])
  BY DEF NewRow, People
<1>2. DOMAIN rows \subseteq Ids
  BY DEF IInv, TypeOK
<1>3. ASSUME NEW p \in People,
             rows' = Append(rows, [type |-> "order", parent |-> 0, customer |-> p])
      PROVE  Sound(Live)'
  <2>1. [type |-> "order", parent |-> 0, customer |-> p] \in Row
    BY DEF Row, Types
  <2> QED BY <1>1, <1>3, <2>1, AppendIsSound
<1>4. ASSUME NEW i \in DOMAIN rows, rows[i].type = "order",
             rows' = Append(rows, [type |-> "refund", parent |-> i, customer |-> NoOne])
      PROVE  Sound(Live)'
  <2>1. [type |-> "refund", parent |-> i, customer |-> NoOne] \in Row
    BY <1>2 DEF Row, Types
  <2> QED BY <1>1, <1>4, <2>1, AppendIsSound
<1> QED BY <1>1, <1>3, <1>4, ChangeKeeps

LEMMA NewDetailsKeeps == IInv /\ NewDetails => IInv'
<1> SUFFICES ASSUME IInv, NewDetails PROVE IInv'
  OBVIOUS
<1>1. Change /\ UNCHANGED <<rows, role>> /\ details' \subseteq details \cup DOMAIN rows
  BY DEF NewDetails
<1>2. Sound(Live)'
  BY <1>1 DEF IInv, Snapshot, Sound, Live, Of
<1> QED BY <1>1, <1>2, ChangeKeeps

LEMMA NewRoleKeeps == IInv /\ NewRole => IInv'
<1> SUFFICES ASSUME IInv, NewRole PROVE IInv'
  OBVIOUS
<1>1. /\ Change /\ UNCHANGED <<rows, details>>
      /\ \E u \in Users, r \in Roles : role' = [role EXCEPT ![u] = r]
  BY DEF NewRole
<1>2. role' \in [Users -> Roles]
  BY <1>1 DEF IInv, TypeOK
<1>3. Sound(Live)'
  BY <1>1, <1>2 DEF IInv, Snapshot, Sound, Live, Of
<1> QED BY <1>1, <1>3, ChangeKeeps

LEMMA StutterKeeps == IInv /\ UNCHANGED vars => IInv'
<1> SUFFICES ASSUME IInv, UNCHANGED vars PROVE IInv'
  OBVIOUS
<1>1. /\ UNCHANGED <<rows, details, role, woo, hpos, synced, last, changes, view, pc>>
      /\ UNCHANGED <<store, targets, users, itemIds, modes, todo, dump, swallowed, shop, found>>
  BY DEF vars, live, shop, export, found
<1>2. TypeOK'
  BY <1>1 DEF IInv, TypeOK
<1>3. Snapshot' /\ Chosen'
  BY <1>1 DEF IInv, Snapshot, Chosen, Sound, Live, Of, Listed, ToDump, NoView, OrdersTaken
<1>4. Newest(view)' = Newest(view) /\ Wanted(view)' = Wanted(view)
  BY <1>1 DEF Newest, Of, Wanted
<1>5. ChosenExactly' /\ Known'
  BY <1>1, <1>4 DEF IInv, ChosenExactly, Known, Staff, Several, Customers, OrdersTaken, UsersTaken
<1>6. Dumped'
  <2>1. \A t : Exported(view, t)' = Exported(view, t)
    BY <1>1, ExportedAgain
  <2>2. Shop(view)' = Shop(view) /\ Listed' = Listed /\ ToDump' = ToDump
    BY <1>1 DEF Shop, Listed, ToDump
  <2> QED BY <1>1, <2>1, <2>2 DEF IInv, Dumped
<1> QED BY <1>2, <1>3, <1>5, <1>6 DEF IInv

LEMMA NextKeeps == IInv /\ [Next]_vars => IInv'
<1> SUFFICES ASSUME IInv, [Next]_vars PROVE IInv'
  OBVIOUS
<1>1. CASE ReadStore        BY <1>1, ReadStoreKeeps
<1>2. CASE ReadOrders       BY <1>2, ReadOrdersKeeps
<1>3. CASE ReadRefunds      BY <1>3, ReadRefundsKeeps
<1>4. CASE ReadStaff        BY <1>4, ReadStaffKeeps
<1>5. CASE ReadSeveralRoles BY <1>5, ReadSeveralRolesKeeps
<1>6. CASE ReadCustomers    BY <1>6, ReadCustomersKeeps
<1>7. CASE ReadItems        BY <1>7, ReadItemsKeeps
<1>8. CASE NoShop           BY <1>8, NoShopKeeps
<1>9. CASE Dump             BY <1>9, DumpKeeps
<1>10. CASE Fail            BY <1>10, FailKeeps
<1>11. CASE NewRow          BY <1>11, NewRowKeeps
<1>12. CASE NewDetails      BY <1>12, NewDetailsKeeps
<1>13. CASE NewRole         BY <1>13, NewRoleKeeps
<1>14. CASE UNCHANGED vars  BY <1>14, StutterKeeps
<1> QED
  BY <1>1, <1>2, <1>3, <1>4, <1>5, <1>6, <1>7, <1>8, <1>9, <1>10, <1>11, <1>12, <1>13, <1>14
  DEF Next, Read

LEMMA IInvHolds == Spec => []IInv
BY InitHolds, NextKeeps, PTL DEF Spec

----------------------------------------------------------------------------
\* The variables keep their types (getTargetOrderIDs, getSafeUserIDs, classify and
\* Run of export.go), whatever live does between two queries.
THEOREM TypesHold == Spec => []TypeOK
<1>1. IInv => TypeOK
  BY DEF IInv
<1> QED BY <1>1, IInvHolds, PTL

\* At the end every listed table was dumped from the snapshot.
LEMMA DoneDump ==
    ASSUME IInv, pc = "done"
    PROVE  /\ Sound(view) /\ \A t \in Listed : dump[t] = Exported(view, t)
           /\ woo => \A t \in Tables \ {"posts", "postmeta"} : dump[t] = Filtered(view, t)
           /\ woo => \A t \in {"posts", "postmeta"} :
                dump[t] = CASE modes[t] = "no_rows" -> {}
                            [] modes[t] = "custom_rule" -> DOMAIN view.rows
                            [] modes[t] = "structure_and_data" -> Filtered(view, t)
<1>1. view # NoView /\ Sound(view)
  BY DEF IInv, Snapshot
<1>2. ToDump = {}
  BY DEF IInv, Dumped, ToDump, Elements
<1>3. \A t \in Listed : dump[t] = Exported(view, t)
  BY <1>2 DEF IInv, Dumped
<1>4. woo => Listed = Tables /\ {"posts", "postmeta"} \subseteq Tables
  BY DEF Listed, Tables
<1> QED BY <1>1, <1>3, <1>4, ExportedRows DEF IInv

\* Of the posts those of orders are filtered in the mode structure_and_data: the
\* type of an order's post is always one of orderPostTypes, placeholders included.
LEMMA PostsFiltered ==
    ASSUME TypeOK, NEW s, Sound(s), NEW t \in {"posts", "postmeta"}
    PROVE  Filtered(s, t) = (DOMAIN s.rows \ Shop(s)) \cup (targets \cap DOMAIN s.rows)
<1>1. \A i \in DOMAIN s.rows : s.rows[i].type \in Types
  <2>1. \A i \in DOMAIN s.rows : s.rows[i] \in Row
    BY LenProperties DEF Sound
  <2> QED BY <2>1 DEF Row
<1>2. \A i \in DOMAIN s.rows : PostType(s, i) \in OrderPosts <=> i \in Shop(s)
  BY <1>1 DEF PostType, OrderPosts, Shop, Types
<1> QED BY <1>2 DEF Filtered

LEMMA FitsTogetherFollows == IInv => FitsTogether
<1> SUFFICES ASSUME IInv, pc = "done", woo, modes["posts"] = "structure_and_data"
             PROVE  /\ \A i \in Orders : LET r == view.rows[i] IN
                         /\ r.type = "refund" => r.parent \in Orders
                         /\ r.customer \in Accounts(view) => r.customer \in dump["users"]
                         /\ r.type = "order" /\ i \in view.details => r.customer \in dump["customers"]
                         /\ i \in view.details => i \in dump["items"] /\ i \in dump["comments"]
                    /\ dump["items"] \subseteq Orders
                    /\ dump["itemmeta"] = dump["items"]
                    /\ dump["commentmeta"] = dump["comments"]
                    /\ dump["comments"] \cap Shop(view) \subseteq Orders
                    /\ modes["postmeta"] = "structure_and_data" => dump["postmeta"] = dump["posts"]
  BY DEF FitsTogether
<1>1. /\ Sound(view) /\ TypeOK
      /\ \A t \in Tables \ {"posts", "postmeta"} : dump[t] = Filtered(view, t)
      /\ dump["posts"] = Filtered(view, "posts")
      /\ modes["postmeta"] = "structure_and_data" => dump["postmeta"] = Filtered(view, "postmeta")
  BY DoneDump DEF IInv
<1>2. /\ dump["orders"] = WcOrders(view) \cap targets
      /\ dump["items"] = view.details \cap Shop(view) \cap targets
      /\ dump["itemmeta"] = view.details \cap Shop(view) \cap itemIds
      /\ dump["comments"] = Commented(view) /\ dump["commentmeta"] = Commented(view)
      /\ dump["users"] = users \cap Accounts(view)
      /\ dump["customers"] = {p \in Lookup(view) :
            p \in users \/ \E i \in view.details \cap targets : view.rows[i].customer = p}
  BY <1>1 DEF Tables, Filtered
<1>3. dump["posts"] = (DOMAIN view.rows \ Shop(view)) \cup (targets \cap DOMAIN view.rows)
  BY <1>1, PostsFiltered
<1>4. /\ targets \subseteq Of(view, "order") \cup Of(view, "refund")
      /\ \A i \in targets \cap Of(view, "refund") : view.rows[i].parent \in targets
      /\ Customers(view, targets) \cap Users \subseteq users
      /\ itemIds = view.details \cap Shop(view) \cap targets
  BY DEF IInv, Chosen, OrdersTaken, Known, UsersTaken, Dumped
<1>5. targets \subseteq Shop(view) /\ Shop(view) \subseteq DOMAIN view.rows
  BY <1>4 DEF Of, Shop
<1>6. Orders = targets
  BY <1>2, <1>3, <1>5 DEF Orders, WcOrders
<1>7. ASSUME NEW i \in targets
      PROVE  /\ view.rows[i].type = "refund" => view.rows[i].parent \in targets
             /\ view.rows[i].customer \in Accounts(view) => view.rows[i].customer \in dump["users"]
             /\ view.rows[i].type = "order" /\ i \in view.details =>
                  view.rows[i].customer \in dump["customers"]
             /\ i \in view.details => i \in dump["items"] /\ i \in dump["comments"]
  <2>1. view.rows[i].type = "refund" => view.rows[i].parent \in targets
    BY <1>4, <1>5 DEF Of
  <2>2. view.rows[i].customer \in Accounts(view) => view.rows[i].customer \in dump["users"]
    BY <1>2, <1>4, <1>5 DEF Customers, Accounts
  <2>3. view.rows[i].type = "order" /\ i \in view.details =>
          view.rows[i].customer \in dump["customers"]
    BY <1>2 DEF Lookup
  <2>4. i \in view.details => i \in dump["items"] /\ i \in dump["comments"]
    BY <1>2, <1>5 DEF Commented
  <2> QED BY <2>1, <2>2, <2>3, <2>4
<1>8. dump["items"] \subseteq targets /\ dump["itemmeta"] = dump["items"]
  BY <1>2, <1>4
<1>9. dump["comments"] \cap Shop(view) \subseteq targets
  BY <1>2 DEF Commented
<1>10. modes["postmeta"] = "structure_and_data" => dump["postmeta"] = dump["posts"]
  BY <1>1, <1>3, PostsFiltered
<1> QED BY <1>2, <1>6, <1>7, <1>8, <1>9, <1>10

LEMMA NobodyElseFollows == IInv => NobodyElse
<1> SUFFICES ASSUME IInv, pc = "done", woo
             PROVE  /\ \A u \in dump["users"] : view.role[u] = "customer" =>
                         \E i \in targets : view.rows[i].customer = u
                    /\ \A p \in dump["customers"] :
                         \/ p \in dump["users"]
                         \/ p \notin Accounts(view) /\ \E i \in targets : view.rows[i].customer = p
                    /\ modes["posts"] # "custom_rule" => Orders \subseteq targets
                    /\ modes["postmeta"] # "custom_rule" =>
                         dump["postmeta"] \cap Shop(view) \subseteq targets
  BY DEF NobodyElse
<1>1. /\ Sound(view) /\ TypeOK
      /\ \A t \in Tables \ {"posts", "postmeta"} : dump[t] = Filtered(view, t)
      /\ \A t \in {"posts", "postmeta"} :
           dump[t] = CASE modes[t] = "no_rows" -> {}
                       [] modes[t] = "custom_rule" -> DOMAIN view.rows
                       [] modes[t] = "structure_and_data" -> Filtered(view, t)
  BY DoneDump DEF IInv
<1>2. /\ dump["orders"] = WcOrders(view) \cap targets
      /\ dump["users"] = users \cap Accounts(view)
      /\ dump["customers"] = {p \in Lookup(view) :
            p \in users \/ \E i \in view.details \cap targets : view.rows[i].customer = p}
  BY <1>1 DEF Tables, Filtered
<1>3. /\ Customers(view, targets) \cap Users \subseteq users
      /\ users \subseteq Staff(view) \cup Several(view) \cup Customers(view, targets)
      /\ users \subseteq Users
  BY <1>1 DEF IInv, Known, UsersTaken, TypeOK
<1>4. ASSUME NEW t \in {"posts", "postmeta"}, modes[t] # "custom_rule"
      PROVE  dump[t] \cap Shop(view) \subseteq targets
  <2>1. modes[t] \in {"structure_and_data", "no_rows", "custom_rule"}
    BY <1>1, ModeValues
  <2>2. dump[t] \in {{}, Filtered(view, t)}
    BY <1>1, <1>4, <2>1
  <2> QED BY <1>1, <2>2, PostsFiltered
<1>5. ASSUME NEW u \in users
      PROVE  \/ view.role[u] \in {"staff", "both"}
             \/ \E i \in targets : view.rows[i].customer = u
  BY <1>3 DEF Staff, Several, Customers
<1>6. ASSUME NEW p \in dump["customers"]
      PROVE  \/ p \in dump["users"]
             \/ p \notin Accounts(view) /\ \E i \in targets : view.rows[i].customer = p
  <2>1. CASE p \in users
    BY <1>2, <1>3, <1>5, <2>1 DEF Accounts
  <2>2. CASE p \notin users
    <3>1. PICK i \in view.details \cap targets : view.rows[i].customer = p
      BY <1>2, <2>2
    <3>2. i \in DOMAIN view.rows
      BY <1>1 DEF Sound
    <3>3. p \notin Users
      BY <1>3, <2>2, <3>1, <3>2 DEF Customers
    <3> QED BY <3>1, <3>3 DEF Accounts
  <2> QED BY <2>1, <2>2
<1>7. \A u \in dump["users"] : view.role[u] = "customer" =>
         \E i \in targets : view.rows[i].customer = u
  BY <1>2, <1>5
<1>8. modes["posts"] # "custom_rule" => Orders \subseteq targets
  BY <1>2, <1>4 DEF Orders
<1> QED BY <1>4, <1>6, <1>7, <1>8

LEMMA TakesTheWantedFollows == IInv => TakesTheWanted
<1> SUFFICES ASSUME IInv, pc = "done" PROVE TakesTheWanted
  BY DEF TakesTheWanted
<1>1. /\ Sound(view) /\ TypeOK /\ \A t \in Listed : dump[t] = Exported(view, t)
      /\ woo => \A t \in Tables \ {"posts", "postmeta"} : dump[t] = Filtered(view, t)
      /\ woo /\ modes["posts"] = "structure_and_data" => dump["posts"] = Filtered(view, "posts")
  BY DoneDump DEF IInv
<1>2. ASSUME ~ woo, NEW t \in {"comments", "commentmeta", "posts", "postmeta", "users"}
      PROVE  dump[t] = IF Mode(t) = "no_rows" THEN {} ELSE Whole(view, t)
  <2>1. t \in Listed
    BY <1>2 DEF Listed
  <2> QED BY <1>1, <1>2, <2>1, ExportedRows
<1>3. ASSUME woo, ~ swallowed
      PROVE  /\ targets = Wanted(view)
             /\ WcOrders(view) # {} => dump["orders"] = Wanted(view)
             /\ modes["posts"] = "structure_and_data" =>
                   dump["posts"] = Wanted(view) \cup (DOMAIN view.rows \ Shop(view))
             /\ {u \in Users : view.role[u] \in {"staff", "both"}} \subseteq dump["users"]
             /\ view.details \ Shop(view) \subseteq dump["comments"]
  <2>1. /\ targets = Wanted(view)
        /\ targets \subseteq Of(view, "order") \cup Of(view, "refund")
        /\ Staff(view) \subseteq users /\ Several(view) \subseteq users
    BY <1>3 DEF IInv, Chosen, ChosenExactly, OrdersTaken, Known, UsersTaken
  <2>2. /\ dump["orders"] = WcOrders(view) \cap targets
        /\ dump["users"] = users \cap Accounts(view)
        /\ dump["comments"] = Commented(view)
    BY <1>1, <1>3 DEF Tables, Filtered
  <2>3. targets \subseteq Shop(view) /\ targets \subseteq DOMAIN view.rows
    BY <2>1 DEF Of, Shop
  <2>4. WcOrders(view) # {} => dump["orders"] = Wanted(view)
    BY <2>1, <2>2, <2>3 DEF WcOrders
  <2>5. modes["posts"] = "structure_and_data" =>
          dump["posts"] = Wanted(view) \cup (DOMAIN view.rows \ Shop(view))
    BY <1>1, <1>3, <2>1, <2>3, PostsFiltered
  <2>6. {u \in Users : view.role[u] \in {"staff", "both"}} \subseteq dump["users"]
    BY <2>1, <2>2 DEF Staff, Several, Accounts
  <2>7. view.details \ Shop(view) \subseteq dump["comments"]
    BY <2>2 DEF Commented
  <2> QED BY <2>1, <2>4, <2>5, <2>6, <2>7
<1> QED BY <1>2, <1>3 DEF TakesTheWanted

----------------------------------------------------------------------------
\* What is exported fits together (export.go:352-355), although live sells, refunds
\* and changes accounts between any two queries and two queries may fail unnoticed.
THEOREM ExportFitsTogether == Spec => []FitsTogether
BY IInvHolds, FitsTogetherFollows, PTL

\* Of the customers only those of the exported orders get to staging
\* (docs/how-it-works.md:103-107), even if a query failed unnoticed.
THEOREM OnlyTheirCustomers == Spec => []NobodyElse
BY IInvHolds, NobodyElseFollows, PTL

\* Unless a query failed unnoticed, getTargetOrderIDs takes exactly the first Count
\* orders in the order asked for with all their refunds, and getSafeUserIDs every
\* account that is not just a customer, whichever store holds the orders.
THEOREM WantedIsTaken == Spec => []TakesTheWanted
BY IInvHolds, TakesTheWantedFollows, PTL
=============================================================================
