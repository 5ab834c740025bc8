---------------------------- MODULE ExportFilter ----------------------------
(***************************************************************************)
(* The export of a site (internal/export/export.go): which orders, users   *)
(* and dependent rows it takes from live, while a shop goes on selling.    *)
(* Run reads everything in one REPEATABLE READ transaction: its first      *)
(* query takes the snapshot that all later ones see (InnoDB).              *)
(*                                                                         *)
(* Orders, refunds, subscriptions and other posts share one sequence of    *)
(* IDs.  The dependent rows of a row (an order's items, their meta, its    *)
(* note, its statistics and points; the review of a post) are written some *)
(* time after it; each is named by the ID of the row it belongs to.        *)
(*                                                                         *)
(* Of the table modes those of posts and postmeta are modelled; the mode   *)
(* of another table decides on that table alone.  "no_rows" stands for     *)
(* structure_only and ignore.                                              *)
(***************************************************************************)
EXTENDS Integers, Sequences, FiniteSets

CONSTANTS
    Users,        \* the accounts
    Guests,       \* people who buy without one
    Count,        \* cfg.OrderCount
    TableModes,   \* the modes that a configuration may have
    MaxId,        \* bound: IDs
    MaxChanges    \* bound: changes of live while the export runs

ASSUME ExportAssumption ==
    /\ IsFiniteSet(Users) /\ IsFiniteSet(Guests) /\ Users \cap Guests = {}
    /\ {Count, MaxId, MaxChanges} \subseteq Nat /\ MaxId >= 2
    /\ TableModes \subseteq
         [{"posts", "postmeta"} -> {"structure_and_data", "no_rows", "custom_rule"}]

Ids == 1..MaxId
NoOne == "nobody"
People == Users \cup Guests
Types == {"order", "refund", "subscription", "post"}
Roles == {"gone", "customer", "staff", "both"}

Row == [type : Types, parent : Ids \cup {0}, customer : People \cup {NoOne}]

Tables == {"orders", "items", "itemmeta", "comments", "commentmeta", "users", "posts",
           "postmeta", "customers", "points"}

VARIABLES
    rows,       \* live: the rows by ID
    details,    \* live: the IDs whose dependent rows are written
    role,       \* live: the role of each account
    woo,        \* WooCommerce's tables are there
    hpos,       \* WooCommerce reads orders from wc_orders
    synced,     \* each store has a copy of the other's orders
    last,       \* cfg.OrderPreference: the newest orders, not the oldest
    changes,    \* changes since the export began
    view,       \* the snapshot of the transaction
    pc,         \* the next query of the export
    store,      \* the store the export reads, "wc_orders" or "posts"
    targets,    \* orderIDs
    users,      \* userIDs
    itemIds,    \* orderItemIDs
    modes,      \* cfg.TableModes, chosen when it is read
    todo,       \* the tables still to dump
    dump,       \* the rows exported so far, by table
    swallowed   \* history: a query failed and the export went on

live == <<rows, details, role>>
shop == <<woo, hpos, synced, last>>
found == <<store, targets, users, itemIds, modes>>
export == <<view, pc, found, todo, dump, swallowed>>
vars == <<live, shop, changes, export>>

PCs == {"store", "orders", "refunds", "staff", "several", "customers", "items", "dump",
        "done", "failed"}

----------------------------------------------------------------------------
\* What the tables of a database hold; s is live or the snapshot of it.
Live == [rows |-> rows, details |-> details, role |-> role]

Shop(s) == {i \in DOMAIN s.rows : s.rows[i].type # "post"}

WcOrders(s) == IF hpos \/ synced THEN Shop(s) ELSE {}

\* The type of a row in posts; with HPOS and no copies there are placeholders.
PostType(s, i) ==
    IF i \in Shop(s) /\ hpos /\ ~synced THEN "placehold" ELSE s.rows[i].type

\* wc_customer_lookup has the customers of the orders that are in the statistics.
Lookup(s) == {s.rows[i].customer : i \in {j \in s.details : s.rows[j].type = "order"}}

Accounts(s) == {u \in Users : s.role[u] # "gone"}

----------------------------------------------------------------------------
NoModes == [t \in {"posts", "postmeta"} |-> "structure_and_data"]

NoView == [rows |-> <<>>, details |-> {}, role |-> [u \in Users |-> "gone"]]

Init ==
    /\ rows \in {r \in [{1, 2} -> Row] :
                   /\ r[1].type \in {"order", "subscription", "post"}
                   /\ r[2].type # "subscription" /\ r[2].type # "post"
                   /\ \A i \in {1, 2} : r[i].customer = NoOne <=> r[i].type \in {"refund", "post"}
                   /\ \A i \in {1, 2} : r[i].parent = (IF r[i].type = "refund" THEN 1 ELSE 0)
                   /\ r[2].type = "refund" => r[1].type = "order"}
    /\ details \in {{}, {1, 2}}
    /\ role \in [Users -> Roles]
    /\ woo \in BOOLEAN /\ hpos \in BOOLEAN /\ synced \in BOOLEAN /\ last \in BOOLEAN
    /\ hpos \/ synced \/ last => woo
    /\ changes = 0
    /\ pc = "store"
    /\ view = NoView
    /\ store = "posts" /\ targets = {} /\ users = {} /\ itemIds = {} /\ modes = NoModes
    /\ todo = <<>>
    /\ dump = [t \in Tables |-> {}]
    /\ swallowed = FALSE

\* The transaction's first query takes the snapshot.
Seen_Live == Live

Seen == IF view = NoView THEN Live ELSE view

Query(here, next) ==
    /\ pc = here
    /\ view' = Seen
    /\ pc' = next
    /\ UNCHANGED <<live, shop, modes, changes, todo, dump>>

\* A query fails and Run returns its error, and nothing of the export.
Fail ==
    /\ pc \notin {"several", "done", "failed"}
    /\ pc' = "failed"
    /\ view' = NoView
    /\ store' = "posts" /\ targets' = {} /\ users' = {} /\ itemIds' = {} /\ modes' = NoModes
    /\ todo' = <<>>
    /\ dump' = [t \in Tables |-> {}]
    /\ swallowed' = FALSE
    /\ UNCHANGED <<live, shop, changes>>

----------------------------------------------------------------------------
\* hposAuthoritative: an error counts as no, so the orders are in posts.
ReadStore ==
    /\ woo /\ Query("store", "orders")
    /\ \/ store' = (IF hpos THEN "wc_orders" ELSE "posts") /\ UNCHANGED swallowed
       \/ store' = "posts" /\ swallowed' = TRUE
    /\ UNCHANGED <<targets, users, itemIds>>

\* The rows of a type in the store that the export reads.
Stored(s, type) ==
    {i \in DOMAIN s.rows : IF store = "posts" THEN PostType(s, i) = type
                           ELSE i \in WcOrders(s) /\ s.rows[i].type = type}

\* ORDER BY id, with DESC for the newest.
Sorted(ids) ==
    CHOOSE s \in [1..Cardinality(ids) -> ids] :
        \A a, b \in DOMAIN s : a < b => IF last THEN s[a] > s[b] ELSE s[a] < s[b]

\* The same with LIMIT Count.
Limited(ids) == {Sorted(ids)[k] : k \in {n \in 1..Cardinality(ids) : n <= Count}}

\* getTargetOrderIDs: the orders.
ReadOrders ==
    /\ Query("orders", "refunds")
    /\ targets' = Limited(Stored(Seen, "order"))
    /\ UNCHANGED <<store, users, itemIds, swallowed>>

ReadRefunds_TheirOwnLimit ==
    /\ Query("refunds", "staff")
    /\ targets' = targets \cup {i \in Limited(Stored(Seen, "refund")) :
                                  Seen.rows[i].parent \in targets}
    /\ UNCHANGED <<store, users, itemIds, swallowed>>

\* getTargetOrderIDs: their refunds.
ReadRefunds ==
    /\ Query("refunds", "staff")
    /\ targets' = targets \cup {i \in Stored(Seen, "refund") : Seen.rows[i].parent \in targets}
    /\ UNCHANGED <<store, users, itemIds, swallowed>>

\* getSafeUserIDs, set A: the accounts that are not customers.
ReadStaff ==
    /\ Query("staff", "several")
    /\ users' = {u \in Users : Seen.role[u] = "staff"}
    /\ UNCHANGED <<store, targets, itemIds, swallowed>>

\* getSafeUserIDs: the accounts with several roles; an error is passed over.
ReadSeveralRoles ==
    /\ Query("several", "customers")
    /\ \/ users' = users \cup {u \in Users : Seen.role[u] = "both"} /\ UNCHANGED swallowed
       \/ users' = users /\ swallowed' = TRUE
    /\ UNCHANGED <<store, targets, itemIds>>

ReadCustomers_WithGuests ==
    /\ Query("customers", "items")
    /\ users' = users \cup {Seen.rows[i].customer : i \in targets \cap DOMAIN Seen.rows}
    /\ UNCHANGED <<store, targets, itemIds, swallowed>>

\* getSafeUserIDs, set B: the customers of the target orders.
ReadCustomers ==
    /\ Query("customers", "items")
    /\ users' = users \cup ({Seen.rows[i].customer : i \in targets \cap DOMAIN Seen.rows} \cap Users)
    /\ UNCHANGED <<store, targets, itemIds, swallowed>>

\* getTableMode
Mode(t) == IF t \in DOMAIN modes THEN modes[t] ELSE "structure_and_data"

\* Without WooCommerce no query is asked before the dump.
NoShop ==
    /\ ~ woo /\ pc = "store"
    /\ modes' \in TableModes
    /\ pc' = "dump"
    /\ todo' = <<"comments", "commentmeta", "posts", "postmeta", "users">>
    /\ UNCHANGED <<live, shop, changes, view, store, targets, users, itemIds, dump, swallowed>>

(***************************************************************************)
(* classify: the order items, then the list of tables.  Posts and postmeta *)
(* come with the other tables unless their mode is structure_and_data.  Go *)
(* ranges over customOrderTables in any order, which makes no difference   *)
(* in one snapshot.                                                        *)
(***************************************************************************)
ReadItems ==
    /\ pc = "items"
    /\ view' = Seen
    /\ pc' = "dump"
    /\ itemIds' = Seen.details \cap Shop(Seen) \cap targets
    /\ modes' \in TableModes
    /\ LET ruled(t) == modes'[t] = "structure_and_data"
           listed(t, b) == IF ruled(t) = b THEN <<t>> ELSE <<>>
       IN  todo' = <<"orders", "items", "itemmeta", "comments", "commentmeta", "users">>
                   \o listed("posts", TRUE) \o listed("postmeta", TRUE)
                   \o <<"customers", "points">>
                   \o listed("posts", FALSE) \o listed("postmeta", FALSE)
    /\ UNCHANGED <<live, shop, changes, store, targets, users, dump, swallowed>>

----------------------------------------------------------------------------
OrderPosts_AsHposOff == {"order", "refund", "subscription"}

\* orderPostTypes
OrderPosts == {"order", "refund", "subscription", "placehold"}

\* commentFilter: every comment that is not a note, and the notes of the targets.
Commented(s) == {i \in s.details : i \notin Shop(s) \/ i \in targets}

\* The rows of a table that its filter lets through.
Filtered(s, t) ==
    CASE t = "orders" -> WcOrders(s) \cap targets
      [] t = "items" -> s.details \cap Shop(s) \cap targets
      [] t = "itemmeta" -> s.details \cap Shop(s) \cap itemIds
      [] t \in {"comments", "commentmeta"} -> Commented(s)
      [] t = "users" -> users \cap Accounts(s)
      [] t = "posts" -> {i \in DOMAIN s.rows : PostType(s, i) \notin OrderPosts \/ i \in targets}
      [] t = "postmeta" ->
            DOMAIN s.rows \ {i \in DOMAIN s.rows : PostType(s, i) \in OrderPosts /\ i \notin targets}
      [] t = "customers" ->
            {p \in Lookup(s) : \/ p \in users
                               \/ \E i \in s.details \cap targets : s.rows[i].customer = p}
      [] t = "points" ->
            {i \in s.details \cap Shop(s) : i \in targets \/ s.rows[i].customer \in users}

\* The rows of a table without a filter.
Whole(s, t) ==
    CASE t \in {"posts", "postmeta"} -> DOMAIN s.rows
      [] t \in {"comments", "commentmeta"} -> s.details
      [] t = "users" -> Accounts(s)

\* classify only filters posts and postmeta in the mode structure_and_data.
Exported(s, t) ==
    CASE Mode(t) = "no_rows" -> {}
      [] Mode(t) # "no_rows" /\ (~ woo \/ Mode(t) = "custom_rule") -> Whole(s, t)
      [] woo /\ Mode(t) = "structure_and_data" -> Filtered(s, t)

\* Run: one table after the other.
Dump ==
    /\ pc = "dump"
    /\ view' = Seen
    /\ dump' = [dump EXCEPT ![Head(todo)] = Exported(Seen, Head(todo))]
    /\ todo' = Tail(todo)
    /\ pc' = IF Len(todo) = 1 THEN "done" ELSE "dump"
    /\ UNCHANGED <<live, shop, changes, found, swallowed>>

----------------------------------------------------------------------------
\* Live goes on while the export runs.
Change ==
    /\ pc \notin {"done", "failed"}
    /\ changes < MaxChanges
    /\ changes' = changes + 1
    /\ UNCHANGED <<shop, export>>

\* A customer orders, or the shop refunds an order.
NewRow ==
    /\ Change
    /\ LET new == Cardinality(DOMAIN rows) + 1
           order(p) == [type |-> "order", parent |-> 0, customer |-> p]
           refund(i) == [type |-> "refund", parent |-> i, customer |-> NoOne]
       IN /\ new \in Ids
          /\ \/ \E p \in Guests \cup {u \in Users : role[u] # "gone"} : rows' = Append(rows, order(p))
             \/ \E i \in DOMAIN rows : rows[i].type = "order" /\ rows' = Append(rows, refund(i))
    /\ UNCHANGED <<details, role>>

\* The dependent rows of a row are written.
NewDetails ==
    /\ Change
    /\ \E i \in DOMAIN rows \ details : details' = details \cup {i}
    /\ UNCHANGED <<rows, role>>

\* An account comes, goes, or gets another role.
NewRole ==
    /\ Change
    /\ \E u \in Users, r \in Roles : role[u] # r /\ role' = [role EXCEPT ![u] = r]
    /\ UNCHANGED <<rows, details>>

Read == ReadStore \/ ReadOrders \/ ReadRefunds \/ ReadStaff \/ ReadSeveralRoles
        \/ ReadCustomers \/ ReadItems \/ NoShop

Next == Read \/ Dump \/ Fail \/ NewRow \/ NewDetails \/ NewRole

Spec == Init /\ [][Next]_vars

----------------------------------------------------------------------------
\* The type invariant.
TypeOK ==
    /\ rows \in Seq(Row) /\ DOMAIN rows \subseteq Ids
    /\ details \subseteq DOMAIN rows
    /\ role \in [Users -> Roles]
    /\ {woo, hpos, synced, last} \subseteq BOOLEAN
    /\ modes \in TableModes \cup {NoModes}
    /\ changes \in 0..MaxChanges
    /\ view.rows \in Seq(Row) /\ view.details \subseteq Ids /\ view.role \in [Users -> Roles]
    /\ pc \in PCs
    /\ store \in {"wc_orders", "posts"}
    /\ targets \subseteq Ids /\ itemIds \subseteq Ids
    /\ users \subseteq Users
    /\ todo \in Seq(Tables)
    /\ \A t \in Tables :
         dump[t] \subseteq IF t \in {"users", "customers"} THEN People ELSE Ids
    /\ swallowed \in BOOLEAN

\* The orders and refunds that were exported, in either store.
Orders == (dump["orders"] \cup dump["posts"]) \cap Shop(view)

\* What is exported fits together, although live changed meanwhile and although
\* two queries may have failed unnoticed: a refund comes with its order, an order
\* with its customer's account and analytics row, an item, its meta, a note, the
\* meta of a post or comment with the row it belongs to (export.go:352-355), if
\* the mode of posts keeps their rows.
FitsTogether ==
    pc = "done" /\ woo /\ modes["posts"] = "structure_and_data" =>
        /\ \A i \in Orders : LET r == view.rows[i] IN
             /\ r.type = "refund" => r.parent \in Orders
             /\ r.customer \in Accounts(view) => r.customer \in dump["users"]
             /\ r.type = "order" /\ i \in view.details => r.customer \in dump["customers"]
             /\ i \in view.details => i \in dump["items"] /\ i \in dump["comments"]
        /\ dump["items"] \subseteq Orders
        /\ dump["itemmeta"] = dump["items"]
        /\ dump["commentmeta"] = dump["comments"]
        /\ dump["comments"] \cap Shop(view) \subseteq Orders
        /\ modes["postmeta"] = "structure_and_data" => dump["postmeta"] = dump["posts"]

\* Of the customers, only those of the exported orders are on staging: no other
\* account that is only a customer, no other analytics customer without an
\* account, no other order, in either store, and no other order's meta
\* (docs/how-it-works.md:103-107), whatever the modes, but for OrderPostsFiltered.
NobodyElse ==
    pc = "done" /\ woo =>
        /\ \A u \in dump["users"] : view.role[u] = "customer" =>
             \E i \in targets : view.rows[i].customer = u
        /\ \A p \in dump["customers"] :
             \/ p \in dump["users"]
             \/ p \notin Accounts(view) /\ \E i \in targets : view.rows[i].customer = p
        /\ modes["posts"] # "custom_rule" => Orders \subseteq targets
        /\ modes["postmeta"] # "custom_rule" => dump["postmeta"] \cap Shop(view) \subseteq targets

\* docs/configuration.md:65, custom_rule is "The built-in rule for the tables listed
\* below. For any other table, the same as `structure_and_data`", and posts and
\* postmeta are listed below: in this mode too only the target orders are exported.
OrderPostsFiltered ==
    pc = "done" /\ woo /\ modes["posts"] = "custom_rule" => dump["posts"] \cap Shop(view) \subseteq targets

\* The reference: fewer than Count orders come before i; refunds follow their order.
Wanted(s) ==
    LET orders == {i \in DOMAIN s.rows : s.rows[i].type = "order"}
        before(i) == {j \in orders : IF last THEN j > i ELSE j < i}
        newest == {i \in orders : Cardinality(before(i)) < Count}
    IN newest \cup {i \in DOMAIN s.rows : s.rows[i].type = "refund" /\ s.rows[i].parent \in newest}

\* Unless a query failed unnoticed, the export takes exactly the wanted orders of
\* the snapshot with all their refunds, every account that is not just a customer,
\* every post that is no order and every review, whichever store holds the orders.
\* Without WooCommerce it takes all rows but those of the tables without rows.
TakesTheWanted ==
    /\ pc = "done" /\ ~ woo =>
         \A t \in {"comments", "commentmeta", "posts", "postmeta", "users"} :
             dump[t] = IF Mode(t) = "no_rows" THEN {} ELSE Whole(view, t)
    /\ pc = "done" /\ woo /\ ~swallowed =>
        /\ targets = Wanted(view)
        /\ WcOrders(view) # {} => dump["orders"] = Wanted(view)
        /\ modes["posts"] = "structure_and_data" =>
              dump["posts"] = Wanted(view) \cup (DOMAIN view.rows \ Shop(view))
        /\ {u \in Users : view.role[u] \in {"staff", "both"}} \subseteq dump["users"]
        /\ view.details \ Shop(view) \subseteq dump["comments"]
=============================================================================
