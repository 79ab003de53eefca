------------------------------- MODULE DbtLayers -------------------------------
(****************************************************************************)
(* The incremental dbt models over the staging tables of users, orders and  *)
(* order items: intermediate_users, intermediate_orders and                 *)
(* intermediate_order_items, then the marts fct_orders, fct_order_items and *)
(* dim_customers.                                                           *)
(*                                                                          *)
(* Each model selects the source rows newer than a watermark taken from its *)
(* own table and replaces the rows with their keys by delete+insert.  The   *)
(* three staging tables are filled by three independent streams, so a model *)
(* that joins them sees each at a point of its own.                         *)
(*                                                                          *)
(* A change is [table, id, ts], in the order Kafka received it; ts is the   *)
(* kafka_ts, which two changes may share unless they are of one key.  A     *)
(* change names its row version by its position in the sequence.            *)
(****************************************************************************)
EXTENDS Integers, Sequences, FiniteSets

CONSTANTS
    Users, Orders, Items,  \* the keys of the three tables
    UserOf,                \* the user of each order
    OrderOf,               \* the order of each item
    MaxChanges,            \* bound: changes captured
    MaxFailures,           \* bound: model builds that die between statements
    OrdersFirst,           \* TRUE: an order is captured before its items
    StrictTimes,           \* TRUE: no two changes share a kafka_ts
    InStep,                \* TRUE: the three streams advance together
    QuietRuns,             \* TRUE: no stream advances during a dbt run
    FirstRunNonEmpty       \* TRUE: no dbt run until every model finds a row

Tables == {"users", "orders", "items"}
Intermediate == Tables
Marts == {"fct_orders", "fct_order_items", "dim_customers"}
Models == Intermediate \cup Marts
Keys(t) == CASE t = "users" -> Users [] t = "orders" -> Orders [] t = "items" -> Items

ASSUME KeyAssumption ==
    /\ UserOf \in [Orders -> Users]
    /\ OrderOf \in [Items -> Orders]
    /\ MaxChanges \in Nat /\ MaxFailures \in Nat
    /\ {OrdersFirst, StrictTimes, InStep, QuietRuns, FirstRunNonEmpty} \subseteq BOOLEAN

VARIABLES
    changes,   \* the changes captured so far
    staged,    \* how far each stream has merged them into staging
    built,     \* models whose table exists, so that is_incremental() holds
    rows,      \* rows [id, ver, ts] of each model; those of an item add the
               \* version of its order, and dim_customers the user's items
    todo,      \* models the dbt run in hand has still to build
    layer,     \* "idle", "intermediate", "failing" when one of that group has
               \* failed, or "mart"
    failures,
    shown      \* history: the last row that each model has shown of each key

dbt == <<built, rows, todo, layer, failures, shown>>
vars == <<changes, staged, built, rows, todo, layer, failures, shown>>

----------------------------------------------------------------------------
(* Source and staging. *)

LastTs == IF changes = <<>> THEN 0 ELSE changes[Len(changes)].ts
Captured(t, id) == {n \in DOMAIN changes : changes[n].table = t /\ changes[n].id = id}

\* The generator draws the user of an order from those in the database.  The
\* order and its items are inserted by threads of their own, in any order, and
\* no foreign key orders them.
ParentsExist(t, id) ==
    /\ t = "orders" => Captured("users", UserOf[id]) # {}
    /\ t = "items" =>
         /\ Captured("users", UserOf[OrderOf[id]]) # {}
         /\ OrdersFirst => Captured("orders", OrderOf[id]) # {}

Capture(t, id) ==
    /\ Len(changes) < MaxChanges
    /\ ParentsExist(t, id)
    /\ \E ts \in (IF StrictTimes THEN {LastTs + 1} ELSE {LastTs, LastTs + 1}) :
         /\ \A n \in Captured(t, id) : changes[n].ts < ts
         /\ changes' = Append(changes, [table |-> t, id |-> id, ts |-> ts])
    /\ UNCHANGED <<staged, dbt>>

\* The stream of t merges the changes of its topic up to one of them.
Stage(t) ==
    /\ QuietRuns => layer = "idle"
    /\ \E n \in {k \in DOMAIN changes : k > staged[t] /\ changes[k].table = t} :
         staged' = [u \in Tables |-> IF u = t \/ InStep THEN n ELSE staged[u]]
    /\ UNCHANGED <<changes, dbt>>

\* Mutant: every version of a key that has reached the table.
AllVersions(t) ==
    {[id |-> changes[n].id, ver |-> n, ts |-> changes[n].ts] :
        n \in {m \in DOMAIN changes \cap 1..staged[t] : changes[m].table = t}}

\* staging_*: the latest state of each key that has reached the table.
Latest(t) ==
    LET reached(id) == Captured(t, id) \cap 1..staged[t]
    IN  {[id |-> changes[n].id, ver |-> n, ts |-> changes[n].ts] :
            n \in {m \in 1..staged[t] :
                     /\ changes[m].table = t
                     /\ \A k \in reached(changes[m].id) : k <= m}}

Has(t, id) == \E r \in Latest(t) : r.id = id

----------------------------------------------------------------------------
(* The SELECT of each model, without its incremental filter. *)

UserRows == Latest("users")
OrderRows == {o \in Latest("orders") : Has("users", UserOf[o.id])}

\* An item with the order row o: order_status is that row's, copied.
WithOrder(i, o) == [id |-> i.id, ver |-> i.ver, ts |-> i.ts, order |-> o.ver]
Joined(items, orders) ==
    {WithOrder(j[1], j[2]) : j \in {k \in items \X orders : k[2].id = OrderOf[k[1].id]}}

\* Mutant: items are joined with intermediate_orders, which the run may not have
\* built again yet.
ItemRowsFromModel ==
    Joined({i \in Latest("items") : Has("users", UserOf[OrderOf[i.id]])},
           IF "orders" \in built THEN rows["orders"] ELSE Latest("orders"))

ItemRows == Joined({i \in Latest("items") : Has("users", UserOf[OrderOf[i.id]])},
                   Latest("orders"))

\* Mutant: the watermark is the time of the run.
NewerThanRun(m, r) == rows[m] # {} /\ r.ts > LastTs

\* WHERE kafka_ts > (SELECT MAX(kafka_ts) FROM this): of an empty table MAX is
\* null, and the comparison holds for no row.
NewerThan(m, r) == rows[m] # {} /\ \A old \in rows[m] : r.ts > old.ts

\* COALESCE(MAX(_dwh_updated_at), 1970): an empty mart selects every row.
NewerOrFirst(m, r) == \A old \in rows[m] : r.ts > old.ts

\* item.created_at: an item is created after the change captured before it.
CreatedAt(i) ==
    LET first == CHOOSE n \in Captured("items", i) :
                    \A k \in Captured("items", i) : n <= k
    IN  IF first = 1 THEN 0 ELSE changes[first - 1].ts

UserOfItem(r) == UserOf[OrderOf[r.id]]

\* Mutant: only users whose own row changed.
ChangedProfiles ==
    {u.id : u \in {r \in rows["users"] : NewerOrFirst("dim_customers", r)}}

ChangedUsers ==
    {u.id : u \in {r \in rows["users"] : NewerOrFirst("dim_customers", r)}}
    \cup {UserOfItem(i) : i \in {r \in rows["items"] : NewerOrFirst("dim_customers", r)}}

\* _dwh_updated_at = GREATEST(u.kafka_ts, last item_created_at)
Customer(u) ==
    LET items == {i.id : i \in {r \in rows["items"] : UserOfItem(r) = u.id}}
        times == {u.ts} \cup {CreatedAt(i) : i \in items}
    IN  [id |-> u.id, ver |-> u.ver, items |-> items,
         ts |-> CHOOSE t \in times : \A s \in times : s <= t]

Select(m) ==
    LET fresh(S) == IF m \in built THEN {r \in S : NewerThan(m, r)} ELSE S
        late(S) == IF m \in built THEN {r \in S : NewerOrFirst(m, r)} ELSE S
    IN  CASE m = "users" -> fresh(UserRows)
          [] m = "orders" -> fresh(OrderRows)
          [] m = "items" -> fresh(ItemRows)
          [] m = "fct_orders" -> late(rows["orders"])
          [] m = "fct_order_items" -> late(rows["items"])
          [] m = "dim_customers" ->
               {Customer(u) : u \in {r \in rows["users"] :
                  m \in built => r.id \in ChangedUsers}}

----------------------------------------------------------------------------
Init ==
    /\ changes = <<>>
    /\ staged = [t \in Tables |-> 0]
    /\ built = {}
    /\ rows = [m \in Models |-> {}]
    /\ todo = {}
    /\ layer = "idle"
    /\ failures = 0
    /\ shown = rows

\* The Airflow DAG: the intermediate group, then the mart group.
StartRun ==
    /\ layer = "idle"
    /\ FirstRunNonEmpty => {UserRows, OrderRows, ItemRows} \cap {{}} = {}
    /\ layer' = "intermediate"
    /\ todo' = Intermediate
    /\ UNCHANGED <<changes, staged, built, rows, failures, shown>>

\* Mutant: strategy append.
KeptAll(m) == rows[m]

\* The SELECT is stored in a temporary table; its keys are deleted from the
\* model's table and then its rows inserted.
Kept(m) == {r \in rows[m] : \A s \in Select(m) : s.id # r.id}

\* What m shows from now on; the keys that it has lost keep their last row in shown.
Shows(m, S) ==
    /\ rows' = [rows EXCEPT ![m] = S]
    /\ shown' = [shown EXCEPT ![m] = S \cup {r \in @ : \A s \in S : s.id # r.id}]

Build(m) ==
    /\ m \in todo
    /\ Shows(m, Kept(m) \cup Select(m))
    /\ built' = built \cup {m}
    /\ todo' = todo \ {m}
    /\ UNCHANGED <<changes, staged, layer, failures>>

\* Mutant: the run ends where it gives up.
GiveUpRun(m) ==
    \/ UNCHANGED <<todo, layer>>
    \/ todo' = todo \ {m} /\ layer' = "idle"

\* Airflow retries a task, and in the end gives up on it.  The other models of its
\* group are built all the same, but not the group after it.
RetryOrGiveUp(m) ==
    \/ UNCHANGED <<todo, layer>>
    \/ /\ todo' = todo \ {m}
       /\ layer' = IF layer = "mart" THEN "mart" ELSE "failing"

\* Mutant: the INSERT is not atomic.
FailMidInsert(m) ==
    /\ m \in todo
    /\ failures < MaxFailures
    /\ failures' = failures + 1
    /\ \E S \in SUBSET Select(m) : Shows(m, Kept(m) \cup S)
    /\ built' = built \cup {m}
    /\ RetryOrGiveUp(m)
    /\ UNCHANGED <<changes, staged>>

\* The build dies between the DELETE and the INSERT.  A first build has no
\* DELETE: it creates the table whole, or not at all.
FailBuild(m) ==
    /\ m \in todo
    /\ failures < MaxFailures
    /\ failures' = failures + 1
    /\ Shows(m, IF m \in built THEN Kept(m) ELSE {})
    /\ RetryOrGiveUp(m)
    /\ UNCHANGED <<changes, staged, built>>

NextLayer ==
    /\ layer # "idle"
    /\ todo = {}
    /\ IF layer = "intermediate"
       THEN layer' = "mart" /\ todo' = Marts
       ELSE layer' = "idle" /\ todo' = {}
    /\ UNCHANGED <<changes, staged, built, rows, failures, shown>>

RunStep == StartRun \/ NextLayer \/ \E m \in Models : Build(m)

Next ==
    \/ \E t \in Tables : \E id \in Keys(t) : Capture(t, id)
    \/ \E t \in Tables : Stage(t)
    \/ RunStep
    \/ \E m \in Models : FailBuild(m)

Spec == Init /\ [][Next]_vars

\* The streams keep up, and Airflow starts a run every hour.
FairSpec ==
    /\ Spec
    /\ \A t \in Tables : SF_vars(Stage(t))
    /\ WF_vars(RunStep)

----------------------------------------------------------------------------
\* The models that a run may have left in each of its phases.
Group(phase) ==
    CASE phase = "idle" -> {} [] phase = "mart" -> Marts [] OTHER -> Intermediate

\* All values have their types, rows name versions that were captured, and the models
\* left to build are of the group at work: none when no run is.
TypeOK ==
    /\ \A n \in DOMAIN changes :
         changes[n].table \in Tables /\ changes[n].id \in Keys(changes[n].table)
    /\ staged \in [Tables -> 0..Len(changes)]
    /\ built \subseteq Models
    /\ \A m \in Models : \A r \in rows[m] : r.ver \in DOMAIN changes
    /\ layer \in {"idle", "intermediate", "failing", "mart"}
    /\ todo \subseteq Group(layer)
    /\ failures \in 0..MaxFailures

\* schema.yml's unique tests: however builds fail and streams lag, no model
\* ever holds two rows of a key.
OneRowPerKey ==
    \A m \in Models : \A r, s \in rows[m] : r.id = s.id => r = s

\* A model never shows an older version of a key than it has shown before, nor an
\* item with an older version of its order: a build that dies between its two
\* statements takes keys out and may move the watermark back, but what a later build
\* brings back is no older than the row that was lost.
NoStaleRows ==
    [][\A m \in Models : \A r \in shown[m], s \in rows'[m] :
          r.id = s.id =>
             /\ s.ver >= r.ver
             /\ m \in {"items", "fct_order_items"} => s.order >= r.order]_vars

\* The watermark of intermediate_users hides only ties: a user row of staging
\* that is not newer than the newest row of the model is in the model, in that
\* version, even after a build died between its two statements, unless another
\* user's change has the same kafka_ts.
WatermarkSound ==
    rows["users"] # {} =>
        \A u \in UserRows :
            \/ u \in rows["users"]
            \/ NewerThan("users", u)
            \/ \E n \in DOMAIN changes \ {u.ver} :
                  changes[n].table = "users" /\ changes[n].ts = u.ts

\* The newest version of every key, joined as the models join them.
OrdersCurrent == rows["orders"] = OrderRows
ItemsCurrent ==
    {<<r.id, r.ver>> : r \in rows["items"]} = {<<r.id, r.ver>> : r \in ItemRows}
FactsCurrent ==
    /\ rows["fct_orders"] = rows["orders"]
    /\ rows["fct_order_items"] = rows["items"]
CustomersCurrent ==
    /\ {<<c.id, c.ver>> : c \in rows["dim_customers"]} =
         {<<u.id, u.ver>> : u \in rows["users"]}
    /\ \A c \in rows["dim_customers"] :
         c.items = {r.id : r \in {i \in rows["items"] : UserOfItem(i) = c.id}}

\* infra/dbt/README.md: delete+insert preserves the latest state.  Once the
\* models exist and the source has gone quiet, they come to hold the latest row
\* of every key.
ModelsConverge ==
    <>[](built = Models =>
           rows["users"] = UserRows /\ OrdersCurrent /\ ItemsCurrent /\ FactsCurrent)

\* mart/schema.yml: dim_customers has the latest profile state and lifetime
\* purchase metrics, those of all the user's items.
CustomersConverge == <>[](built = Models => CustomersCurrent)

\* order_status is copied from the order when the item changes: in the end an item
\* shows every change of its order that came before its own last change, as the
\* generator's updates do, and only a change of the order alone is left out.
ItemsShowOrder ==
    <>[](built = Models =>
           \A r \in rows["fct_order_items"] :
              \A n \in Captured("orders", OrderOf[r.id]) : n < r.ver => n <= r.order)
================================================================================
