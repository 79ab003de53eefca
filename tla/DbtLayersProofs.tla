---------------------------- MODULE DbtLayersProofs ----------------------------
(****************************************************************************)
(* Theorems about DbtLayers, for any users, orders, items, captures and     *)
(* builds that die: no model has two rows of a key, none shows an older     *)
(* version of a key than before, and the watermark hides only ties.         *)
(****************************************************************************)
EXTENDS DbtLayers, TLAPS

----------------------------------------------------------------------------
(* The captured changes and the rows that name them. *)

AnyKey == UNION {Keys(t) : t \in Tables}

\* kafka_ts never decreases along the topic, and no two changes of a key share one.
ChangesInv ==
    /\ changes \in Seq([table : Tables, id : AnyKey, ts : Nat])
    /\ \A n \in DOMAIN changes : changes[n].id \in Keys(changes[n].table)
    /\ \A n, k \in DOMAIN changes : n <= k => changes[n].ts <= changes[k].ts
    /\ staged \in [Tables -> 0..Len(changes)]
    /\ InStep => \A t, u \in Tables : staged[t] = staged[u]

\* The table whose changes a model's rows are versions of.
SourceOf(m) ==
    IF m \in Tables THEN m
    ELSE IF m = "fct_orders" THEN "orders"
    ELSE IF m = "fct_order_items" THEN "items" ELSE "users"
ItemModels == {"items", "fct_order_items"}

\* r is a version of its key that has reached staging.
Version(t, r) == r.ver \in Captured(t, r.id) \cap 1..staged[t]

\* So is the order that an item's row shows.
OrderVersion(r) == r.order \in Captured("orders", OrderOf[r.id]) \cap 1..staged["orders"]

RowInv(m, r) ==
    /\ Version(SourceOf(m), r)
    /\ m \in Tables => r.ts = changes[r.ver].ts
    /\ m \in ItemModels => OrderVersion(r)

RowsInv ==
    /\ built \subseteq Models
    /\ rows = [m \in Models |-> rows[m]]
    /\ \A m \in Models \ built : rows[m] = {}
    /\ \A m \in Models : \A r \in rows[m] : RowInv(m, r)

TypeInv ==
    /\ ChangesInv /\ RowsInv
    /\ layer \in {"idle", "intermediate", "failing", "mart"}
    /\ todo \subseteq Group(layer)
    /\ failures \in 0..MaxFailures

LEMMA ChangeType ==
    ASSUME ChangesInv
    PROVE  /\ DOMAIN changes = 1..Len(changes) /\ Len(changes) \in Nat
           /\ \A n \in DOMAIN changes : 
                n \in Nat /\ changes[n].table \in Tables /\ changes[n].ts \in Nat
<1> DEFINE Change == [table : Tables, id : AnyKey, ts : Nat]
<1>1. \A c \in Change : c.table \in Tables /\ c.ts \in Nat
  OBVIOUS
<1>2. changes \in Seq(Change)
  BY DEF ChangesInv
<1> HIDE DEF Change
<1>3. /\ DOMAIN changes = 1..Len(changes) /\ Len(changes) \in Nat
      /\ \A n \in 1..Len(changes) : changes[n] \in Change
  BY <1>2
<1> QED
  BY <1>1, <1>3

LEMMA InitTypeInv == Init => TypeInv
  BY KeyAssumption DEF Init, TypeInv, ChangesInv, RowsInv, Models, Tables

\* A row of staging is the newest version of its key that has reached it.
LEMMA LatestRow ==
    ASSUME ChangesInv, NEW t \in Tables, NEW r \in Latest(t)
    PROVE  /\ Version(t, r)
           /\ r = [id |-> r.id, ver |-> r.ver, ts |-> r.ts]
           /\ r.ts = changes[r.ver].ts
           /\ \A k \in Captured(t, r.id) \cap 1..staged[t] : k <= r.ver
<1>1. PICK n \in 1..staged[t] :
        /\ r = [id |-> changes[n].id, ver |-> n, ts |-> changes[n].ts]
        /\ changes[n].table = t
        /\ \A k \in Captured(t, changes[n].id) \cap 1..staged[t] : k <= n
  BY DEF Latest
<1>2. n \in DOMAIN changes
  BY DEF ChangesInv
<1> QED
  BY <1>1, <1>2 DEF Version, Captured

LEMMA LatestUnique ==
    ASSUME ChangesInv, NEW t \in Tables, NEW r \in Latest(t), NEW s \in Latest(t), r.id = s.id
    PROVE  r = s
<1>1. r.ver <= s.ver /\ s.ver <= r.ver /\ r.ver \in Int /\ s.ver \in Int
  BY LatestRow DEF Version, ChangesInv
<1> QED
  BY <1>1, LatestRow

\* The rows an incremental model of staging may select.
LEMMA SelectedUsers ==
    ASSUME NEW s \in Select("users")
    PROVE  s \in Latest("users")
  BY DEF Select, UserRows

LEMMA SelectedOrders ==
    ASSUME NEW s \in Select("orders")
    PROVE  s \in Latest("orders")
  BY DEF Select, OrderRows

LEMMA SelectedItems ==
    ASSUME NEW s \in Select("items")
    PROVE  \E i \in Latest("items"), o \in Latest("orders") :
             o.id = OrderOf[i.id] /\ s = WithOrder(i, o)
<1>1. s \in ItemRows
  BY DEF Select
<1> QED
  BY <1>1 DEF ItemRows, Joined

\* A mart's rows are those of the intermediate model it reads.
LEMMA SelectedFacts ==
    /\ \A s \in Select("fct_orders") : s \in rows["orders"]
    /\ \A s \in Select("fct_order_items") : s \in rows["items"]
  BY DEF Select

LEMMA SelectedCustomers ==
    ASSUME NEW s \in Select("dim_customers")
    PROVE  \E u \in rows["users"] : s = Customer(u)
  BY DEF Select

LEMMA CustomerOf ==
    ASSUME NEW u
    PROVE  Customer(u).id = u.id /\ Customer(u).ver = u.ver
  BY DEF Customer

\* What a SELECT yields is of the versions that have reached staging.
LEMMA SelectedRows ==
    ASSUME TypeInv, NEW m \in Models, NEW s \in Select(m)
    PROVE  RowInv(m, s)
<1> USE DEF RowInv, SourceOf, ItemModels, Tables
<1>1. CASE m = "users"
  BY <1>1, SelectedUsers, LatestRow DEF TypeInv
<1>2. CASE m = "orders"
  BY <1>2, SelectedOrders, LatestRow DEF TypeInv
<1>3. CASE m = "items"
  <2>1. PICK i \in Latest("items"), o \in Latest("orders") :
          o.id = OrderOf[i.id] /\ s = WithOrder(i, o)
    BY <1>3, SelectedItems
  <2>2. Version("items", i) /\ i.ts = changes[i.ver].ts /\ Version("orders", o)
    BY LatestRow DEF TypeInv
  <2> QED
    BY <1>3, <2>1, <2>2 DEF WithOrder, Version, OrderVersion
<1>4. CASE m = "fct_orders"
  BY <1>4, SelectedFacts DEF TypeInv, RowsInv, Models, Intermediate, Marts
<1>5. CASE m = "fct_order_items"
  BY <1>5, SelectedFacts DEF TypeInv, RowsInv, Models, Intermediate, Marts
<1>6. CASE m = "dim_customers"
  <2>1. PICK u \in rows["users"] : s = Customer(u)
    BY <1>6, SelectedCustomers
  <2>2. s.id = u.id /\ s.ver = u.ver
    BY <2>1, CustomerOf
  <2> QED
    BY <1>6, <2>2 DEF TypeInv, RowsInv, Models, Intermediate, Marts, Version
<1> QED
  BY <1>1, <1>2, <1>3, <1>4, <1>5, <1>6 DEF Models, Intermediate, Marts

----------------------------------------------------------------------------
(* The steps, as the proofs need them. *)

\* A build, whole or dying, leaves of the old rows those it does not delete, and
\* adds only rows it has selected.
Rebuilds(m) ==
    /\ m \in Models
    /\ \E R \in SUBSET (Kept(m) \cup Select(m)) :
         /\ Shows(m, R)
         /\ m \notin built' => R = {}
    /\ built \subseteq built' /\ built' \subseteq built \cup {m}
    /\ UNCHANGED <<changes, staged>>

LEMMA BuildKinds ==
    ASSUME TypeInv, NEW m \in Models, Build(m) \/ FailBuild(m)
    PROVE  Rebuilds(m)
<1>1. CASE Build(m)
  BY <1>1 DEF Build, Rebuilds, TypeInv
<1>2. CASE FailBuild(m)
  BY <1>2 DEF FailBuild, Rebuilds
<1> QED
  BY <1>1, <1>2

LEMMA StepKinds ==
    ASSUME TypeInv, [Next]_vars
    PROVE  \/ UNCHANGED <<changes, staged, built, rows, shown>>
           \/ \E t \in Tables : \E id \in Keys(t) : Capture(t, id)
           \/ \E t \in Tables : Stage(t)
           \/ \E m \in Models : Rebuilds(m)
  BY BuildKinds DEF Next, RunStep, StartRun, NextLayer, vars

\* A capture adds a change that is no older than any, and moves nothing else.
LEMMA CaptureStep ==
    ASSUME TypeInv, NEW t \in Tables, NEW id \in Keys(t), Capture(t, id)
    PROVE  /\ ChangesInv' /\ UNCHANGED <<staged, dbt>>
           /\ DOMAIN changes \subseteq DOMAIN changes'
           /\ \A n \in DOMAIN changes : changes'[n] = changes[n]
<1>1. PICK ts \in {LastTs, LastTs + 1} :
        changes' = Append(changes, [table |-> t, id |-> id, ts |-> ts])
  BY DEF Capture
<1> DEFINE c == [table |-> t, id |-> id, ts |-> ts]
<1>2. LastTs \in Nat /\ \A n \in DOMAIN changes : changes[n].ts <= LastTs
  <2>1. /\ DOMAIN changes = 1..Len(changes) /\ Len(changes) \in Nat
        /\ \A n \in DOMAIN changes : changes[n].ts \in Nat
    BY ChangeType DEF TypeInv
  <2>2. CASE changes = <<>>
    BY <2>1, <2>2 DEF LastTs
  <2>3. CASE changes # <<>>
    <3>1. Len(changes) \in DOMAIN changes
      BY <2>1, <2>3 DEF TypeInv, ChangesInv
    <3> QED
      BY <2>1, <2>3, <3>1 DEF LastTs, TypeInv, ChangesInv
  <2> QED
    BY <2>2, <2>3
<1>3. /\ c \in [table : Tables, id : AnyKey, ts : Nat] /\ c.id \in Keys(c.table)
      /\ \A n \in DOMAIN changes : changes[n].ts <= c.ts
  <2>1. id \in AnyKey
    BY DEF AnyKey
  <2>2. /\ \A n \in DOMAIN changes : n \in 1..Len(changes) /\ changes[n].ts \in Nat
        /\ ts \in Nat /\ LastTs <= ts
    BY <1>1, <1>2, ChangeType DEF TypeInv
  <2> QED
    BY <1>2, <2>1, <2>2
<1> HIDE DEF c
<1>4. /\ changes' \in Seq([table : Tables, id : AnyKey, ts : Nat])
      /\ Len(changes') = Len(changes) + 1 /\ DOMAIN changes' = 1..Len(changes) + 1
      /\ \A n \in DOMAIN changes : changes'[n] = changes[n]
      /\ changes'[Len(changes) + 1] = c
      /\ DOMAIN changes = 1..Len(changes) /\ Len(changes) \in Nat
  BY <1>1, <1>3 DEF TypeInv, ChangesInv, c
<1>5. \A n \in DOMAIN changes' : n \in DOMAIN changes \/ n = Len(changes) + 1
  BY <1>4
<1>6. \A n \in DOMAIN changes' : changes'[n].id \in Keys(changes'[n].table)
  BY <1>3, <1>4, <1>5 DEF TypeInv, ChangesInv
<1>7. ASSUME NEW n \in DOMAIN changes', NEW k \in DOMAIN changes', n <= k
      PROVE  changes'[n].ts <= changes'[k].ts
  <2>1. CASE k \in DOMAIN changes
    <3>1. n \in DOMAIN changes
      BY <1>4, <1>7, <2>1
    <3> QED
      BY <1>4, <1>7, <2>1, <3>1 DEF TypeInv, ChangesInv
  <2>2. CASE k = Len(changes) + 1 /\ n \in DOMAIN changes
    BY <1>3, <1>4, <2>2
  <2>3. CASE k = Len(changes) + 1 /\ n = Len(changes) + 1
    BY <1>3, <1>4, <2>3
  <2> QED
    BY <1>5, <2>1, <2>2, <2>3
<1>8. UNCHANGED <<staged, dbt>>
  BY DEF Capture
<1>9. /\ staged' \in [Tables -> 0..Len(changes')]
      /\ InStep => \A u, v \in Tables : staged'[u] = staged'[v]
  BY <1>4, <1>8 DEF TypeInv, ChangesInv
<1> QED
  BY <1>4, <1>6, <1>7, <1>8, <1>9 DEF ChangesInv

LEMMA StageStep ==
    ASSUME TypeInv, NEW t \in Tables, Stage(t)
    PROVE  /\ ChangesInv'
           /\ \A u \in Tables : staged[u] <= staged'[u]
           /\ UNCHANGED <<changes, dbt>>
<1>1. PICK n \in {k \in DOMAIN changes : k > staged[t] /\ changes[k].table = t} :
        staged' = [u \in Tables |-> IF u = t \/ InStep THEN n ELSE staged[u]]
  BY DEF Stage
<1>2. /\ staged \in [Tables -> 0..Len(changes)] /\ Len(changes) \in Nat
      /\ staged[t] \in 0..Len(changes)
  BY DEF TypeInv, ChangesInv
<1>3. n \in 0..Len(changes) /\ staged[t] <= n
  BY <1>1, <1>2, ChangeType DEF TypeInv
<1>4. /\ staged' \in [Tables -> 0..Len(changes)]
      /\ InStep => \A u, v \in Tables : staged'[u] = staged'[v]
  BY <1>1, <1>2, <1>3
<1>5. ASSUME NEW u \in Tables PROVE staged[u] <= staged'[u]
  <2>1. InStep => staged[u] = staged[t]
    BY DEF TypeInv, ChangesInv
  <2>2. staged[u] \in Nat
    BY <1>2
  <2> QED
    BY <1>1, <1>2, <1>3, <2>1, <2>2
<1>6. UNCHANGED <<changes, dbt>>
  BY DEF Stage
<1> QED
  BY <1>4, <1>5, <1>6 DEF TypeInv, ChangesInv

----------------------------------------------------------------------------
(* Types. *)

\* A row stays of a version that has reached staging, whatever is captured or staged.
LEMMA RowStays ==
    ASSUME ChangesInv, NEW m \in Models, NEW r, RowInv(m, r),
           DOMAIN changes \subseteq DOMAIN changes',
           \A n \in DOMAIN changes : changes'[n] = changes[n],
           \A t \in Tables : staged'[t] \in Nat /\ staged[t] <= staged'[t]
    PROVE  RowInv(m, r)'
<1>1. \A t \in Tables : 1..staged[t] \subseteq 1..staged'[t]
  BY ChangeType DEF ChangesInv
<1>2. \A t \in Tables : \A id : Captured(t, id) \subseteq Captured(t, id)'
  BY DEF Captured
<1>3. SourceOf(m) \in Tables /\ "orders" \in Tables
  BY DEF SourceOf, Tables
<1>4. r.ver \in DOMAIN changes
  BY DEF RowInv, Version, Captured
<1> QED
  BY <1>1, <1>2, <1>3, <1>4 DEF RowInv, Version, OrderVersion

LEMMA NextTypeInv ==
    ASSUME TypeInv, [Next]_vars
    PROVE  TypeInv'
<1>1. ASSUME UNCHANGED <<changes, staged, built, rows>> PROVE ChangesInv' /\ RowsInv'
  BY <1>1 DEF TypeInv, ChangesInv, RowsInv, RowInv, Version, OrderVersion, Captured
<1>2. ASSUME NEW t \in Tables, NEW id \in Keys(t), Capture(t, id)
      PROVE  ChangesInv' /\ RowsInv'
  <2>1. /\ ChangesInv' /\ UNCHANGED <<staged, built, rows>>
        /\ DOMAIN changes \subseteq DOMAIN changes'
        /\ \A n \in DOMAIN changes : changes'[n] = changes[n]
    BY <1>2, CaptureStep DEF dbt
  <2>2. \A u \in Tables : staged'[u] \in Nat /\ staged[u] <= staged'[u]
    BY <2>1, ChangeType DEF TypeInv, ChangesInv
  <2>3. \A m \in Models : \A r \in rows[m] : RowInv(m, r)'
    BY <2>1, <2>2, RowStays DEF TypeInv, RowsInv
  <2> QED
    BY <2>1, <2>3 DEF TypeInv, RowsInv
<1>3. ASSUME NEW t \in Tables, Stage(t)
      PROVE  ChangesInv' /\ RowsInv'
  <2>1. /\ ChangesInv' /\ UNCHANGED <<changes, built, rows>>
        /\ \A u \in Tables : staged[u] <= staged'[u]
    BY <1>3, StageStep DEF dbt
  <2>2. \A u \in Tables : staged'[u] \in Nat
    BY <2>1, ChangeType DEF TypeInv, ChangesInv
  <2>3. \A m \in Models : \A r \in rows[m] : RowInv(m, r)'
    BY <2>1, <2>2, RowStays DEF TypeInv, RowsInv
  <2> QED
    BY <2>1, <2>3 DEF TypeInv, RowsInv
<1>4. ASSUME NEW m \in Models, Rebuilds(m)
      PROVE  ChangesInv' /\ RowsInv'
  <2>1. PICK R \in SUBSET (Kept(m) \cup Select(m)) :
          rows' = [rows EXCEPT ![m] = R] /\ (m \notin built' => R = {})
    BY <1>4 DEF Rebuilds, Shows
  <2>2. built \subseteq built' /\ built' \subseteq built \cup {m} /\ UNCHANGED <<changes, staged>>
    BY <1>4 DEF Rebuilds
  <2>3. \A r \in R : RowInv(m, r)
    BY <2>1, SelectedRows DEF Kept, TypeInv, RowsInv
  <2>4. \A n \in Models : rows'[n] = IF n = m THEN R ELSE rows[n]
    BY <2>1 DEF TypeInv, RowsInv
  <2>5. \A n \in Models : \A r : RowInv(n, r)' <=> RowInv(n, r)
    BY <2>2 DEF RowInv, Version, OrderVersion, Captured
  <2>6. \A n \in Models : \A r \in rows'[n] : RowInv(n, r)'
    BY <2>3, <2>4, <2>5 DEF TypeInv, RowsInv
  <2>7. \A n \in Models \ built' : rows'[n] = {}
    BY <2>1, <2>2, <2>4 DEF TypeInv, RowsInv
  <2>8. rows' = [n \in Models |-> rows'[n]] /\ built' \subseteq Models
    BY <2>1, <2>2 DEF TypeInv, RowsInv
  <2>9. ChangesInv'
    BY <2>2 DEF TypeInv, ChangesInv
  <2> QED
    BY <2>6, <2>7, <2>8, <2>9 DEF RowsInv
<1>5. ChangesInv' /\ RowsInv'
  BY <1>1, <1>2, <1>3, <1>4, StepKinds
<1>6. todo' \subseteq Group(layer') /\ layer' \in {"idle", "intermediate", "failing", "mart"}
  <2>1. CASE RunStep
    BY <2>1 DEF TypeInv, RunStep, StartRun, NextLayer, Build, Group
  <2>2. ASSUME NEW m \in Models, FailBuild(m)
        PROVE  todo' \subseteq Group(layer') /\ layer' \in {"idle", "intermediate", "failing", "mart"}
    <3>1. layer # "idle"
      BY <2>2 DEF TypeInv, FailBuild, Group
    <3> QED
      BY <2>2, <3>1 DEF TypeInv, FailBuild, RetryOrGiveUp, Group
  <2>3. ASSUME UNCHANGED <<todo, layer>>
        PROVE  todo' \subseteq Group(layer') /\ layer' \in {"idle", "intermediate", "failing", "mart"}
    BY <2>3 DEF TypeInv, Group
  <2> QED
    BY <2>1, <2>2, <2>3 DEF Next, vars, dbt, Capture, Stage
<1>7. failures' \in 0..MaxFailures
  <2>1. UNCHANGED failures \/ (failures < MaxFailures /\ failures' = failures + 1)
    BY DEF Next, vars, dbt, Capture, Stage, RunStep, StartRun, NextLayer, Build, FailBuild
  <2> QED
    BY <2>1, KeyAssumption DEF TypeInv
<1> QED
  BY <1>5, <1>6, <1>7 DEF TypeInv

\* Every row names a captured version of its key, and the models a DAG run has left are
\* of the group it is at: a task given up on ends neither its group nor the run.
THEOREM TypeOKHolds == Spec => []TypeOK
<1>1. ASSUME TypeInv PROVE TypeOK
  <2>1. \A n \in DOMAIN changes : changes[n].table \in Tables
    BY <1>1, ChangeType DEF TypeInv
  <2>2. ASSUME NEW m \in Models, NEW r \in rows[m] PROVE r.ver \in DOMAIN changes
    <3>1. r.ver \in Captured(SourceOf(m), r.id)
      BY <1>1 DEF TypeInv, RowsInv, RowInv, Version
    <3> QED
      BY <3>1 DEF Captured
  <2>3. \A n \in DOMAIN changes : changes[n].id \in Keys(changes[n].table)
    BY <1>1 DEF TypeInv, ChangesInv
  <2>4. staged \in [Tables -> 0..Len(changes)]
    BY <1>1 DEF TypeInv, ChangesInv
  <2> QED
    BY <1>1, <2>1, <2>2, <2>3, <2>4 DEF TypeInv, RowsInv, TypeOK
<1> QED
  BY InitTypeInv, NextTypeInv, <1>1, PTL DEF Spec

----------------------------------------------------------------------------
(* One row per key. *)

\* Whatever each model's rows are, its SELECT has one row per key, if those of the
\* models it reads are so.
LEMMA SelectedUnique ==
    ASSUME TypeInv, OneRowPerKey, NEW m \in Models,
           NEW r \in Select(m), NEW s \in Select(m), r.id = s.id
    PROVE  r = s
<1>1. CASE m = "users"
  BY <1>1, SelectedUsers, LatestUnique DEF TypeInv, Tables
<1>2. CASE m = "orders"
  BY <1>2, SelectedOrders, LatestUnique DEF TypeInv, Tables
<1>3. CASE m = "items"
  <2>1. PICK i \in Latest("items"), o \in Latest("orders") :
          o.id = OrderOf[i.id] /\ r = WithOrder(i, o)
    BY <1>3, SelectedItems
  <2>2. PICK j \in Latest("items"), p \in Latest("orders") :
          p.id = OrderOf[j.id] /\ s = WithOrder(j, p)
    BY <1>3, SelectedItems
  <2>3. i.id = j.id
    BY <2>1, <2>2 DEF WithOrder
  <2>4. i = j /\ o = p
    BY <2>1, <2>2, <2>3, LatestUnique DEF TypeInv, Tables
  <2> QED
    BY <2>1, <2>2, <2>4
<1>4. CASE m = "fct_orders"
  BY <1>4, SelectedFacts DEF OneRowPerKey, Models, Intermediate, Tables
<1>5. CASE m = "fct_order_items"
  BY <1>5, SelectedFacts DEF OneRowPerKey, Models, Intermediate, Tables
<1>6. CASE m = "dim_customers"
  <2>1. PICK u \in rows["users"], v \in rows["users"] : r = Customer(u) /\ s = Customer(v)
    BY <1>6, SelectedCustomers
  <2>2. u.id = v.id
    BY <2>1, CustomerOf
  <2>3. u = v
    BY <2>2 DEF OneRowPerKey, Models, Intermediate, Tables
  <2> QED
    BY <2>1, <2>3
<1> QED
  BY <1>1, <1>2, <1>3, <1>4, <1>5, <1>6 DEF Models, Intermediate, Marts, Tables

LEMMA NextUnique ==
    ASSUME TypeInv, OneRowPerKey, [Next]_vars
    PROVE  OneRowPerKey'
<1>1. ASSUME NEW m \in Models, Rebuilds(m)
      PROVE  OneRowPerKey'
  <2>1. PICK R \in SUBSET (Kept(m) \cup Select(m)) : rows' = [rows EXCEPT ![m] = R]
    BY <1>1 DEF Rebuilds, Shows
  <2>2. \A n \in Models : rows'[n] = IF n = m THEN R ELSE rows[n]
    BY <2>1 DEF TypeInv, RowsInv
  <2>3. ASSUME NEW r \in R, NEW s \in R, r.id = s.id PROVE r = s
    <3>1. r \in Kept(m) <=> s \in Kept(m)
      BY <2>1, <2>3 DEF Kept
    <3>2. CASE r \in Kept(m)
      BY <2>3, <3>1, <3>2 DEF Kept, OneRowPerKey
    <3>3. CASE r \notin Kept(m)
      BY <2>1, <2>3, <3>1, <3>3, SelectedUnique
    <3> QED
      BY <3>2, <3>3
  <2> QED
    BY <2>2, <2>3 DEF OneRowPerKey
<1>2. ASSUME UNCHANGED rows PROVE OneRowPerKey'
  BY <1>2 DEF OneRowPerKey
<1> QED
  BY <1>1, <1>2, StepKinds, CaptureStep, StageStep DEF dbt

\* Every intermediate and mart table keeps one row of a key, in whatever order the three
\* streams arrive and whether or not a build dies between its DELETE and its INSERT.
THEOREM OneRowPerKeyHolds == Spec => []OneRowPerKey
<1>1. Init => OneRowPerKey
  BY DEF Init, OneRowPerKey
<1> QED
  BY InitTypeInv, NextTypeInv, <1>1, NextUnique, PTL DEF Spec


----------------------------------------------------------------------------
(* No model goes back to an older version. *)

\* What a model has shown last of a key is a version that had reached staging, and the
\* row that it has of the key, if it still has one.
ShownInv ==
    /\ shown = [m \in Models |-> shown[m]]
    /\ \A m \in Models : rows[m] \subseteq shown[m]
    /\ \A m \in Models : \A r \in shown[m] : RowInv(m, r)
    /\ \A m \in Models : \A r \in shown[m], s \in rows[m] : r.id = s.id => r = s

LEMMA NextShown ==
    ASSUME TypeInv, TypeInv', OneRowPerKey', ShownInv, [Next]_vars
    PROVE  ShownInv'
<1>1. ASSUME NEW m \in Models, Rebuilds(m)
      PROVE  ShownInv'
  <2>1. PICK R : Shows(m, R)
    BY <1>1 DEF Rebuilds
  <2> DEFINE Lost == {r \in shown[m] : \A s \in R : s.id # r.id}
  <2>2. \A n \in Models : /\ rows'[n] = IF n = m THEN R ELSE rows[n]
                          /\ shown'[n] = IF n = m THEN R \cup Lost ELSE shown[n]
    BY <2>1 DEF Shows, ShownInv, TypeInv, RowsInv
  <2>3. shown' = [n \in Models |-> shown'[n]]
    BY <2>1 DEF Shows, ShownInv
  <2>4. \A n \in Models : \A r : RowInv(n, r)' <=> RowInv(n, r)
    BY <1>1 DEF Rebuilds, RowInv, Version, OrderVersion, Captured
  <2>5. \A n \in Models : \A r \in rows'[n] : RowInv(n, r)'
    BY DEF TypeInv, RowsInv
  <2>6. \A n \in Models : \A r \in shown'[n] : RowInv(n, r)'
    BY <2>2, <2>4, <2>5 DEF ShownInv
  <2>7. \A n \in Models : rows'[n] \subseteq shown'[n]
    BY <2>2 DEF ShownInv
  <2>8. ASSUME NEW n \in Models, NEW r \in shown'[n], NEW s \in rows'[n], r.id = s.id
        PROVE  r = s
    <3>1. CASE r \in rows'[n]
      BY <2>8, <3>1 DEF OneRowPerKey
    <3>2. CASE r \notin rows'[n]
      <4>1. CASE n = m
        BY <2>2, <2>8, <3>2, <4>1
      <4>2. CASE n # m
        BY <2>2, <2>8, <4>2 DEF ShownInv
      <4> QED
        BY <4>1, <4>2
    <3> QED
      BY <3>1, <3>2
  <2> QED
    BY <2>3, <2>6, <2>7, <2>8 DEF ShownInv
<1>2. ASSUME UNCHANGED <<changes, staged, rows, shown>> PROVE ShownInv'
  BY <1>2 DEF ShownInv, RowInv, Version, OrderVersion, Captured
<1>3. ASSUME UNCHANGED <<rows, shown>>, DOMAIN changes \subseteq DOMAIN changes',
             \A n \in DOMAIN changes : changes'[n] = changes[n],
             \A t \in Tables : staged[t] <= staged'[t]
      PROVE  ShownInv'
  <2>1. \A t \in Tables : staged'[t] \in Nat
    BY ChangeType DEF TypeInv, ChangesInv
  <2>2. \A m \in Models : \A r \in shown[m] : RowInv(m, r)'
    BY <1>3, <2>1, RowStays DEF TypeInv, ShownInv
  <2> QED
    BY <1>3, <2>2 DEF ShownInv
<1>4. ASSUME NEW t \in Tables, NEW id \in Keys(t), Capture(t, id)
      PROVE  ShownInv'
  <2>1. \A u \in Tables : staged[u] \in Nat
    BY ChangeType DEF TypeInv, ChangesInv
  <2> QED
    BY <1>3, <1>4, <2>1, CaptureStep DEF dbt
<1>5. ASSUME NEW t \in Tables, Stage(t)
      PROVE  ShownInv'
  BY <1>3, <1>5, StageStep DEF dbt
<1> QED
  BY <1>1, <1>2, <1>4, <1>5, StepKinds

\* The invariant behind it: a mart has shown nothing of a key that is newer than the
\* intermediate model's row of it, if that is there: a build that died may have taken it.
NotAhead ==
    \A m \in Marts : \A r \in shown[m], s \in rows[SourceOf(m)] :
        r.id = s.id =>
            /\ s.ver >= r.ver
            /\ m = "fct_order_items" => s.order >= r.order

\* The rows a build of an intermediate model selects are the newest of their keys.
LEMMA SelectedNewest ==
    ASSUME TypeInv, NEW t \in Tables, NEW s \in Select(t),
           NEW r, Version(t, r), r.id = s.id, t = "items" => OrderVersion(r)
    PROVE  s.ver >= r.ver /\ (t = "items" => s.order >= r.order)
<1>1. \A k \in Captured(t, r.id) \cap 1..staged[t] : k \in Nat
  BY ChangeType DEF TypeInv, Captured
<1>2. ASSUME NEW l \in Latest(t), l.id = r.id, l.ver = s.ver PROVE s.ver >= r.ver
  <2>1. r.ver <= l.ver /\ r.ver \in Nat /\ l.ver \in Nat
    BY <1>1, <1>2, LatestRow DEF Version, TypeInv
  <2> QED
    BY <1>2, <2>1
<1>3. CASE t = "users"
  BY <1>2, <1>3, SelectedUsers
<1>4. CASE t = "orders"
  BY <1>2, <1>4, SelectedOrders
<1>5. CASE t = "items"
  <2>1. PICK i \in Latest("items"), o \in Latest("orders") :
          o.id = OrderOf[i.id] /\ s = WithOrder(i, o)
    BY <1>5, SelectedItems
  <2>2. s.id = i.id /\ s.ver = i.ver /\ s.order = o.ver
    BY <2>1 DEF WithOrder
  <2>3. r.order \in Captured("orders", o.id) \cap 1..staged["orders"]
    BY <1>5, <2>1, <2>2 DEF OrderVersion
  <2>4. r.order <= o.ver /\ o.ver \in Captured("orders", o.id)
    BY <2>3, LatestRow DEF TypeInv, Tables, Version
  <2>5. r.order \in Nat /\ o.ver \in Nat
    BY <2>3, <2>4, ChangeType DEF Captured, TypeInv
  <2> QED
    BY <1>2, <1>5, <2>2, <2>4, <2>5
<1> QED
  BY <1>3, <1>4, <1>5 DEF Tables

\* A mart selects the intermediate model's row of a key, or a customer made of it.
LEMMA SelectedFromSource ==
    ASSUME NEW m \in Marts, NEW s \in Select(m)
    PROVE  \E u \in rows[SourceOf(m)] :
             u.id = s.id /\ u.ver = s.ver /\ (m = "fct_order_items" => u = s)
  BY SelectedFacts, SelectedCustomers, CustomerOf DEF Marts, SourceOf, Tables

\* So whatever a build selects is no older than what the model has shown of its key.
LEMMA SelectedNotOlder ==
    ASSUME TypeInv, ShownInv, NotAhead, NEW m \in Models, NEW r \in shown[m], NEW s \in Select(m),
           r.id = s.id
    PROVE  s.ver >= r.ver /\ (m \in ItemModels => s.order >= r.order)
<1>1. CASE m \in Tables
  <2>1. RowInv(m, r)
    BY DEF ShownInv
  <2>2. Version(m, r) /\ (m = "items" => OrderVersion(r))
    BY <1>1, <2>1 DEF RowInv, SourceOf, ItemModels
  <2>3. s.ver >= r.ver /\ (m = "items" => s.order >= r.order)
    BY <1>1, <2>2, SelectedNewest
  <2> QED
    BY <1>1, <2>3 DEF ItemModels, Tables
<1>2. CASE m \in Marts
  <2>1. PICK u \in rows[SourceOf(m)] :
          u.id = s.id /\ u.ver = s.ver /\ (m = "fct_order_items" => u = s)
    BY <1>2, SelectedFromSource
  <2>2. u.ver >= r.ver /\ (m = "fct_order_items" => u.order >= r.order)
    BY <1>2, <2>1 DEF NotAhead
  <2> QED
    BY <1>2, <2>1, <2>2 DEF ItemModels, Marts
<1> QED
  BY <1>1, <1>2 DEF Models, Intermediate

LEMMA NextNotAhead ==
    ASSUME TypeInv, OneRowPerKey, ShownInv, NotAhead, [Next]_vars
    PROVE  NotAhead'
<1>1. ASSUME NEW m \in Models, Rebuilds(m)
      PROVE  NotAhead'
  <2>1. PICK R \in SUBSET (Kept(m) \cup Select(m)) : Shows(m, R)
    BY <1>1 DEF Rebuilds
  <2>2. \A n \in Models : /\ rows'[n] = IF n = m THEN R ELSE rows[n]
                          /\ n # m => shown'[n] = shown[n]
                          /\ n = m => shown'[n] \subseteq R \cup shown[n]
    BY <2>1 DEF Shows, ShownInv, TypeInv, RowsInv
  <2>3. ASSUME NEW n \in Marts, NEW r \in shown'[n], NEW s \in rows'[SourceOf(n)], r.id = s.id
        PROVE  s.ver >= r.ver /\ (n = "fct_order_items" => s.order >= r.order)
    <3>1. n \in Models /\ SourceOf(n) \in Models /\ n # SourceOf(n) /\ SourceOf(n) \in Tables
          /\ n \notin Tables /\ (n = "fct_order_items" => SourceOf(n) = "items")
      BY DEF Models, Marts, Intermediate, Tables, SourceOf
    <3>2. CASE r \in shown[n] /\ s \in rows[SourceOf(n)]
      BY <2>3, <3>2 DEF NotAhead
    <3>3. CASE r \notin shown[n]
      <4>1. m = n /\ r \in Select(n) /\ s \in rows[SourceOf(n)]
        BY <2>1, <2>2, <3>1, <3>3 DEF Kept, ShownInv
      <4>2. PICK u \in rows[SourceOf(n)] :
              u.id = r.id /\ u.ver = r.ver /\ (n = "fct_order_items" => u = r)
        BY <4>1, SelectedFromSource
      <4>3. u = s
        BY <2>3, <3>1, <4>1, <4>2 DEF OneRowPerKey
      <4>4. RowInv(SourceOf(n), s)
        BY <3>1, <4>1 DEF TypeInv, RowsInv
      <4>5. s.ver \in Nat /\ (n = "fct_order_items" => s.order \in Nat)
        BY <3>1, <4>4, ChangeType DEF RowInv, Version, OrderVersion, Captured, ItemModels, TypeInv
      <4> QED
        BY <4>2, <4>3, <4>5
    <3>4. CASE r \in shown[n] /\ s \notin rows[SourceOf(n)]
      <4>1. m = SourceOf(n) /\ s \in Select(m)
        BY <2>1, <2>2, <3>1, <3>4 DEF Kept
      <4>2. RowInv(n, r)
        BY <3>1, <3>4 DEF ShownInv
      <4>3. Version(m, r) /\ (m = "items" => OrderVersion(r))
        BY <4>1, <4>2, <3>1 DEF RowInv, ItemModels, Marts, SourceOf, Tables
      <4> QED
        BY <2>3, <3>1, <4>1, <4>3, SelectedNewest
    <3> QED
      BY <3>2, <3>3, <3>4
  <2> QED
    BY <2>3 DEF NotAhead
<1>2. ASSUME UNCHANGED <<rows, shown>> PROVE NotAhead'
  BY <1>2 DEF NotAhead
<1> QED
  BY <1>1, <1>2, StepKinds, CaptureStep, StageStep DEF dbt

\* No model ever shows an older version of a key than it has shown before, whichever builds
\* have died since, although the marts read tables that lag behind one another and each
\* keeps a watermark of its own.
THEOREM NoStaleRowsHolds == Spec => NoStaleRows
<1> DEFINE NotOlder ==
        \A m \in Models : \A r \in shown[m], s \in rows'[m] :
          r.id = s.id =>
             /\ s.ver >= r.ver
             /\ m \in {"items", "fct_order_items"} => s.order >= r.order
<1>1. Init => OneRowPerKey /\ ShownInv /\ NotAhead
  BY DEF Init, OneRowPerKey, ShownInv, NotAhead, Models
<1>2. ASSUME TypeInv, ShownInv, NotAhead, Next PROVE NotOlder
  <2>1. ASSUME NEW m \in Models, NEW r \in shown[m]
        PROVE  r.ver >= r.ver /\ (m \in ItemModels => r.order >= r.order)
    <3>1. RowInv(m, r)
      BY <1>2 DEF ShownInv
    <3>2. r.ver \in Nat /\ (m \in ItemModels => r.order \in Nat)
      BY <1>2, <3>1, ChangeType DEF RowInv, Version, OrderVersion, Captured, TypeInv
    <3> QED
      BY <3>2
  <2>2. ASSUME NEW m \in Models, NEW r \in shown[m], NEW s \in rows[m], r.id = s.id
        PROVE  s.ver >= r.ver /\ (m \in ItemModels => s.order >= r.order)
    <3>1. r = s
      BY <1>2, <2>2 DEF ShownInv
    <3> QED
      BY <2>1, <3>1
  <2>3. ASSUME NEW n \in Models, Rebuilds(n), NEW m \in Models,
               NEW r \in shown[m], NEW s \in rows'[m], r.id = s.id
        PROVE  s.ver >= r.ver /\ (m \in ItemModels => s.order >= r.order)
    <3>1. PICK R \in SUBSET (Kept(n) \cup Select(n)) : rows' = [rows EXCEPT ![n] = R]
      BY <2>3 DEF Rebuilds, Shows
    <3>2. rows'[m] = IF m = n THEN R ELSE rows[m]
      BY <1>2, <3>1 DEF TypeInv, RowsInv
    <3>3. s \in rows[m] \/ s \in Select(m)
      BY <2>3, <3>1, <3>2 DEF Kept
    <3> QED
      BY <1>2, <2>2, <2>3, <3>3, SelectedNotOlder
  <2>4. ASSUME UNCHANGED rows PROVE NotOlder
    BY <2>2, <2>4 DEF ItemModels
  <2>5. ASSUME NEW n \in Models, Rebuilds(n) PROVE NotOlder
    BY <2>3, <2>5 DEF ItemModels
  <2> HIDE DEF NotOlder
  <2> QED
    BY <1>2, <2>4, <2>5, StepKinds, CaptureStep, StageStep DEF dbt
<1>3. ASSUME TypeInv, ShownInv, NotAhead, [Next]_vars PROVE [NotOlder]_vars
  BY <1>2, <1>3
<1>4. NoStaleRows <=> [][NotOlder]_vars
  BY PTL DEF NoStaleRows
<1> HIDE DEF NotOlder
<1> QED
  BY InitTypeInv, NextTypeInv, NextUnique, NextShown, NextNotAhead, <1>1, <1>3, <1>4, PTL DEF Spec


----------------------------------------------------------------------------
(* The watermark of intermediate_users. *)

Tied(u) ==
    \E n \in DOMAIN changes \ {u.ver} :
        changes[n].table = "users" /\ changes[n].ts = u.ts

\* The invariant behind it: of the staged rows that are no newer than some row of the
\* model, the model misses only those tied with another change.
HidesOnlyTies ==
    \A u \in UserRows, old \in rows["users"] :
        u.ts <= old.ts => u \in rows["users"] \/ Tied(u)

\* The watermark of the users model is a timestamp.
LEMMA UserRowTs ==
    ASSUME TypeInv, NEW r \in rows["users"]
    PROVE  r.ts \in Nat
<1>1. "users" \in Models /\ "users" \in Tables /\ SourceOf("users") = "users"
  BY DEF Models, Intermediate, Tables, SourceOf
<1>2. RowInv("users", r)
  BY <1>1 DEF TypeInv, RowsInv
<1>3. r.ver \in DOMAIN changes /\ r.ts = changes[r.ver].ts
  BY <1>1, <1>2 DEF RowInv, Version, Captured
<1> QED
  BY <1>3, ChangeType DEF TypeInv

LEMMA NextHidesOnlyTies ==
    ASSUME TypeInv, HidesOnlyTies, [Next]_vars
    PROVE  HidesOnlyTies'
<1>1. ASSUME UNCHANGED <<changes, staged, rows["users"]>> PROVE HidesOnlyTies'
  BY <1>1 DEF HidesOnlyTies, Tied, UserRows, Latest, Captured
<1>2. ASSUME NEW t \in Tables, NEW id \in Keys(t), Capture(t, id)
      PROVE  HidesOnlyTies'
  <2>1. /\ UNCHANGED <<staged, rows>> /\ DOMAIN changes \subseteq DOMAIN changes'
        /\ \A n \in DOMAIN changes : changes'[n] = changes[n]
        /\ ChangesInv'
    BY <1>2, CaptureStep DEF dbt
  <2>2. 1..staged["users"] \subseteq DOMAIN changes
    BY ChangeType DEF TypeInv, ChangesInv, Tables
  <2>3. \A k \in Captured("users", id) : k \in DOMAIN changes
    BY DEF Captured
  <2>4. UserRows' \subseteq UserRows
    BY <2>1, <2>2 DEF UserRows, Latest, Captured
  <2>5. \A u : Tied(u) => Tied(u)'
    BY <2>1 DEF Tied
  <2> QED
    BY <2>1, <2>4, <2>5 DEF HidesOnlyTies
<1>3. ASSUME NEW t \in Tables, Stage(t)
      PROVE  HidesOnlyTies'
  <2>1. /\ ChangesInv' /\ UNCHANGED <<changes, rows>> /\ staged["users"] <= staged'["users"]
    BY <1>3, StageStep DEF dbt, Tables
  <2>2. staged["users"] \in Nat /\ staged'["users"] \in Nat
    BY <2>1, ChangeType DEF TypeInv, ChangesInv, Tables
  <2>3. ASSUME NEW u \in UserRows', NEW old \in rows["users"], u.ts <= old.ts
        PROVE  u \in rows["users"] \/ Tied(u)
    <3>1. PICK n \in 1..staged'["users"] :
            /\ u = [id |-> changes[n].id, ver |-> n, ts |-> changes[n].ts]
            /\ changes[n].table = "users"
            /\ \A k \in Captured("users", changes[n].id) \cap 1..staged'["users"] : k <= n
      BY <2>1 DEF UserRows, Latest, Captured
    <3>2. RowInv("users", old)
      BY DEF TypeInv, RowsInv, Models, Intermediate, Tables
    <3>3. /\ old.ver \in DOMAIN changes /\ old.ver \in 1..staged["users"]
          /\ changes[old.ver].table = "users" /\ old.ts = changes[old.ver].ts
      BY <3>2 DEF RowInv, Version, Captured, SourceOf, Tables
    <3>4. n \in DOMAIN changes
      BY <2>1, ChangeType DEF TypeInv, ChangesInv, Tables
    <3>5. CASE n <= staged["users"]
      <4>1. u \in UserRows
        BY <2>1, <2>2, <3>1, <3>5 DEF UserRows, Latest
      <4> QED
        BY <2>3, <4>1 DEF HidesOnlyTies
    <3>6. CASE n > staged["users"]
      <4>1. old.ver <= n /\ old.ver # n
        BY <2>2, <3>3, <3>6
      <4>2. changes[old.ver].ts <= changes[n].ts
        BY <3>3, <3>4, <4>1 DEF TypeInv, ChangesInv
      <4>3. changes[old.ver].ts \in Nat /\ changes[n].ts \in Nat
        BY <3>3, <3>4, ChangeType DEF TypeInv
      <4>4. changes[old.ver].ts = u.ts /\ u.ver = n
        BY <2>3, <3>1, <3>3, <4>2, <4>3
      <4> QED
        BY <3>3, <4>1, <4>4 DEF Tied
    <3> QED
      BY <2>2, <3>5, <3>6
  <2> QED
    BY <2>1, <2>3 DEF HidesOnlyTies, Tied
<1>4. ASSUME NEW m \in Models, Rebuilds(m), m # "users"
      PROVE  HidesOnlyTies'
  <2>1. rows'["users"] = rows["users"] /\ UNCHANGED <<changes, staged>>
    BY <1>4 DEF Rebuilds, Shows, TypeInv, RowsInv, Models, Intermediate, Tables
  <2> QED
    BY <1>1, <2>1
<1>5. \A u \in UserRows : u.ts \in Nat
  BY LatestRow, ChangeType DEF UserRows, TypeInv, Tables, Version, Captured
<1>6. ASSUME NEW u \in UserRows, u \in rows["users"], u \notin Kept("users")
      PROVE  u \in Select("users")
  <2>1. PICK s \in Select("users") : s.id = u.id
    BY <1>6 DEF Kept
  <2>2. s \in UserRows
    BY SelectedUsers DEF UserRows
  <2>3. s = u
    BY <2>1, <2>2, LatestUnique DEF UserRows, TypeInv, Tables
  <2> QED
    BY <2>3
<1>7. ASSUME Build("users") PROVE HidesOnlyTies'
  <2>1. /\ rows'["users"] = Kept("users") \cup Select("users") /\ UNCHANGED <<changes, staged>>
    BY <1>7 DEF Build, Shows, TypeInv, RowsInv, Models, Intermediate, Tables
  <2>2. ASSUME NEW u \in UserRows, NEW old \in Kept("users") \cup Select("users"), u.ts <= old.ts
        PROVE  u \in Kept("users") \cup Select("users") \/ Tied(u)
    <3>1. CASE u \in Select("users")
      BY <3>1
    <3>2. CASE u \notin Select("users")
      <4>1. "users" \in built
        BY <3>2 DEF Select
      <4>2. rows["users"] # {}
        BY <4>1 DEF Kept, Select, NewerThan
      <4>3. PICK r \in rows["users"] : ~(u.ts > r.ts)
        BY <3>2, <4>1, <4>2 DEF Select, NewerThan
      <4>4. r.ts \in Nat
        BY <4>3, UserRowTs
      <4>5. u \in rows["users"] \/ Tied(u)
        BY <1>5, <4>3, <4>4 DEF HidesOnlyTies
      <4> QED
        BY <1>6, <4>5
    <3> QED
      BY <3>1, <3>2
  <2>3. UserRows' = UserRows
    BY <2>1 DEF UserRows, Latest, Captured
  <2> QED
    BY <2>1, <2>2, <2>3 DEF HidesOnlyTies, Tied
<1>8. ASSUME FailBuild("users") PROVE HidesOnlyTies'
  <2>1. /\ rows'["users"] = IF "users" \in built THEN Kept("users") ELSE {}
        /\ UNCHANGED <<changes, staged>>
    BY <1>8 DEF FailBuild, Shows, TypeInv, RowsInv, Models, Intermediate, Tables
  <2>2. ASSUME NEW u \in UserRows, NEW old \in Kept("users"), u.ts <= old.ts, "users" \in built
        PROVE  u \in Kept("users") \/ Tied(u)
    <3>1. old \in rows["users"]
      BY DEF Kept
    <3>2. u \in rows["users"] \/ Tied(u)
      BY <2>2, <3>1 DEF HidesOnlyTies
    <3>3. old.ts \in Nat
      BY <3>1, UserRowTs
    <3>4. u \notin Select("users")
      BY <1>5, <2>2, <3>1, <3>3 DEF Select, NewerThan
    <3> QED
      BY <1>6, <3>2, <3>4
  <2>3. UserRows' = UserRows
    BY <2>1 DEF UserRows, Latest, Captured
  <2> QED
    BY <2>1, <2>2, <2>3 DEF HidesOnlyTies, Tied
<1>9. ASSUME NEW m \in Models, Build(m) \/ FailBuild(m) PROVE HidesOnlyTies'
  <2>1. Rebuilds(m)
    BY <1>9, BuildKinds
  <2> QED
    BY <1>4, <1>7, <1>8, <1>9, <2>1
<1> QED
  BY <1>1, <1>2, <1>3, <1>9 DEF Next, RunStep, StartRun, NextLayer, vars

\* A user of staging that is no newer than the newest row of intermediate_users is in
\* that model, in the same version, unless another user's change has its kafka_ts: the
\* strict comparison loses ties and nothing else, also when a build dies after DELETE.
THEOREM WatermarkSoundHolds == Spec => []WatermarkSound
<1>1. Init => HidesOnlyTies
  BY DEF Init, HidesOnlyTies, Models, Intermediate, Tables
<1>2. ASSUME TypeInv, HidesOnlyTies PROVE WatermarkSound
  <2>1. ASSUME NEW u \in UserRows, rows["users"] # {}, ~NewerThan("users", u)
        PROVE  u \in rows["users"] \/ Tied(u)
    <3>1. PICK old \in rows["users"] : ~(u.ts > old.ts)
      BY <2>1 DEF NewerThan
    <3>2. u.ts \in Nat
      BY <1>2, LatestRow, ChangeType DEF UserRows, TypeInv, Tables, Version, Captured
    <3>3. old.ts \in Nat
      BY <1>2, <3>1, UserRowTs
    <3> QED
      BY <1>2, <3>1, <3>2, <3>3 DEF HidesOnlyTies
  <2> QED
    BY <2>1 DEF WatermarkSound, Tied
<1> QED
  BY InitTypeInv, NextTypeInv, <1>1, <1>2, NextHidesOnlyTies, PTL DEF Spec

================================================================================
