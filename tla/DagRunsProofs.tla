------------------------------ MODULE DagRunsProofs ------------------------------
(****************************************************************************)
(* Theorems about DagRuns, for any number of sessions, events, overlapping  *)
(* runs and dying tasks: the watermark hides no event, and until two builds *)
(* of one model overlap, no key has two rows and sessions count their       *)
(* events exactly.                                                          *)
(****************************************************************************)
EXTENDS DagRuns, FiniteSetTheorems, WellFoundedInduction, TLAPS

Statements == {"delete", "insert", "drop"}
IE == "intermediate_events"

----------------------------------------------------------------------------
(* Types. *)

\* The rows that only name events: their table, and what may be inserted into it.
EventModels == {"intermediate_events", "fct_events"}
Stored(m) == BagToSet(tmp[m])

\* The runs: what one has still to build goes with its phase, and what it is
\* building is of that, and exists.
RunsInv ==
    /\ phase \in [Runs -> {"idle", "gate", "intermediate", "mart"}]
    /\ todo \in [Runs -> SUBSET Models]
    /\ \A r \in Runs :
         /\ phase[r] \in {"idle", "gate"} => todo[r] = {}
         /\ phase[r] = "intermediate" => todo[r] \subseteq {IE}

TasksInv ==
    /\ task \in [Runs -> {None} \cup [model : Models, next : Statements]]
    /\ \A r \in Runs : task[r] # None => task[r].model \in todo[r] \cap built

TablesInv ==
    /\ built \subseteq Models
    /\ table = [m \in Models |-> table[m]]
    /\ tmp = [m \in Models |-> tmp[m]]
    /\ \A m \in Models \ built : tmp[m] = None
    /\ \A m \in EventModels :
         /\ Rows(m) \subseteq DOMAIN staging
         /\ tmp[m] # None => Stored(m) \subseteq DOMAIN staging

TypeInv ==
    /\ staging \in Seq([session : Sessions, gap : Nat])
    /\ lateFor \in 0..LagHours
    /\ RunsInv /\ TasksInv /\ TablesInv

LEMMA InitTypeInv == Init => TypeInv
  BY DagAssumption DEF Init, TypeInv, RunsInv, TasksInv, TablesInv, Models, EventModels, Rows, BagToSet, EmptyBag,
     SetToBag, LagHours, IE

\* The models of events select events of staging.
LEMMA EventsSelected ==
    ASSUME TypeInv, NEW m \in EventModels
    PROVE  BagToSet(Select(m)) \subseteq DOMAIN staging
<1>1. CASE m = "intermediate_events"
  BY <1>1 DEF Select, NewEvents, BagToSet, SetToBag
<1>2. CASE m = "fct_events"
  BY <1>2 DEF Select, TypeInv, RunsInv, TasksInv, TablesInv, Events, EventModels, BagToSet
<1> QED
  BY <1>1, <1>2 DEF EventModels

\* A build in hand is of a model that the run has still to build, and whose table
\* exists.
LEMMA BuildInHand ==
    ASSUME TypeInv, NEW r \in Runs, NEW m, InBuild(r, m)
    PROVE  /\ m \in todo[r] \cap built /\ m \in Models
           /\ phase[r] \in {"intermediate", "mart"}
           /\ task[r] \in [model : Models, next : Statements]
           /\ task[r] = [model |-> m, next |-> task[r].next]
  BY DEF InBuild, TypeInv, RunsInv, TasksInv, TablesInv, IE

\* A run that has built a model has one less to build.
LEMMA DoneRuns ==
    ASSUME TypeInv, NEW r \in Runs, NEW m \in Models,
           todo' = [todo EXCEPT ![r] = todo[r] \ {m}], UNCHANGED phase
    PROVE  RunsInv'
  BY DEF TypeInv, RunsInv

\* Going on to its next statement leaves a run in its build.
LEMMA TaskGoesOn ==
    ASSUME TypeInv, NEW r \in Runs, NEW m, InBuild(r, m), NEW statement \in Statements,
           task' = [task EXCEPT ![r] = [model |-> @.model, next |-> statement]]
    PROVE  /\ task' = [task EXCEPT ![r] = [model |-> m, next |-> statement]]
           /\ UNCHANGED <<todo, built>> => TasksInv'
           /\ \A q \in Runs, n \in Models : InBuild(q, n)' <=> InBuild(q, n)
<1>1. task[r] = [model |-> m, next |-> task[r].next] /\ m \in Models /\ m \in todo[r] \cap built
  BY BuildInHand
<1>2. task' = [task EXCEPT ![r] = [model |-> m, next |-> statement]]
  <2>1. task[r].model = m
    BY DEF InBuild
  <2> QED
    BY <2>1
<1>3. [model |-> m, next |-> statement] # None
  BY <1>1, NoneAssumption DEF Statements
<1>4. UNCHANGED <<todo, built>> => TasksInv'
  BY <1>1, <1>2, <1>3 DEF TypeInv, TasksInv
<1>5. \A q \in Runs, n \in Models : InBuild(q, n)' <=> InBuild(q, n)
  BY <1>1, <1>2, <1>3 DEF TypeInv, TasksInv, InBuild
<1> QED
  BY <1>2, <1>4, <1>5

\* What an INSERT adds to a table is what was stored.
LEMMA AddedRows ==
    ASSUME NEW bag, NEW new
    PROVE  BagToSet(Added(bag, new)) = BagToSet(bag) \cup BagToSet(new)
  BY DEF Added, BagToSet

LEMMA NextTypeInv ==
    ASSUME TypeInv, [Next]_vars
    PROVE  TypeInv'
<1> USE DEF Rows, Stored, BagToSet, Statements, IE
<1>1. ASSUME NEW s \in Sessions, NEW gap \in Gaps, NEW late \in Lates, Stage(s, gap, late)
      PROVE  TypeInv'
  <2> DEFINE e == [session |-> s, gap |-> IF staging = <<>> THEN 0 ELSE gap]
  <2>1. staging' = Append(staging, e) /\ UNCHANGED <<tables, runs, deaths, raced>>
    BY <1>1 DEF Stage
  <2>2. e \in [session : Sessions, gap : Nat]
    BY DagAssumption
  <2> HIDE DEF e
  <2>3. staging' \in Seq([session : Sessions, gap : Nat]) /\ DOMAIN staging \subseteq DOMAIN staging'
    BY <2>1, <2>2 DEF TypeInv, RunsInv, TasksInv, TablesInv
  <2>4. lateFor' \in 0..LagHours
    BY <1>1 DEF Stage, TypeInv, RunsInv, TasksInv, TablesInv, LagHours
  <2> QED
    BY <2>1, <2>3, <2>4 DEF TypeInv, RunsInv, TasksInv, TablesInv, tables, runs
<1>2. CASE Hour
  <2>1. lateFor' \in 0..LagHours
    BY <1>2 DEF Hour, TypeInv, RunsInv, TasksInv, TablesInv, LagHours
  <2>2. PICK r \in Runs : phase[r] = "idle" /\ phase' = [phase EXCEPT ![r] = "gate"]
    BY <1>2 DEF Hour, StartRun, Idle
  <2>3. UNCHANGED <<staging, tables, todo, task>>
    BY <1>2 DEF Hour
  <2> QED
    BY <2>1, <2>2, <2>3 DEF TypeInv, RunsInv, TasksInv, TablesInv, tables
<1>3. ASSUME NEW r \in Runs, CheckLag(r) \/ QueryRaises(r)
      PROVE  TypeInv'
  <2>1. /\ phase[r] = "gate" /\ phase' = [phase EXCEPT ![r] = "intermediate"]
        /\ todo' = [todo EXCEPT ![r] = {"intermediate_events"}]
        /\ UNCHANGED <<stream, tables, task>>
    BY <1>3 DEF CheckLag, QueryRaises, GatePasses
  <2>2. task[r] = None
    BY <2>1 DEF TypeInv, RunsInv, TasksInv, TablesInv
  <2>3. RunsInv'
    BY <2>1 DEF TypeInv, RunsInv, Models
  <2>4. TasksInv'
    BY <2>1, <2>2 DEF TypeInv, RunsInv, TasksInv, tables
  <2> QED
    BY <2>1, <2>3, <2>4 DEF TypeInv, TablesInv, stream, tables
<1>4. ASSUME NEW r \in Runs, LagAlert(r)
      PROVE  TypeInv'
  BY <1>4 DEF LagAlert, TypeInv, RunsInv, TasksInv, TablesInv, stream, tables
<1>5. ASSUME NEW r \in Runs, NextGroup(r)
      PROVE  TypeInv'
  <2>1. task[r] = None
    BY <1>5 DEF NextGroup, TypeInv, RunsInv, TasksInv, TablesInv
  <2>2. RunsInv'
    <3>1. CASE phase[r] = "intermediate"
      <4>1. phase' = [phase EXCEPT ![r] = "mart"] /\ todo' = [todo EXCEPT ![r] = Marts]
        BY <1>5, <3>1 DEF NextGroup
      <4> QED
        BY <3>1, <4>1 DEF TypeInv, RunsInv, Marts
    <3>2. CASE phase[r] # "intermediate"
      <4>1. phase' = [phase EXCEPT ![r] = "idle"] /\ todo' = todo /\ todo[r] = {}
        BY <1>5, <3>2 DEF NextGroup
      <4> QED
        BY <4>1 DEF TypeInv, RunsInv
    <3> QED
      BY <3>1, <3>2
  <2>3. TasksInv'
    BY <1>5, <2>1 DEF NextGroup, TypeInv, TasksInv, RunsInv, tables
  <2>4. UNCHANGED <<stream, tables>>
    BY <1>5 DEF NextGroup
  <2> QED
    BY <2>2, <2>3, <2>4 DEF TypeInv, TablesInv, stream, tables
<1>6. ASSUME NEW r \in Runs, NEW m \in Models, CreateTable(r, m)
      PROVE  TypeInv'
  <2>1. /\ built' = built \cup {m} /\ m \in todo[r] \ built /\ task[r] = None
        /\ table' = [table EXCEPT ![m] = Select(m)]
        /\ todo' = [todo EXCEPT ![r] = todo[r] \ {m}]
        /\ task' = [task EXCEPT ![r] = None]
        /\ UNCHANGED <<stream, tmp, phase>>
    BY <1>6 DEF CreateTable, Done
  <2>2. ASSUME NEW n \in EventModels PROVE Rows(n)' \subseteq DOMAIN staging
    BY <2>1, EventsSelected, n = m \/ n # m DEF TypeInv, TablesInv, EventModels, Models
  <2>3. TablesInv'
    BY <2>1, <2>2 DEF TypeInv, TablesInv, stream
  <2>4. TasksInv'
    BY <2>1 DEF TypeInv, TasksInv, RunsInv
  <2> QED
    BY <2>1, <2>3, <2>4, DoneRuns DEF TypeInv, stream
<1>7. ASSUME NEW r \in Runs, NEW m \in Models, StoreSelect(r, m)
      PROVE  TypeInv'
  <2>1. /\ m \in todo[r] \cap built /\ task[r] = None
        /\ tmp' = [tmp EXCEPT ![m] = Select(m)]
        /\ task' = [task EXCEPT ![r] = [model |-> m, next |-> "delete"]]
        /\ UNCHANGED <<stream, built, table, phase, todo>>
    BY <1>7 DEF StoreSelect
  <2>2. ASSUME NEW n \in EventModels, tmp'[n] # None PROVE Stored(n)' \subseteq DOMAIN staging
    BY <2>1, <2>2, EventsSelected DEF TypeInv, TablesInv, EventModels, Models
  <2>3. TasksInv'
    BY <2>1 DEF TypeInv, TasksInv
  <2>4. TablesInv'
    BY <2>1, <2>2 DEF TypeInv, TablesInv, stream
  <2> QED
    BY <2>1, <2>3, <2>4 DEF TypeInv, RunsInv, stream
<1>8. ASSUME NEW r \in Runs, NEW m \in Models, Delete(r, m)
      PROVE  TypeInv'
  <2>1. /\ table' = [table EXCEPT ![m] = [row \in Kept(m) |-> @[row]]]
        /\ task' = [task EXCEPT ![r] = [model |-> @.model, next |-> "insert"]]
        /\ UNCHANGED <<stream, built, tmp, phase, todo>> /\ InBuild(r, m)
    BY <1>8 DEF Delete, Goto
  <2>2. \A n \in EventModels : Rows(n)' \subseteq DOMAIN staging
    BY <2>1 DEF TypeInv, TablesInv, EventModels, Models, Kept
  <2>3. TablesInv'
    BY <2>1, <2>2 DEF TypeInv, TablesInv, stream
  <2>4. TasksInv'
    BY <2>1, TaskGoesOn
  <2> QED
    BY <2>1, <2>3, <2>4 DEF TypeInv, RunsInv, stream
<1>9. ASSUME NEW r \in Runs, NEW m \in Models, Insert(r, m)
      PROVE  TypeInv'
  <2>1. /\ table' = [table EXCEPT ![m] = Added(@, tmp[m])] /\ tmp[m] # None
        /\ task' = [task EXCEPT ![r] = [model |-> @.model, next |-> "drop"]]
        /\ UNCHANGED <<stream, built, tmp, phase, todo>> /\ InBuild(r, m)
    BY <1>9 DEF Insert, Goto
  <2>2. ASSUME NEW n \in EventModels PROVE Rows(n)' \subseteq DOMAIN staging
    <3>1. CASE n = m
      <4>1. table'[m] = Added(table[m], tmp[m])
        BY <2>1 DEF TypeInv, TablesInv
      <4>2. Rows(m)' = Rows(m) \cup Stored(m)
        BY <4>1, AddedRows
      <4> QED
        BY <3>1, <4>2, <2>1 DEF TypeInv, TablesInv
    <3>2. CASE n # m
      BY <3>2, <2>1 DEF TypeInv, TablesInv, EventModels, Models
    <3> QED
      BY <3>1, <3>2
  <2>3. TablesInv'
    BY <2>1, <2>2 DEF TypeInv, TablesInv, stream
  <2>4. TasksInv'
    BY <2>1, TaskGoesOn
  <2> QED
    BY <2>1, <2>3, <2>4 DEF TypeInv, RunsInv, stream
<1>10. ASSUME NEW r \in Runs, NEW m \in Models, DropTmp(r, m)
       PROVE  TypeInv'
  <2>1. /\ tmp' = [tmp EXCEPT ![m] = None]
        /\ todo' = [todo EXCEPT ![r] = todo[r] \ {m}]
        /\ task' = [task EXCEPT ![r] = None]
        /\ UNCHANGED <<stream, built, table, phase>>
    BY <1>10 DEF DropTmp, Done
  <2>2. TasksInv'
    BY <2>1 DEF TypeInv, TasksInv, RunsInv
  <2>3. TablesInv'
    BY <2>1 DEF TypeInv, TablesInv, EventModels, Models, stream
  <2> QED
    BY <2>1, <2>2, <2>3, DoneRuns DEF TypeInv, stream
<1>11. ASSUME NEW r \in Runs, NEW m \in Models, TmpGone(r, m) \/ Die(r, m)
       PROVE  TypeInv'
  <2>1. RetryOrGiveUp(r, m) /\ UNCHANGED <<stream, tables>> /\ InBuild(r, m)
    BY <1>11 DEF TmpGone, Die
  <2>2. m \in todo[r] /\ phase[r] \in {"intermediate", "mart"}
    BY <2>1, BuildInHand
  <2>3. TasksInv'
    BY <2>1 DEF RetryOrGiveUp, TypeInv, TasksInv, RunsInv, tables
  <2>4. RunsInv'
    BY <2>1, <2>2 DEF RetryOrGiveUp, TypeInv, RunsInv
  <2> QED
    BY <2>1, <2>3, <2>4 DEF TypeInv, TablesInv, stream, tables
<1>12. CASE UNCHANGED vars
  BY <1>12 DEF vars, stream, tables, runs, TypeInv, RunsInv, TasksInv, TablesInv
<1> QED
  BY <1>1, <1>2, <1>3, <1>4, <1>5, <1>6, <1>7, <1>8, <1>9, <1>10, <1>11, <1>12
     DEF Next, RunStep

\* A step either leaves the tables alone or is a statement of one run's build.
LEMMA StepKinds ==
    ASSUME [Next]_vars
    PROVE  \/ UNCHANGED tables
           \/ \E r \in Runs, m \in Models :
                \/ CreateTable(r, m) \/ StoreSelect(r, m)
                \/ Delete(r, m) \/ Insert(r, m) \/ DropTmp(r, m)
  BY DEF Next, RunStep, vars, Stage, Hour, CheckLag, QueryRaises, GatePasses, LagAlert,
     NextGroup, TmpGone, Die

\* Whatever two overlapping runs do to the tables and the temporary tables they share,
\* and wherever their tasks die, every table holds rows of its model and every task is
\* at a statement of the build of a model its run has still to do.
THEOREM TypeOKHolds == Spec => []TypeOK
<1>1. TypeInv => TypeOK
  BY DEF TypeInv, RunsInv, TasksInv, TablesInv, TypeOK, Events, EventModels, Rows
<1> QED
  BY InitTypeInv, NextTypeInv, <1>1, PTL DEF Spec

----------------------------------------------------------------------------
(* The watermark of intermediate_events. *)

\* The invariant that keeps it: the temporary table, whenever it was stored and
\* whatever the other run has done to the model since, completes the model up to
\* each of its own events, and holds every event of the model after its first, so
\* that deleting its keys leaves no gap and inserting its rows leaves none.
WatermarkInv ==
    /\ NothingBehindWatermark
    /\ tmp[IE] # None => \A n \in Stored(IE) :
         /\ 1..n \subseteq Events \cup Stored(IE)
         /\ \A e \in Events : e > n => e \in Stored(IE)

LEMMA NextWatermark ==
    ASSUME TypeInv, WatermarkInv, [Next]_vars
    PROVE  WatermarkInv'
<1> USE DEF WatermarkInv, NothingBehindWatermark, IE
<1> DEFINE Unmoved == UNCHANGED <<table[IE], tmp[IE]>>
<1>1. ASSUME Unmoved PROVE WatermarkInv'
  BY <1>1 DEF Events, Rows, Stored
<1>2. /\ DOMAIN staging = 1..Len(staging) /\ Len(staging) \in Nat
      /\ Events \subseteq DOMAIN staging
      /\ tmp[IE] # None => Stored(IE) \subseteq DOMAIN staging
  BY DEF TypeInv, TablesInv, EventModels, Events, Rows
<1>3. ASSUME NEW r \in Runs, NEW m \in Models, CreateTable(r, m)
      PROVE  WatermarkInv'
  <2>1. CASE m = IE
    <3>1. Events' = DOMAIN staging
      BY <1>3, <2>1 DEF CreateTable, TypeInv, TablesInv, Events, Rows, Select, NewEvents,
         SetToBag, BagToSet
    <3>2. tmp'[IE] = None
      BY <1>3, <2>1 DEF CreateTable, TypeInv, TablesInv, Models
    <3> QED
      BY <1>2, <3>1, <3>2
  <2>2. CASE m # IE
    BY <1>3, <2>2, <1>1 DEF CreateTable, TypeInv, TablesInv
  <2> QED
    BY <2>1, <2>2
<1>4. ASSUME NEW r \in Runs, NEW m \in Models, StoreSelect(r, m)
      PROVE  WatermarkInv'
  <2>1. CASE m = IE
    <3>1. tmp'[IE] = Select(IE) /\ IE \in built
      BY <1>4, <2>1 DEF StoreSelect, TypeInv, TablesInv
    <3>2. Stored(IE)' = NewEvents
      BY <3>1 DEF Stored, Select, SetToBag, BagToSet
    <3>3. Events' = Events
      BY <1>4 DEF StoreSelect, Events, Rows
    <3>4. \A n \in NewEvents : n \in DOMAIN staging /\ \A old \in Events : n > old
      BY <3>1 DEF NewEvents, NewerOrFirst, Events
    <3>5. ASSUME NEW n \in NewEvents, NEW k \in 1..n PROVE k \in Events \cup NewEvents
      <4>1. k \in DOMAIN staging
        BY <1>2, <3>4
      <4>2. Events # {}
        BY <3>1 DEF NewEvents
      <4>3. CASE \A old \in Events : k > old
        BY <4>1, <4>2, <4>3 DEF NewEvents, NewerOrFirst, Events
      <4>4. CASE \E old \in Events : ~(k > old)
        BY <4>1, <4>4, <1>2
      <4> QED
        BY <4>3, <4>4
    <3>6. \A n \in NewEvents : \A e \in Events : ~(e > n)
      BY <3>4, <1>2
    <3> QED
      BY <3>2, <3>3, <3>5, <3>6
  <2>2. CASE m # IE
    BY <1>4, <2>2, <1>1 DEF StoreSelect, TypeInv, TablesInv
  <2> QED
    BY <2>1, <2>2
<1>5. ASSUME NEW r \in Runs, NEW m \in Models, Delete(r, m)
      PROVE  WatermarkInv'
  <2>1. CASE m = IE
    <3>1. tmp[IE] # None /\ UNCHANGED tmp
      BY <1>5, <2>1 DEF Delete
    <3>2. Events' = Kept(IE)
      BY <1>5, <2>1 DEF Delete, TypeInv, TablesInv, Events, Rows, BagToSet
    <3>3. Events' = Events \ Stored(IE)
      BY <3>2 DEF Kept, KeyOf, Events, Stored
    <3>4. Stored(IE)' = Stored(IE)
      BY <3>1 DEF Stored
    <3>5. NothingBehindWatermark'
      BY <1>2, <3>1, <3>3
    <3> QED
      BY <1>2, <3>1, <3>3, <3>4, <3>5
  <2>2. CASE m # IE
    BY <1>5, <2>2, <1>1 DEF Delete, TypeInv, TablesInv
  <2> QED
    BY <2>1, <2>2
<1>6. ASSUME NEW r \in Runs, NEW m \in Models, Insert(r, m)
      PROVE  WatermarkInv'
  <2>1. CASE m = IE
    <3>1. tmp[IE] # None /\ UNCHANGED tmp
      BY <1>6, <2>1 DEF Insert
    <3>2. table'[IE] = Added(table[IE], tmp[IE])
      BY <1>6, <2>1 DEF Insert, TypeInv, TablesInv
    <3>3. Events' = Events \cup Stored(IE)
      BY <3>2, AddedRows DEF Events, Rows, Stored
    <3>4. Stored(IE)' = Stored(IE)
      BY <3>1 DEF Stored
    <3> QED
      BY <3>1, <3>3, <3>4
  <2>2. CASE m # IE
    BY <1>6, <2>2, <1>1 DEF Insert, TypeInv, TablesInv
  <2> QED
    BY <2>1, <2>2
<1>7. ASSUME NEW r \in Runs, NEW m \in Models, DropTmp(r, m)
      PROVE  WatermarkInv'
  BY <1>7, <1>1, m = IE \/ m # IE DEF DropTmp, TypeInv, TablesInv, Events, Rows
<1>8. CASE UNCHANGED tables
  BY <1>8, <1>1 DEF tables
<1> QED
  BY <1>3, <1>4, <1>5, <1>6, <1>7, <1>8, StepKinds

\* The strict comparison with MAX(kafka_ts) in intermediate_events never passes over an
\* event: every event up to the newest one in the model is in the model, also when two
\* runs build it at once through one temporary table, wherever their tasks die.
THEOREM WatermarkHidesNothing == Spec => []NothingBehindWatermark
<1>1. Init => WatermarkInv
  BY DEF Init, WatermarkInv, NothingBehindWatermark, Events, Rows, BagToSet, EmptyBag,
     SetToBag, IE, Models
<1>2. WatermarkInv => NothingBehindWatermark
  BY DEF WatermarkInv
<1> QED
  BY InitTypeInv, NextTypeInv, <1>1, <1>2, NextWatermark, PTL DEF Spec

----------------------------------------------------------------------------
(* One row per key, as long as no two builds of a model overlap. *)

UniqueRows(m, bag) ==
    \A a, b \in BagToSet(bag) : KeyOf(m, a) = KeyOf(m, b) => a = b /\ bag[a] = 1

\* The invariant behind it: builds do not overlap, the temporary tables have one row
\* per key too, and between a build's DELETE and its INSERT they share no key with
\* the table.
UniqueInv ==
    ~raced =>
      /\ \A m \in Models : \A q, r \in Runs : InBuild(q, m) /\ InBuild(r, m) => q = r
      /\ \A m \in Models : UniqueRows(m, table[m])
      /\ \A m \in Models : tmp[m] # None => UniqueRows(m, tmp[m])
      /\ \A m \in Models, r \in Runs :
           InBuild(r, m) /\ task[r].next = "insert" /\ tmp[m] # None =>
             \A a \in Rows(m), b \in Stored(m) : KeyOf(m, a) # KeyOf(m, b)

\* Each model's SELECT yields one row per key, when intermediate_events does.
LEMMA SelectedUnique ==
    ASSUME UniqueRows(IE, table[IE]), NEW m \in Models
    PROVE  UniqueRows(m, Select(m))
<1>1. CASE m = "intermediate_events"
  BY <1>1 DEF Select, UniqueRows, SetToBag, BagToSet, KeyOf
<1>2. CASE m = "fct_events"
  BY <1>2 DEF Select, UniqueRows, Events, Rows, BagToSet, KeyOf, IE
<1>3. CASE m = "fct_sessions"
  <2>1. ASSUME NEW S PROVE UniqueRows(m, SetToBag({SessionOf(s) : s \in S}))
    <3>1. \A s \in S : SessionOf(s).id = s
      BY DEF SessionOf
    <3>2. \A a \in {SessionOf(s) : s \in S} : a = SessionOf(a.id)
      BY <3>1
    <3> QED
      BY <1>3, <3>2 DEF UniqueRows, SetToBag, BagToSet, KeyOf
  <2> DEFINE chosen == IF m \in built THEN RecentEvents ELSE Events
             S == {staging[n].session : n \in chosen}
  <2>2. {SessionOf(staging[n].session) : n \in chosen} = {SessionOf(s) : s \in S}
    OBVIOUS
  <2>3. Select(m) = SetToBag({SessionOf(staging[n].session) : n \in chosen})
    BY <1>3 DEF Select
  <2> QED
    BY <2>1, <2>2, <2>3
<1> QED
  BY <1>1, <1>2, <1>3 DEF Models

\* Inserting rows whose keys the table does not have keeps one row per key.
LEMMA AddedUnique ==
    ASSUME NEW m \in Models, NEW old, NEW new, UniqueRows(m, old), UniqueRows(m, new),
           \A a \in BagToSet(old), b \in BagToSet(new) : KeyOf(m, a) # KeyOf(m, b)
    PROVE  UniqueRows(m, Added(old, new))
<1>1. ASSUME NEW a \in BagToSet(Added(old, new)), NEW b \in BagToSet(Added(old, new)),
             KeyOf(m, a) = KeyOf(m, b)
      PROVE  a = b /\ Added(old, new)[a] = 1
  <2>1. /\ a \in BagToSet(old) \/ a \in BagToSet(new)
        /\ b \in BagToSet(old) \/ b \in BagToSet(new)
    BY AddedRows
  <2>2. a = b
    BY <1>1, <2>1 DEF UniqueRows
  <2>3. a \in BagToSet(old) => Copies(a, old) = 1 /\ Copies(a, new) = 0
    BY DEF UniqueRows, Copies, BagIn
  <2>4. a \in BagToSet(new) => Copies(a, old) = 0 /\ Copies(a, new) = 1
    BY DEF UniqueRows, Copies, BagIn
  <2>5. Copies(a, old) + Copies(a, new) = 1
    BY <2>1, <2>3, <2>4
  <2>6. a \in DOMAIN old \cup DOMAIN new
    BY <2>1 DEF BagToSet
  <2> QED
    BY <2>2, <2>5, <2>6 DEF Added, MaxCopies
<1> QED
  BY <1>1 DEF UniqueRows

LEMMA NextUnique ==
    ASSUME TypeInv, UniqueInv, [Next]_vars
    PROVE  UniqueInv'
<1>1. ASSUME UNCHANGED <<table, tmp, task, raced>> PROVE UniqueInv'
  BY <1>1 DEF UniqueInv, UniqueRows, InBuild, Rows, Stored
<1>2. ASSUME UNCHANGED <<table, raced>>, NEW r \in Runs, task' = [task EXCEPT ![r] = None],
             NEW m \in Models, UNCHANGED tmp \/ tmp' = [tmp EXCEPT ![m] = None]
      PROVE  UniqueInv'
  <2>1. \A q \in Runs, n \in Models :
          InBuild(q, n)' => InBuild(q, n) /\ task'[q] = task[q]
    BY <1>2 DEF InBuild, TypeInv, TasksInv
  <2>2. \A n \in Models : tmp'[n] # None => tmp'[n] = tmp[n]
    BY <1>2 DEF TypeInv, TablesInv
  <2> QED
    BY <1>2, <2>1, <2>2 DEF UniqueInv, UniqueRows, Rows, Stored
<1>3. ASSUME NEW r \in Runs, NEW m \in Models, CreateTable(r, m)
      PROVE  UniqueInv'
  <2>1. /\ table' = [table EXCEPT ![m] = Select(m)] /\ UNCHANGED <<tmp, raced>>
        /\ task' = [task EXCEPT ![r] = None] /\ m \notin built
    BY <1>3 DEF CreateTable, Done
  <2>2. \A q \in Runs : ~InBuild(q, m)
    BY <2>1 DEF InBuild, TypeInv, TasksInv
  <2>3. \A q \in Runs, n \in Models :
          InBuild(q, n)' => InBuild(q, n) /\ task'[q] = task[q] /\ n # m
    BY <2>1, <2>2 DEF InBuild, TypeInv, TasksInv
  <2>4. \A n \in Models : table'[n] = IF n = m THEN Select(m) ELSE table[n]
    BY <2>1 DEF TypeInv, TablesInv
  <2>5. ~raced => UniqueRows(m, Select(m))
    BY SelectedUnique DEF UniqueInv, Models, IE
  <2>6. ~raced => \A n \in Models : UniqueRows(n, table'[n])
    BY <2>4, <2>5 DEF UniqueInv
  <2> QED
    BY <2>1, <2>3, <2>4, <2>6 DEF UniqueInv, UniqueRows, Rows, Stored
<1>4. ASSUME NEW r \in Runs, NEW m \in Models, StoreSelect(r, m)
      PROVE  UniqueInv'
  <2>1. /\ tmp' = [tmp EXCEPT ![m] = Select(m)] /\ UNCHANGED table /\ task[r] = None
        /\ task' = [task EXCEPT ![r] = [model |-> m, next |-> "delete"]]
        /\ raced' = (raced \/ \E q \in Runs : InBuild(q, m))
    BY <1>4 DEF StoreSelect
  <2>2. ~raced' => ~raced /\ \A q \in Runs : ~InBuild(q, m)
    BY <2>1
  <2>3. \A q \in Runs \ {r} : task'[q] = task[q]
    BY <2>1 DEF TypeInv, TasksInv
  <2>4. task'[r] = [model |-> m, next |-> "delete"]
    BY <2>1 DEF TypeInv, TasksInv
  <2>5. ASSUME NEW q \in Runs, NEW n \in Models, InBuild(q, n)', ~raced'
        PROVE  \/ q = r /\ n = m /\ task'[q].next = "delete"
               \/ q # r /\ n # m /\ InBuild(q, n) /\ task'[q] = task[q]
    BY <2>2, <2>3, <2>4, <2>5 DEF InBuild
  <2>6. \A n \in Models : tmp'[n] = IF n = m THEN Select(m) ELSE tmp[n]
    BY <2>1 DEF TypeInv, TablesInv
  <2>7. ~raced => UniqueRows(m, Select(m))
    BY SelectedUnique DEF UniqueInv, Models, IE
  <2>8. ~raced' => \A n \in Models : tmp'[n] # None => UniqueRows(n, tmp'[n])
    BY <2>2, <2>6, <2>7 DEF UniqueInv
  <2>9. ~raced' => \A n \in Models : \A q, p \in Runs : InBuild(q, n)' /\ InBuild(p, n)' => q = p
    BY <2>2, <2>5 DEF UniqueInv
  <2>10. ~raced' => \A n \in Models, q \in Runs :
           InBuild(q, n)' /\ task'[q].next = "insert" /\ tmp'[n] # None =>
             \A a \in Rows(n)', b \in Stored(n)' : KeyOf(n, a) # KeyOf(n, b)
    BY <2>1, <2>2, <2>5, <2>6 DEF UniqueInv, Rows, Stored
  <2> QED
    BY <2>1, <2>2, <2>8, <2>9, <2>10 DEF UniqueInv, UniqueRows
<1>5. ASSUME NEW r \in Runs, NEW m \in Models, Delete(r, m)
      PROVE  UniqueInv'
  <2>1. /\ table' = [table EXCEPT ![m] = [row \in Kept(m) |-> @[row]]]
        /\ task' = [task EXCEPT ![r] = [model |-> @.model, next |-> "insert"]]
        /\ UNCHANGED <<tmp, raced>> /\ InBuild(r, m) /\ tmp[m] # None
    BY <1>5 DEF Delete, Goto
  <2>2. \A q \in Runs, n \in Models : InBuild(q, n)' <=> InBuild(q, n)
    BY <2>1, TaskGoesOn DEF Statements
  <2>3. \A q \in Runs \ {r} : task'[q] = task[q]
    BY <2>1 DEF TypeInv, TasksInv
  <2>4. \A n \in Models : table'[n] = IF n = m THEN [row \in Kept(m) |-> table[m][row]] ELSE table[n]
    BY <2>1 DEF TypeInv, TablesInv
  <2>5. /\ Rows(m)' = Kept(m) /\ \A row \in Kept(m) : table'[m][row] = table[m][row]
        /\ \A n \in Models \ {m} : table'[n] = table[n]
    BY <2>4 DEF Rows, BagToSet
  <2>6. Kept(m) \subseteq Rows(m)
    BY DEF Kept
  <2>7. ~raced => \A n \in Models : UniqueRows(n, table'[n])
    BY <2>5, <2>6 DEF UniqueInv, UniqueRows, Rows
  <2>8. ASSUME ~raced, NEW q \in Runs, NEW n \in Models, InBuild(q, n), task'[q].next = "insert",
               tmp[n] # None, NEW a \in Rows(n)', NEW b \in Stored(n)
        PROVE  KeyOf(n, a) # KeyOf(n, b)
    <3>1. CASE n = m
      BY <3>1, <2>5 DEF Kept, Stored
    <3>2. CASE n # m
      <4>1. q # r
        BY <2>1, <2>8, <3>2 DEF InBuild
      <4> QED
        BY <4>1, <3>2, <2>3, <2>5, <2>8 DEF UniqueInv, Rows
    <3> QED
      BY <3>1, <3>2
  <2> QED
    BY <2>1, <2>2, <2>7, <2>8 DEF UniqueInv, UniqueRows, Stored
<1>6. ASSUME NEW r \in Runs, NEW m \in Models, Insert(r, m)
      PROVE  UniqueInv'
  <2>1. /\ table' = [table EXCEPT ![m] = Added(@, tmp[m])] /\ task[r].next = "insert"
        /\ task' = [task EXCEPT ![r] = [model |-> @.model, next |-> "drop"]]
        /\ UNCHANGED <<tmp, raced>> /\ InBuild(r, m) /\ tmp[m] # None
    BY <1>6 DEF Insert, Goto
  <2>2. \A q \in Runs, n \in Models : InBuild(q, n)' <=> InBuild(q, n)
    BY <2>1, TaskGoesOn DEF Statements
  <2>3. \A q \in Runs \ {r} : task'[q] = task[q]
    BY <2>1 DEF TypeInv, TasksInv
  <2>4. task'[r].next = "drop"
    BY <2>1 DEF TypeInv, TasksInv
  <2>5. table'[m] = Added(table[m], tmp[m]) /\ \A n \in Models \ {m} : table'[n] = table[n]
    BY <2>1 DEF TypeInv, TablesInv
  <2>6. ~raced => UniqueRows(m, table'[m])
    BY <2>1, <2>5, AddedUnique DEF UniqueInv, Rows, Stored
  <2>7. ~raced => \A n \in Models : UniqueRows(n, table'[n])
    BY <2>5, <2>6 DEF UniqueInv
  <2>8. ASSUME ~raced, NEW q \in Runs, NEW n \in Models, InBuild(q, n), task'[q].next = "insert"
        PROVE  q # r /\ n # m
    BY <2>1, <2>4, <2>8 DEF UniqueInv
  <2>9. ~raced => \A n \in Models, q \in Runs :
          InBuild(q, n) /\ task'[q].next = "insert" /\ tmp[n] # None =>
            \A a \in Rows(n)', b \in Stored(n) : KeyOf(n, a) # KeyOf(n, b)
    BY <2>3, <2>5, <2>8 DEF UniqueInv, Rows
  <2> QED
    BY <2>1, <2>2, <2>7, <2>9 DEF UniqueInv, UniqueRows, Stored
<1>7. ASSUME NEW r \in Runs, NEW m \in Models, DropTmp(r, m)
      PROVE  UniqueInv'
  BY <1>7, <1>2 DEF DropTmp, Done
<1>8. ASSUME NEW r \in Runs, NEW m \in Models, TmpGone(r, m) \/ Die(r, m)
      PROVE  UniqueInv'
  BY <1>8, <1>2 DEF TmpGone, Die, RetryOrGiveUp, tables
<1> QED
  BY <1>1, <1>3, <1>4, <1>5, <1>6, <1>7, <1>8
     DEF Next, RunStep, vars, tables, runs, Stage, Hour, CheckLag, QueryRaises, GatePasses,
         LagAlert, NextGroup

\* delete+insert keeps one row of each unique_key, whichever statement a task dies after
\* and however often it is retried, until two runs have built one model at once.
THEOREM OneRowPerKeyHolds == Spec => []OneRowPerKey
<1>1. Init => UniqueInv
  BY DEF Init, UniqueInv, UniqueRows, InBuild, BagToSet, EmptyBag, SetToBag
<1>2. UniqueInv => OneRowPerKey
  BY DEF UniqueInv, UniqueRows, OneRowPerKey, Rows
<1> QED
  BY InitTypeInv, NextTypeInv, <1>1, <1>2, NextUnique, PTL DEF Spec

----------------------------------------------------------------------------
(* The sessions count their events exactly, as long as no two builds overlap. *)

\* A nonempty set of naturals up to k has a largest element.
LEMMA LargestExists ==
    ASSUME NEW k \in Nat, NEW S \in SUBSET (1..k), S # {}
    PROVE  \E n \in S : \A j \in S : j <= n
<1> DEFINE T == {k - n : n \in S}
<1> DEFINE less == {p \in Nat \X Nat : p[1] < p[2]}
<1>1. IsWellFoundedOn(less, Nat)
  BY NatLessThanWellFounded DEF OpToRel
<1>2. T \subseteq Nat /\ T # {}
  <2>1. \A n \in S : k - n \in Nat
    OBVIOUS
  <2>2. PICK n \in S : TRUE
    OBVIOUS
  <2> QED
    BY <2>1, <2>2
<1> HIDE DEF less
<1>3. PICK x \in T : \A y \in T : <<y, x>> \notin less
  BY <1>1, <1>2, WFMin
<1>4. PICK n \in S : x = k - n
  BY <1>3
<1>5. ASSUME NEW j \in S PROVE j <= n
  <2>1. <<k - j, k - n>> \notin less
    BY <1>3, <1>4
  <2>2. k - j \in Nat /\ k - n \in Nat
    BY <1>2
  <2> QED
    BY <2>1, <2>2 DEF less
<1> QED
  BY <1>5

\* A row counts each of its session's events up to its last one, which is staged.
Exact(row) ==
    /\ row.last \in DOMAIN staging
    /\ row.total = Cardinality({n \in 1..row.last : staging[n].session = row.id})

\* The rows about to be inserted do so as well as those of the table.
ExactInv ==
    ~raced =>
      /\ \A row \in Rows("fct_sessions") : Exact(row)
      /\ tmp["fct_sessions"] # None => \A row \in Stored("fct_sessions") : Exact(row)

\* The SELECT counts exactly because intermediate_events hides no event behind its
\* newest one and has each once: the rows of both come from its full table, and the
\* window only chooses the sessions.
LEMMA SessionOfExact ==
    ASSUME TypeInv, NothingBehindWatermark, UniqueRows(IE, table[IE]),
           NEW s, NEW e \in Events, staging[e].session = s
    PROVE  Exact(SessionOf(s))
<1> DEFINE own == {n \in Events : staging[n].session = s}
           last == CHOOSE n \in own : \A k \in own : k <= n
<1>1. /\ DOMAIN staging = 1..Len(staging) /\ Len(staging) \in Nat
      /\ Events \subseteq DOMAIN staging
  BY DEF TypeInv, TablesInv, EventModels, Events, Rows
<1>2. e \in own /\ own \in SUBSET (1..Len(staging))
  BY <1>1
<1>3. last \in own /\ \A k \in own : k <= last
  <2> HIDE DEF own
  <2>1. \E n \in own : \A j \in own : j <= n
    BY <1>1, <1>2, LargestExists
  <2> QED
    BY <2>1
<1>4. SessionOf(s) = [id |-> s, last |-> last, total |-> Cardinality(CopiesOf(own))]
  BY DEF SessionOf
<1> HIDE DEF last
<1>5. own = {n \in 1..last : staging[n].session = s}
  <2>1. last \in Events /\ last \in 1..Len(staging)
    BY <1>1, <1>3
  <2>2. 1..last \subseteq Events
    BY <2>1 DEF NothingBehindWatermark
  <2>3. \A n \in own : n \in 1..last
    BY <1>1, <1>2, <1>3, <2>1
  <2> QED
    BY <2>2, <2>3
<1>6. \A n \in own : table[IE][n] = 1
  BY DEF UniqueRows, KeyOf, Events, Rows, IE
<1>7. last \in DOMAIN staging
  BY <1>1, <1>3
<1> HIDE DEF own
<1>8. CopiesOf(own) = own \X {1}
  <2>1. \A n \in own, k \in 1..MaxCopies : k <= table[IE][n] <=> k = 1
    BY <1>6 DEF MaxCopies
  <2> QED
    BY <2>1 DEF CopiesOf, MaxCopies, IE
<1>9. IsFiniteSet(own)
  <2>1. IsFiniteSet(1..Len(staging))
    BY <1>1, FS_Interval
  <2> QED
    BY <1>2, <2>1, FS_Subset
<1>10. Cardinality(CopiesOf(own)) = Cardinality(own)
  <2>1. IsFiniteSet({1}) /\ Cardinality({1}) = 1
    BY FS_Singleton
  <2>2. Cardinality(own \X {1}) = Cardinality(own) * 1
    BY <1>9, <2>1, FS_Product
  <2>3. Cardinality(own) \in Nat
    BY <1>9, FS_CardinalityType
  <2> QED
    BY <1>8, <2>2, <2>3
<1> QED
  BY <1>4, <1>5, <1>7, <1>10 DEF Exact

LEMMA SelectedExact ==
    ASSUME TypeInv, NothingBehindWatermark, UniqueRows(IE, table[IE]),
           NEW row \in BagToSet(Select("fct_sessions"))
    PROVE  Exact(row)
<1> DEFINE chosen == IF "fct_sessions" \in built THEN RecentEvents ELSE Events
<1>1. Select("fct_sessions") = SetToBag({SessionOf(staging[n].session) : n \in chosen})
  BY DEF Select
<1>2. PICK n \in chosen : row = SessionOf(staging[n].session)
  BY <1>1 DEF SetToBag, BagToSet
<1>3. n \in Events
  BY DEF RecentEvents
<1> QED
  BY <1>2, <1>3, SessionOfExact

LEMMA NextExact ==
    ASSUME TypeInv, WatermarkInv, UniqueInv, ExactInv, [Next]_vars
    PROVE  ExactInv'
<1> DEFINE FS == "fct_sessions"
<1>1. ASSUME UNCHANGED <<staging, table[FS], tmp[FS], raced>> PROVE ExactInv'
  BY <1>1 DEF ExactInv, Exact, Rows, Stored
<1>2. ASSUME NEW s \in Sessions, NEW gap \in Gaps, NEW late \in Lates, Stage(s, gap, late)
      PROVE  ExactInv'
  <2> DEFINE e == [session |-> s, gap |-> IF staging = <<>> THEN 0 ELSE gap]
  <2>1. staging' = Append(staging, e) /\ UNCHANGED <<table, tmp, raced>>
    BY <1>2 DEF Stage, tables
  <2>2. e \in [session : Sessions, gap : Nat]
    BY DagAssumption
  <2> HIDE DEF e
  <2>3. /\ DOMAIN staging = 1..Len(staging) /\ Len(staging) \in Nat
        /\ DOMAIN staging \subseteq DOMAIN staging'
        /\ \A n \in DOMAIN staging : staging'[n] = staging[n]
    BY <2>1, <2>2 DEF TypeInv
  <2>4. ASSUME NEW row, Exact(row) PROVE Exact(row)'
    <3>1. row.last \in DOMAIN staging'
      BY <2>3, <2>4 DEF Exact
    <3>2. {n \in 1..row.last : staging'[n].session = row.id}
            = {n \in 1..row.last : staging[n].session = row.id}
      BY <2>3, <2>4 DEF Exact
    <3> QED
      BY <2>4, <3>1, <3>2 DEF Exact
  <2> QED
    BY <2>1, <2>4 DEF ExactInv, Rows, Stored
<1>3. ASSUME ~raced, NEW row \in BagToSet(Select(FS)) PROVE Exact(row)
  BY <1>3, SelectedExact DEF WatermarkInv, UniqueInv, Models, IE
<1>4. ASSUME NEW r \in Runs, NEW m \in Models, CreateTable(r, m)
      PROVE  ExactInv'
  <2>1. /\ table' = [table EXCEPT ![m] = Select(m)]
        /\ UNCHANGED <<staging, tmp, raced>>
    BY <1>4 DEF CreateTable, stream
  <2>2. CASE m = FS
    <3>1. table'[FS] = Select(FS)
      BY <2>1, <2>2 DEF TypeInv, TablesInv
    <3> QED
      BY <2>1, <3>1, <1>3 DEF ExactInv, Exact, Rows, Stored
  <2>3. CASE m # FS
    BY <2>1, <2>3, <1>1 DEF TypeInv, TablesInv
  <2> QED
    BY <2>2, <2>3
<1>5. ASSUME NEW r \in Runs, NEW m \in Models, StoreSelect(r, m)
      PROVE  ExactInv'
  <2>1. /\ tmp' = [tmp EXCEPT ![m] = Select(m)] /\ UNCHANGED <<staging, table>>
        /\ ~raced' => ~raced
    BY <1>5 DEF StoreSelect, stream
  <2>2. CASE m = FS
    <3>1. tmp'[FS] = Select(FS)
      BY <2>1, <2>2 DEF TypeInv, TablesInv
    <3> QED
      BY <2>1, <3>1, <1>3 DEF ExactInv, Exact, Rows, Stored
  <2>3. CASE m # FS
    <3>1. tmp'[FS] = tmp[FS]
      BY <2>1, <2>3 DEF TypeInv, TablesInv, Models
    <3> QED
      BY <2>1, <3>1 DEF ExactInv, Exact, Rows, Stored
  <2> QED
    BY <2>2, <2>3
<1>6. ASSUME NEW r \in Runs, NEW m \in Models, Delete(r, m)
      PROVE  ExactInv'
  <2>1. /\ table' = [table EXCEPT ![m] = [row \in Kept(m) |-> @[row]]]
        /\ UNCHANGED <<staging, tmp, raced>>
    BY <1>6 DEF Delete, stream
  <2>2. Rows(FS)' \subseteq Rows(FS)
    BY <2>1 DEF TypeInv, TablesInv, Rows, BagToSet, Kept, Models
  <2> QED
    BY <2>1, <2>2 DEF ExactInv, Exact, Stored
<1>7. ASSUME NEW r \in Runs, NEW m \in Models, Insert(r, m)
      PROVE  ExactInv'
  <2>1. /\ table' = [table EXCEPT ![m] = Added(@, tmp[m])] /\ tmp[m] # None
        /\ UNCHANGED <<staging, tmp, raced>>
    BY <1>7 DEF Insert, stream
  <2>2. CASE m = FS
    <3>1. table'[FS] = Added(table[FS], tmp[FS])
      BY <2>1, <2>2 DEF TypeInv, TablesInv
    <3>2. Rows(FS)' = Rows(FS) \cup Stored(FS)
      BY <3>1, AddedRows DEF Rows, Stored
    <3> QED
      BY <2>1, <2>2, <3>2 DEF ExactInv, Exact, Stored
  <2>3. CASE m # FS
    BY <2>1, <2>3, <1>1 DEF TypeInv, TablesInv
  <2> QED
    BY <2>2, <2>3
<1>8. ASSUME NEW r \in Runs, NEW m \in Models, DropTmp(r, m)
      PROVE  ExactInv'
  <2>1. tmp' = [tmp EXCEPT ![m] = None] /\ UNCHANGED <<staging, table, raced>>
    BY <1>8 DEF DropTmp, stream
  <2>2. tmp'[FS] # None => tmp'[FS] = tmp[FS]
    BY <2>1 DEF TypeInv, TablesInv, Models
  <2> QED
    BY <2>1, <2>2 DEF ExactInv, Exact, Rows, Stored
<1>9. ASSUME UNCHANGED <<stream, tables, raced>> PROVE ExactInv'
  BY <1>9, <1>1 DEF stream, tables
<1> QED
  BY <1>2, <1>4, <1>5, <1>6, <1>7, <1>8, <1>9, <1>1
     DEF Next, RunStep, vars, stream, tables, Hour, CheckLag, QueryRaises, GatePasses,
         LagAlert, NextGroup, TmpGone, Die

\* A row of fct_sessions counts each event of its session up to its last one once,
\* although a build selects sessions by a window of two hours and builds die between
\* their statements, until two runs have built one model at once.
THEOREM SessionsCountExactly == Spec => []SessionCountsExact
<1>1. Init => WatermarkInv /\ UniqueInv
  BY DEF Init, UniqueInv, UniqueRows, InBuild, WatermarkInv, NothingBehindWatermark, Events,
     Rows, BagToSet, EmptyBag, SetToBag, IE, Models
<1>2. Init => ExactInv
  BY DEF Init, ExactInv, Rows, BagToSet, EmptyBag, SetToBag, Models
<1>3. ExactInv => SessionCountsExact
  BY DEF ExactInv, Exact, SessionCountsExact
<1> QED
  BY InitTypeInv, NextTypeInv, <1>1, <1>2, <1>3, NextWatermark, NextUnique, NextExact,
     PTL DEF Spec

============================================================================
