---------------------------- MODULE CdcTableProofs -----------------------------
(****************************************************************************)
(* Theorems about what CdcStream leaves in its tables, for every value of   *)
(* its constants: only records under the contract pass, the metrics count   *)
(* the quarantine rows, and no staging row goes back to an older event.     *)
(****************************************************************************)
EXTENDS CdcStreamProofs

----------------------------------------------------------------------------
(* Only records under the contract pass. *)

\* What has no drift has the same columns: three diffs by name and type say all
\* there is to say of the two sides.
LEMMA NoDriftSameColumns ==
    ASSUME NEW local, NEW registered, ~IsDrift(local, registered)
    PROVE  SameColumns(local, registered)
<1>1. DOMAIN local = Business(registered)
  BY DEF IsDrift, Added, Removed
<1>2. \A f \in DOMAIN local : AvroTypeName(local[f]) = AvroTypeName(registered[f])
  BY <1>1 DEF IsDrift, Changed
<1> QED
  BY <1>1, <1>2 DEF SameColumns, Columns

\* The schema a running query approved has no drift against what it loaded.
Approved == pc # "down" /\ expected # NoSchema => ~IsDrift(loaded, SchemaShape[expected])

LEMMA InitApproved == Init => Approved
  BY DEF Init, Approved

LEMMA NextApproved ==
    ASSUME Approved, [Next]_vars
    PROVE  Approved'
<1>1. ASSUME NEW lost \in SUBSET Unreadable, Start(lost) PROVE Approved'
  BY <1>1 DEF Start, Approved, Drifted
<1>2. ASSUME NEW lost \in SUBSET Unreadable, StartFails(lost) PROVE Approved'
  BY <1>2 DEF StartFails, Approved, progress
<1>3. ASSUME \/ \E p \in Payloads : Publish(p)
             \/ RegisterSchema
             \/ \E shape \in Shapes : UpdateContract(shape)
             \/ PlanBatch
             \/ \E s \in SchemaIds : ReportDrift(s)
             \/ DriftChecked \/ WriteQuarantine \/ MergeUpserts \/ ApplyDeletes
             \/ WriteMetrics \/ CommitBatch \/ Crash
             \/ UNCHANGED vars
      PROVE  UNCHANGED <<expected, loaded>> /\ (pc = "down" => pc' = "down")
  BY <1>3 DEF Publish, RegisterSchema, UpdateContract, PlanBatch, ReportDrift,
     DriftChecked, WriteQuarantine, MergeUpserts, ApplyDeletes, WriteMetrics,
     CommitBatch, Crash, vars, progress
<1>4. ASSUME UNCHANGED <<expected, loaded>>, pc = "down" => pc' = "down"
      PROVE  Approved'
  BY <1>4 DEF Approved
<1> QED
  BY <1>1, <1>2, <1>3, <1>4 DEF Next, ProcessorStep

\* A record that passes every check was written under a schema with exactly the
\* columns and downstream types of the contract the process loaded, for any
\* schemas and any changes of the contract.
THEOREM PassedIsContracted == Spec => []OnlyContracted
<1>1. TypeInv /\ Approved /\ [Next]_vars => TypeInv' /\ Approved'
  BY NextTypeInv, NextApproved
<1>2. Approved => OnlyContracted
  <2> SUFFICES ASSUME Approved, pc # "down", NEW o \in Valid
               PROVE  SameColumns(loaded, SchemaShape[log[o].schema])
    BY DEF OnlyContracted
  <2>1. log[o].schema = expected /\ expected # NoSchema
    BY DEF Valid, Reason, Unapproved
  <2> QED
    BY <2>1, NoDriftSameColumns DEF Approved
<1> QED
  BY <1>1, <1>2, InitTypeInv, InitApproved, PTL DEF Spec

----------------------------------------------------------------------------
(* The metrics count the quarantine rows. *)

BadRows == {[offset |-> o, reason |-> Reason(log[o]), at |-> Run] : o \in Bad}
RowsAt(at) == {q \in quarantine : q.at = at}

\* Runs are numbered upwards, so a run finds no rows of its own before it has
\* written them, and what it wrote to quarantine is the bad half of its batch.
Counting ==
    /\ MetricsMatchQuarantine
    /\ \A row \in quarantine \cup metrics :
         row.at.start <= attempt /\ row.at.batch <= batchId
    /\ pc \in {"idle", "detect", "quarantine"} => RowsAt(Run) = {}
    /\ pc \in {"merge", "delete", "metrics"} => RowsAt(Run) = BadRows
    /\ pc \in {"idle"} \cup (Phases \ {"commit"}) => \A m \in metrics : m.at # Run
    /\ pc = "commit" => \E m \in metrics : m.at.batch = batchId

\* A quarantine write has one row for each bad record.
LEMMA BadRowsCounted ==
    ASSUME TypeOK
    PROVE  Cardinality(BadRows) = Cardinality(Bad)
<1> DEFINE row(o) == [offset |-> o, reason |-> Reason(log[o]), at |-> Run]
           f == [o \in Bad |-> row(o)]
<1>1. IsFiniteSet(Bad)
  BY BatchInLog, FS_Subset
<1>2. \A o \in Bad : row(o) \in BadRows /\ row(o).offset = o
  BY DEF BadRows
<1>3. \A r \in BadRows : \E o \in Bad : r = row(o)
  BY DEF BadRows
<1>4. \A o, p \in Bad : row(o) = row(p) => o = p
  BY <1>2
<1> HIDE DEF row
<1>5. f \in Bijection(Bad, BadRows)
  BY <1>2, <1>3, <1>4 DEF Bijection, Injection, Surjection, IsInjective
<1> HIDE DEF f
<1> QED
  BY <1>1, <1>5, FS_Bijection DEF ExistsBijection

\* What the bad half of a batch leaves in quarantine depends on the batch only.
LEMMA BadRowsStable ==
    ASSUME TypeOK,
           \A o \in 1..Len(log) : log'[o] = log[o],
           UNCHANGED <<expected, committed, planned, attempt, batchId>>
    PROVE  BadRows' = BadRows /\ Run' = Run
<1>1. Run' = Run
  BY DEF Run
<1>2. Bad' = Bad /\ Bad \subseteq 1..Len(log)
  BY BatchStable, BatchInLog
<1>3. \A o \in Bad : Reason(log[o])' = Reason(log[o])
  BY <1>2 DEF Reason, Unapproved
<1> QED
  BY <1>1, <1>2, <1>3 DEF BadRows

\* Topic and tables unchanged but for new events.
LEMMA TopicGrows ==
    ASSUME TypeOK,
           \/ \E p \in Payloads : Publish(p)
           \/ RegisterSchema
           \/ \E shape \in Shapes : UpdateContract(shape)
           \/ UNCHANGED vars
    PROVE  /\ \A o \in 1..Len(log) : log'[o] = log[o]
           /\ Len(log) <= Len(log')
           /\ UNCHANGED <<pc, expected, loaded, attempt, planned, committed, batchId,
                          ends, staging, quarantine, drift, metrics, applied>>
<1>1. ASSUME NEW p \in Payloads, Publish(p)
      PROVE  (\A o \in 1..Len(log) : log'[o] = log[o]) /\ Len(log) <= Len(log')
  BY <1>1 DEF Publish, TypeOK
<1>2. ASSUME \/ RegisterSchema
             \/ \E shape \in Shapes : UpdateContract(shape)
             \/ UNCHANGED vars
      PROVE  log' = log
  BY <1>2 DEF RegisterSchema, UpdateContract, vars
<1>3. UNCHANGED <<pc, expected, loaded, attempt, planned, committed, batchId,
                  ends, staging, quarantine, drift, metrics, applied>>
  BY DEF Publish, RegisterSchema, UpdateContract, vars, progress
<1> QED
  BY <1>1, <1>2, <1>3 DEF TypeOK

LEMMA InitCounting == Init => Counting
  BY SMT DEF Init, Counting, MetricsMatchQuarantine, RowsAt

LEMMA NextCounting ==
    ASSUME {"quarantine", "metrics"} \cap Unreadable = {}, TypeInv, Counting, [Next]_vars
    PROVE  Counting'
<1>t. TypeOK /\ Running
  BY DEF TypeInv
<1>n. attempt \in Nat /\ batchId \in Nat
  BY <1>t, BoundAssumption DEF TypeOK
<1>r. \A row \in quarantine \cup metrics :
         row.at \in Runs /\ row.at.start <= attempt /\ row.at.batch <= batchId
  BY <1>t DEF TypeOK, Counting
<1>1. ASSUME \/ \E p \in Payloads : Publish(p)
             \/ RegisterSchema
             \/ \E shape \in Shapes : UpdateContract(shape)
             \/ UNCHANGED vars
      PROVE  Counting'
  <2>1. UNCHANGED <<pc, attempt, batchId, quarantine, metrics>>
    BY <1>1, <1>t, TopicGrows
  <2>2. BadRows' = BadRows /\ Run' = Run
    BY <1>1, <1>t, TopicGrows, BadRowsStable
  <2> QED
    BY <2>1, <2>2 DEF Counting, MetricsMatchQuarantine, RowsAt
<1>2. ASSUME NEW lost \in SUBSET Unreadable, Start(lost) \/ StartFails(lost)
      PROVE  Counting'
  <2>1. UNCHANGED <<batchId, quarantine, metrics>> /\ pc' \in {"down", "idle"}
    BY <1>2 DEF Start, StartFails, PrepareTables, progress
  <2>2. attempt <= attempt' /\ (pc' = "idle" => attempt' = attempt + 1)
    BY <1>2, <1>n DEF Start, StartFails, progress
  <2>3. \A row \in quarantine \cup metrics : pc' = "idle" => row.at # Run'
    BY <2>2, <1>r, <1>n DEF Run
  <2>4. \A row \in quarantine \cup metrics : row.at.start <= attempt'
    BY <2>2, <1>r, <1>n, <1>2 DEF Runs, Start, StartFails, progress
  <2> QED
    BY <2>1, <2>3, <2>4 DEF Counting, MetricsMatchQuarantine, RowsAt, Phases
<1>3. ASSUME PlanBatch PROVE Counting'
  BY <1>3 DEF PlanBatch, Counting, MetricsMatchQuarantine, RowsAt, Run, Phases
<1>4. ASSUME \/ \E s \in SchemaIds : ReportDrift(s)
             \/ DriftChecked
      PROVE  Counting'
  <2>1. /\ UNCHANGED <<attempt, batchId, quarantine, metrics>>
        /\ pc = "detect" /\ pc' \in {"detect", "quarantine"}
    BY <1>4 DEF ReportDrift, DriftChecked, progress
  <2> QED
    BY <2>1 DEF Counting, MetricsMatchQuarantine, RowsAt, Run, Phases
<1>5. ASSUME WriteQuarantine PROVE Counting'
  <2>1. /\ UNCHANGED <<log, expected, committed, planned, attempt, batchId, metrics>>
        /\ pc = "quarantine" /\ pc' = "merge"
        /\ quarantine' = quarantine \cup BadRows
    BY <1>5 DEF WriteQuarantine, BadRows, kafka, progress
  <2>2. BadRows' = BadRows /\ Run' = Run
    BY <2>1, <1>t, BadRowsStable
  <2>3. \A row \in BadRows : row.at = Run
    BY DEF BadRows
  <2>4. Run.start = attempt /\ Run.batch = batchId
    BY DEF Run
  <2>5. RowsAt(Run) = {}
    BY <2>1 DEF Counting
  <2>6. RowsAt(Run)' = BadRows
    BY <2>1, <2>2, <2>3, <2>5 DEF RowsAt
  <2>7. \A m \in metrics : m.at # Run
    BY <2>1 DEF Counting, Phases
  <2>8. \A m \in metrics : RowsAt(m.at)' = RowsAt(m.at)
    BY <2>1, <2>3, <2>7 DEF RowsAt
  <2>9. MetricsMatchQuarantine'
    BY <2>1, <2>8 DEF Counting, MetricsMatchQuarantine, RowsAt
  <2>10. \A row \in quarantine' \cup metrics' :
            row.at.start <= attempt' /\ row.at.batch <= batchId'
    BY <2>1, <2>3, <2>4, <1>r, <1>n
  <2> QED
    BY <2>1, <2>2, <2>6, <2>7, <2>9, <2>10 DEF Counting, Phases
<1>6. ASSUME MergeUpserts \/ ApplyDeletes PROVE Counting'
  <2>1. /\ UNCHANGED <<log, expected, committed, planned, attempt, batchId,
                       quarantine, metrics>>
        /\ pc \in {"merge", "delete"} /\ pc' \in {"delete", "metrics"}
    BY <1>6 DEF MergeUpserts, ApplyDeletes, kafka, progress
  <2>2. BadRows' = BadRows /\ Run' = Run
    BY <2>1, <1>t, BadRowsStable
  <2> QED
    BY <2>1, <2>2 DEF Counting, MetricsMatchQuarantine, RowsAt, Phases
<1>7. ASSUME WriteMetrics PROVE Counting'
  <2> DEFINE new == [at |-> Run, processed |-> Cardinality(Valid),
                     quarantined |-> Cardinality(Bad)]
  <2>1. /\ UNCHANGED <<attempt, batchId, quarantine>>
        /\ pc = "metrics" /\ pc' = "commit"
        /\ metrics' = metrics \cup {new}
    BY <1>7 DEF WriteMetrics, progress
  <2>2. new.at = Run /\ new.quarantined = Cardinality(Bad)
    OBVIOUS
  <2>3. Run.start = attempt /\ Run.batch = batchId
    BY DEF Run
  <2>4. RowsAt(Run) = BadRows
    BY <2>1 DEF Counting
  <2> HIDE DEF new
  <2>5. new.quarantined = Cardinality(RowsAt(new.at))
    BY <2>2, <2>4, <1>t, BadRowsCounted
  <2>6. MetricsMatchQuarantine'
    BY <2>1, <2>5 DEF Counting, MetricsMatchQuarantine, RowsAt
  <2>7. \A row \in quarantine' \cup metrics' :
            row.at.start <= attempt' /\ row.at.batch <= batchId'
    BY <2>1, <2>2, <2>3, <1>r, <1>n
  <2>8. \E m \in metrics' : m.at.batch = batchId'
    BY <2>1, <2>2, <2>3
  <2> QED
    BY <2>1, <2>6, <2>7, <2>8 DEF Counting, Phases
<1>8. ASSUME CommitBatch PROVE Counting'
  <2>1. /\ UNCHANGED <<attempt, quarantine, metrics>>
        /\ batchId' = batchId + 1 /\ pc = "commit" /\ pc' = "idle"
    BY <1>8 DEF CommitBatch
  <2>2. \A row \in quarantine \cup metrics : row.at # Run' /\ row.at.batch <= batchId'
    BY <2>1, <1>r, <1>n DEF Run, Runs
  <2>3. \A b \in 0..batchId' - 1 : b \in 0..batchId - 1 \/ b = batchId
    BY <2>1, <1>n
  <2>4. MetricsMatchQuarantine'
    BY <2>1, <2>3 DEF Counting, MetricsMatchQuarantine
  <2> QED
    BY <2>1, <2>2, <2>4, <1>r DEF Counting, RowsAt, Phases
<1>9. ASSUME Crash PROVE Counting'
  BY <1>9 DEF Crash, progress, Counting, MetricsMatchQuarantine, RowsAt, Run, Phases
<1> QED
  BY <1>1, <1>2, <1>3, <1>4, <1>5, <1>6, <1>7, <1>8, <1>9 DEF Next, ProcessorStep

\* The quarantine count of every metrics row is the number of rows its run wrote,
\* and every committed batch has one, for any number of crashes and retries.
THEOREM MetricsCount ==
    ASSUME {"quarantine", "metrics"} \cap Unreadable = {}
    PROVE  Spec => []MetricsMatchQuarantine
<1>1. TypeInv /\ Counting /\ [Next]_vars => TypeInv' /\ Counting'
  BY NextTypeInv, NextCounting
<1>2. Counting => MetricsMatchQuarantine
  BY DEF Counting
<1> QED
  BY <1>1, <1>2, InitTypeInv, InitCounting, PTL DEF Spec

----------------------------------------------------------------------------
(* No staging row goes back to an older event. *)

\* Events are stamped in the order of the topic; a row is known by the run and
\* the event that inserted it, and holds an upsert of a batch already planned;
\* the run in hand finds no row of its own before its merge.
Dated ==
    /\ \A o \in 1..Len(log) : log[o].ts = o
    /\ \A r \in staging :
         /\ r.at.start <= attempt /\ r.at.batch <= batchId
         /\ r.cur <= planned /\ log[r.cur].op \notin {Null, "d"}
    /\ \A r, s \in staging : r.at = s.at /\ r.src = s.src => r = s
    /\ pc \in {"idle", "detect", "quarantine", "merge"} => \A r \in staging : r.at # Run
    /\ pc = "merge" => Bad \subseteq Quarantined

\* An id has one winner: of two, each would be the later one.
LEMMA OneWinner ==
    ASSUME TypeOK, Dated, NEW v \in Winners, NEW w \in Winners, log[v].id = log[w].id
    PROVE  v = w
<1>1. v \in 1..Len(log) /\ w \in 1..Len(log) /\ v \in Ups /\ w \in Ups
  BY BatchInLog DEF Winners
<1>2. log[v].ts = v /\ log[w].ts = w /\ v \in Int /\ w \in Int
  BY <1>1 DEF Dated, TypeOK
<1>3. v # w => Precedes(v, w) /\ Precedes(w, v)
  BY <1>1 DEF Winners
<1> QED
  BY <1>2, <1>3 DEF Precedes

\* A winner that matches a row is newer than the event the row holds, unless
\* that event is one of the batch and was just quarantined.
LEMMA WinnerIsNewer ==
    ASSUME TypeOK, Dated, pc = "merge",
           NEW r \in staging, NEW w \in Winners, log[w].id = IdOf(r)
    PROVE  w >= r.cur \/ r.cur \in Quarantined
<1>1. /\ w \in Batch /\ w \in Ups /\ w \in 1..Len(log) /\ r.cur \in 1..Len(log)
      /\ committed \in Int /\ planned \in Int
  BY BatchInLog DEF Winners, TypeOK
<1>2. log[w].ts = w /\ log[r.cur].ts = r.cur
  BY <1>1 DEF Dated
<1>3. CASE r.cur \notin Batch
  <2>1. r.cur <= planned
    BY DEF Dated
  <2>2. r.cur <= committed /\ w > committed
    BY <1>1, <1>3, <2>1 DEF Batch
  <2> QED
    BY <2>2, <1>1
<1>4. CASE r.cur \in Bad
  BY <1>4 DEF Dated
<1>5. CASE r.cur \in Valid
  <2>1. r.cur \in Ups
    BY <1>5 DEF Ups, Dated
  <2>2. r.cur = w \/ Precedes(w, r.cur)
    BY <2>1 DEF Winners, IdOf
  <2> QED
    BY <2>2, <1>1, <1>2 DEF Precedes
<1> QED
  BY <1>3, <1>4, <1>5 DEF Bad

\* What a merge leaves of each row: a row it did not touch, one it overwrote with
\* a winner of its id, or a new row of this run.
LEMMA MergedRows ==
    ASSUME MergeUpserts, NEW n \in staging'
    PROVE  \/ n \in staging /\ \A w \in Winners : log[w].id # IdOf(n)
           \/ \E r \in staging, w \in Winners :
                 log[w].id = IdOf(r) /\ n = [r EXCEPT !.cur = w]
           \/ \E o \in Ups : n = [at |-> Run, src |-> o, cur |-> o]
<1>1. staging' = Untouched \cup Overwritten
                  \cup {[at |-> Run, src |-> o, cur |-> o] : o \in Unmatched}
  BY DEF MergeUpserts
<1>2. CASE n \in Untouched
  BY <1>2 DEF Untouched
<1>3. CASE n \in Overwritten
  <2>1. PICK m \in Matched : n = [m[1] EXCEPT !.cur = m[2]]
    BY <1>3 DEF Overwritten
  <2>2. m[1] \in staging /\ m[2] \in Winners /\ log[m[2]].id = IdOf(m[1])
    BY <2>1 DEF Matched
  <2> QED
    BY <2>1, <2>2
<1>4. CASE n \in {[at |-> Run, src |-> o, cur |-> o] : o \in Unmatched}
  BY <1>4 DEF Unmatched
<1> QED
  BY <1>1, <1>2, <1>3, <1>4

LEMMA InitDated == Init => Dated
  BY DEF Init, Dated

LEMMA NextDated ==
    ASSUME TypeInv, Dated, [Next]_vars
    PROVE  Dated'
<1>t. TypeOK /\ Running
  BY DEF TypeInv
<1>n. /\ attempt \in Nat /\ batchId \in Nat /\ planned \in Nat /\ committed \in Nat
      /\ committed <= planned /\ planned <= Len(log) /\ Len(log) \in Nat
  BY <1>t, BoundAssumption DEF TypeOK
<1>r. \A r \in staging : r.at \in Runs /\ r.cur \in 1..Len(log) /\ r.src \in 1..Len(log)
  BY <1>t DEF TypeOK
<1>0. ASSUME UNCHANGED <<log, attempt, batchId, planned>>, staging' \subseteq staging,
             pc' \in {"idle", "detect", "quarantine", "merge"} =>
                pc \in {"idle", "detect", "quarantine", "merge"},
             pc' = "merge" => Bad' \subseteq Quarantined'
      PROVE  Dated'
  BY <1>0 DEF Dated, Run
<1>1. ASSUME \/ \E p \in Payloads : Publish(p)
             \/ RegisterSchema
             \/ \E shape \in Shapes : UpdateContract(shape)
             \/ UNCHANGED vars
      PROVE  Dated'
  <2>1. /\ \A o \in 1..Len(log) : log'[o] = log[o]
        /\ Len(log) <= Len(log')
        /\ UNCHANGED <<pc, expected, loaded, attempt, planned, committed, batchId,
                       ends, staging, quarantine, drift, metrics, applied>>
    BY <1>1, <1>t, TopicGrows
  <2>2. Bad' = Bad /\ Run' = Run /\ Quarantined' = Quarantined
    BY <2>1, <1>t, BatchStable DEF Run, Quarantined
  <2>3. \A o \in 1..Len(log') : log'[o].ts = o
    <3>1. ASSUME NEW p \in Payloads, Publish(p)
          PROVE  \A o \in 1..Len(log') : log'[o].ts = o
      <4> DEFINE e == [schema |-> p.schema, id |-> p.id, op |-> p.op, ts |-> Len(log) + 1]
      <4>1. log' = Append(log, e) /\ e.ts = Len(log) + 1
        BY <3>1 DEF Publish
      <4> HIDE DEF e
      <4>2. Len(log') = Len(log) + 1 /\ log'[Len(log) + 1] = e
        BY <4>1, <1>t DEF TypeOK
      <4> QED
        BY <4>1, <4>2, <2>1, <1>n DEF Dated
    <3>2. ASSUME \/ RegisterSchema
                 \/ \E shape \in Shapes : UpdateContract(shape)
                 \/ UNCHANGED vars
          PROVE  log' = log
      BY <3>2 DEF RegisterSchema, UpdateContract, vars
    <3> QED
      BY <3>1, <3>2, <1>1 DEF Dated
  <2>4. \A r \in staging : log'[r.cur] = log[r.cur]
    BY <2>1, <1>r
  <2> QED
    BY <2>1, <2>2, <2>3, <2>4 DEF Dated
<1>2. ASSUME NEW lost \in SUBSET Unreadable, Start(lost) \/ StartFails(lost)
      PROVE  Dated'
  <2>1. /\ UNCHANGED <<log, planned, batchId>> /\ staging' \subseteq staging
        /\ pc' \in {"down", "idle"}
    BY <1>2 DEF Start, StartFails, PrepareTables, kafka, progress
  <2>2. attempt <= attempt' /\ (pc' = "idle" => attempt' = attempt + 1)
    BY <1>2, <1>n DEF Start, StartFails, progress
  <2>3. attempt' \in Nat
    BY <1>2, <1>n DEF Start, StartFails, progress
  <2>4. \A r \in staging : r.at.start <= attempt' /\ (pc' = "idle" => r.at # Run')
    BY <2>2, <2>3, <1>r, <1>n DEF Dated, Run, Runs
  <2> QED
    BY <2>1, <2>4 DEF Dated
<1>3. ASSUME PlanBatch PROVE Dated'
  <2>1. /\ UNCHANGED <<log, attempt, batchId, staging>>
        /\ pc = "idle" /\ pc' = "detect"
    BY <1>3 DEF PlanBatch, kafka
  <2>2. planned <= planned'
    BY <1>3, <1>n, BoundAssumption DEF PlanBatch
  <2>3. planned' \in Int
    BY <1>3, <1>n, BoundAssumption DEF PlanBatch
  <2>4. \A r \in staging : r.cur <= planned'
    BY <2>2, <2>3, <1>r, <1>n DEF Dated
  <2> QED
    BY <2>1, <2>4 DEF Dated, Run
<1>4. ASSUME \/ \E s \in SchemaIds : ReportDrift(s)
             \/ DriftChecked \/ WriteMetrics \/ Crash
      PROVE  Dated'
  <2>1. /\ UNCHANGED <<log, attempt, batchId, planned, staging>>
        /\ pc = "detect" \/ pc' \in {"commit", "down"}
        /\ pc' # "merge"
    BY <1>4 DEF ReportDrift, DriftChecked, WriteMetrics, Crash, kafka, progress
  <2> QED
    BY <2>1, <1>0
<1>5. ASSUME WriteQuarantine PROVE Dated'
  <2>1. /\ UNCHANGED <<log, expected, committed, planned, attempt, batchId, staging>>
        /\ pc = "quarantine" /\ pc' = "merge"
    BY <1>5 DEF WriteQuarantine, kafka, progress
  <2>2. Bad' = Bad
    BY <2>1, <1>t, BatchStable
  <2> QED
    BY <2>1, <2>2, <1>5, QuarantineGrows, <1>0
<1>6. ASSUME MergeUpserts PROVE Dated'
  <2>1. /\ UNCHANGED <<log, attempt, batchId, planned>>
        /\ pc = "merge" /\ pc' = "delete"
    BY <1>6 DEF MergeUpserts, kafka, progress
  <2>2. Run.start = attempt /\ Run.batch = batchId
    BY DEF Run
  <2>3. \A o \in Ups : o <= planned /\ log[o].op \notin {Null, "d"}
    BY <1>n DEF Ups, Valid, Batch
  <2>4. Winners \subseteq Ups
    BY DEF Winners
  <2>5. ASSUME NEW n \in staging'
        PROVE  /\ n.at.start <= attempt /\ n.at.batch <= batchId
               /\ n.cur <= planned /\ log[n.cur].op \notin {Null, "d"}
    <3>1. CASE n \in staging
      BY <3>1 DEF Dated
    <3>2. ASSUME NEW r \in staging, NEW w \in Winners, n = [r EXCEPT !.cur = w]
          PROVE  n.at = r.at /\ n.cur = w
      BY <3>2, <1>t DEF TypeOK
    <3>3. ASSUME NEW r \in staging, NEW w \in Winners, n.at = r.at /\ n.cur = w
          PROVE  /\ n.at.start <= attempt /\ n.at.batch <= batchId
                 /\ n.cur <= planned /\ log[n.cur].op \notin {Null, "d"}
      BY <3>3, <2>3, <2>4 DEF Dated
    <3>4. CASE \E o \in Ups : n = [at |-> Run, src |-> o, cur |-> o]
      BY <3>4, <2>2, <2>3, <1>n
    <3> QED
      BY <3>1, <3>2, <3>3, <3>4, <1>6, MergedRows
  <2>6. ASSUME NEW n \in staging', NEW s \in staging', n.at = s.at, n.src = s.src
        PROVE  n = s
    <3> DEFINE Kept(x) == x \in staging /\ \A w \in Winners : log[w].id # IdOf(x)
               Over(x) == \E r \in staging, w \in Winners :
                             log[w].id = IdOf(r) /\ x = [r EXCEPT !.cur = w]
               New(x) == \E o \in Ups : x = [at |-> Run, src |-> o, cur |-> o]
               From(x, r) == r \in staging /\ r.at = x.at /\ r.src = x.src
    <3>1. ASSUME NEW x \in staging' PROVE Kept(x) \/ Over(x) \/ New(x)
      BY <1>6, MergedRows
    <3>2. ASSUME NEW x, NEW r \in staging, NEW w \in Winners, x = [r EXCEPT !.cur = w]
          PROVE  x = [at |-> r.at, src |-> r.src, cur |-> w]
      BY <3>2, <1>t DEF TypeOK
    <3>3. ASSUME NEW x, Kept(x) \/ Over(x) PROVE \E r : From(x, r)
      BY <3>2, <3>3
    <3>4. ASSUME NEW x, Kept(x) \/ Over(x) PROVE x.at # Run
      BY <3>3, <3>4, <2>1 DEF Dated
    <3>5. CASE New(n) \/ New(s)
      <4>1. New(n) /\ New(s)
        BY <3>1, <3>4, <3>5, <2>6
      <4> QED
        BY <4>1, <2>6
    <3>6. CASE Kept(n) /\ Kept(s)
      BY <3>6, <2>6 DEF Dated
    <3>7. ASSUME NEW x, NEW y, Kept(x), Over(y), x.at = y.at, x.src = y.src PROVE FALSE
      <4>1. PICK r \in staging, w \in Winners :
               log[w].id = IdOf(r) /\ y = [r EXCEPT !.cur = w]
        BY <3>7
      <4>2. y = [at |-> r.at, src |-> r.src, cur |-> w]
        BY <4>1, <3>2
      <4>3. r = x
        BY <4>2, <3>7 DEF Dated
      <4> QED
        BY <4>1, <4>3, <3>7
    <3>8. CASE Over(n) /\ Over(s)
      <4>1. PICK r \in staging, w \in Winners :
               log[w].id = IdOf(r) /\ n = [r EXCEPT !.cur = w]
        BY <3>8
      <4>2. PICK q \in staging, v \in Winners :
               log[v].id = IdOf(q) /\ s = [q EXCEPT !.cur = v]
        BY <3>8
      <4>3. /\ n = [at |-> r.at, src |-> r.src, cur |-> w]
            /\ s = [at |-> q.at, src |-> q.src, cur |-> v]
        BY <4>1, <4>2, <3>2
      <4>4. r = q
        BY <4>3, <2>6 DEF Dated
      <4>5. v = w
        BY <4>1, <4>2, <4>4, <1>t, OneWinner
      <4> QED
        BY <4>1, <4>2, <4>4, <4>5
    <3> QED
      BY <3>1, <3>5, <3>6, <3>7, <3>8, <2>6
  <2> QED
    BY <2>1, <2>5, <2>6 DEF Dated
<1>7. ASSUME ApplyDeletes PROVE Dated'
  <2>1. /\ UNCHANGED <<log, attempt, batchId, planned>> /\ staging' \subseteq staging
        /\ pc' = "metrics"
    BY <1>7 DEF ApplyDeletes, kafka, progress
  <2> QED
    BY <2>1, <1>0
<1>8. ASSUME CommitBatch PROVE Dated'
  <2>1. /\ UNCHANGED <<log, attempt, planned, staging>>
        /\ batchId' = batchId + 1 /\ pc' = "idle"
    BY <1>8 DEF CommitBatch, kafka
  <2>2. \A r \in staging : r.at.batch <= batchId' /\ r.at # Run'
    BY <2>1, <1>r, <1>n DEF Dated, Run, Runs
  <2> QED
    BY <2>1, <2>2 DEF Dated
<1> QED
  BY <1>1, <1>2, <1>3, <1>4, <1>5, <1>6, <1>7, <1>8 DEF Next, ProcessorStep

\* What one step may do to a row.
RowsKept ==
    \A old \in staging, new \in staging' :
        new.at = old.at /\ new.src = old.src =>
            new.cur >= old.cur \/ old.cur \in Quarantined

LEMMA StepKeepsRows ==
    ASSUME TypeInv, Dated, [Next]_vars
    PROVE  RowsKept
<1>t. TypeOK
  BY DEF TypeInv
<1>1. ASSUME staging' \subseteq staging PROVE RowsKept
  <2>1. \A r \in staging : r.cur >= r.cur
    BY <1>t DEF TypeOK
  <2> QED
    BY <1>1, <2>1 DEF RowsKept, Dated
<1>2. ASSUME MergeUpserts PROVE RowsKept
  <2> SUFFICES ASSUME NEW old \in staging, NEW new \in staging',
                      new.at = old.at, new.src = old.src
               PROVE  new.cur >= old.cur \/ old.cur \in Quarantined
    BY DEF RowsKept
  <2>1. pc = "merge" /\ old.cur \in Int
    BY <1>2, <1>t DEF MergeUpserts, TypeOK
  <2>2. CASE new \in staging
    <3>1. new = old
      BY <2>2 DEF Dated
    <3> QED
      BY <3>1, <2>1
  <2>3. CASE \E r \in staging, w \in Winners :
                log[w].id = IdOf(r) /\ new = [r EXCEPT !.cur = w]
    <3>1. PICK r \in staging, w \in Winners :
             log[w].id = IdOf(r) /\ new = [r EXCEPT !.cur = w]
      BY <2>3
    <3>2. new.at = r.at /\ new.src = r.src /\ new.cur = w
      BY <3>1, <1>t DEF TypeOK
    <3>3. r = old
      BY <3>2 DEF Dated
    <3> QED
      BY <3>1, <3>2, <3>3, <2>1, <1>t, WinnerIsNewer
  <2>4. CASE \E o \in Ups : new = [at |-> Run, src |-> o, cur |-> o]
    <3>1. old.at = Run
      BY <2>4
    <3> QED
      BY <3>1, <2>1 DEF Dated
  <2> QED
    BY <2>2, <2>3, <2>4, <1>2, MergedRows
<1>3. ASSUME [Next]_vars, ~MergeUpserts PROVE staging' \subseteq staging
  <2>1. ASSUME NEW lost \in SUBSET Unreadable, Start(lost) \/ StartFails(lost)
        PROVE  staging' \subseteq staging
    BY <2>1 DEF Start, StartFails, PrepareTables
  <2>2. ASSUME ApplyDeletes PROVE staging' \subseteq staging
    BY <2>2 DEF ApplyDeletes
  <2>3. ASSUME \/ \E p \in Payloads : Publish(p)
               \/ RegisterSchema
               \/ \E shape \in Shapes : UpdateContract(shape)
               \/ PlanBatch
               \/ \E s \in SchemaIds : ReportDrift(s)
               \/ DriftChecked \/ WriteQuarantine
               \/ WriteMetrics \/ CommitBatch \/ Crash
               \/ UNCHANGED vars
        PROVE  staging' = staging
    BY <2>3 DEF Publish, RegisterSchema, UpdateContract, PlanBatch, ReportDrift,
       DriftChecked, WriteQuarantine, WriteMetrics, CommitBatch, Crash, vars
  <2> QED
    BY <1>3, <2>1, <2>2, <2>3 DEF Next, ProcessorStep
<1> QED
  BY <1>1, <1>2, <1>3

\* However batches are cut, run again after crashes and run under other schemas,
\* and whichever tables are lost, no row of staging is rewritten with an event
\* older than the one it holds, unless that one has been quarantined.
THEOREM RowsOnlyAdvance == Spec => RowsNeverRegress
<1>1. TypeInv /\ Dated /\ [Next]_vars => TypeInv' /\ Dated'
  BY NextTypeInv, NextDated
<1>2. TypeInv /\ Dated /\ [Next]_vars => RowsKept
  BY StepKeepsRows
<1>3. RowsKept => [\A old \in staging, new \in staging' :
                     new.at = old.at /\ new.src = old.src =>
                        new.cur >= old.cur \/ old.cur \in Quarantined]_vars
  BY DEF RowsKept
<1> QED
  BY <1>1, <1>2, <1>3, InitTypeInv, InitDated, PTL DEF Spec, RowsNeverRegress
================================================================================
