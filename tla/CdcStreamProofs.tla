---------------------------- MODULE CdcStreamProofs ----------------------------
(****************************************************************************)
(* Theorems about CdcStream, for every value of its constants: the type     *)
(* invariant, that every settled event is accounted for, that drift is      *)
(* reported before it is quarantined, and that the stream implements the    *)
(* ledger of EventLedger.                                                   *)
(****************************************************************************)
EXTENDS CdcStream, FiniteSetTheorems, TLAPS

USE DEF NoSchema

----------------------------------------------------------------------------
(* Type correctness. *)

\* What types alone do not say: a process that is down has a start left, and a
\* batch in hand is not empty.
Running ==
    /\ pc = "down" => attempt <= MaxCrashes
    /\ pc \in Phases => committed < planned

TypeInv == TypeOK /\ Running

\* The batch in hand is a finite set of offsets of the topic.
LEMMA BatchInLog ==
    ASSUME TypeOK
    PROVE  /\ Batch \subseteq 1..Len(log)
           /\ \A o \in Batch : log[o] \in Events
           /\ IsFiniteSet(Batch)
           /\ Valid \subseteq Batch /\ Bad \subseteq Batch
           /\ Ups \subseteq Valid /\ Dels \subseteq Valid
<1>1. committed \in Int /\ planned \in Int /\ Len(log) \in Nat
  BY DEF TypeOK
<1>2. Batch \subseteq 1..Len(log)
  BY <1>1 DEF TypeOK, Batch
<1>3. \A o \in Batch : log[o] \in Events
  BY <1>2, <1>1 DEF TypeOK
<1>4. IsFiniteSet(Batch)
  BY <1>1, FS_Interval DEF Batch
<1> QED
  BY <1>2, <1>3, <1>4 DEF Valid, Bad, Ups, Dels

\* Counting either half of the batch gives a number.
LEMMA CountsAreNat ==
    ASSUME TypeOK
    PROVE  Cardinality(Valid) \in Nat /\ Cardinality(Bad) \in Nat
<1>1. IsFiniteSet(Valid) /\ IsFiniteSet(Bad)
  BY BatchInLog, FS_Subset
<1> QED
  BY <1>1, FS_CardinalityType

\* The run of a batch is a value of the column `at`.
LEMMA RunType ==
    ASSUME TypeOK
    PROVE  Run \in Runs
  BY BoundAssumption DEF TypeOK, Run, Runs

\* A record that is not valid has one of the quarantine reasons.
LEMMA BadReason ==
    ASSUME NEW o \in Bad
    PROVE  Reason(log[o]) \in Reasons
  BY DEF Bad, Valid, Reason, Reasons

LEMMA InitTypeInv == Init => TypeInv
<1> SUFFICES ASSUME Init PROVE TypeInv
  OBVIOUS
<1>1. log \in Seq(Events) /\ Len(log) = 0
  BY DEF Init
<1> QED
  BY <1>1, SchemaAssumption, BoundAssumption
  DEF Init, TypeInv, TypeOK, Running, Phases

LEMMA NextTypeInv == TypeInv /\ [Next]_vars => TypeInv'
<1> SUFFICES ASSUME TypeInv, [Next]_vars PROVE TypeInv'
  OBVIOUS
<1>t. TypeOK /\ Running
  BY DEF TypeInv
<1>1. ASSUME NEW p \in Payloads, Publish(p) PROVE TypeInv'
  <2> DEFINE e == [schema |-> p.schema, id |-> p.id, op |-> p.op, ts |-> Len(log) + 1]
  <2>1. e \in Events
    BY <1>t, <1>1, PayloadAssumption, BoundAssumption DEF TypeOK, Events, Publish
  <2>2. log' = Append(log, e)
    BY <1>1 DEF Publish
  <2>3. log' \in Seq(Events) /\ Len(log') = Len(log) + 1 /\ Len(log') \in 0..MaxLog
    BY <2>1, <2>2, <1>t, <1>1, BoundAssumption DEF TypeOK, Publish
  <2>4. 1..Len(log) \subseteq 1..Len(log') /\ 0..Len(log) \subseteq 0..Len(log')
    BY <2>3, <1>t DEF TypeOK
  <2> HIDE DEF e
  <2>5. TypeOK'
    BY <2>3, <2>4, <1>t, <1>1 DEF TypeOK, Publish, progress
  <2> QED
    BY <2>5, <1>t, <1>1 DEF TypeInv, Running, Publish, progress
<1>2. ASSUME RegisterSchema PROVE TypeInv'
  BY <1>t, <1>2, SchemaAssumption
  DEF TypeInv, TypeOK, Running, RegisterSchema, progress
<1>3. ASSUME NEW shape \in Shapes, UpdateContract(shape) PROVE TypeInv'
  BY <1>t, <1>3 DEF TypeInv, TypeOK, Running, UpdateContract, progress
<1>4. ASSUME NEW lost \in SUBSET Unreadable, Start(lost) \/ StartFails(lost)
      PROVE  TypeInv'
  <2>1. attempt + 1 \in 0..MaxCrashes + 1
    BY <1>t, <1>4, BoundAssumption DEF TypeOK, Running, Start, StartFails
  <2>2. [start |-> attempt + 1, batch |-> -1] \in Runs
    BY <2>1, BoundAssumption DEF Runs
  <2>3. StartupDrift(lost) \subseteq [expected : 0..MaxSchema, observed : SchemaIds, at : Runs]
    <3>1. 0 \in 0..MaxSchema /\ (latest # NoSchema => latest \in SchemaIds)
      BY <1>t, SchemaAssumption DEF TypeOK, SchemaIds, Unregistered, NoSchema
    <3> QED
      BY <2>2, <3>1, <1>t DEF TypeOK, StartupDrift, NoSchema
  <2>4. /\ staging' \subseteq staging /\ applied' \subseteq applied
        /\ quarantine' \subseteq quarantine /\ metrics' \subseteq metrics
        /\ drift' = StartupDrift(lost) /\ pc = "down"
    BY <1>4 DEF Start, StartFails, PrepareTables
  <2>5. CASE Start(lost)
    BY <2>1, <2>3, <2>4, <2>5, <1>t, SchemaAssumption
    DEF TypeInv, TypeOK, Running, Start, kafka, Phases, Buildable
  <2>6. CASE StartFails(lost)
    BY <2>3, <2>4, <2>6, <1>t
    DEF TypeInv, TypeOK, Running, StartFails, kafka, progress, Phases
  <2> QED
    BY <1>4, <2>5, <2>6
<1>5. ASSUME PlanBatch PROVE TypeInv'
  <2>1. planned' \in Int /\ committed < planned' /\ planned' <= Len(log)
    BY <1>t, <1>5, BoundAssumption DEF TypeOK, PlanBatch
  <2> QED
    BY <2>1, <1>t, <1>5 DEF TypeInv, TypeOK, Running, PlanBatch, kafka, Phases
<1>6. ASSUME NEW s \in SchemaIds, ReportDrift(s) PROVE TypeInv'
  <2>1. drift' \subseteq [expected : 0..MaxSchema, observed : SchemaIds, at : Runs]
    <3>1. drift' = drift \cup {[expected |-> expected, observed |-> s, at |-> Run]}
      BY <1>6 DEF ReportDrift
    <3>2. expected \in 0..MaxSchema /\ Run \in Runs
      BY <1>t, RunType DEF TypeOK
    <3> QED
      BY <3>1, <3>2, <1>t DEF TypeOK
  <2> QED
    BY <2>1, <1>t, <1>6 DEF TypeInv, TypeOK, Running, ReportDrift, kafka, progress
<1>7. ASSUME DriftChecked PROVE TypeInv'
  BY <1>t, <1>7 DEF TypeInv, TypeOK, Running, DriftChecked, kafka, progress, Phases
<1>8. ASSUME WriteQuarantine PROVE TypeInv'
  <2>1. quarantine' \subseteq [offset : 1..Len(log), reason : Reasons, at : Runs]
    <3> DEFINE new == {[offset |-> o, reason |-> Reason(log[o]), at |-> Run] : o \in Bad}
    <3>1. quarantine' = quarantine \cup new
      BY <1>8 DEF WriteQuarantine
    <3>2. UNCHANGED log /\ quarantine \subseteq [offset : 1..Len(log), reason : Reasons, at : Runs]
      BY <1>t, <1>8 DEF TypeOK, WriteQuarantine, kafka
    <3>3. new \subseteq [offset : 1..Len(log), reason : Reasons, at : Runs]
      <4>1. \A o \in Bad : o \in 1..Len(log) /\ Reason(log[o]) \in Reasons
        BY <1>t, BatchInLog, BadReason
      <4>2. Run \in Runs
        BY <1>t, RunType
      <4> QED
        BY <4>1, <4>2
    <3> QED
      BY <3>1, <3>2, <3>3
  <2> QED
    BY <2>1, <1>t, <1>8
    DEF TypeInv, TypeOK, Running, WriteQuarantine, kafka, progress, Phases
<1>9. ASSUME MergeUpserts PROVE TypeInv'
  <2> DEFINE Rows == [at : Runs, src : 1..Len(log), cur : 1..Len(log)]
  <2>0. staging \subseteq Rows
    BY <1>t DEF TypeOK
  <2>1. Ups \subseteq 1..Len(log) /\ Winners \subseteq Ups /\ Unmatched \subseteq Ups
    BY <1>t, BatchInLog DEF Winners, Unmatched
  <2>2. Untouched \subseteq Rows
    BY <2>0 DEF Untouched
  <2>3. Overwritten \subseteq Rows
    BY <2>0, <2>1 DEF Overwritten, Matched
  <2>4. {[at |-> Run, src |-> o, cur |-> o] : o \in Unmatched} \subseteq Rows
    BY <2>1, <1>t, RunType
  <2>5. staging' \subseteq Rows
    BY <2>2, <2>3, <2>4, <1>9 DEF MergeUpserts
  <2>6. applied' \subseteq 1..Len(log)
    BY <2>1, <1>t, <1>9 DEF TypeOK, MergeUpserts
  <2> QED
    BY <2>5, <2>6, <1>t, <1>9
    DEF TypeInv, TypeOK, Running, MergeUpserts, kafka, progress, Phases
<1>10. ASSUME ApplyDeletes PROVE TypeInv'
  <2>1. applied' \subseteq 1..Len(log)
    BY <1>t, <1>10, BatchInLog DEF TypeOK, ApplyDeletes
  <2>2. staging' \subseteq staging
    BY <1>10 DEF ApplyDeletes
  <2> QED
    BY <2>1, <2>2, <1>t, <1>10
    DEF TypeInv, TypeOK, Running, ApplyDeletes, kafka, progress, Phases
<1>11. ASSUME WriteMetrics PROVE TypeInv'
  <2> DEFINE Entry == [at |-> Run, processed |-> Cardinality(Valid),
                      quarantined |-> Cardinality(Bad)]
             Entries == [at : Runs, processed : Nat, quarantined : Nat]
  <2>1. Entry \in Entries
    BY <1>t, RunType, CountsAreNat
  <2>2. metrics' = metrics \cup {Entry}
    BY <1>11 DEF WriteMetrics
  <2> HIDE DEF Entry
  <2>3. metrics' \subseteq Entries
    BY <2>1, <2>2, <1>t DEF TypeOK
  <2> QED
    BY <2>3, <1>t, <1>11
    DEF TypeInv, TypeOK, Running, WriteMetrics, kafka, progress, Phases
<1>12. ASSUME CommitBatch PROVE TypeInv'
  BY <1>t, <1>12 DEF TypeInv, TypeOK, Running, CommitBatch, kafka, Phases
<1>13. ASSUME Crash PROVE TypeInv'
  BY <1>t, <1>13 DEF TypeInv, TypeOK, Running, Crash, kafka, progress, Phases
<1>14. ASSUME UNCHANGED vars PROVE TypeInv'
  BY <1>t, <1>14 DEF TypeInv, TypeOK, Running, vars
<1> QED
  BY <1>1, <1>2, <1>3, <1>4, <1>5, <1>6, <1>7, <1>8, <1>9, <1>10, <1>11,
     <1>12, <1>13, <1>14 DEF Next, ProcessorStep

\* The tables always hold rows of their columns' types, and the checkpoint's
\* two offsets and its batch number stay in order, whatever the processor's
\* crashes, the producer's records and the owner's changes of contract.
THEOREM TypeCorrect == Spec => []TypeOK
<1>1. TypeInv => TypeOK
  BY DEF TypeInv
<1> QED
  BY <1>1, InitTypeInv, NextTypeInv, PTL DEF Spec

----------------------------------------------------------------------------
(* Every settled event is accounted for. *)

\* Every record with a key has an operation, as Debezium writes them.  Without
\* it the claim is false: a record with a key and a null __op is neither
\* quarantined nor applied.
OpsPresent == \A p \in Payloads : p.op = Null => p.id = Null

\* Every start finds the tables it wrote before.
TablesReadable == Unreadable = {}

\* A start of a process that finds its tables takes nothing away from them.
LEMMA TablesStay ==
    ASSUME NEW lost \in SUBSET Unreadable, Start(lost) \/ StartFails(lost)
    PROVE  /\ UNCHANGED <<log, latest, committed, batchId, ends>>
           /\ TablesReadable => UNCHANGED <<staging, applied, quarantine, metrics>>
           /\ "drift" \notin Unreadable => drift \subseteq drift'
           /\ quarantine' \subseteq quarantine
           /\ pc = "down" /\ pc' \in {"down", "idle"}
  BY DEF Start, StartFails, PrepareTables, StartupDrift, TablesReadable, kafka, progress

\* The phases already behind a batch have left their mark on each event of the
\* part of the batch they deal with.
Settling ==
    /\ Accounted
    /\ \A o \in 1..Len(log) : log[o].op = Null => log[o].id = Null
    /\ pc \in {"merge", "delete", "metrics", "commit"} => Bad \subseteq Quarantined
    /\ pc \in {"delete", "metrics", "commit"} => Ups \subseteq applied
    /\ pc \in {"metrics", "commit"} => Dels \subseteq applied

\* The batch and its parts depend on the records of the batch, on its bounds
\* and on the approved schema id only.
LEMMA BatchStable ==
    ASSUME TypeOK,
           \A o \in 1..Len(log) : log'[o] = log[o],
           UNCHANGED <<expected, committed, planned>>
    PROVE  /\ Batch' = Batch /\ Valid' = Valid /\ Bad' = Bad
           /\ Ups' = Ups /\ Dels' = Dels
<1>1. Batch' = Batch
  BY DEF Batch
<1>2. \A o \in Batch : log'[o] = log[o]
  BY BatchInLog
<1>3. \A o \in Batch : Reason(log[o])' = Reason(log[o])
  BY <1>2 DEF Reason, Unapproved
<1>4. Valid' = Valid
  BY <1>1, <1>3 DEF Valid
<1>5. Bad' = Bad
  BY <1>1, <1>4 DEF Bad
<1>6. Ups' = Ups /\ Dels' = Dels
  BY <1>2, <1>4, BatchInLog DEF Ups, Dels
<1> QED
  BY <1>1, <1>4, <1>5, <1>6

\* A valid record is an upsert or a delete.
LEMMA ValidSplits ==
    ASSUME TypeOK, \A o \in 1..Len(log) : log[o].op = Null => log[o].id = Null
    PROVE  Valid \subseteq Ups \cup Dels
<1>1. \A o \in Valid : log[o].id # Null
  BY DEF Valid, Reason
<1>2. \A o \in Valid : log[o].op # Null
  BY <1>1, BatchInLog
<1> QED
  BY <1>2 DEF Ups, Dels

\* A quarantine append adds the offsets of the batch's bad records.
LEMMA QuarantineGrows ==
    ASSUME WriteQuarantine
    PROVE  Quarantined' = Quarantined \cup Bad
<1> DEFINE row(o) == [offset |-> o, reason |-> Reason(log[o]), at |-> Run]
           added == {row(o) : o \in Bad}
<1>1. quarantine' = quarantine \cup added
  BY DEF WriteQuarantine
<1>2. \A o \in Bad : row(o) \in added /\ row(o).offset = o
  OBVIOUS
<1>3. \A q \in added : q.offset \in Bad
  OBVIOUS
<1> HIDE DEF added
<1>4. Quarantined' = {q.offset : q \in quarantine \cup added}
  BY <1>1 DEF Quarantined
<1>5. {q.offset : q \in added} = Bad
  BY <1>2, <1>3
<1> QED
  BY <1>4, <1>5 DEF Quarantined

LEMMA InitSettling == Init => Settling
  BY DEF Init, Settling, Accounted

LEMMA NextSettling ==
    ASSUME OpsPresent, TablesReadable, TypeInv, Settling, [Next]_vars
    PROVE  Settling'
<1>t. TypeOK /\ Running
  BY DEF TypeInv
<1>a. 1..committed \subseteq applied \cup Quarantined
  BY DEF Settling, Accounted
<1>1. ASSUME NEW p \in Payloads, Publish(p) PROVE Settling'
  <2> DEFINE e == [schema |-> p.schema, id |-> p.id, op |-> p.op, ts |-> Len(log) + 1]
  <2>1. log' = Append(log, e)
    BY <1>1 DEF Publish
  <2>2. Len(log') = Len(log) + 1 /\ \A o \in 1..Len(log) : log'[o] = log[o]
    BY <2>1, <1>t DEF TypeOK
  <2>3. log'[Len(log) + 1] = e
    BY <2>1, <1>t DEF TypeOK
  <2>4. \A o \in 1..Len(log') : o \in 1..Len(log) \/ o = Len(log) + 1
    BY <2>2, <1>t DEF TypeOK
  <2>5. e.op = Null => e.id = Null
    BY OpsPresent DEF OpsPresent
  <2> HIDE DEF e
  <2>6. \A o \in 1..Len(log') : log'[o].op = Null => log'[o].id = Null
    BY <2>2, <2>3, <2>4, <2>5 DEF Settling
  <2>7. UNCHANGED <<expected, committed, planned, pc, applied, quarantine>>
    BY <1>1 DEF Publish, progress
  <2>8. Bad' = Bad /\ Ups' = Ups /\ Dels' = Dels
    BY <2>2, <2>7, <1>t, BatchStable
  <2> QED
    BY <2>6, <2>7, <2>8 DEF Settling, Accounted, Quarantined
<1>2. ASSUME \/ RegisterSchema
             \/ \E shape \in Shapes : UpdateContract(shape)
             \/ \E s \in SchemaIds : ReportDrift(s)
             \/ DriftChecked
             \/ WriteMetrics
             \/ UNCHANGED vars
      PROVE  Settling'
  <2>1. UNCHANGED <<log, expected, committed, planned, applied, quarantine>>
    BY <1>2 DEF RegisterSchema, UpdateContract, ReportDrift, DriftChecked,
                WriteMetrics, vars, kafka, progress
  <2>2. Bad' = Bad /\ Ups' = Ups /\ Dels' = Dels
    BY <2>1, <1>t, BatchStable
  <2>3. \/ pc' = pc
        \/ pc' = "quarantine"
        \/ pc = "metrics" /\ pc' = "commit"
    BY <1>2 DEF RegisterSchema, UpdateContract, ReportDrift, DriftChecked,
                WriteMetrics, vars
  <2> QED
    BY <2>1, <2>2, <2>3 DEF Settling, Accounted, Quarantined
<1>3. ASSUME \/ \E lost \in SUBSET Unreadable : Start(lost) \/ StartFails(lost)
             \/ PlanBatch
             \/ Crash
      PROVE  Settling'
  <2>1. UNCHANGED <<log, committed, applied, quarantine>>
    BY <1>3, TablesStay DEF PlanBatch, Crash, kafka, progress
  <2>2. pc' \in {"idle", "detect", "down"}
    BY <1>3, TablesStay DEF PlanBatch, Crash
  <2> QED
    BY <2>1, <2>2 DEF Settling, Accounted, Quarantined
<1>4. ASSUME WriteQuarantine PROVE Settling'
  <2>1. /\ UNCHANGED <<log, expected, committed, planned, applied>>
        /\ pc' = "merge"
    BY <1>4 DEF WriteQuarantine, kafka, progress
  <2>2. Bad' = Bad
    BY <2>1, <1>t, BatchStable
  <2> QED
    BY <2>1, <2>2, <1>4, QuarantineGrows DEF Settling, Accounted
<1>5. ASSUME MergeUpserts PROVE Settling'
  <2>1. /\ UNCHANGED <<log, expected, committed, planned, quarantine>>
        /\ pc = "merge" /\ pc' = "delete"
        /\ applied' = applied \cup Ups
    BY <1>5 DEF MergeUpserts, kafka, progress
  <2>2. Bad' = Bad /\ Ups' = Ups
    BY <2>1, <1>t, BatchStable
  <2> QED
    BY <2>1, <2>2 DEF Settling, Accounted, Quarantined
<1>6. ASSUME ApplyDeletes PROVE Settling'
  <2>1. /\ UNCHANGED <<log, expected, committed, planned, quarantine>>
        /\ pc = "delete" /\ pc' = "metrics"
        /\ applied' = applied \cup Dels
    BY <1>6 DEF ApplyDeletes, kafka, progress
  <2>2. Bad' = Bad /\ Ups' = Ups /\ Dels' = Dels
    BY <2>1, <1>t, BatchStable
  <2> QED
    BY <2>1, <2>2 DEF Settling, Accounted, Quarantined
<1>7. ASSUME CommitBatch PROVE Settling'
  <2>1. /\ UNCHANGED <<log, applied, quarantine>>
        /\ pc = "commit" /\ pc' = "idle" /\ committed' = planned
    BY <1>7 DEF CommitBatch, kafka
  <2>2. Batch \subseteq applied \cup Quarantined
    BY <2>1, <1>t, ValidSplits, BatchInLog DEF Settling, Bad
  <2>3. \A o \in 1..planned : o \in 1..committed \/ o \in Batch
    BY <1>t DEF TypeOK, Batch
  <2>4. 1..planned \subseteq applied \cup Quarantined
    BY <2>2, <2>3, <1>a
  <2> QED
    BY <2>1, <2>4 DEF Settling, Accounted, Quarantined
<1> QED
  BY <1>1, <1>2, <1>3, <1>4, <1>5, <1>6, <1>7 DEF Next, ProcessorStep

\* No record is silently dropped: however the processor crashes, restarts and
\* changes its mind about the schema, an event that is behind the committed
\* offset was merged or deleted into staging, or has a quarantine row.
THEOREM SettledIsAccounted ==
    ASSUME OpsPresent, TablesReadable
    PROVE  Spec => []Accounted
<1>1. TypeInv /\ Settling /\ [Next]_vars => TypeInv' /\ Settling'
  BY NextTypeInv, NextSettling
<1>2. Settling => Accounted
  BY DEF Settling
<1> QED
  BY <1>1, <1>2, InitTypeInv, InitSettling, PTL DEF Spec

----------------------------------------------------------------------------
(* Drift is reported before the records that show it are quarantined. *)

Reporting ==
    /\ DriftReported
    /\ pc # "down" /\ expected = NoSchema =>
         \E d \in drift : d.at = [start |-> attempt, batch |-> -1]
    /\ pc = "quarantine" => ObservedUnapproved \subseteq Reported

\* A report stays in the table, and says what it said of records that stay.
LEMMA ReportsStay ==
    ASSUME TypeOK, DriftReported,
           \A o \in 1..Len(log) : log'[o] = log[o],
           drift \subseteq drift',
           quarantine' \subseteq quarantine
    PROVE  DriftReported'
<1>1. \A q \in quarantine : log'[q.offset] = log[q.offset]
  BY DEF TypeOK
<1> QED
  BY <1>1 DEF DriftReported

\* What is unapproved in the batch depends on what the batch depends on.
LEMMA ObservedStable ==
    ASSUME TypeOK,
           \A o \in 1..Len(log) : log'[o] = log[o],
           UNCHANGED <<expected, committed, planned>>
    PROVE  ObservedUnapproved' = ObservedUnapproved
<1>1. Batch' = Batch /\ Batch \subseteq 1..Len(log)
  BY BatchStable, BatchInLog
<1> QED
  BY <1>1 DEF ObservedUnapproved

LEMMA InitReporting == Init => Reporting
  BY DEF Init, Reporting, DriftReported

LEMMA NextReporting ==
    ASSUME "drift" \notin Unreadable, TypeInv, Reporting, [Next]_vars
    PROVE  Reporting'
<1>t. TypeOK
  BY DEF TypeInv
<1>1. ASSUME \/ \E p \in Payloads : Publish(p)
             \/ RegisterSchema
             \/ \E shape \in Shapes : UpdateContract(shape)
             \/ UNCHANGED vars
      PROVE  Reporting'
  <2>1. UNCHANGED <<pc, expected, attempt, committed, planned, batchId, drift, quarantine>>
    BY <1>1 DEF Publish, RegisterSchema, UpdateContract, vars, progress
  <2>2. \A o \in 1..Len(log) : log'[o] = log[o]
    <3>1. ASSUME NEW p \in Payloads, Publish(p)
          PROVE  \A o \in 1..Len(log) : log'[o] = log[o]
      BY <3>1, <1>t DEF Publish, TypeOK
    <3>2. ASSUME \/ RegisterSchema
                 \/ \E shape \in Shapes : UpdateContract(shape)
                 \/ UNCHANGED vars
          PROVE  log' = log
      BY <3>2 DEF RegisterSchema, UpdateContract, vars
    <3> QED
      BY <3>1, <3>2, <1>1
  <2>3. ObservedUnapproved' = ObservedUnapproved /\ DriftReported'
    BY <2>1, <2>2, <1>t, ObservedStable, ReportsStay DEF Reporting
  <2> QED
    BY <2>1, <2>3 DEF Reporting, Reported, Run
<1>2. ASSUME NEW lost \in SUBSET Unreadable, Start(lost) \/ StartFails(lost)
      PROVE  Reporting'
  <2>1. DriftReported' /\ pc' \in {"down", "idle"}
    BY <1>2, <1>t, TablesStay, ReportsStay DEF Reporting
  <2>2. ASSUME pc' # "down", expected' = NoSchema
        PROVE  \E d \in drift' : d.at = [start |-> attempt', batch |-> -1]
    <3> DEFINE d == [expected |-> NoSchema, observed |-> latest,
                     at |-> [start |-> attempt + 1, batch |-> -1]]
    <3>1. Start(lost)
      BY <1>2, <2>2 DEF StartFails
    <3>2. latest # NoSchema /\ Drifted
      BY <3>1, <2>2 DEF Start, Buildable
    <3>3. d \in StartupDrift(lost)
      BY <3>2 DEF StartupDrift
    <3>4. d \in drift' /\ attempt' = attempt + 1
      BY <3>1, <3>3 DEF Start
    <3>5. d.at = [start |-> attempt', batch |-> -1]
      BY <3>4
    <3> QED
      BY <3>4, <3>5
  <2> QED
    BY <2>1, <2>2 DEF Reporting
<1>3. ASSUME NEW s \in SchemaIds, ReportDrift(s) PROVE Reporting'
  <2>1. /\ UNCHANGED <<log, quarantine, pc, expected, attempt>>
        /\ drift \subseteq drift' /\ pc = "detect"
    BY <1>3 DEF ReportDrift, kafka, progress
  <2>2. DriftReported'
    BY <2>1, <1>t, ReportsStay DEF Reporting
  <2> QED
    BY <2>1, <2>2 DEF Reporting
<1>4. ASSUME DriftChecked PROVE Reporting'
  <2>1. UNCHANGED <<kafka, progress, drift, quarantine>>
    BY <1>4 DEF DriftChecked
  <2>2. /\ pc = "detect" /\ pc' = "quarantine"
        /\ ObservedUnapproved \subseteq Reported
    BY <1>4 DEF DriftChecked
  <2>3. ObservedUnapproved' = ObservedUnapproved /\ Reported' = Reported
    BY <2>1 DEF ObservedUnapproved, Reported, Run, Batch, kafka, progress
  <2>4. DriftReported'
    BY <2>1, <1>t, ReportsStay DEF Reporting, kafka
  <2> QED
    BY <2>1, <2>2, <2>3, <2>4 DEF Reporting, progress
<1>5. ASSUME WriteQuarantine PROVE Reporting'
  <2>1. /\ UNCHANGED <<log, expected, attempt, drift>>
        /\ pc = "quarantine" /\ pc' = "merge"
        /\ quarantine' = quarantine \cup
             {[offset |-> o, reason |-> Reason(log[o]), at |-> Run] : o \in Bad}
    BY <1>5 DEF WriteQuarantine, kafka, progress
  <2>2. ASSUME NEW o \in Bad, Reason(log[o]) = "SCHEMA_DRIFT_UNAPPROVED"
        PROVE  \E d \in drift :
                  \/ d.at = Run /\ d.observed = log[o].schema
                  \/ /\ d.at = [start |-> attempt, batch |-> -1]
                     /\ log[o].schema = NoSchema
    <3>1. Unapproved(log[o]) /\ o \in Batch
      BY <2>2 DEF Reason, Bad
    <3>2. CASE log[o].schema = NoSchema
      BY <3>1, <3>2, <2>1 DEF Unapproved, Reporting
    <3>3. CASE log[o].schema # NoSchema
      <4>1. log[o].schema \in ObservedUnapproved
        BY <3>1, <3>3 DEF Unapproved, ObservedUnapproved
      <4>2. log[o].schema \in Reported
        BY <4>1, <2>1 DEF Reporting
      <4> QED
        BY <4>2 DEF Reported
    <3> QED
      BY <3>2, <3>3
  <2>3. DriftReported'
    <3> SUFFICES ASSUME NEW q \in quarantine', q.reason = "SCHEMA_DRIFT_UNAPPROVED"
                 PROVE  \E d \in drift :
                           \/ d.at = q.at /\ d.observed = log[q.offset].schema
                           \/ /\ d.at = [start |-> q.at.start, batch |-> -1]
                              /\ log[q.offset].schema = NoSchema
      BY <2>1 DEF DriftReported
    <3>1. CASE q \in quarantine
      BY <3>1 DEF Reporting, DriftReported
    <3>2. CASE q \notin quarantine
      <4>1. PICK o \in Bad :
               q = [offset |-> o, reason |-> Reason(log[o]), at |-> Run]
        BY <3>2, <2>1
      <4>2. Reason(log[o]) = "SCHEMA_DRIFT_UNAPPROVED" /\ q.at.start = attempt
        BY <4>1 DEF Run
      <4> QED
        BY <4>1, <4>2, <2>2
    <3> QED
      BY <3>1, <3>2
  <2> QED
    BY <2>1, <2>3 DEF Reporting
<1>6. ASSUME \/ PlanBatch \/ MergeUpserts \/ ApplyDeletes
             \/ WriteMetrics \/ CommitBatch \/ Crash
      PROVE  Reporting'
  <2>1. UNCHANGED <<log, expected, attempt, drift, quarantine>>
    BY <1>6 DEF PlanBatch, MergeUpserts, ApplyDeletes, WriteMetrics, CommitBatch,
                Crash, kafka, progress
  <2>2. pc # "down" /\ pc' # "quarantine"
    BY <1>6 DEF PlanBatch, MergeUpserts, ApplyDeletes, WriteMetrics, CommitBatch, Crash
  <2>3. DriftReported'
    BY <2>1, <1>t, ReportsStay DEF Reporting
  <2> QED
    BY <2>1, <2>2, <2>3 DEF Reporting
<1> QED
  BY <1>1, <1>2, <1>3, <1>4, <1>5, <1>6 DEF Next, ProcessorStep

\* A record quarantined for its schema has a drift event of the same run that
\* names its schema id; a record with no schema id has one of its startup.
THEOREM DriftIsReported ==
    ASSUME "drift" \notin Unreadable
    PROVE  Spec => []DriftReported
<1>1. TypeInv /\ Reporting /\ [Next]_vars => TypeInv' /\ Reporting'
  BY NextTypeInv, NextReporting
<1>2. Reporting => DriftReported
  BY DEF Reporting
<1> QED
  BY <1>1, <1>2, InitTypeInv, InitReporting, PTL DEF Spec

----------------------------------------------------------------------------
(* The stream implements the ledger. *)

\* Adding offsets to one of the two sets adds that outcome to each of them.
LEMMA OutcomeOfApplied ==
    ASSUME NEW S, applied' = applied \cup S, quarantine' = quarantine
    PROVE  Outcome' = [o \in 1..MaxLog |-> IF o \in S THEN Outcome[o] \cup {"applied"}
                                           ELSE Outcome[o]]
  BY DEF Outcome, Quarantined

LEMMA OutcomeOfQuarantined ==
    ASSUME NEW S, Quarantined' = Quarantined \cup S, applied' = applied
    PROVE  Outcome' = [o \in 1..MaxLog |-> IF o \in S THEN Outcome[o] \cup {"quarantined"}
                                           ELSE Outcome[o]]
  BY DEF Outcome

LEMMA InitLedger == Init => Ledger!Init
<1> SUFFICES ASSUME Init PROVE Ledger!Init
  OBVIOUS
<1>1. Len(log) = 0 /\ committed = 0
  BY DEF Init
<1>2. applied = {} /\ Quarantined = {}
  BY DEF Init, Quarantined
<1> QED
  BY <1>1, <1>2 DEF Ledger!Init, Outcome

LEMMA NextLedger ==
    ASSUME TablesReadable, TypeInv, Settling, Settling', [Next]_vars
    PROVE  [Ledger!Next]_(Ledger!ledger)
<1>t. TypeOK /\ Running
  BY DEF TypeInv
<1>b. Batch \subseteq committed + 1 .. Len(log)
  BY <1>t DEF TypeOK, Batch
<1>1. ASSUME NEW p \in Payloads, Publish(p) PROVE Ledger!Publish
  <2>1. Len(log') = Len(log) + 1 /\ Len(log) < MaxLog
    BY <1>1, <1>t DEF Publish, TypeOK
  <2>2. committed' = committed /\ Outcome' = Outcome
    BY <1>1 DEF Publish, progress, Outcome, Quarantined
  <2> QED
    BY <2>1, <2>2 DEF Ledger!Publish
<1>2. ASSUME \/ RegisterSchema
             \/ \E shape \in Shapes : UpdateContract(shape)
             \/ \E lost \in SUBSET Unreadable : Start(lost) \/ StartFails(lost)
             \/ PlanBatch
             \/ \E s \in SchemaIds : ReportDrift(s)
             \/ DriftChecked \/ WriteMetrics \/ Crash
             \/ UNCHANGED vars
      PROVE  UNCHANGED Ledger!ledger
  <2>1. UNCHANGED <<log, committed, applied, quarantine>>
    BY <1>2, TablesStay DEF RegisterSchema, UpdateContract, PlanBatch, ReportDrift,
                DriftChecked, WriteMetrics, Crash, vars, kafka, progress
  <2> QED
    BY <2>1 DEF Ledger!ledger, Outcome, Quarantined
<1>3. ASSUME WriteQuarantine PROVE Ledger!Record(Bad, "quarantined")
  <2>1. UNCHANGED <<log, committed, applied>>
    BY <1>3 DEF WriteQuarantine, kafka, progress
  <2>2. Bad \subseteq committed + 1 .. Len(log)
    BY <1>b DEF Bad
  <2> QED
    BY <2>1, <2>2, <1>3, QuarantineGrows, OutcomeOfQuarantined DEF Ledger!Record
<1>4. ASSUME MergeUpserts PROVE Ledger!Record(Ups, "applied")
  <2>1. UNCHANGED <<log, committed, quarantine>> /\ applied' = applied \cup Ups
    BY <1>4 DEF MergeUpserts, kafka, progress
  <2>2. Ups \subseteq committed + 1 .. Len(log)
    BY <1>b DEF Ups, Valid
  <2> QED
    BY <2>1, <2>2, OutcomeOfApplied DEF Ledger!Record
<1>5. ASSUME ApplyDeletes PROVE Ledger!Record(Dels, "applied")
  <2>1. UNCHANGED <<log, committed, quarantine>> /\ applied' = applied \cup Dels
    BY <1>5 DEF ApplyDeletes, kafka, progress
  <2>2. Dels \subseteq committed + 1 .. Len(log)
    BY <1>b DEF Dels, Valid
  <2> QED
    BY <2>1, <2>2, OutcomeOfApplied DEF Ledger!Record
<1>6. ASSUME CommitBatch PROVE Ledger!Settle(planned) /\ planned \in committed + 1 .. Len(log)
  <2>1. /\ UNCHANGED <<log, applied, quarantine>>
        /\ committed' = planned /\ pc = "commit"
    BY <1>6 DEF CommitBatch, kafka
  <2>2. planned \in committed + 1 .. Len(log) /\ Len(log) <= MaxLog
    BY <2>1, <1>t DEF TypeOK, Running, Phases
  <2>3. 1..planned \subseteq applied \cup Quarantined
    BY <2>1 DEF Settling, Accounted, Quarantined
  <2>4. \A o \in committed + 1 .. planned : o \in 1..MaxLog /\ o \in applied \cup Quarantined
    BY <2>2, <2>3, <1>t, BoundAssumption DEF TypeOK
  <2>5. \A o \in committed + 1 .. planned : Outcome[o] # {}
    BY <2>4 DEF Outcome
  <2>6. Outcome' = Outcome
    BY <2>1 DEF Outcome, Quarantined
  <2> QED
    BY <2>1, <2>2, <2>5, <2>6 DEF Ledger!Settle
<1>7. ASSUME NEW S, NEW v \in Ledger!Outcomes, Ledger!Record(S, v) PROVE Ledger!Next
  BY <1>7 DEF Ledger!Next, Ledger!Record
<1>8. "applied" \in Ledger!Outcomes /\ "quarantined" \in Ledger!Outcomes
  BY DEF Ledger!Outcomes
<1> QED
  <2>1. CASE \E p \in Payloads : Publish(p)
    BY <2>1, <1>1 DEF Ledger!Next
  <2>2. CASE WriteQuarantine \/ MergeUpserts \/ ApplyDeletes
    BY <2>2, <1>3, <1>4, <1>5, <1>7, <1>8
  <2>3. CASE CommitBatch
    BY <2>3, <1>6 DEF Ledger!Next
  <2> QED
    BY <2>1, <2>2, <2>3, <1>2 DEF Next, ProcessorStep

\* The stream settles the events of the topic in order, none before it was
\* applied or quarantined, and does nothing more with an event once settled.
THEOREM StreamImplementsLedger ==
    ASSUME OpsPresent, TablesReadable
    PROVE  Spec => ImplementsLedger
<1>1. TypeInv /\ Settling /\ [Next]_vars => TypeInv' /\ Settling'
  BY NextTypeInv, NextSettling
<1>2. TypeInv /\ Settling /\ Settling' /\ [Next]_vars => [Ledger!Next]_(Ledger!ledger)
  BY NextLedger
<1> QED
  BY <1>1, <1>2, InitTypeInv, InitSettling, InitLedger, PTL
  DEF Spec, ImplementsLedger, Ledger!Spec

================================================================================
