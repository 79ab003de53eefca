------------------------------- MODULE CdcStream -------------------------------
(****************************************************************************)
(* One CDC query of workspace/stream_processor.py: the Kafka topic of one   *)
(* source table is consumed in micro-batches, and each batch is written to  *)
(* four Delta tables in turn (drift events, quarantine, staging, metrics)   *)
(* before Spark records it in the checkpoint.  Nothing spans the five       *)
(* writes: a crash between any two leaves the earlier ones in place, and    *)
(* the restarted query runs the same offsets again, with the schema id it   *)
(* approves read afresh from the registry.                                  *)
(*                                                                          *)
(* An event is [schema, id, op, ts].  schema = NoSchema is a value too      *)
(* short to hold a schema id; id = Null is a missing key, or a body that    *)
(* PERMISSIVE decoding turned into nulls; ts is __ts_ms, the time Debezium  *)
(* handled the change.  Debezium delivers at least once: it may publish a   *)
(* change again, with a later ts, so any payload may follow any other.      *)
(****************************************************************************)
EXTENDS SchemaContract, Integers, Sequences, FiniteSets

CONSTANTS
    Ids,            \* primary keys of the source table
    Null,           \* a null column
    MaxSchema,      \* bound: schema ids the registry may ever hand out
    Shapes,         \* what the contract in the .avsc file may be
    SchemaShape,    \* the Avro schema of each registered id
    Payloads,       \* what a producer may publish: [schema, id, op]
    Unreadable,     \* tables that a start of the processor may fail to read
    BatchLimit,     \* maxOffsetsPerTrigger
    MaxLog,         \* bound: events in the topic
    MaxCrashes      \* bound: failures of the processor

VALID_OPS == {"r", "c", "u", "d"}
NoSchema == 0
\* An id that is not registered: of another producer, or read off a value cut short.
Unregistered == MaxSchema + 1
SchemaIds == 1..Unregistered

ASSUME SchemaAssumption ==
    /\ MaxSchema \in Nat
    /\ DOMAIN SchemaShape = 1..MaxSchema

ASSUME PayloadAssumption ==
    \A p \in Payloads : /\ p.schema \in SchemaIds \cup {NoSchema}
                        /\ p.id \in Ids \cup {Null}
                        /\ DOMAIN p = {"schema", "id", "op"}

ASSUME NullAssumption == Null \notin Ids \cup VALID_OPS

ASSUME BoundAssumption ==
    /\ Unreadable \subseteq {"staging", "quarantine", "drift", "metrics"}
    /\ BatchLimit \in Nat \ {0}
    /\ MaxLog \in Nat
    /\ MaxCrashes \in Nat

VARIABLES
    log,         \* the Kafka topic: a sequence of events, indexed by offset
    latest,      \* newest schema id of the subject, NoSchema if none
    localShape,  \* the contract in schema-registry/schemas/*.avsc
    loaded,      \* local_schema: the contract as the last start found it
    pc,          \* what the processor does next
    expected,    \* expected_schema_id of the running query
    attempt,     \* starts of the processor so far
    planned,     \* last offset of the batch in the checkpoint's offset log
    committed,   \* last offset of the last batch in the commit log
    batchId,     \* batches committed so far; the id of the one in hand
    ends,        \* last offset of each batch in the commit log
    staging,     \* rows [at, src, cur]: inserted by run `at` from event src,
                 \* now holding the content of event cur
    quarantine,  \* rows [offset, reason, at]
    drift,       \* rows [expected, observed, at]
    metrics,     \* rows [at, processed, quarantined]
    applied      \* history: offsets an UPSERT or DELETE on the staging table
                 \* has taken since the table was created

kafka == <<log, latest, localShape>>
progress == <<expected, loaded, attempt, planned, committed, batchId, ends>>
vars == <<log, latest, localShape, pc, expected, loaded, attempt, planned,
          committed, batchId, ends, staging, quarantine, drift, metrics, applied>>

Phases == {"detect", "quarantine", "merge", "delete", "metrics", "commit"}

----------------------------------------------------------------------------
(* The batch in hand, and what build_stream's columns say of each record. *)

Batch == committed + 1 .. planned

\* The run of a batch: which start of the processor, which batch.
Run == [start |-> attempt, batch |-> batchId]

Unapproved(r) ==
    \/ expected = NoSchema
    \/ r.schema \notin {NoSchema, expected}

Reason(r) ==
    IF Unapproved(r) THEN "SCHEMA_DRIFT_UNAPPROVED"
    ELSE IF r.schema = NoSchema THEN "AVRO_DECODE_ERROR"
    ELSE IF r.id = Null THEN "MISSING_PRIMARY_KEY"
    ELSE IF r.op # Null /\ r.op \notin VALID_OPS THEN "INVALID_CDC_OPERATION"
    ELSE "OK"

Valid == {o \in Batch : Reason(log[o]) = "OK"}
Bad == Batch \ Valid

\* op != 'd' and op = 'd' are both unknown, hence false, for a null op.
Ups == {o \in Valid : log[o].op \notin {Null, "d"}}
Dels == {o \in Valid : log[o].op = "d"}

\* Mutant: ORDER BY ts_ms ASC.
PrecedesAscending(o, p) == log[o].ts < log[p].ts

\* ROW_NUMBER() OVER (PARTITION BY id ORDER BY ts_ms DESC, offset DESC) = 1
Precedes(o, p) ==
    \/ log[o].ts > log[p].ts
    \/ log[o].ts = log[p].ts /\ o > p

Winners ==
    {o \in Ups : \A p \in Ups \ {o} : log[p].id = log[o].id => Precedes(o, p)}

IdOf(row) == log[row.cur].id
RowsOf(id) == {row \in staging : IdOf(row) = id}

\* Mutant: no WHEN MATCHED clause.
OverwrittenNever == {row \in staging : \E w \in Winners : log[w].id = IdOf(row)}

\* WHEN MATCHED THEN UPDATE SET *: every row of a winner's id is rewritten.
Matched == {m \in staging \X Winners : log[m[2]].id = IdOf(m[1])}
Overwritten == {[m[1] EXCEPT !.cur = m[2]] : m \in Matched}
Untouched == {row \in staging : \A w \in Winners : log[w].id # IdOf(row)}

\* WHEN NOT MATCHED THEN INSERT *: the condition holds only for rn = 1, so a
\* record that is not the winner of its id is unmatched and inserted.
Unmatched == {o \in Ups : o \notin Winners \/ RowsOf(log[o].id) = {}}

----------------------------------------------------------------------------
Init ==
    /\ log = <<>>
    /\ latest = NoSchema
    /\ localShape \in Shapes /\ loaded = localShape
    /\ pc = "down"
    /\ expected = NoSchema
    /\ attempt = 0
    /\ planned = 0 /\ committed = 0
    /\ batchId = 0 /\ ends = {}
    /\ staging = {} /\ quarantine = {} /\ drift = {} /\ metrics = {}
    /\ applied = {}

(* The environment: the producer, the registry, and the contract's owner. *)

Publish(p) ==
    /\ Len(log) < MaxLog
    /\ p.schema <= latest \/ p.schema = Unregistered
    /\ log' = Append(log, [schema |-> p.schema, id |-> p.id, op |-> p.op,
                           ts |-> Len(log) + 1])
    /\ UNCHANGED <<latest, localShape, pc, progress, staging, quarantine,
                   drift, metrics, applied>>

RegisterSchema ==
    /\ latest < MaxSchema
    /\ latest' = latest + 1
    /\ UNCHANGED <<log, localShape, pc, progress, staging, quarantine, drift,
                   metrics, applied>>

\* A reviewed change of the contract adds fields and keeps those it has.
Extends(shape, old) ==
    DOMAIN old \subseteq DOMAIN shape /\ \A f \in DOMAIN old : shape[f] = old[f]

UpdateContract(shape) ==
    /\ shape # localShape /\ Extends(shape, localShape)
    /\ localShape' = shape
    /\ UNCHANGED <<log, latest, pc, progress, staging, quarantine, drift,
                   metrics, applied>>

(* The processor. *)

\* ensure_monitoring_tables, register_quarantine_table, prepare_delta_table: a
\* table that cannot be read, for whatever reason, is overwritten by an empty one.
PrepareTables(lost) ==
    /\ staging' = IF "staging" \in lost THEN {} ELSE staging
    /\ applied' = IF "staging" \in lost THEN {} ELSE applied
    /\ quarantine' = IF "quarantine" \in lost THEN {} ELSE quarantine
    /\ metrics' = IF "metrics" \in lost THEN {} ELSE metrics

Drifted == IsDrift(localShape, SchemaShape[latest])

\* The drift table after it was prepared and the startup comparison recorded.
StartupDrift(lost) ==
    (IF "drift" \in lost THEN {} ELSE drift)
    \cup {d \in {[expected |-> NoSchema, observed |-> latest,
                   at |-> [start |-> attempt + 1, batch |-> -1]]} :
             latest # NoSchema /\ Drifted}

\* Every contract field is a column of the latest schema, so that build_stream
\* can select it.
Buildable == latest # NoSchema /\ Selectable(localShape, SchemaShape[latest])

\* Mutant: drift at startup is fatal.
StartWithoutDrift(lost) ==
    /\ pc = "down" /\ Buildable /\ ~Drifted
    /\ PrepareTables(lost) /\ drift' = StartupDrift(lost)
    /\ pc' = "idle"
    /\ attempt' = attempt + 1
    /\ loaded' = localShape
    /\ expected' = latest
    /\ UNCHANGED <<kafka, planned, committed, batchId, ends>>

\* main: prepare the tables, then build_stream approves the latest id of the
\* subject when it meets the contract, and otherwise records the drift and
\* approves none.
Start(lost) ==
    /\ pc = "down" /\ Buildable
    /\ PrepareTables(lost) /\ drift' = StartupDrift(lost)
    /\ pc' = "idle"
    /\ attempt' = attempt + 1
    /\ loaded' = localShape
    /\ expected' = IF Drifted THEN NoSchema ELSE latest
    /\ UNCHANGED <<kafka, planned, committed, batchId, ends>>

\* The same, up to the exception: the subject has no schema, or its latest one
\* lacks a column.  The next start takes the same number again.
StartFails(lost) ==
    /\ pc = "down" /\ ~Buildable
    /\ PrepareTables(lost) /\ drift' = StartupDrift(lost)
    /\ UNCHANGED <<kafka, pc, progress>>

\* Mutant: the batch may end past the end of the topic.
PlanBatchPastEnd ==
    /\ pc = "idle"
    /\ IF planned > committed
       THEN UNCHANGED planned
       ELSE committed < Len(log) /\ planned' = committed + BatchLimit
    /\ pc' = "detect"
    /\ UNCHANGED <<kafka, expected, loaded, attempt, committed, batchId, ends,
                   staging, quarantine, drift, metrics, applied>>

\* A trigger: the end offset is logged first; a batch that was logged but not
\* committed is run again with the same end.
PlanBatch ==
    /\ pc = "idle"
    /\ IF planned > committed
       THEN UNCHANGED planned
       ELSE /\ committed < Len(log)
            /\ planned' = IF committed + BatchLimit < Len(log)
                          THEN committed + BatchLimit ELSE Len(log)
    /\ pc' = "detect"
    /\ UNCHANGED <<kafka, expected, loaded, attempt, committed, batchId, ends,
                   staging, quarantine, drift, metrics, applied>>

\* Mutant: nothing is reported when no schema is approved.
ObservedOnlyIfApproved ==
    {s \in {log[o].schema : o \in Batch} \ {NoSchema, expected} : expected # NoSchema}

\* detect_unapproved_schema_ids: the distinct ids that are not the approved one.
ObservedUnapproved == {log[o].schema : o \in Batch} \ {NoSchema, expected}
Reported == {d.observed : d \in {e \in drift : e.at = Run}}

\* One append per unapproved id, in the order collect() returned them.
ReportDrift(s) ==
    /\ pc = "detect"
    /\ s \in ObservedUnapproved \ Reported
    /\ drift' = drift \cup {[expected |-> expected, observed |-> s, at |-> Run]}
    /\ UNCHANGED <<kafka, pc, progress, staging, quarantine, metrics, applied>>

DriftChecked ==
    /\ pc = "detect"
    /\ ObservedUnapproved \subseteq Reported
    /\ pc' = "quarantine"
    /\ UNCHANGED <<kafka, progress, staging, quarantine, drift, metrics,
                   applied>>

\* Mutant: a record that cannot be decoded is dropped.
WriteQuarantineDecoded ==
    /\ pc = "quarantine"
    /\ quarantine' = quarantine \cup
         {[offset |-> o, reason |-> Reason(log[o]), at |-> Run] :
            o \in {b \in Bad : Reason(log[b]) # "AVRO_DECODE_ERROR"}}
    /\ pc' = "merge"
    /\ UNCHANGED <<kafka, progress, staging, drift, metrics, applied>>

WriteQuarantine ==
    /\ pc = "quarantine"
    /\ quarantine' = quarantine \cup
         {[offset |-> o, reason |-> Reason(log[o]), at |-> Run] : o \in Bad}
    /\ pc' = "merge"
    /\ UNCHANGED <<kafka, progress, staging, drift, metrics, applied>>

MergeUpserts ==
    /\ pc = "merge"
    /\ staging' = Untouched \cup Overwritten
                  \cup {[at |-> Run, src |-> o, cur |-> o] : o \in Unmatched}
    /\ applied' = applied \cup Ups
    /\ pc' = "delete"
    /\ UNCHANGED <<kafka, progress, quarantine, drift, metrics>>

ApplyDeletes ==
    /\ pc = "delete"
    /\ staging' = {row \in staging : \A o \in Dels : log[o].id # IdOf(row)}
    /\ applied' = applied \cup Dels
    /\ pc' = "metrics"
    /\ UNCHANGED <<kafka, progress, quarantine, drift, metrics>>

\* Mutant: only the records that were decoded are counted.
WriteMetricsDecoded ==
    /\ pc = "metrics"
    /\ metrics' = metrics \cup
         {[at |-> Run, processed |-> Cardinality(Valid),
           quarantined |-> Cardinality({o \in Bad : log[o].schema # NoSchema})]}
    /\ pc' = "commit"
    /\ UNCHANGED <<kafka, progress, staging, quarantine, drift, applied>>

WriteMetrics ==
    /\ pc = "metrics"
    /\ metrics' = metrics \cup
         {[at |-> Run, processed |-> Cardinality(Valid),
           quarantined |-> Cardinality(Bad)]}
    /\ pc' = "commit"
    /\ UNCHANGED <<kafka, progress, staging, quarantine, drift, applied>>

\* Mutant: the end of the topic is committed, not the end of the batch.
CommitTopicEnd ==
    /\ pc = "commit"
    /\ committed' = Len(log)
    /\ batchId' = batchId + 1 /\ ends' = ends \cup {committed'}
    /\ pc' = "idle"
    /\ UNCHANGED <<kafka, expected, loaded, attempt, planned, staging,
                   quarantine, drift, metrics, applied>>

CommitBatch ==
    /\ pc = "commit"
    /\ committed' = planned
    /\ batchId' = batchId + 1 /\ ends' = ends \cup {committed'}
    /\ pc' = "idle"
    /\ UNCHANGED <<kafka, expected, loaded, attempt, planned, staging,
                   quarantine, drift, metrics, applied>>

\* An exception in process_batch stops the query, and awaitAnyTermination then
\* ends the process; a killed driver looks the same from the tables.
Crash ==
    /\ pc # "down"
    /\ attempt <= MaxCrashes
    /\ pc' = "down"
    /\ UNCHANGED <<kafka, progress, staging, quarantine, drift, metrics,
                   applied>>

ProcessorStep ==
    \/ \E lost \in SUBSET Unreadable : Start(lost) \/ StartFails(lost)
    \/ PlanBatch
    \/ \E s \in SchemaIds : ReportDrift(s)
    \/ DriftChecked
    \/ WriteQuarantine
    \/ MergeUpserts
    \/ ApplyDeletes
    \/ WriteMetrics
    \/ CommitBatch

Next ==
    \/ \E p \in Payloads : Publish(p)
    \/ RegisterSchema
    \/ \E shape \in Shapes : UpdateContract(shape)
    \/ ProcessorStep
    \/ Crash

Spec == Init /\ [][Next]_vars

\* A trigger fires every 30 seconds and an operator restarts a dead process.
FairSpec == Spec /\ WF_vars(ProcessorStep)
----------------------------------------------------------------------------
(* Type correctness. *)

Runs == [start : 0..MaxCrashes + 1, batch : -1..MaxLog]
Events == [schema : SchemaIds \cup {NoSchema}, id : Ids \cup {Null},
           op : {p.op : p \in Payloads}, ts : 1..MaxLog]
Reasons == {"SCHEMA_DRIFT_UNAPPROVED", "AVRO_DECODE_ERROR",
            "MISSING_PRIMARY_KEY", "INVALID_CDC_OPERATION"}

\* The tables hold rows of their columns' types, the checkpoint is in order.
TypeOK ==
    /\ log \in Seq(Events) /\ Len(log) \in 0..MaxLog
    /\ latest \in 0..MaxSchema
    /\ localShape \in Shapes /\ loaded \in Shapes
    /\ pc \in {"down", "idle"} \cup Phases
    /\ expected \in 0..MaxSchema
    /\ attempt \in 0..MaxCrashes + 1
    /\ committed \in 0..Len(log) /\ planned \in committed..Len(log)
    /\ batchId \in 0..committed
    /\ ends \subseteq 1..Len(log)
    /\ staging \subseteq [at : Runs, src : 1..Len(log), cur : 1..Len(log)]
    /\ quarantine \subseteq [offset : 1..Len(log), reason : Reasons, at : Runs]
    /\ drift \subseteq [expected : 0..MaxSchema, observed : SchemaIds, at : Runs]
    /\ metrics \subseteq [at : Runs, processed : Nat, quarantined : Nat]
    /\ applied \subseteq 1..Len(log)

----------------------------------------------------------------------------
(* Safety. *)

Quarantined == {q.offset : q \in quarantine}

\* Bad records are quarantined and none is silently dropped (module docstring
\* of stream_processor.py): once a batch is committed, each of its events was
\* merged or deleted into staging or has a quarantine row.
Accounted == 1..committed \subseteq applied \cup Quarantined

CaughtUp == pc = "idle" /\ planned = committed
NewestApplied == {o \in applied :
                    \A p \in applied : log[p].id = log[o].id => p <= o}
\* Staging is as if o were the last event to reach the table for its id.
Shows(o) ==
    LET held == {row.cur : row \in RowsOf(log[o].id)}
    IN  IF log[o].op = "d" THEN held = {} ELSE o \in held /\ held \subseteq 1..o

\* An earlier delete of the id is in o's batch: deletes run after all upserts.
DeletedWith(o) ==
    \E d \in applied :
        /\ d < o /\ log[d].id = log[o].id /\ log[d].op = "d"
        /\ \A e \in ends : e < d <=> e < o

\* Staging is current when nothing is in flight: the newest event applied to an
\* id decides.  If it was a delete no row of the id is left, and if not the
\* id's rows hold that event and nothing newer; only a delete of the id in the
\* same batch can take that row away.  An event that one run applied and a
\* later run of the same batch quarantined is left out.
LatestWins ==
    CaughtUp => \A o \in NewestApplied \ Quarantined : Shows(o) \/ DeletedWith(o)

\* docs/reliability.md: a schema change becomes active only after the contract
\* was updated.  A record that passes every check was written under a schema
\* with exactly the columns, of the same downstream types, of the contract the
\* process loaded, whatever was registered or put in the file since.
OnlyContracted ==
    pc # "down" =>
        \A o \in Valid : SameColumns(loaded, SchemaShape[log[o].schema])

\* Every record quarantined for its schema was first reported as drift by the
\* same run, under the id it carries; a record too short to carry one is only
\* quarantined for its schema under a contract drift reported at startup.
DriftReported ==
    \A q \in quarantine : q.reason = "SCHEMA_DRIFT_UNAPPROVED" =>
        \E d \in drift :
            \/ d.at = q.at /\ d.observed = log[q.offset].schema
            \/ /\ d.at = [start |-> q.at.start, batch |-> -1]
               /\ log[q.offset].schema = NoSchema

\* The quarantine count of a metrics row is the number of quarantine rows its
\* run wrote (docs/reliability.md: failures are measurable), and a committed
\* batch has such a row.
MetricsMatchQuarantine ==
    /\ \A m \in metrics :
         m.quarantined = Cardinality({q \in quarantine : q.at = m.at})
    /\ \A b \in 0..batchId - 1 : \E m \in metrics : m.at.batch = b

\* A row of staging is never rewritten with an older event than it holds, by
\* whatever batches, crashes, restarts and changes of contract, unless the event
\* it holds has been quarantined by a later run of its batch.
RowsNeverRegress ==
    [][\A old \in staging, new \in staging' :
         new.at = old.at /\ new.src = old.src =>
            new.cur >= old.cur \/ old.cur \in Quarantined]_vars

\* What the ledger sees of the tables.
Outcome ==
    [o \in 1..MaxLog |->
       {v \in {"applied", "quarantined"} :
          \/ v = "applied" /\ o \in applied
          \/ v = "quarantined" /\ o \in Quarantined}]
Ledger == INSTANCE EventLedger WITH
    published <- Len(log), settled <- committed, outcome <- Outcome

\* process_batch and the checkpoint implement the ledger: offsets are settled
\* in order, never before an outcome, and never touched again after it.
ImplementsLedger == Ledger!Spec

\* docs/datasource.md: restarting from an existing checkpoint does not create
\* duplicate entity rows, so an event puts at most one row in staging.
RestartAddsNoRows ==
    \A r1, r2 \in staging : r1.src = r2.src => r1 = r2

----------------------------------------------------------------------------
(* Liveness. *)

\* Again and again nothing is left to settle.  As the topic is finite and what is settled
\* stays so, this is to settle every event in the end.
Settled == []<>(committed = Len(log))

\* As long as the subject's latest schema has the contract's fields, every event
\* published is settled in the end, bad or good, and under whatever other drift:
\* no record stops the stream.
EventuallySettled == <>[]Buildable => Settled

\* docs/reliability.md: the stream stays available when producer schemas or
\* individual records are bad, once there is a schema.
StaysAvailable == <>[](latest # NoSchema) => Settled
============================================================================
