# TLA+ models of the e-commerce CDC lakehouse

The repository moves changes of an e-commerce database into a lakehouse: a data
generator writes to PostgreSQL, Debezium publishes each change to Kafka, a Spark
job merges the changes into Delta tables, and dbt, run hourly by Airflow, builds
the models analysts read. These modules model the parts in which order, failure
and concurrency decide whether the tables end up right, check them with TLC, and
prove nearly all of the safety properties with TLAPS.

## The system

| Part | State it keeps | Operations | What makes it correct |
| --- | --- | --- | --- |
| Data generator, `infra/data-generator/src/generator.py`, `db_writer.py` | rows of `users`, `orders`, `order_items`, `events`; one shared connection; a count of consecutive errors | purchases in three threads, side tasks, order updates, upsert with commit or rollback | what `upsert` reported is durable; orders follow their lifecycle; items never overtake their order |
| Debezium and Kafka (external) | one topic per table, in commit order | append; a change may be emitted again | none is lost |
| Schema registry and contracts, `infra/schema-registry/schemas/*.avsc` | latest schema id per subject; expected fields | registration; a reviewed change of the contract | only records under the contract's columns pass |
| Stream processor, `workspace/stream_processor.py` | Delta staging, quarantine, drift and metrics tables; a checkpoint | preparation of the tables, start, micro-batch in six steps, crash, restart | no record is dropped; staging holds the latest state; every failure is reported and counted |
| Quarantine replay, `workspace/replay_quarantine.py` | `monitoring/replay_audit` | select pending rows, publish them, audit them | nothing gets out of reach; the audit names what was published |
| dbt models, `infra/dbt/models` | intermediate and mart tables with a watermark each | incremental select, delete+insert | one row per key, the latest version, nothing missed |
| Airflow DAG, `infra/airflow/dags` | the runs in hand | `check_cdc_lag`, the two dbt groups with retries | layers in order, failures retried, a lag holds the models back only for a while |
| Trino, Hive Metastore, MinIO, Superset, JupyterLab | catalog entries, files | queries | not modelled: I/O and configuration |

How they meet: the generator and the stream share only the topics; the stream and
the replay share the quarantine table and the topic, which the replay feeds back
into; dbt reads staging tables that four independent queries fill; the DAG is the
only thing that sequences dbt, and two of its runs share the temporary table of
every model.

What is hard about it:

* `process_batch` writes drift, quarantine, staging (twice) and metrics one after
  the other, and Spark the checkpoint after them. Nothing spans these writes. A
  crash between any two leaves the earlier ones, and the same offsets run again,
  possibly with another approved schema id.
* A start prepares the tables and overwrites any that it fails to read, while the
  checkpoint stays where it was.
* The replay job evaluates its lazy `pending` twice, with the Kafka write in
  between, over tables the stream is changing.
* The dbt models join tables that lag independently, and each keeps a watermark
  that moves past whatever the join left out.
* DAG runs overlap when one takes more than an hour, and then two builds of a model
  interleave, statement by statement, through one temporary table.
* The generator's threads share one transaction: a thread's COMMIT or ROLLBACK
  takes the others' statements along, `gather` leaves threads running when one of
  them fails, and a COMMIT of an aborted transaction succeeds while it writes
  nothing. The threads left behind run on beside `close()`, and read `self.conn`
  again at every use, whoever has opened a connection by then.

`PROJECT.json` lists each such hazard at its line with the properties aimed at it.

## The modules

### SchemaContract: which schemas meet a contract

The pure rules of `compare_schema_contract`, `avro_type_name`, `business_fields`
and `build_stream`'s column list, over schemas that are functions from field names
to types. `IsDrift` is the code's three diffs; `SameColumns` is the reference
definition they are compared with: both sides have the same columns with the same
downstream types. `Selectable` says when Spark can resolve the selected columns at
all. It keeps no state, and `CdcStream` EXTENDS it.

### CdcStream: one query of the stream processor

| Model | Code |
| --- | --- |
| `log` | the table's topic; `schema` is the id in the wire header, `id` and `op` the decoded key and `__op`, `ts` is `__ts_ms` |
| `latest`, `localShape`, `SchemaShape` | the subject's latest id, the `.avsc` contract, and the Avro schema of each id |
| `loaded`, `expected` | `local_schema` and `expected_schema_id`, fixed by `build_stream` when the process starts |
| `planned`, `committed`, `batchId`, `ends` | Spark's offset log, commit log, batch number, and the ends of the batches committed |
| `staging`, `quarantine`, `drift`, `metrics` | the four Delta tables; each row carries the run (start, batch) that wrote it |
| `applied` | history: offsets a MERGE or DELETE has taken since the staging table was created |
| `PrepareTables` | `ensure_monitoring_tables`, `register_quarantine_table`, `prepare_delta_table`: a table of `Unreadable` may be overwritten by an empty one |
| `Start` | `main` and `build_stream`: approve the latest id, or record the drift and approve none |
| `StartFails` | the same up to the exception, when the subject has no schema or its latest one lacks a column |
| `PlanBatch`, `CommitBatch` | a trigger of Structured Streaming and its commit |
| `ReportDrift`, `DriftChecked` | `detect_unapproved_schema_ids`, one append per id |
| `WriteQuarantine`, `MergeUpserts`, `ApplyDeletes`, `WriteMetrics` | the other calls of `process_batch`, in its order |
| `Crash` | an exception, or a killed driver, between any two of them |
| `Publish`, `RegisterSchema`, `UpdateContract` | the environment: any payload at any time, so that a change delivered again, after newer ones, is among the behaviours, and so is an id that nobody registered (`Unregistered`), as one is read off a value cut short |

`Reason` keeps SQL's three-valued logic: a null schema id is not "unapproved", a
null `op` is neither in nor outside `VALID_OPS`, and PERMISSIVE decoding yields a
payload of nulls, so that a corrupt body is a missing primary key.
`Unmatched` keeps a property of the MERGE that is easy to miss: `s.rn = 1` is in
the ON condition, so an event of a batch that is not the newest of its key is NOT
MATCHED, and is inserted. Staging therefore holds several rows of a key; the dbt
staging models (`staging_orders.sql` and the like) pick the latest.

### EventLedger: what the stream promises

Offsets are settled in order; none is settled before it has an outcome, applied or
quarantined; nothing is done with an offset after it is settled. `CdcStream` maps
onto it with `published <- Len(log)`, `settled <- committed` and
`outcome <- Outcome`, and implements it (`ImplementsLedger`) as long as no start
loses a table.

### CdcReplay: the replay job composed with the stream

EXTENDS `CdcStream`. `LoseAudit` is `ensure_audit_table` when the table cannot be
read, `ReplayStart` the evaluation of `pending` for the Kafka write, `ReplaySend`
one record reaching the topic, `ReplayAudit` the second evaluation and the audit
append, `ReplayCrash` a job that dies anywhere in between. `Selections` is
`orderBy("quarantined_at").limit(n)`: rows of one batch have the same time, and any
of them may be picked. A copy keeps the `ts` of the original, which is how the
model knows it.

### DbtLayers: the incremental models of users, orders and items

`changes` is the merged order of the three topics, `staged` the change each query has
got to (`Stage` is that query, modelled in `CdcStream`), `rows` the six tables, `layer` and `todo` the progress of one DAG run.
`Select(m)` is a model's SELECT with its incremental filter (`MAX(kafka_ts)` of its
own table in the intermediate models, which is null when the table is empty;
`COALESCE(..., 1970)` in the marts), and `Build` the delete+insert. A row of an item
carries the version of its order, for the `order_status` it copies. `FailBuild` is
a build that dies after the DELETE; Airflow retries it or gives up (`RetryOrGiveUp`),
and then builds the other models of the group and not the group after it (`layer`
is `"failing"`). `shown` is a history: the last row a model has shown of each key,
the keys included that a failed build has taken out of it.

### DagRuns: overlapping runs, and the models of events and sessions

| Model | Code |
| --- | --- |
| `staging` | the events that have reached `staging_events`, in the order of the topic |
| `lateFor` | starts of the hour until the metrics of a late batch are no longer among those `check_cdc_lag` looks at: three (`LagHours`), so that the run in hand and the next two may see them |
| `Ghosts` | sessions without a user, which `fct_sessions.sql` counts like the others |
| `phase`, `todo`, `task` | of each DAG run in hand: its group, the models it has left, the statement its build is at |
| `table`, `tmp`, `built` | the rows of each model as a bag, `<model>__dbt_tmp`, and the models whose table exists |
| `Hour` | the hourly schedule; no `max_active_runs`, so a run may start while another goes on |
| `CheckLag`, `LagAlert`, `QueryRaises` | the three ways out of `check_cdc_lag` |
| `Select` | `intermediate_events`, `fct_events`, and `fct_sessions` with its window of two hours |
| `CreateTable` | a model's first build |
| `StoreSelect`, `Delete`, `Insert`, `DropTmp` | the four statements of a later one |
| `Die`, `TmpGone` | a task that ends between two of them, retried or given up on |

The four statements and the shared name of the temporary table are dbt-trino's way
to run delete+insert, modelled from the `materialized` and `incremental_strategy`
settings in `src/infra/dbt` and external to this repository. `raced` remembers that
two runs have been in a build of one model at once.

### OrderSource: the generator and its database writer

| Model | Code |
| --- | --- |
| `main`, `errors`, `raised` | the loop of `EcommerceSimulator.run`, its count of consecutive errors, and an exception on its way to it |
| `step`, `jobs` | each thread's place in `DataWriter.upsert`, and the upserts it has still to make |
| `db`, `txn`, `aborted` | what is committed, what the one shared connection sees, and whether its transaction has failed |
| `link` | the connection: lost without anybody knowing, known to SQLAlchemy to be lost (`"invalid"` inside a transaction that its SELECTs began and nobody ends, `"stale"` outside one), or closed |
| `opening` | threads that have seen `self.conn` closed, or stale, and have not yet put a new connection in its place |
| `Execute`, `Commit`, `Rollback` | the three uses of `self.conn` in `upsert`, each of which reads it again |
| `ExecuteFails`, `CommitFails`, `LoseLink` | the failures; a COMMIT cut off by the last may have been carried out |
| `CountError`, `Abandon` | the two ways the loop meets an exception: SQLAlchemy's is counted, psycopg2's ends it |
| `CloseRollsBack`, `CloseReleases`, `CloseFails` | `close()`, in a thread of its own beside those that `gather` has left behind: it rolls back, then gives the connection up; or its rollback meets a lost connection and raises |
| `SeesGone`, `Opens`, `OpenFails` | `ensure_connection` and `connect`, or SQLAlchemy opening the connection again: two threads may open one each, the second over the first's |
| `acked`, `sound`, `cutShort` | history: what `upsert` reported as written before `close()` rolled back; whether a statement has failed on a sound connection; whether `close()` has found an update at work |

### MC modules and proof modules

`MCCdcStream`, `MCCdcReplay`, `MCDbtLayers`, `MCDagRuns` and `MCOrderSource` only
define constants. `CdcStreamProofs` holds the theorems about what the stream
settles and reports, `CdcTableProofs` those about what it leaves in its tables, and
`CdcLatestProofs` the one about the newest event of each key.
`CdcReplayProofs` (which EXTENDS `CdcStreamProofs`), `DbtLayersProofs`,
`DagRunsProofs` and `OrderSourceProofs` hold the theorems about the other modules.

## The runs

Passing:

| Run | Instance | Shows |
| --- | --- | --- |
| `stream` | 2 keys, 2 schemas, `MaxLog` 3, batches of 2, 2 crashes, a staging table that any start may lose | `LatestWins`, `RowsNeverRegress` |
| `stream_live` | every kind of bad record, a contract that gains a field, `MaxLog` 3, 1 crash, fairness; an id that is not registered | `Accounted`, `DriftReported`, `MetricsMatchQuarantine`, `OnlyContracted`, `ImplementsLedger`, `EventuallySettled` |
| `replay` | 2 executions of the job, `MaxLog` 3, 2 crashes of the stream, the job may die at any point, the audit table may be lost | `NothingLost`, `AuditedWasReplayed`, `AuditedNeverResent` |
| `dbt` | 2 users, an order, an item, `MaxChanges` 4, one failed build, streams that lag freely, times that tie | `OneRowPerKey`, `NoStaleRows`, `WatermarkSound` |
| `dbt_in_step` | 2 users, an order, 2 items, `MaxChanges` 6, fairness | `ModelsConverge`, `CustomersConverge`, `ItemsShowOrder` |
| `dag` | 2 overlapping runs, 3 events of a session together or two hours apart, a task that dies | `NothingBehindWatermark`, `OneRowPerKey`, `SessionCountsExact` |
| `dag_live` | 2 overlapping runs, a session with a user and one without, 2 events hours apart, late batches, a task that dies, fairness | `SessionsCatchUp` |
| `source` | 2 orders with an item each, 6 threads, 1 restart | `AckedIsDurable`, `ItemsFollowOrder`, `LifecycleRespected` |

Each of `stream`, `replay`, `dbt`, `dag` and `source` also checks its module's type
invariant.

Violations, each a statement of the documentation that the code does not meet:

| Run | Property | What happens |
| --- | --- | --- |
| `stream_retry_rows` | `RestartAddsNoRows` | two events of a key in one batch; the batch is retried and the losing one is inserted twice |
| `stream_removed_field` | `StaysAvailable` | the newest registered schema lacks a field of the contract: `build_stream` raises at every start, and nothing more is settled |
| `replay_while_streaming` | `AuditedWasReplayed` | the stream quarantines the copy before the audit evaluates `pending` again, and the copy is audited unsent |
| `dbt_stream_lag` | `ModelsConverge` | an order whose user had not arrived is skipped, and a later order moves the watermark past it for good |

### Bounds, and why they are enough

* `MaxLog` 3 with batches of 2 gives a full batch, a partial one and a batch
  boundary between events of a key; a deletion, a recreation under another schema,
  an older change delivered again and a second key fit in it. `MaxCrashes` 2 lets a
  batch be run three times, under three approvals; `MaxCrashes` 1 in `stream_live`
  two times. `MaxSchema` 2 is an old and a new schema.
* `MaxReplays` 2: an execution after one that died, or that audited. Each
  execution of the `replay` run may publish a copy (`MaxLog` 3 leaves room for
  two). `replay_while_streaming` has `MaxLog` 4.
* `MaxChanges` 4 in `dbt` gives a user, an order and an item, or updates of a key
  before and after a build, a failed one and a tie of times; 6 in `dbt_in_step` gives
  every table a row and two changes after that; 5 in `dbt_stream_lag` is what the
  order left behind and the one after it need. `MaxFailures` 1: a failed build and its
  retry, or the rest of its run and the next. `OrdersFirst` is TRUE in the three
  runs, for their size alone in `dbt`: the theorems hold without it.
* In `dag`, `MaxEvents` 3 with `Gaps` {0, 2}: an event in the model, and two more
  that a build selects together or that two builds select one after the other,
  within the session window of the first or not. No batch is late there, which
  changes nothing for safety, since the check passes anyway when its query raises.
  In `dag_live`, two events of one session or of two, far enough apart (`Gaps` {2})
  for the window to matter, each in a late batch (which the check lets pass when its
  query raises, so that a batch in time adds nothing). Runs are
  not bounded: there are two slots, and a run that ends leaves its own to the next.
  `MaxDeaths` 1 is a death at any statement, while another run is at any of its
  own. A build that inserts another's temporary table may add a copy of a row each
  time; `MaxCopies` 2 stands for two or more, since no property tells more apart.
* `MaxRestarts` 1: what was acknowledged before a restart meets the writes after
  it. Connections are lost, and opened over each other, any number of times. Two
  orders: an update of one while the other is bought; they are interchangeable, each
  with its item, which is the symmetry `Exchanges`. Three errors, the code's own limit.

### Assumptions of the runs

* A contract gains fields and never loses one (`Extends`): staging rows carry no
  columns, so what a lost column does to `UPDATE SET *` is not in the model.
* Debezium stamps each message with a time of its own, so a change delivered
  again has a later `ts`, and no two messages of a topic share one; only replayed
  copies do.
* A null operation is published only with a null key (`Damaged`): `__op` is set by
  Debezium's unwrap transform in every record. Without it `Accounted` fails: `~isin`
  of null is null, and so are both `op != 'd'` and `op = 'd'`.
* `Exclusive` (the `replay` run): the operator replays while the stream is stopped.
  `Limit` is above the number of rows there can be (`Unlimited` in `CdcReplayProofs`,
  which the run's constants satisfy); with a limit of 1, TLC finds an
  audited event that was not the one published, because of the ties in `orderBy`.
* `dbt_in_step` names what convergence needs: the streams advance together
  (`InStep`), none advances during a run (`QuietRuns`; without it
  `CustomersConverge` fails, its one watermark standing for two tables), no two
  changes share a `kafka_ts` (`StrictTimes`), items come after their order
  (`OrdersFirst`), and the first run finds rows for every model
  (`FirstRunNonEmpty`; a model first built empty has a null watermark and stays
  empty). None of them is enforced by the code. `dbt_stream_lag` drops only
  `InStep`. Changes of one key never share a `kafka_ts` in any run.
* In `dag` and `dag_live` no two events share a `kafka_ts`: one that does is hidden by the strict
  comparison, as `WatermarkSound` allows for in `dbt`.
* `OneRowPerKey`, `SessionCountsExact` and `SessionsCatchUp` of `DagRuns` are claimed
  until two builds of one model have overlapped (`~raced`), in a system where
  everything else goes wrong; `NothingBehindWatermark` is claimed even then.
  `SessionsCatchUp` speaks of sessions with a user: what should become of the others,
  the documentation says otherwise than the code (see below).
* `AckedIsDurable` and `ItemsFollowOrder` are claimed as long as no statement fails
  on a connection that is up (`sound`): after such a failure another thread's
  COMMIT rolls back silently and `upsert` returns as if it had written. They leave out
  what `close()` spoils for the threads beside it: `acked` is no longer recorded once
  `close()` has rolled back, and `ItemsFollowOrder` is no longer claimed once it has
  found an update at work (`cutShort`). Without either limit TLC refutes the property
  (see below). What was reported before stays covered, whatever the threads
  left behind do with connections of their own, until the restart and after it.
  `LifecycleRespected` has none of these limits. A side task
  left behind by `gather` has ended when the next round of side tasks starts.

### Fairness

`CdcStream!FairSpec` assumes weak fairness of the processor's steps as one action:
a trigger fires every 30 seconds, and a process that died is started again by its
operator. The environment (`Publish`, `RegisterSchema`, `UpdateContract`) and
`Crash` have none. `DbtLayers!FairSpec` assumes weak fairness of the DAG's steps,
which Airflow's hourly schedule gives, and strong fairness of each stream's
progress, which a dbt run may interrupt (`QuietRuns`) but not for ever. Builds
that fail have none and are bounded. `DagRuns!FairSpec` assumes weak fairness of
the hourly start and the runs' steps taken together: as long as a run can start or go
on, one does, and one of two runs may hang for ever while the other goes on; deaths, late batches and a
query that raises have none. The other specifications state safety only.

Deadlock is not checked in any run: every bounded environment runs out, and the
generator really stops. In `dag` and `dag_live` a start waits when both slots are taken.

## The proofs

The theorems hold for every value of the constants: topic lengths, keys, schemas,
contracts, payloads, batch limits, crashes, changes, runs, events. What else one assumes
is in its statement. They are about the same specifications that TLC runs, bounds
included, so that a bound that is a constant (`MaxLog`, `MaxCrashes`, ...) may be any
number. The inductive invariants were first checked with TLC on the runs' instances.

`CdcStreamProofs`:

* `TypeCorrect`: `Spec => []TypeOK`. The inductive invariant is `TypeInv`, which
  adds `Running`: a crash budget is left while the process is down, and a batch is
  in hand (`committed < planned`) in every phase of `process_batch`. `TypeOK` alone
  does not bound `attempt`, nor the batch number by the offset.
* `SettledIsAccounted`: `Spec => []Accounted`, under `OpsPresent` (a record with a
  key has an operation) and `TablesReadable` (a start finds the tables it wrote).
  The code needs both: see the null operation above, and what a start may do to the
  quarantine table below. `Accounted` speaks of committed offsets only, so the
  invariant `Settling` says what each phase has left behind: bad records are in
  quarantine after the quarantine write, upserts and deletes in `applied` after
  theirs. `BatchStable` shows that the parts of a batch do not depend on the
  topic's growth, `ValidSplits` that upserts and deletes cover the valid records.
* `DriftIsReported`: `Spec => []DriftReported`, when the drift table can be read.
  The invariant `Reporting` adds that a process with no approved id has reported
  its startup drift, and that all unapproved ids of the batch are reported when the
  quarantine write is due.
* `StreamImplementsLedger`: `Spec => ImplementsLedger`, under the assumptions of
  `SettledIsAccounted`. Each action maps to `Publish`, `Record`, `Settle` or a
  stutter; the commit maps to `Settle` because of `Settling`.

`CdcTableProofs`:

* `PassedIsContracted`: `Spec => []OnlyContracted`. `NoDriftSameColumns` is the fact
  about the three diffs, for any two schemas: what has no drift has the same
  columns with the same downstream types. The invariant `Approved` carries it
  through a process's life: the id it approved has no drift against the contract
  it loaded, whatever is registered or written to the file afterwards.
* `MetricsCount`: `Spec => []MetricsMatchQuarantine`, when the quarantine and the
  metrics table can be read. `Counting` says which rows the run in hand has in the
  quarantine table in each phase: none before its write, then exactly one for each
  bad record of the batch (`BadRowsCounted`, by a bijection). That no earlier run
  left rows under the same name is why starts and batches are numbered.
* `RowsOnlyAdvance`: `Spec => RowsNeverRegress`, whichever tables are lost. The
  invariant `Dated` says that a staging row holds an event of a batch already
  planned and that run and source event identify it. `WinnerIsNewer` is the heart:
  a winner that matches a row comes after the event the row holds, which is of an
  earlier batch, or of this one and then lost to the winner, or was just
  quarantined.

`CdcLatestProofs`:

* `LatestWinsHolds`: `Spec => []LatestWins`, whatever other tables are lost, when the
  quarantine table can be read: it is what tells the events that a retry under another
  schema took back. `LatestWins` speaks of quiet moments only; the invariant `Showing`
  says of every moment that the batches committed still show (`CommittedShown`, since a
  batch touches no id without applying something newer to it: `MergeKeepsOthers`,
  `DeletesById`) and how far the run in hand has come (`BatchShown`: winners are
  current after the merge, `MergeShowsWinners`, and unless their id was deleted after
  the deletes). `BatchEndShown` joins the two at the commit: the newest event applied
  to an id, if it is of this batch and not quarantined, is one that the last run let
  pass, so it is a delete of that run or the winner of its merge, whatever earlier
  runs of the batch had applied. TLC checked `Showing` on the instance of `stream` and
  on four events in batches of three.

`CdcReplayProofs`, over the actions of the stream and of the job together:

* `ReplayTypeCorrect`: `ReplaySpec => []ReplayTypeOK`, when the stream's tables can be
  read (a lost quarantine table would leave the job with rows it no longer has). The
  invariant `FromQuarantine` says where each offset the job handles came from.
* `AuditedNeverResentHolds`: `ReplaySpec => AuditedNeverResent`, with no assumption,
  concurrent streaming, crashes and a lost audit table included. `AuditBarsResend`: the
  rows an execution has in hand were selected after the last audit append.
* `AuditedWasReplayedHolds`: `ReplaySpec => []AuditedWasReplayed`, under `Exclusive` and
  `Unlimited` (`Limit` is at least the number of rows there can be). Without the first
  `replay_while_streaming` refutes it, without the second the ties of `orderBy` do.
  `Auditing`: while the job sends, the candidates stay what they were at its start.
* `NothingLostHolds`: `ReplaySpec => []NothingLost`, under these and the assumptions of
  `SettledIsAccounted`. `Reaching` adds to `Settling` that a copy keeps the `ts` of an
  offset no later than itself and that each offset sent has a later copy.

`DbtLayersProofs`, with no assumption:

* `TypeOKHolds`: `Spec => []TypeOK`. `RowsInv` says which version in staging a row is.
  `TypeOK` also says that what a run has left to build is of the group it is at.
* `OneRowPerKeyHolds`: `Spec => []OneRowPerKey`, from the types and the fact that a
  build deletes the keys it inserts.
* `NoStaleRowsHolds`: `Spec => NoStaleRows`, over the history: what a build selects is
  no older than the last row shown of the key, even when a failed build has taken that
  row out since (`SelectedNotOlder`). `ShownInv`: what was last shown of a key had reached
  staging, and is the row the model has, if it still has one. `NotAhead`: a mart has shown
  nothing newer than the row of the key in the model it reads.
* `WatermarkSoundHolds`: `Spec => []WatermarkSound`. `HidesOnlyTies` also covers the
  rows that a build has deleted and not yet inserted.

`DagRunsProofs`, for any number of runs that overlap, with no assumption:

* `TypeOKHolds`: `Spec => []TypeOK`, by an invariant that types the tables as bags and
  the temporary tables as what a build may have left in them.
* `WatermarkHidesNothing`: `Spec => []NothingBehindWatermark`. The temporary table is
  shared, so a run may insert what another has selected. `WatermarkInv`: whatever a
  temporary table holds completes the model up to each of its own events, and includes
  every later event of the model, so that inserting it never leaves a gap.
* `OneRowPerKeyHolds`: `Spec => []OneRowPerKey`. `UniqueInv`: until builds overlap at
  most one run is in a build of a model, its temporary table has one row of a key, and
  between DELETE and INSERT the model shares no key with it.
* `SessionsCountExactly`: `Spec => []SessionCountsExact`, from the two before it:
  `intermediate_events` holds all events up to the newest, and one copy of each.

`OrderSourceProofs`, for any orders, items and number of restarts, when keys of
different tables differ (`KeysAssumption`):

* `TypeOKHolds`: `Spec => []TypeOK`. `TypeInv` adds what each thread has still to write
  (`IsPlan`) and that an update and a purchase are never at work together (`ThreadsInv`),
  although `gather` leaves threads behind: the loop waits for `Awaited`, or ends; and
  that nobody opens a connection before `close()` has been at work.
* `LifecycleRespectedHolds`: `Spec => LifecycleRespected`, with no limit. `LifecycleInv`:
  the transaction is at most one move ahead of what is committed, and then the thread
  that made it is about to commit on that connection (`Pending`); the move a thread has
  not made yet starts from the committed status.
* `AckedStaysWritten` and `ItemsFollowOrderHolds`: `Spec => []AckedIsDurable` and
  `Spec => []ItemsFollowOrder`. `SoundInv` holds while no statement fails on a
  connection that is up. Until `close()` has rolled back (`Closed`), transactions are
  aborted on a lost connection only (`Failing`) and what a thread has executed is in the
  transaction until it commits (`Executed`). From then on a COMMIT may write nothing,
  but none takes anything back: statuses only advance (`Keeping`), and items of a
  purchase come before their order moves on (`ItemsTurn`). Unless `close()` has cut it
  short, an update reaches its items and events with its order committed (`UpdateTurn`).

Every safety property of the passing runs has a theorem. Only model-checked: liveness
(`EventuallySettled`, `ModelsConverge`, `CustomersConverge`, `ItemsShowOrder`,
`SessionsCatchUp`), since the prover reasons about neither fairness nor ENABLED.

## Seen while modelling, without a run of its own

* A replay job that dies between its Kafka write and the audit append publishes the
  same events again when it is next executed, although `README.md:80` has the
  audit table "to avoid replaying the same original event repeatedly".
  `AuditedNeverResent` is what the anti-join does guarantee.
* A replayed event reaches the topic with its old `__ts_ms`, after newer events of
  its key, and replaces them in staging.
* A start that fails to read the quarantine table, for whatever reason, overwrites it
  with an empty one while the checkpoint stays past the records it held: the bad
  records that line 8 of `stream_processor.py` says are not silently dropped have
  no trace left. With `Unreadable` {"quarantine"} TLC finds it in a few states.
* A batch retried after the contract changed may quarantine a delete's successor,
  and put back a row that an earlier run of the batch had deleted; `LatestWins`
  leaves out events that were both applied and quarantined.
* A key deleted and created again within one batch ends up missing, since deletes
  run after all upserts; `LatestWins` excepts exactly that (`DeletedWith`).
* A crash between the metrics append and the commit gives a batch two metrics
  rows; `docs/reliability.md` promises one per micro-batch.
* A field the contract gains never reaches the existing staging table
  (`prepare_delta_table` leaves it as it is, and MERGE does not evolve it); a field
  it loses leaves `UPDATE SET *` without a source column.
* The duplicates of `stream_retry_rows` are hidden from users, orders and items by
  the dbt staging models, which keep the newest row of a key. `staging_events` does
  no such thing, but `intermediate_events` keeps one row of each `event_id`.
* Two overlapping DAG runs double rows for good when both DELETE before either
  INSERTs. The unique test of `intermediate_events` is of severity warn and stops
  nothing; that of `fct_events` is an error in every later run.
* A thread that `gather` leaves behind executes on the old connection; the connection
  is lost, or `close()` rolls it back; another thread opens a new one, and the first
  commits there. `upsert` logs its rows as inserted and returns, and they are nowhere.
  TLC shows it when `acked` is recorded after `close()` too.
* The same COMMIT may be the one of the order in `simulate_order_update`: the thread
  goes on to commit the items, ahead of an order that keeps its old status. TLC
  shows it when `ItemsFollowOrder` does not exclude `cutShort`.
* `docs/architecture.md:125`, `docs/datamodel.md:290` and `docs/datasource.md:182`
  say ghost events are excluded from session aggregations and `fct_sessions`;
  `fct_sessions.sql` has no such filter, and sessions without a user get a row like the
  others, flagged `is_ghost` (a column that `docs/datamodel.md:545` shows too).
* An event that shares its `kafka_ts` with the newest row of `intermediate_events`
  is hidden there for good, and the two-hour window of `fct_sessions` cannot help,
  for it reads that model.
* `fct_sessions` deletes and inserts all recent sessions in two statements every
  hour, so a query in between finds none of them.
* `check_cdc_lag` passes when there are no metrics, so a stream that has been dead
  for two hours looks healthy.

## Not modelled, and why

* The three other queries of the processor: they share only the process, and their
  failures are crashes here. Trino registration and the static bootstrap at its
  start; `get_location` and the other helpers of paths and sessions: I/O and
  configuration.
* Columns of staging rows, so the effect of a contract that loses one; retention of
  the topic, which `failOnDataLoss=false` makes silent.
* MinIO, Hive, Superset, JupyterLab (and `stream_processor.ipynb`) and the
  connector's start-up script: I/O and configuration.
* The dbt models of products and dates, rebuilt from fixed tables; `dbt deps` and
  the tests after each model; deletes in the dbt layers, whose staging rows vanish
  unnoticed; columns enriched from another table, but for an item's `order_status`.
* The generator's initial load (`OrderSource` starts once the users are there, so a
  purchase finds one), its `max_iter`, and the random data of `models.py` and
  `utils.py`, which decide nothing that a property tells apart.

## Plan

Done: the stream with its tables' preparation, the schema contract, its ledger;
replay; the dbt layers of users, orders and items; overlapping DAG runs over the
models of events and sessions; the generator; a theorem for every safety property.

Next, most important first:

1. What the liveness runs rest on and can be stated as safety: the ranking that each
   step of the processor lowers, and that a finished DAG run leaves its models current.
2. Columns of staging rows, for contracts that lose a field.
