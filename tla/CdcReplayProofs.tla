---------------------------- MODULE CdcReplayProofs ----------------------------
(****************************************************************************)
(* Theorems about CdcReplay, for every value of its constants: the replay   *)
(* job never publishes again what it has put in its audit table, audits     *)
(* only what it has published when the operator leaves it alone with the    *)
(* tables, and then loses no event.                                         *)
(****************************************************************************)
EXTENDS CdcReplay, CdcStreamProofs

----------------------------------------------------------------------------
(* Types. *)

RowsToSend == [offset : 1..Len(log), reason : Reasons, at : Runs]

\* What an execution has still to send are quarantine rows, of the table as it was.
JobInv ==
    /\ reason \in Filters \cup {AnyReason}
    /\ job \in {"none", "sending"}
    /\ job = "none" => toSend = {}
    /\ toSend \subseteq RowsToSend
    /\ replays \in 0..MaxReplays

ReplayInv == TypeInv /\ JobInv

\* The rows an execution selects are pending ones.
LEMMA SelectedPending ==
    ASSUME NEW f, NEW S \in Selections(f)
    PROVE  S \subseteq Pending(f) /\ S \subseteq quarantine
  BY DEF Selections, Pending

\* Of the stream's steps only a producer's moves the topic.
LEMMA OnlyPublishAppends ==
    ASSUME [Next]_vars, ~\E p \in Payloads : Publish(p)
    PROVE  UNCHANGED log
  BY TablesStay DEF Next, ProcessorStep, vars, kafka, RegisterSchema, UpdateContract,
     PlanBatch, ReportDrift, DriftChecked, WriteQuarantine, MergeUpserts, ApplyDeletes,
     WriteMetrics, CommitBatch, Crash

\* A step of the stream only adds to the topic.
LEMMA StreamAppends ==
    ASSUME TypeInv, [Next]_vars
    PROVE  /\ Len(log) <= Len(log') /\ Len(log) \in Nat /\ Len(log') \in Nat
           /\ \A o \in 1..Len(log) : log'[o] = log[o]
<1>1. ASSUME NEW p \in Payloads, Publish(p)
      PROVE  Len(log') = Len(log) + 1 /\ \A o \in 1..Len(log) : log'[o] = log[o]
  BY <1>1 DEF Publish, TypeInv, TypeOK
<1>2. ASSUME ~\E p \in Payloads : Publish(p) PROVE UNCHANGED log
  BY <1>2, OnlyPublishAppends
<1>3. Len(log) \in Nat
  BY DEF TypeInv, TypeOK
<1> QED
  BY <1>1, <1>2, <1>3

\* A record the job sends is a copy of one that is in the topic.
LEMMA SendAppends ==
    ASSUME ReplayInv, NEW q \in toSend, ReplaySend(q)
    PROVE  /\ q.offset \in 1..Len(log) /\ log[q.offset] \in Events
           /\ log' \in Seq(Events) /\ Len(log') = Len(log) + 1 /\ Len(log') <= MaxLog
           /\ Len(log) \in Nat /\ DOMAIN log = 1..Len(log) /\ DOMAIN log' = 1..Len(log')
           /\ \A o \in 1..Len(log) : log'[o] = log[o]
           /\ log'[Len(log) + 1] = log[q.offset]
           /\ UNCHANGED <<latest, localShape, pc, progress, staging, quarantine, drift, metrics,
                          applied, reason, job, audit, replays>>
<1>1. q.offset \in 1..Len(log)
  BY DEF ReplayInv, JobInv, RowsToSend
<1>2. log \in Seq(Events) /\ Len(log) \in Nat
  BY DEF ReplayInv, TypeInv, TypeOK
<1>3. log[q.offset] \in Events
  BY <1>1, <1>2
<1> DEFINE e == log[q.offset]
<1>4. log' = Append(log, e) /\ Len(log) < MaxLog
  BY DEF ReplaySend
<1> HIDE DEF e
<1>5. /\ log' \in Seq(Events) /\ Len(log') = Len(log) + 1
      /\ \A o \in 1..Len(log) : log'[o] = log[o]
      /\ log'[Len(log) + 1] = e
      /\ DOMAIN log = 1..Len(log) /\ DOMAIN log' = 1..Len(log')
  BY <1>2, <1>3, <1>4 DEF e
<1>6. Len(log') <= MaxLog
  BY <1>2, <1>4, <1>5, BoundAssumption
<1> QED
  BY <1>1, <1>2, <1>3, <1>5, <1>6 DEF ReplaySend, e

LEMMA InitReplayInv == ReplayInit => ReplayInv
  BY InitTypeInv, ReplayAssumption DEF ReplayInit, ReplayInv, JobInv

LEMMA NextReplayInv ==
    ASSUME ReplayInv, [ReplayNext]_allVars
    PROVE  ReplayInv'
<1>1. CASE StreamNext
  <2>1. TypeInv'
    BY <1>1, NextTypeInv DEF StreamNext, ReplayInv
  <2>2. RowsToSend \subseteq RowsToSend'
    BY <1>1, StreamAppends DEF StreamNext, ReplayInv, RowsToSend
  <2> QED
    BY <1>1, <2>1, <2>2 DEF StreamNext, ReplayInv, JobInv, replayVars
<1>2. ASSUME NEW f \in Filters, ReplayStart(f) PROVE ReplayInv'
  <2>1. TypeInv'
    BY <1>2, NextTypeInv DEF ReplayStart, ReplayInv
  <2>2. toSend' \subseteq RowsToSend /\ UNCHANGED log
    BY <1>2, SelectedPending DEF ReplayStart, ReplayInv, TypeInv, TypeOK, RowsToSend, vars
  <2>3. replays' \in 0..MaxReplays
    BY <1>2, ReplayAssumption DEF ReplayStart, ReplayInv, JobInv
  <2> QED
    BY <1>2, <2>1, <2>2, <2>3 DEF ReplayStart, ReplayInv, JobInv, RowsToSend
<1>3. ASSUME NEW q \in toSend, ReplaySend(q) PROVE ReplayInv'
  <2>1. 1..Len(log) \subseteq 1..Len(log') /\ 0..Len(log) \subseteq 0..Len(log')
    BY <1>3, SendAppends
  <2>2. TypeOK'
    <3>1. log' \in Seq(Events) /\ Len(log') \in 0..MaxLog
      BY <1>3, SendAppends, BoundAssumption
    <3>2. committed' \in 0..Len(log') /\ planned' \in committed'..Len(log')
      BY <1>3, <2>1, SendAppends DEF ReplayInv, TypeInv, TypeOK, progress
    <3>3. /\ UNCHANGED <<latest, localShape, pc, progress, staging, quarantine, drift, metrics,
                          applied>>
          /\ TypeOK
      BY <1>3, SendAppends DEF ReplayInv, TypeInv
    <3> QED
      BY <2>1, <3>1, <3>2, <3>3 DEF TypeOK, progress
  <2>3. Running'
    BY <1>3, SendAppends DEF ReplayInv, TypeInv, Running, progress
  <2>4. toSend' \subseteq RowsToSend'
    BY <1>3, <2>1 DEF ReplaySend, ReplayInv, JobInv, RowsToSend
  <2> QED
    BY <1>3, <2>2, <2>3, <2>4 DEF ReplaySend, ReplayInv, JobInv, TypeInv
<1>4. CASE LoseAudit \/ ReplayAudit \/ ReplayCrash \/ UNCHANGED allVars
  <2>1. UNCHANGED vars
    BY <1>4 DEF LoseAudit, ReplayAudit, ReplayCrash, allVars
  <2>2. TypeInv'
    BY <2>1, NextTypeInv DEF ReplayInv
  <2>3. UNCHANGED <<log, reason, replays>>
    BY <1>4 DEF LoseAudit, ReplayAudit, ReplayCrash, allVars, vars, replayVars
  <2>4. toSend' \subseteq toSend /\ (job' = "none" => toSend' = {}) /\ job' \in {"none", "sending"}
    BY <1>4 DEF LoseAudit, ReplayAudit, ReplayCrash, allVars, replayVars, ReplayInv, JobInv
  <2> QED
    BY <2>2, <2>3, <2>4 DEF ReplayInv, JobInv, RowsToSend
<1> QED
  BY <1>1, <1>2, <1>3, <1>4 DEF ReplayNext, ReplayStep

\* What is to be sent, was sent or was audited comes from the quarantine.
FromQuarantine ==
    /\ toSend \subseteq quarantine
    /\ audit \subseteq Quarantined
    /\ sent \subseteq Quarantined

LEMMA QuarantineStays ==
    ASSUME TablesReadable, [Next]_vars
    PROVE  quarantine \subseteq quarantine'
  BY TablesStay DEF Next, ProcessorStep, vars, kafka, progress, Publish, RegisterSchema,
     UpdateContract, PlanBatch, ReportDrift, DriftChecked, WriteQuarantine, MergeUpserts,
     ApplyDeletes, WriteMetrics, CommitBatch, Crash

LEMMA NextFromQuarantine ==
    ASSUME TablesReadable, FromQuarantine, [ReplayNext]_allVars
    PROVE  FromQuarantine'
<1>1. CASE StreamNext
  <2>1. quarantine \subseteq quarantine'
    BY <1>1, QuarantineStays DEF StreamNext
  <2>2. Quarantined \subseteq Quarantined'
    BY <2>1 DEF Quarantined
  <2> QED
    BY <1>1, <2>1, <2>2 DEF StreamNext, replayVars, FromQuarantine
<1>2. ASSUME NEW f \in Filters, ReplayStart(f) PROVE FromQuarantine'
  BY <1>2, SelectedPending DEF ReplayStart, FromQuarantine, Quarantined, vars
<1>3. ASSUME NEW q \in toSend, ReplaySend(q) PROVE FromQuarantine'
  BY <1>3 DEF ReplaySend, FromQuarantine, Quarantined
<1>4. CASE ReplayAudit
  <2>1. PICK S \in Selections(reason) : audit' = audit \cup {q.offset : q \in S}
    BY <1>4 DEF ReplayAudit
  <2>2. {q.offset : q \in S} \subseteq Quarantined
    BY SelectedPending DEF Quarantined
  <2> QED
    BY <1>4, <2>1, <2>2 DEF ReplayAudit, FromQuarantine, Quarantined, vars
<1>5. CASE LoseAudit \/ ReplayCrash \/ UNCHANGED allVars
  BY <1>5 DEF LoseAudit, ReplayCrash, allVars, vars, replayVars, FromQuarantine, Quarantined
<1> QED
  BY <1>1, <1>2, <1>3, <1>4, <1>5 DEF ReplayNext, ReplayStep

\* While the tables can be read, the job sends and audits what was quarantined.
THEOREM ReplayTypeCorrect ==
    ASSUME TablesReadable
    PROVE  ReplaySpec => []ReplayTypeOK
<1>1. ReplayInit => FromQuarantine
  BY DEF ReplayInit, FromQuarantine
<1>2. FromQuarantine /\ [ReplayNext]_allVars => FromQuarantine'
  BY NextFromQuarantine
<1>3. ReplayInv /\ FromQuarantine => ReplayTypeOK
  BY DEF ReplayInv, TypeInv, JobInv, FromQuarantine, ReplayTypeOK
<1> QED
  BY InitReplayInv, NextReplayInv, <1>1, <1>2, <1>3, PTL DEF ReplaySpec

----------------------------------------------------------------------------
(* The audit table keeps the job from publishing an event again. *)

AuditBarsResend == \A q \in toSend : q.offset \notin audit

\* This takes no assumption: whatever the stream does meanwhile, and wherever the job
\* dies, the rows an execution sends were selected after the last audit append.
THEOREM AuditedNeverResentHolds == ReplaySpec => AuditedNeverResent
<1> DEFINE Resent == \A q \in toSend \ toSend' : Len(log') > Len(log) => q.offset \notin audit
<1>1. ReplayInit => AuditBarsResend
  BY DEF ReplayInit, AuditBarsResend
<1>2. ASSUME ReplayInv, AuditBarsResend, [ReplayNext]_allVars PROVE AuditBarsResend'
  <2>1. CASE StreamNext \/ UNCHANGED allVars
    BY <1>2, <2>1 DEF StreamNext, replayVars, allVars, AuditBarsResend
  <2>2. ASSUME NEW f \in Filters, ReplayStart(f) PROVE AuditBarsResend'
    <3>1. toSend' \subseteq Pending(f) /\ audit' = audit
      BY <2>2, SelectedPending DEF ReplayStart
    <3> QED
      BY <3>1 DEF Pending, AuditBarsResend
  <2>3. ASSUME NEW q \in toSend, ReplaySend(q) PROVE AuditBarsResend'
    BY <1>2, <2>3 DEF ReplaySend, AuditBarsResend
  <2>4. CASE LoseAudit \/ ReplayAudit \/ ReplayCrash
    BY <1>2, <2>4 DEF LoseAudit, ReplayAudit, ReplayCrash, AuditBarsResend, ReplayInv, JobInv
  <2> QED
    BY <1>2, <2>1, <2>2, <2>3, <2>4 DEF ReplayNext, ReplayStep
<1>3. AuditBarsResend => [Resent]_allVars
  BY DEF AuditBarsResend
<1> HIDE DEF Resent
<1>4. AuditedNeverResent <=> [][Resent]_allVars
  BY PTL DEF AuditedNeverResent, Resent
<1> QED
  BY InitReplayInv, NextReplayInv, <1>1, <1>2, <1>3, <1>4, PTL DEF ReplaySpec

----------------------------------------------------------------------------
(* What is audited was published. *)

QuarantineRows == [offset : 1..MaxLog, reason : Reasons, at : Runs]

\* --limit does not stop an execution short: it is no less than the rows there are.
Unlimited == Cardinality(QuarantineRows) <= Limit

LEMMA RowsFinite == IsFiniteSet(QuarantineRows)
<1>1. IsFiniteSet(1..MaxLog) /\ IsFiniteSet(0..MaxCrashes + 1) /\ IsFiniteSet(-1..MaxLog)
  BY BoundAssumption, FS_Interval
<1>2. IsFiniteSet(Reasons)
  <2> DEFINE A == {"SCHEMA_DRIFT_UNAPPROVED"} \cup {"AVRO_DECODE_ERROR"}
             B == {"MISSING_PRIMARY_KEY"} \cup {"INVALID_CDC_OPERATION"}
  <2>1. IsFiniteSet(A) /\ IsFiniteSet(B)
    BY FS_Singleton, FS_Union
  <2>2. Reasons = A \cup B
    BY DEF Reasons
  <2> HIDE DEF A, B
  <2> QED
    BY <2>1, <2>2, FS_Union
<1>3. IsFiniteSet(Runs)
  <2> DEFINE pairs == (0..MaxCrashes + 1) \X (-1..MaxLog)
             f == [p \in pairs |-> [start |-> p[1], batch |-> p[2]]]
  <2>1. IsFiniteSet(pairs)
    BY <1>1, FS_Product
  <2>2. f \in Surjection(pairs, Runs)
    <3>1. ASSUME NEW r \in Runs PROVE \E p \in pairs : f[p] = r
      <4>1. <<r.start, r.batch>> \in pairs /\ f[<<r.start, r.batch>>] = r
        BY DEF Runs
      <4> QED
        BY <4>1
    <3>2. f \in [pairs -> Runs]
      BY DEF Runs
    <3> QED
      BY <3>1, <3>2 DEF Surjection
  <2> QED
    BY <2>1, <2>2, FS_Surjection
<1>4. QED
  <2> DEFINE A == 1..MaxLog
             triples == (A \X Reasons) \X Runs
             f == [p \in triples |-> [offset |-> p[1][1], reason |-> p[1][2], at |-> p[2]]]
  <2>1. IsFiniteSet(triples)
    BY <1>1, <1>2, <1>3, FS_Product
  <2>2. f \in Surjection(triples, QuarantineRows)
    <3>1. ASSUME NEW r \in QuarantineRows PROVE \E p \in triples : f[p] = r
      <4>1. <<<<r.offset, r.reason>>, r.at>> \in triples
        BY DEF QuarantineRows
      <4>2. f[<<<<r.offset, r.reason>>, r.at>>] = r
        BY <4>1 DEF QuarantineRows
      <4> QED
        BY <4>1, <4>2
    <3>2. f \in [triples -> QuarantineRows]
      BY DEF QuarantineRows
    <3> QED
      BY <3>1, <3>2 DEF Surjection
  <2> QED
    BY <2>1, <2>2, FS_Surjection

\* Without a limit that bites, an execution selects all that is pending.
LEMMA SelectsAll ==
    ASSUME Unlimited, TypeInv, NEW f, NEW S \in Selections(f)
    PROVE  S = Pending(f)
<1>1. Pending(f) \in SUBSET QuarantineRows
  <2>1. 1..Len(log) \subseteq 1..MaxLog
    BY BoundAssumption DEF TypeInv, TypeOK
  <2>2. quarantine \subseteq QuarantineRows
    BY <2>1 DEF TypeInv, TypeOK, QuarantineRows
  <2> QED
    BY <2>2 DEF Pending
<1>2. IsFiniteSet(Pending(f)) /\ Cardinality(Pending(f)) <= Cardinality(QuarantineRows)
  BY <1>1, RowsFinite, FS_Subset
<1>3. /\ S \in SUBSET Pending(f) /\ (S # Pending(f) => Cardinality(S) = Limit)
  BY DEF Selections
<1>4. /\ Cardinality(S) <= Cardinality(Pending(f))
      /\ Cardinality(Pending(f)) = Cardinality(S) => Pending(f) = S
  BY <1>2, <1>3, FS_Subset
<1>5. /\ Cardinality(Pending(f)) \in Nat /\ Cardinality(QuarantineRows) \in Nat
      /\ Cardinality(S) \in Nat /\ Limit \in Nat
  <2>1. IsFiniteSet(S)
    BY <1>2, <1>3, FS_Subset
  <2> QED
    BY <1>2, <2>1, RowsFinite, FS_CardinalityType, ReplayAssumption
<1> QED
  BY <1>2, <1>3, <1>4, <1>5 DEF Unlimited

Offsets(S) == {q.offset : q \in S}

\* The invariant behind it: while the job is sending, whatever is pending has been sent
\* or is about to be, because the stream is down and quarantines nothing.
Auditing ==
    /\ AuditedWasReplayed
    /\ job = "sending" =>
         /\ pc = "down"
         /\ Offsets(Pending(reason)) \subseteq sent \cup Offsets(toSend)

\* A step of the stream that leaves it down adds no row to the quarantine.
LEMMA DownAddsNothing ==
    ASSUME [Next]_vars, pc = "down", pc' = "down"
    PROVE  quarantine' \subseteq quarantine
  BY TablesStay DEF Next, ProcessorStep, vars, kafka, progress, Publish, RegisterSchema,
     UpdateContract, PlanBatch, ReportDrift, DriftChecked, WriteQuarantine, MergeUpserts,
     ApplyDeletes, WriteMetrics, CommitBatch, Crash

LEMMA NextAuditing ==
    ASSUME Exclusive, Unlimited, ReplayInv, Auditing, [ReplayNext]_allVars
    PROVE  Auditing'
<1> USE DEF AuditedWasReplayed
<1>1. CASE StreamNext
  <2>1. /\ UNCHANGED <<reason, job, toSend, audit, sent>> /\ [Next]_vars
        /\ job = "sending" => pc' = "down"
    BY <1>1 DEF StreamNext, replayVars
  <2>2. job = "sending" => quarantine' \subseteq quarantine
    BY <2>1, DownAddsNothing DEF Auditing
  <2>3. job = "sending" => Offsets(Pending(reason))' \subseteq Offsets(Pending(reason))
    BY <2>1, <2>2 DEF Pending, Offsets
  <2> QED
    BY <2>1, <2>3 DEF Auditing, Offsets
<1>2. ASSUME NEW f \in Filters, ReplayStart(f) PROVE Auditing'
  <2>1. /\ toSend' = Pending(f) /\ reason' = f /\ pc = "down"
        /\ UNCHANGED <<quarantine, pc, audit, sent>>
    BY <1>2, SelectsAll DEF ReplayStart, vars, ReplayInv
  <2>2. Pending(reason)' = Pending(f)
    BY <2>1 DEF Pending
  <2> QED
    BY <2>1, <2>2 DEF Auditing, Offsets
<1>3. ASSUME NEW q \in toSend, ReplaySend(q) PROVE Auditing'
  <2>1. /\ toSend' = toSend \ {q} /\ sent' = sent \cup {q.offset}
        /\ UNCHANGED <<quarantine, pc, audit, reason, job>>
    BY <1>3 DEF ReplaySend
  <2>2. Pending(reason)' = Pending(reason)
    BY <2>1 DEF Pending
  <2>3. \A o \in Offsets(toSend) : o \in Offsets(toSend') \/ o = q.offset
    BY <2>1 DEF Offsets
  <2> QED
    BY <2>1, <2>2, <2>3 DEF Auditing, Offsets
<1>4. CASE ReplayAudit
  <2>1. PICK S \in Selections(reason) : audit' = audit \cup Offsets(S)
    BY <1>4 DEF ReplayAudit, Offsets
  <2>2. Offsets(S) \subseteq sent
    BY <1>4, <2>1, SelectedPending DEF ReplayAudit, Auditing, Offsets
  <2> QED
    BY <1>4, <2>1, <2>2 DEF ReplayAudit, Auditing
<1>5. CASE LoseAudit \/ ReplayCrash
  BY <1>5 DEF LoseAudit, ReplayCrash, Auditing
<1>6. CASE UNCHANGED allVars
  BY <1>6 DEF allVars, replayVars, vars, Auditing, Offsets, Pending
<1> QED
  BY <1>1, <1>2, <1>3, <1>4, <1>5, <1>6 DEF ReplayNext, ReplayStep

\* While the stream is stopped during a replay and the limit is no fewer than the rows
\* there are, the second evaluation of pending, for the audit append, yields events the
\* first one has published.
THEOREM AuditedWasReplayedHolds ==
    ASSUME Exclusive, Unlimited
    PROVE  ReplaySpec => []AuditedWasReplayed
<1>1. ReplayInit => Auditing
  BY DEF ReplayInit, Auditing, AuditedWasReplayed
<1>2. ReplayInv /\ Auditing /\ [ReplayNext]_allVars => Auditing'
  BY NextAuditing
<1>3. Auditing => AuditedWasReplayed
  BY DEF Auditing
<1> QED
  BY InitReplayInv, NextReplayInv, <1>1, <1>2, <1>3, PTL DEF ReplaySpec


----------------------------------------------------------------------------
(* No event is out of reach. *)

\* What was sent is in the topic again, behind itself.
Resent(o) == \E c \in Copies(log[o].ts) : c > o

Reaching ==
    /\ Settling
    /\ \A o \in 1..Len(log) : log[o].ts \in 1..o
    /\ sent \subseteq 1..Len(log)
    /\ \A o \in sent : Resent(o)

LEMMA ResentStays ==
    ASSUME NEW o \in 1..Len(log), Resent(o), DOMAIN log \subseteq DOMAIN log',
           DOMAIN log = 1..Len(log), \A p \in 1..Len(log) : log'[p] = log[p]
    PROVE  Resent(o)'
  BY DEF Resent, Copies

LEMMA NextReaching ==
    ASSUME OpsPresent, TablesReadable, ReplayInv, Reaching, [ReplayNext]_allVars
    PROVE  Reaching'
<1>1. CASE StreamNext
  <2>1. [Next]_vars /\ UNCHANGED sent /\ TypeInv
    BY <1>1 DEF StreamNext, replayVars, ReplayInv
  <2>2. TypeInv' /\ Settling'
    BY <2>1, NextTypeInv, NextSettling DEF Reaching
  <2>3. /\ Len(log) <= Len(log') /\ Len(log) \in Nat /\ Len(log') \in Nat
        /\ \A o \in 1..Len(log) : log'[o] = log[o]
        /\ DOMAIN log = 1..Len(log) /\ DOMAIN log' = 1..Len(log')
    <3>1. log \in Seq(Events) /\ log' \in Seq(Events)
      BY <2>1, <2>2 DEF TypeInv, TypeOK
    <3> QED
      BY <2>1, <3>1, StreamAppends
  <2>4. DOMAIN log \subseteq DOMAIN log' /\ sent \subseteq 1..Len(log')
    BY <2>3 DEF Reaching
  <2>5. \A o \in sent : Resent(o)'
    BY <2>3, <2>4, ResentStays DEF Reaching
  <2>6. \A o \in 1..Len(log') : log'[o].ts \in 1..o
    <3>1. ASSUME NEW p \in Payloads, Publish(p)
          PROVE  log'[Len(log) + 1].ts = Len(log) + 1 /\ Len(log') = Len(log) + 1
      BY <2>1, <3>1 DEF Publish, TypeInv, TypeOK
    <3>2. ASSUME ~\E p \in Payloads : Publish(p) PROVE UNCHANGED log
      BY <2>1, <3>2, OnlyPublishAppends
    <3>3. CASE \E p \in Payloads : Publish(p)
      <4>1. log'[Len(log) + 1].ts = Len(log) + 1 /\ Len(log') = Len(log) + 1
        BY <3>1, <3>3
      <4>2. \A o \in 1..Len(log') : o \in 1..Len(log) \/ o = Len(log) + 1
        BY <2>3, <4>1
      <4> QED
        BY <2>3, <4>1, <4>2 DEF Reaching
    <3>4. CASE ~\E p \in Payloads : Publish(p)
      BY <3>2, <3>4 DEF Reaching
    <3> QED
      BY <3>3, <3>4
  <2> QED
    BY <2>1, <2>2, <2>4, <2>5, <2>6 DEF Reaching
<1>2. ASSUME NEW q \in toSend, ReplaySend(q) PROVE Reaching'
  <2>1. /\ q.offset \in 1..Len(log) /\ Len(log') = Len(log) + 1 /\ Len(log) \in Nat
        /\ DOMAIN log = 1..Len(log) /\ DOMAIN log' = 1..Len(log')
        /\ \A o \in 1..Len(log) : log'[o] = log[o]
        /\ log'[Len(log) + 1] = log[q.offset]
        /\ UNCHANGED <<pc, progress, quarantine, applied>>
    BY <1>2, SendAppends
  <2>2. \A o \in 1..Len(log') : o \in 1..Len(log) \/ o = Len(log) + 1
    BY <2>1
  <2>3. \A o \in 1..Len(log') : log'[o].op = Null => log'[o].id = Null
    BY <2>1, <2>2 DEF Reaching, Settling
  <2>4. Bad' = Bad /\ Ups' = Ups /\ Dels' = Dels
    BY <2>1, BatchStable DEF ReplayInv, TypeInv, progress
  <2>5. Settling'
    BY <2>1, <2>3, <2>4 DEF Reaching, Settling, Accounted, Quarantined, progress
  <2>6. log[q.offset].ts \in 1..q.offset
    BY <2>1 DEF Reaching
  <2>7. \A o \in 1..Len(log') : log'[o].ts \in 1..o
    <3>1. log'[Len(log) + 1].ts \in 1..Len(log) + 1
      BY <2>1, <2>6
    <3> QED
      BY <2>1, <2>2, <3>1 DEF Reaching
  <2>8. Resent(q.offset)'
    <3>1. Len(log) + 1 \in DOMAIN log' /\ log'[q.offset] = log[q.offset]
      BY <2>1
    <3>2. Len(log) + 1 # log[q.offset].ts /\ Len(log) + 1 > q.offset
      BY <2>1, <2>6
    <3> QED
      BY <2>1, <3>1, <3>2 DEF Resent, Copies
  <2>9. \A o \in sent : Resent(o)'
    <3>1. DOMAIN log \subseteq DOMAIN log'
      BY <2>1
    <3> QED
      BY <2>1, <3>1, ResentStays DEF Reaching
  <2>10. sent' = sent \cup {q.offset} /\ sent' \subseteq 1..Len(log')
    <3>1. sent' = sent \cup {q.offset}
      BY <1>2 DEF ReplaySend
    <3>2. 1..Len(log) \subseteq 1..Len(log')
      BY <2>1
    <3> QED
      BY <2>1, <3>1, <3>2 DEF Reaching
  <2> QED
    BY <2>5, <2>7, <2>8, <2>9, <2>10 DEF Reaching
<1>3. ASSUME UNCHANGED <<vars, sent>> PROVE Reaching'
  <2>1. Settling'
    BY <1>3, NextSettling DEF ReplayInv, Reaching
  <2>2. UNCHANGED <<log, sent>>
    BY <1>3 DEF vars
  <2> QED
    BY <2>1, <2>2 DEF Reaching, Resent, Copies
<1> QED
  BY <1>1, <1>2, <1>3 DEF ReplayNext, ReplayStep, LoseAudit, ReplayStart, ReplayAudit,
     ReplayCrash, allVars, replayVars

\* An event the stream is past was applied, or is in quarantine where the replay job
\* finds it, or has a later copy in the topic: executions that die between publish and
\* audit, and batches that are run again, lose none.
THEOREM NothingLostHolds ==
    ASSUME OpsPresent, TablesReadable, Exclusive, Unlimited
    PROVE  ReplaySpec => []NothingLost
<1>1. ReplayInit => Auditing /\ Reaching
  <2>1. ReplayInit => Auditing
    BY DEF ReplayInit, Auditing, AuditedWasReplayed
  <2>2. ReplayInit => Reaching
    BY InitSettling DEF ReplayInit, Reaching, Init
  <2> QED
    BY <2>1, <2>2
<1>2. ReplayInv /\ Auditing /\ [ReplayNext]_allVars => Auditing'
  BY NextAuditing
<1>3. ReplayInv /\ Reaching /\ [ReplayNext]_allVars => Reaching'
  BY NextReaching
<1>4. Auditing /\ Reaching => NothingLost
  <2>1. ASSUME Auditing, Reaching, NEW o \in 1..committed, o \notin applied,
               o \notin Quarantined \ audit
        PROVE  Resent(o)
    <3>1. o \in Quarantined /\ o \in audit
      BY <2>1 DEF Reaching, Settling, Accounted
    <3>2. o \in sent
      BY <2>1, <3>1 DEF Auditing, AuditedWasReplayed
    <3> QED
      BY <2>1, <3>2 DEF Reaching
  <2> QED
    BY <2>1 DEF NothingLost, Resent
<1> QED
  BY InitReplayInv, NextReplayInv, <1>1, <1>2, <1>3, <1>4, PTL DEF ReplaySpec

================================================================================
