------------------------------- MODULE CdcReplay -------------------------------
(****************************************************************************)
(* workspace/replay_quarantine.py --execute, composed with the stream that  *)
(* fills the quarantine and reads the topic the job republishes to.         *)
(*                                                                          *)
(* The job's `pending` is a lazy DataFrame over two Delta tables, and Delta *)
(* reads the newest snapshot for every query: it is evaluated once for the  *)
(* Kafka write and again for the audit write.  Its orderBy has one key, the *)
(* time of the append, shared by all rows of one run of a batch; limit may  *)
(* pick any of the rows that tie.                                           *)
(****************************************************************************)
EXTENDS CdcStream

CONSTANTS
    Filters,     \* the values of --reason tried; AnyReason is the default
    AnyReason,
    Limit,       \* --limit
    Exclusive,   \* TRUE: the operator replays only while the stream is down
    AuditReadable,  \* FALSE: an execution may fail to read the audit table
    MaxReplays   \* bound: executions of the job

ASSUME ReplayAssumption ==
    /\ Filters \subseteq Reasons \cup {AnyReason}
    /\ Limit \in Nat \ {0}
    /\ {Exclusive, AuditReadable} \subseteq BOOLEAN
    /\ MaxReplays \in Nat

VARIABLES
    reason,   \* --reason of the execution in hand
    job,      \* "none", or "sending" from the Kafka write to the audit write
    toSend,   \* quarantine rows the Kafka write has still to publish
    audit,    \* source_event_ids (offsets) in monitoring/replay_audit
    replays,  \* executions so far
    sent      \* history: source_event_ids published at least once

replayVars == <<reason, job, toSend, audit, replays, sent>>
allVars == <<vars, replayVars>>

----------------------------------------------------------------------------
(* One evaluation of `pending`. *)

\* Mutant: no anti-join.
PendingAgain(f) == {q \in quarantine : f \in {AnyReason, q.reason}}

\* left_anti join against the audit table, then the --reason filter.
Pending(f) == {q \in quarantine : q.offset \notin audit /\ f \in {AnyReason, q.reason}}

Before(q, r) ==
    \/ q.at.batch < r.at.batch
    \/ q.at.batch = r.at.batch /\ q.at.start < r.at.start

\* orderBy("quarantined_at").limit(args.limit)
Selections(f) ==
    {S \in SUBSET Pending(f) :
        /\ Cardinality(S) <= Limit
        /\ S # Pending(f) => Cardinality(S) = Limit
        /\ \A q \in S, r \in Pending(f) \ S : ~Before(r, q)}

----------------------------------------------------------------------------
ReplayInit ==
    /\ Init
    /\ reason = AnyReason
    /\ job = "none"
    /\ toSend = {} /\ audit = {} /\ sent = {}
    /\ replays = 0

\* Mutant: the audit append comes before the Kafka write.
ReplayStartAuditing(f) ==
    /\ job = "none"
    /\ replays < MaxReplays
    /\ Exclusive => pc = "down"
    /\ Pending(f) # {}
    /\ toSend' \in Selections(f)
    /\ audit' = audit \cup {q.offset : q \in toSend'}
    /\ reason' = f
    /\ job' = "sending"
    /\ replays' = replays + 1
    /\ UNCHANGED <<vars, sent>>

\* ensure_audit_table: an audit table that cannot be read, for whatever reason, is
\* overwritten by an empty one, in a dry run too.
LoseAudit ==
    /\ ~AuditReadable
    /\ job = "none" /\ audit # {}
    /\ audit' = {}
    /\ UNCHANGED <<vars, reason, job, toSend, replays, sent>>

\* The Kafka write starts: nothing to do when there are no candidates.
ReplayStart(f) ==
    /\ job = "none"
    /\ replays < MaxReplays
    /\ Exclusive => pc = "down"
    /\ Pending(f) # {}
    /\ toSend' \in Selections(f)
    /\ reason' = f
    /\ job' = "sending"
    /\ replays' = replays + 1
    /\ UNCHANGED <<vars, audit, sent>>

\* One record reaches the topic, with the key and value it had: its ts too.
ReplaySend(q) ==
    /\ q \in toSend
    /\ Len(log) < MaxLog
    /\ log' = Append(log, log[q.offset])
    /\ toSend' = toSend \ {q}
    /\ sent' = sent \cup {q.offset}
    /\ UNCHANGED <<latest, localShape, pc, progress, staging, quarantine,
                   drift, metrics, applied, reason, job, audit, replays>>

\* Mutant: the audit append ignores --reason.
ReplayAuditUnfiltered ==
    /\ job = "sending" /\ toSend = {}
    /\ \E S \in Selections(AnyReason) : audit' = audit \cup {q.offset : q \in S}
    /\ job' = "none"
    /\ UNCHANGED <<vars, reason, toSend, replays, sent>>

\* Mutant: the audit append takes the copies' offsets too.
ReplayAuditCopies ==
    /\ job = "sending" /\ toSend = {}
    /\ audit' = audit \cup {o \in DOMAIN log : \E q \in Pending(reason) : log[q.offset].ts = log[o].ts}
    /\ job' = "none"
    /\ UNCHANGED <<vars, reason, toSend, replays, sent>>

\* The audit append evaluates `pending` again.
ReplayAudit ==
    /\ job = "sending" /\ toSend = {}
    /\ \E S \in Selections(reason) : audit' = audit \cup {q.offset : q \in S}
    /\ job' = "none"
    /\ UNCHANGED <<vars, reason, toSend, replays, sent>>

\* The job dies between two writes, or among the records of the first.
ReplayCrash ==
    /\ job = "sending"
    /\ job' = "none"
    /\ toSend' = {}
    /\ UNCHANGED <<vars, reason, audit, replays, sent>>

StreamNext ==
    /\ Next
    /\ Exclusive /\ job = "sending" => pc' = "down"
    /\ UNCHANGED replayVars

ReplayStep ==
    \/ LoseAudit
    \/ \E f \in Filters : ReplayStart(f)
    \/ \E q \in toSend : ReplaySend(q)
    \/ ReplayAudit
    \/ ReplayCrash

ReplayNext == StreamNext \/ ReplayStep
ReplaySpec == ReplayInit /\ [][ReplayNext]_allVars

----------------------------------------------------------------------------
ReplayTypeOK ==
    /\ TypeOK
    /\ reason \in Filters \cup {AnyReason}
    /\ job \in {"none", "sending"}
    /\ toSend \subseteq quarantine
    /\ audit \subseteq Quarantined
    /\ sent \subseteq Quarantined
    /\ replays \in 0..MaxReplays

\* The copies of an event the job has published.
Copies(t) == {o \in DOMAIN log : o # t /\ log[o].ts = t}

\* An event the stream is past is never out of reach: it was applied, or it
\* still is a candidate for replay, or a copy of it was published after it,
\* of which the same can be said (docs/reliability.md: failures replayable).
NothingLost ==
    \A o \in 1..committed :
        \/ o \in applied
        \/ o \in Quarantined \ audit
        \/ \E c \in Copies(log[o].ts) : c > o

\* docs/reliability.md: the job appends successfully replayed source_event_id
\* values to the audit table.
AuditedWasReplayed == audit \subseteq sent

\* The anti-join's promise: the job never publishes a source event that an
\* earlier execution had put in the audit table.
AuditedNeverResent ==
    [][\A q \in toSend \ toSend' : Len(log') > Len(log) => q.offset \notin audit]_allVars
================================================================================
