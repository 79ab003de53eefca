----------------------------- MODULE MCCdcStream -----------------------------
(* Constants for the configurations that check CdcStream. *)
EXTENDS CdcStream

CONSTANTS k1, k2

Text == [base |-> "string", temporal |-> FALSE]
Micros == [base |-> "long", temporal |-> TRUE]

\* A contract of a key and a time, kept as a string, and one with a field more.
Narrow == [id |-> Text, created_at |-> Text]
Wide == [id |-> Text, created_at |-> Text, status |-> Text]

\* As Debezium registers them: the time is a long, __op and __ts_ms are added.
NarrowAvro == [id |-> Text, created_at |-> Micros, __op |-> Text, __ts_ms |-> Micros]
WideAvro == [id |-> Text, created_at |-> Micros, status |-> Text,
             __op |-> Text, __ts_ms |-> Micros]

MCMetadata == {"__op", "__ts_ms"}
MCShapes == {Narrow, Wide}
MCTwoSchemas == <<NarrowAvro, WideAvro>>
MCOneSchema == <<NarrowAvro>>

\* The producer drops a column of the contract.
MCWideOnly == {Wide}
MCFieldRemoved == <<WideAvro, NarrowAvro>>

Event(s, i, o) == [schema |-> s, id |-> i, op |-> o]

\* A key that is inserted, deleted, and inserted under a wider schema, and an
\* update of a second key.
TwoKeys == {Event(1, k1, "c"), Event(1, k1, "d"), Event(2, k1, "c"), Event(1, k2, "u")}

\* Every reason for quarantine: a schema id that is missing, or that nobody has
\* registered, no key, an unknown operation.
Damaged == {Event(1, k1, "u"), Event(2, k1, "u"), Event(1, Null, Null),
            Event(0, Null, Null), Event(3, Null, Null), Event(1, k1, "t")}

\* One key, inserted.
OneInsert == {Event(1, k1, "c")}
==============================================================================
