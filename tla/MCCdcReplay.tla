----------------------------- MODULE MCCdcReplay -----------------------------
(* Constants for the configurations that check CdcReplay. *)
EXTENDS CdcReplay

CONSTANT k1

Text == [base |-> "string", temporal |-> FALSE]
Known == [id |-> Text]
Grown == [id |-> Text, status |-> Text]

\* The registered schema has a field that the contract may lack at first: its
\* records are quarantined until the contract is updated.
MCMetadata == {"__op", "__ts_ms"}
MCShapes == {Known, Grown}
MCSchemaShape == <<[id |-> Text, status |-> Text, __op |-> Text, __ts_ms |-> Text]>>

\* An update of one key, and a record whose operation is unknown to the stream.
Updates == {[schema |-> 1, id |-> k1, op |-> o] : o \in {"u", "t"}}
==============================================================================
