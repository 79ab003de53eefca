----------------------------- MODULE SchemaContract -----------------------------
(****************************************************************************)
(* The schema rules of workspace/stream_processor.py: which registered Avro *)
(* schema meets the contract of a local .avsc file, and which lets the      *)
(* query be built at all.                                                   *)
(*                                                                          *)
(* A schema is a function from field names to Avro types.  A type is        *)
(* [base, temporal]: the name left when the null of a union and the nested  *)
(* "type" keys are taken away, and whether its logicalType or connect.name  *)
(* has "timestamp", "date" or "time" in it.                                 *)
(****************************************************************************)
CONSTANT Metadata   \* the names of fields that begin with "__"

ASSUME MetadataAssumption == {"__op", "__ts_ms"} \subseteq Metadata

\* The type the lakehouse sees: Debezium's timestamps become strings.
AvroTypeName(t) == IF t.temporal THEN "string" ELSE t.base

Business(schema) == DOMAIN schema \ Metadata

Added(expected, actual) == Business(actual) \ DOMAIN expected
Removed(expected, actual) == DOMAIN expected \ Business(actual)
Changed(expected, actual) ==
    {f \in DOMAIN expected \cap Business(actual) :
        AvroTypeName(expected[f]) # AvroTypeName(actual[f])}

\* Mutant: a field the contract does not know is not drift.
IsDriftUnlessAdded(expected, actual) ==
    Removed(expected, actual) \cup Changed(expected, actual) # {}

IsDrift(expected, actual) ==
    \/ Added(expected, actual) # {}
    \/ Removed(expected, actual) # {}
    \/ Changed(expected, actual) # {}

\* Columns the query selects from the decoded payload.  Spark resolves them
\* against the latest registered schema when the query is built, approved or
\* not, and raises an exception if one is missing.
Selected(local_schema) == DOMAIN local_schema \cup {"__op", "__ts_ms"}
Selectable(local_schema, registry_schema) ==
    Selected(local_schema) \subseteq DOMAIN registry_schema

\* What the contract is there to guarantee, said without the three diffs: both
\* sides have the same columns with the same downstream types.
Columns(schema, fields) == {<<f, AvroTypeName(schema[f])>> : f \in fields}
SameColumns(local_schema, registry_schema) ==
    Columns(local_schema, DOMAIN local_schema)
        = Columns(registry_schema, Business(registry_schema))
==================================================================================
