----------------------------- MODULE MCDbtLayers -----------------------------
(* Constants for the configurations that check DbtLayers. *)
EXTENDS DbtLayers

CONSTANTS u1, u2, o1, o2, i1, i2

\* Each user has an order, and every item is in the first user's.
MCUserOf == [o \in Orders |-> IF o = o1 THEN u1 ELSE u2]
MCOrderOf == [i \in Items |-> o1]
================================================================================
