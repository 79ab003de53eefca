------------------------------ MODULE MCDagRuns ------------------------------
(* Constants for the configurations that check DagRuns. *)
EXTENDS DagRuns

\* Events close together, and events further apart than the window.
MCGaps == {0, 2}
================================================================================
