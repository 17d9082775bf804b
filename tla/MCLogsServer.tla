---------------------------- MODULE MCLogsServer ----------------------------
(* Small instances of LogsServer for TLC. *)
EXTENDS LogsServer

\* A batch that leaves a gate of two a unit, and one larger than the gate.
Batches == {"r1", "r2"}
BatchUnits == [r1 |-> 1, r2 |-> 3]
=============================================================================
