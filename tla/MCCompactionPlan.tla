-------------------------- MODULE MCCompactionPlan --------------------------
(* Small instances of CompactionPlan for TLC. *)
EXTENDS CompactionPlan

\* Three points of one series, two of them of one time, and one of another.
Few == {[id |-> 1, sid |-> 1, ts |-> 1], [id |-> 2, sid |-> 1, ts |-> 1],
        [id |-> 3, sid |-> 1, ts |-> 5], [id |-> 4, sid |-> 2, ts |-> 1]}

\* An empty table, or one with a chunk cut at an earlier, larger target.
Legacies == {{}, {[rowid |-> 1, sid |-> 1, enc |-> "pco", pts |-> {p \in Few : p.sid = 1}]}}

\* 'compact' asks for everything; a server's step leaves what is recent, and
\* the few raw chunks of a busy series.
Requests == {[cutoff |-> 9, raw |-> 1], [cutoff |-> 4, raw |-> 2]}
=============================================================================
