---------------------------- MODULE MCMetricsTxn ----------------------------
(* Small instances of MetricsTxn for TLC. *)
EXTENDS MetricsTxn

\* Two series; the newest point is far enough ahead to expire the others.
SmallPoint == {[id |-> 1, key |-> "a", ts |-> 3], [id |-> 2, key |-> "b", ts |-> 3],
               [id |-> 3, key |-> "a", ts |-> 9]}
PairPoint == {[id |-> 1, key |-> "a", ts |-> 3], [id |-> 3, key |-> "b", ts |-> 9]}
=============================================================================
