----------------------------- MODULE MCBlockTxn -----------------------------
(* Small instances of BlockTxn for TLC. *)
EXTENDS BlockTxn

\* Two levels; one entry far enough ahead to expire the others.
SmallEntry == {[id |-> 1, ts |-> 3, lvl |-> 0], [id |-> 2, ts |-> 3, lvl |-> 1],
               [id |-> 3, ts |-> 9, lvl |-> 0]}
PairEntry == {[id |-> 1, ts |-> 3, lvl |-> 0], [id |-> 3, ts |-> 9, lvl |-> 0]}
=============================================================================
