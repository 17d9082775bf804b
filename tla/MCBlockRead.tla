---------------------------- MODULE MCBlockRead ----------------------------
(* Small instances of BlockRead for TLC. *)
EXTENDS BlockRead

PairEntry == {[id |-> 1, ts |-> 3, lvl |-> 0], [id |-> 3, ts |-> 9, lvl |-> 0]}
=============================================================================
