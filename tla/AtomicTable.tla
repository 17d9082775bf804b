----------------------------- MODULE AtomicTable -----------------------------
(***************************************************************************)
(* What the metrics table promises its host (docs/SQL_API_REFERENCE.md,    *)
(* "Durability and transactions"): its points are transactional rows.      *)
(* What a transaction wrote is all there when it commits, all gone when it *)
(* rolls back, and a crash loses no committed point.                       *)
(***************************************************************************)
EXTENDS Integers, Sequences

CONSTANTS Point,     \* the points that can be written, each with a ts
          Cutoff,    \* the arguments prune:<ts> is called with
          Window     \* the retention window, 0 for none

VARIABLES points,    \* what the writing connection finds in the table
          marks      \* the same at the start and at each savepoint

table == <<points, marks>>

InTxn == marks # << >>

Init == points = {} /\ marks = << >>

Start == ~InTxn /\ marks' = <<points>> /\ UNCHANGED points

\* Retention lets go of what is a window behind the newest point.
Retained(ps) ==
  {ps \ gone : gone \in SUBSET {p \in ps : Window # 0 /\ \E q \in ps : p.ts < q.ts - Window}}

Write(new) ==
  InTxn /\ points' \in Retained(points \cup new) /\ UNCHANGED marks

Prune(c) ==
  /\ InTxn /\ UNCHANGED marks
  /\ \E kept \in Retained(points) :
       \E gone \in SUBSET {p \in kept : p.ts < c} : points' = kept \ gone

Savepoint ==
  InTxn /\ points' \in Retained(points) /\ marks' = Append(marks, points')

Release == \E k \in 1 .. Len(marks) - 1 : marks' = SubSeq(marks, 1, k) /\ UNCHANGED points

RollbackTo ==
  \E k \in 1 .. Len(marks) : points' = marks[k] /\ marks' = SubSeq(marks, 1, k)

Commit == InTxn /\ points' \in Retained(points) /\ marks' = << >>

\* The same for ROLLBACK and for a crash: a crash outside a transaction
\* changes nothing.
Rollback == InTxn /\ points' = marks[1] /\ marks' = << >>

Next ==
  \/ Start \/ Savepoint \/ Release \/ RollbackTo \/ Commit \/ Rollback
  \/ \E new \in SUBSET (Point \ points) : Write(new)
  \/ \E c \in Cutoff : Prune(c)

Spec == Init /\ [][Next]_table
=============================================================================
