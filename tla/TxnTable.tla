------------------------------- MODULE TxnTable -------------------------------
(***************************************************************************)
(* What a buffered table promises its host (README.md, "Durability and     *)
(* transactions"): rows are live as soon as they are inserted and stored   *)
(* once flushed; ROLLBACK and ROLLBACK TO put the live rows AND the stored *)
(* ones back where they were; a crash keeps what the last commit stored;   *)
(* and rows leave the table only through prune or the retention window.    *)
(***************************************************************************)
EXTENDS Integers, Sequences

CONSTANTS Entry,     \* the rows that can be inserted, each with a ts
          Cutoff,    \* the arguments prune:<ts> is called with
          Window     \* the retention windows, 0 for none

VARIABLES live,      \* the rows a query on this process returns
          stored,    \* the rows that reached the shadow tables
          window,    \* the retention window in force
          marks      \* [live, stored] at the start and at each savepoint

table == <<live, stored, window, marks>>

Now == [live |-> live, stored |-> stored]
InTxn == marks # << >>

Expired(rs) == {e \in rs : window # 0 /\ \E f \in rs : e.ts < f.ts - window}

Init == live = {} /\ stored = {} /\ window \in Window /\ marks = << >>

Start == ~InTxn /\ marks' = <<Now>> /\ UNCHANGED <<live, stored, window>>

Savepoint == InTxn /\ marks' = Append(marks, Now) /\ UNCHANGED <<live, stored, window>>

Release ==
  \E k \in 1 .. Len(marks) - 1 :
    marks' = SubSeq(marks, 1, k) /\ UNCHANGED <<live, stored, window>>

RollbackTo ==
  \E k \in 1 .. Len(marks) :
    /\ live' = marks[k].live /\ stored' = marks[k].stored
    /\ marks' = SubSeq(marks, 1, k) /\ UNCHANGED window

Commit == InTxn /\ marks' = << >> /\ UNCHANGED <<live, stored, window>>

Rollback ==
  /\ InTxn /\ marks' = << >>
  /\ live' = marks[1].live /\ stored' = marks[1].stored /\ UNCHANGED window

Insert(new) ==
  InTxn /\ live' = live \cup new /\ UNCHANGED <<stored, window, marks>>

\* Everything live becomes stored, less what the window lets go.
Flush(rs) ==
  /\ InTxn
  /\ \E gone \in SUBSET Expired(rs) : live' = rs \ gone
  /\ stored' = live' /\ UNCHANGED <<window, marks>>

Drop(gone) ==
  /\ InTxn /\ live' = live \ gone /\ stored' = stored \ gone
  /\ UNCHANGED <<window, marks>>

Retain == \E gone \in SUBSET Expired(live) : Drop(gone)

Prune == \E c \in Cutoff : \E gone \in SUBSET {e \in live : e.ts < c} : Drop(gone)

SetWindow == InTxn /\ window' \in Window /\ UNCHANGED <<live, stored, marks>>

\* The process dies: the buffered tail goes, the committed rows stay.
Crash ==
  /\ stored' = IF InTxn THEN marks[1].stored ELSE stored
  /\ live' = stored' /\ marks' = << >> /\ window' \in Window

Next ==
  \/ Start \/ Savepoint \/ Release \/ RollbackTo \/ Commit \/ Rollback
  \/ \E new \in SUBSET (Entry \ live) : Insert(new) \/ Flush(live \cup new)
  \/ Retain \/ Prune \/ SetWindow \/ Crash

Spec == Init /\ [][Next]_table
=============================================================================
