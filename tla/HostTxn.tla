------------------------------- MODULE HostTxn -------------------------------
(***************************************************************************)
(* The host connection's transaction, as SQLite drives a virtual table's   *)
(* xBegin / xSavepoint / xRelease / xRollbackTo / xCommit / xRollback      *)
(* hooks.  SQLite is external code: this module is written from how        *)
(* vtab_tx.rs and the engines use it.                                      *)
(*                                                                         *)
(* `rows' is the committed-or-pending content of the shadow tables as the  *)
(* writing connection sees it.  saves[1] is their image at the start of    *)
(* the transaction and saves[k + 2] the image at savepoint k; SQLite       *)
(* numbers savepoints from 0, and the savepoint that itself started the    *)
(* transaction (SAVEPOINT outside BEGIN) is number -1.  A multi-row        *)
(* statement's implicit savepoint is a savepoint like any other.           *)
(*                                                                         *)
(* A virtual table joins the transaction at its first write.  Joining with *)
(* `depth' savepoints open makes SQLite call xBegin and then xSavepoint    *)
(* for the innermost one only; every later RELEASE and ROLLBACK TO is      *)
(* still reported, the ones of savepoints the table never saw included.    *)
(***************************************************************************)
EXTENDS Integers, Sequences

CONSTANTS MaxDepth,       \* bound: savepoints open at once
          MaxJoinDepth,   \* bound: savepoints open when the table joins
          StartModes      \* how transactions start: "begin", "savepoint"

VARIABLES mode,     \* "none" outside a transaction, else how it started
          depth,    \* number of savepoints open (0 .. depth-1)
          joined,   \* has the table's xBegin run in this transaction?
          rows,     \* the shadow tables, in the writer's view
          saves     \* their images at the start and at each savepoint

host == <<mode, depth, joined, rows, saves>>

HostInit(r) ==
  /\ mode = "none" /\ depth = 0 /\ joined = FALSE
  /\ rows = r /\ saves = << >>

HostStart(m) ==
  /\ mode = "none"
  /\ mode' = m /\ saves' = <<rows>>
  /\ UNCHANGED <<depth, joined, rows>>

\* r: the rows as the hooks that run on joining leave them.
HostJoin(r) ==
  /\ mode # "none" /\ ~joined /\ depth <= MaxJoinDepth
  /\ joined' = TRUE /\ rows' = r
  /\ UNCHANGED <<mode, depth, saves>>

\* A statement of the table writes its shadow tables.
HostWrite(r) ==
  /\ joined
  /\ rows' = r
  /\ UNCHANGED <<mode, depth, joined, saves>>

\* The hook runs before the image is taken, so what it writes (r) is kept.
HostSavepoint(r) ==
  /\ mode # "none" /\ depth < MaxDepth
  /\ rows' = r /\ saves' = Append(saves, r) /\ depth' = depth + 1
  /\ UNCHANGED <<mode, joined>>

HostRelease(k) ==
  /\ k \in 0 .. depth - 1
  /\ depth' = k /\ saves' = SubSeq(saves, 1, k + 1)
  /\ UNCHANGED <<mode, joined, rows>>

Rewindable == (IF mode = "savepoint" THEN -1 ELSE 0) .. depth - 1

HostRollbackTo(k) ==
  /\ k \in Rewindable
  /\ rows' = saves[k + 2] /\ depth' = k + 1 /\ saves' = SubSeq(saves, 1, k + 2)
  /\ UNCHANGED <<mode, joined>>

HostEnd(r) ==
  /\ mode # "none"
  /\ mode' = "none" /\ depth' = 0 /\ joined' = FALSE /\ saves' = << >>
  /\ rows' = r

\* What the database file holds: the writer is alone, so the last commit.
Committed == IF mode = "none" THEN rows ELSE saves[1]

\* The process dies: an open transaction is gone.
HostCrash ==
  /\ mode' = "none" /\ depth' = 0 /\ joined' = FALSE /\ saves' = << >>
  /\ rows' = Committed
=============================================================================
