------------------------------ MODULE BlockRead ------------------------------
(***************************************************************************)
(* A SELECT on the logs table by a connection that is not the writer.      *)
(* SQLite takes the connection's snapshot of the shadow tables when the    *)
(* statement (or its read transaction) starts, before xFilter runs.        *)
(* xFilter then asks for the read permit, which another connection's       *)
(* joined transaction refuses, and only then does snapshot_query list the  *)
(* blocks (rows of the snapshot) and copy the engine's buffer.             *)
(***************************************************************************)
EXTENDS BlockTxn

VARIABLES snap,      \* << >>, or the block rows the read transaction sees
          result,    \* << >>, or [stored, buffered]: what the last query returned
          refused,   \* the last query ended in the busy-style error
          due        \* history: the committed entries when the snapshot was taken

read == <<snap, result, refused, due>>
allVars == <<vars, read>>

\* What the table holds for a connection outside the writer's transaction.
CommittedLive == IF mode = "none" THEN Live ELSE marks[1].live

ReadInit == Init /\ snap = << >> /\ result = << >> /\ refused = FALSE /\ due = {}
-----------------------------------------------------------------------------
(* Mutated forms of the definitions below. *)
FilterWithoutPermit ==
  /\ snap # << >> /\ result = << >>
  /\ result' = <<[stored |-> EntriesOf(snap[1]), buffered |-> buffer]>>
  /\ refused' = FALSE
  /\ UNCHANGED <<vars, snap, due>>
-----------------------------------------------------------------------------
OpenSnapshot ==
  /\ snap = << >>
  /\ snap' = <<Committed.blocks>> /\ due' = CommittedLive
  /\ result' = << >> /\ refused' = FALSE
  /\ UNCHANGED vars

\* acquire_read succeeds, snapshot_query runs, the permit is dropped.
Filter ==
  /\ snap # << >> /\ ~joined
  /\ result' = <<[stored |-> EntriesOf(snap[1]), buffered |-> buffer]>>
  /\ refused' = FALSE
  /\ UNCHANGED <<vars, snap, due>>

\* acquire_read refuses at once: a writer holds the gate.
FilterBusy ==
  /\ snap # << >> /\ joined
  /\ refused' = TRUE /\ result' = << >>
  /\ UNCHANGED <<vars, snap, due>>

CloseSnapshot ==
  /\ snap # << >>
  /\ snap' = << >> /\ result' = << >> /\ refused' = FALSE /\ due' = {}
  /\ UNCHANGED vars

\* The result is dated by the step that computed it.  An entry the reader may
\* hold enters the table again only when a rollback brings it back.
WriterStep ==
  /\ result = << >> /\ (Step \/ (snap = << >> /\ Reopen)) /\ UNCHANGED read
  /\ \A e \in (Live' \ Live) \cap due : \E i \in DOMAIN marks : e \in marks[i].live

ReadNext == WriterStep \/ OpenSnapshot \/ Filter \/ FilterBusy \/ CloseSnapshot

ReadSpec == ReadInit /\ [][ReadNext]_allVars
-----------------------------------------------------------------------------
Returned == IF result = << >> THEN {} ELSE result[1].stored \cup Range(result[1].buffered)

\* A query returns no entry another connection has not committed: what it takes
\* from the shared buffer belongs to no open transaction (the permit).
ReadsOnlyCommitted ==
  Returned \subseteq CommittedLive \cup due

\* No entry comes back twice, once from a block and once from the buffer, though
\* blocks are read from an older snapshot than the buffer.
ReadsOnce ==
  result # << >> =>
    /\ IsInjective(result[1].buffered)
    /\ result[1].stored \cap Range(result[1].buffered) = {}

\* Committed entries are visible to every other connection at once, flushed or
\* not: a query that is answered returns all that were there when it began.
ReadSeesCommitted == result # << >> => due \subseteq Returned

\* Buffered rows can be read from any connection before COMMIT: no query is
\* turned away because a writer's transaction is open.
NeverRefused == ~refused
=============================================================================
