------------------------------ MODULE BlockTxn ------------------------------
(***************************************************************************)
(* The logs engine (timeless-core/src/blocks/engine.rs) under the host's   *)
(* transactions: entries buffered in memory, blocks in the shadow table    *)
(* (`rows.blocks'), the in-memory index of those blocks, and the           *)
(* transaction journal, a stack of undo frames, that must take the buffer  *)
(* and the index back wherever SQLite takes the shadow tables.             *)
(*                                                                         *)
(* One writer at a time runs these steps (module WriterGate).  An entry is *)
(* a record [id, ts, lvl]; a block is [id, ents, raw], all of one level.   *)
(***************************************************************************)
EXTENDS HostTxn, FiniteSetsExt, SequencesExt

CONSTANTS Entry,            \* the entries that can be inserted
          FlushThreshold,   \* BlockEngineConfig::flush_threshold
          Window,           \* retention windows, 0 for none
          Cutoff,           \* arguments of prune:<ts>
          FailuresUndone    \* TRUE: the host undoes a statement that failed

VARIABLES buffer,      \* BlockEngine::buffer
          index,       \* BlockEngine::index
          frames,      \* TxnJournal::frames; empty iff txn_active is false
          floor,       \* retention_floor: {} for i64::MIN, else {cutoff}
          retention,   \* retention_native
          failed,      \* the last statement returned a store error
          marks        \* history: the engine at the start and at each savepoint

engine == <<buffer, index, frames, floor, retention>>
vars == <<host, engine, failed, marks>>

\* Option::None as a frame's savepoint; SQLite's own ids start at -1.
NoSavepoint == -2

EntriesOf(bs) == UNION {b.ents : b \in bs}
Ids(bs) == {b.id : b \in bs}
TsMax(b) == Max({e.ts : e \in b.ents})

\* Vec::truncate
Truncate(s, n) == SubSeq(s, 1, Min({n, Len(s)}))

Live == Range(buffer) \cup EntriesOf(index)
Image == [live |-> Live, index |-> index]

-----------------------------------------------------------------------------
(***************************************************************************)
(* Mutated forms of the definitions below.                                 *)
(***************************************************************************)
SavePrefixKeepsMark(f, buf) == [f EXCEPT !.saved = @ \o Truncate(buf, f.mark)]

JournalForgetsCancel(f, gone, new) ==
  [f EXCEPT !.added = @ \cup Ids(new), !.removed = @ \cup gone]

MergeFrameUntruncated(p, c) ==
  [p EXCEPT !.mark = IF p.mark > 0 /\ c.saved # << >> THEN 0 ELSE @,
            !.saved = IF p.mark > 0 /\ c.saved # << >> THEN @ \o c.saved ELSE @,
            !.added = (@ \ Ids(c.removed)) \cup c.added,
            !.removed = @ \cup {b \in c.removed : b.id \notin p.added}]

MergeFrameDropsAdded(p, c) ==
  [p EXCEPT !.mark = IF p.mark > 0 /\ c.saved # << >> THEN 0 ELSE @,
            !.saved = IF p.mark > 0 /\ c.saved # << >>
                      THEN @ \o Truncate(c.saved, p.mark) ELSE @,
            !.added = @ \ Ids(c.removed),
            !.removed = @ \cup {b \in c.removed : b.id \notin p.added}]

UndoFrameWithoutSaved(f, s) ==
  [s EXCEPT !.buffer = Truncate(@, f.mark),
            !.index = {b \in @ : b.id \notin f.added} \cup f.removed]

FlushInnerKeepsBuffer(s) ==
  LET lv == {e.lvl : e \in Range(s.buffer)}
      new == {[id |-> Max(Ids(s.blocks) \cup {0}) + 1 + Cardinality({m \in lv : m < l}),
               ents |-> {e \in Range(s.buffer) : e.lvl = l}, raw |-> TRUE] : l \in lv}
      f == s.frames[Len(s.frames)]
  IN [s EXCEPT !.index = @ \cup new, !.blocks = @ \cup new,
               !.frames[Len(s.frames)] = [f EXCEPT !.added = @ \cup Ids(new)]]
-----------------------------------------------------------------------------
(***************************************************************************)
(* The journal: what a frame records and how it is undone.                 *)
(***************************************************************************)
\* reset_txn_frame
Frame(k) ==
  [sp |-> k, mark |-> Len(buffer), saved |-> << >>, added |-> {}, removed |-> {}]

\* Before anything moves the entries below the mark, they are copied aside.
SavePrefix(f, buf) ==
  IF f.mark > 0 THEN [f EXCEPT !.saved = @ \o SubSeq(buf, 1, f.mark), !.mark = 0] ELSE f

\* Removing a block this frame created cancels the creation.
Journal(f, gone, new) ==
  [f EXCEPT !.added = (@ \ Ids(gone)) \cup Ids(new),
            !.removed = @ \cup {b \in gone : b.id \notin f.added}]

\* merge_txn_frame
MergeFrame(p, c) ==
  LET takes == p.mark > 0 /\ c.saved # << >>
  IN [p EXCEPT !.mark = IF takes THEN 0 ELSE @,
               !.saved = IF takes THEN @ \o Truncate(c.saved, p.mark) ELSE @,
               !.added = (@ \ Ids(c.removed)) \cup c.added,
               !.removed = @ \cup {b \in c.removed : b.id \notin p.added}]

\* rollback_txn_frame
UndoFrame(f, s) ==
  [s EXCEPT !.buffer = Truncate(@, f.mark) \o f.saved,
            !.index = {b \in @ : b.id \notin f.added} \cup f.removed]

\* Frames from pos to the top undone, the newest first.
UndoDownTo(pos, s) == FoldRight(UndoFrame, SubSeq(s.frames, pos, Len(s.frames)), s)

\* The position of savepoint k's frame, {} when the journal has none.
FrameOf(k) ==
  LET at == {i \in DOMAIN frames : frames[i].sp = k}
  IN IF at = {} THEN {} ELSE {Min(at)}
-----------------------------------------------------------------------------
(***************************************************************************)
(* The operations, as functions of the engine and its block rows.          *)
(***************************************************************************)
State ==
  [buffer |-> buffer, index |-> index, frames |-> frames, floor |-> floor,
   blocks |-> rows.blocks]

Become(s) ==
  /\ buffer' = s.buffer /\ index' = s.index /\ frames' = s.frames /\ floor' = s.floor
  /\ HostWrite([rows EXCEPT !.blocks = s.blocks])

Top(s) == s.frames[Len(s.frames)]

\* Rowids are max + 1: the table is INTEGER PRIMARY KEY without AUTOINCREMENT.
NextId(bs) == Max(Ids(bs) \cup {0}) + 1

\* One raw block per level present, in level order.
FlushBlocks(s) ==
  LET lv == {e.lvl : e \in Range(s.buffer)}
  IN {[id |-> NextId(s.blocks) + Cardinality({m \in lv : m < l}),
       ents |-> {e \in Range(s.buffer) : e.lvl = l}, raw |-> TRUE] : l \in lv}

FlushInner(s) ==
  IF s.buffer = << >> THEN s
  ELSE LET new == FlushBlocks(s)
       IN [s EXCEPT !.buffer = << >>, !.index = @ \cup new, !.blocks = @ \cup new,
                    !.frames[Len(s.frames)] =
                       Journal(SavePrefix(Top(s), s.buffer), {}, new)]

PruneBefore(s, c) ==
  LET gone == {b \in s.index : TsMax(b) < c}
  IN [s EXCEPT !.buffer = SelectSeq(@, LAMBDA e : e.ts >= c),
               !.index = @ \ gone,
               !.blocks = {b \in @ : b.id \notin Ids(gone)},
               !.frames[Len(s.frames)] =
                  Journal(SavePrefix(Top(s), s.buffer), gone, {})]

\* The window is enforced when the cutoff has moved a slice past the floor.
ApplyRetention(s) ==
  LET held == Range(s.buffer) \cup EntriesOf(s.index)
      cutoff == Max({e.ts : e \in held}) - retention
      slice == Max({retention \div 16, 1})
  IN IF retention = 0 \/ held = {} \/ \E f \in s.floor : cutoff < f + slice THEN s
     ELSE [PruneBefore(s, cutoff) EXCEPT !.floor = {cutoff}]

\* What plan_optimize may select: disjoint groups of one level, raw blocks to
\* compress or at least two compressed ones to merge.
Mergeable(g) ==
  /\ \A x, y \in EntriesOf(g) : x.lvl = y.lvl
  /\ (\A b \in g : b.raw) \/ (Cardinality(g) > 1 /\ \A b \in g : ~b.raw)
Plans(idx) ==
  LET groups == {g \in SUBSET idx \ {{}} : Mergeable(g)}
  IN {p \in SUBSET groups \ {{}} : \A g, h \in p : g = h \/ g \cap h = {}}

Merged(s, plan) ==
  {[id |-> NextId(s.blocks) + Cardinality({h \in plan : Min(Ids(h)) < Min(Ids(g))}),
    ents |-> EntriesOf(g), raw |-> FALSE] : g \in plan}

\* optimize_inner: new rows in, index swapped, old rows out.
Swap(s, plan) ==
  LET gone == UNION plan
      new == Merged(s, plan)
  IN [s EXCEPT !.index = (@ \ gone) \cup new,
               !.blocks = {b \in @ : b.id \notin Ids(gone)} \cup new,
               !.frames[Len(s.frames)] = Journal(Top(s), gone, new)]

\* flush, with the compaction pass maybe_auto_optimize may ride on it.
Flushed(s) ==
  LET t == ApplyRetention(FlushInner(s))
  IN {t} \cup {ApplyRetention(Swap(t, p)) : p \in Plans(t.index)}

\* push / push_batch
Pushed(s, batch) ==
  LET t == [s EXCEPT !.buffer = @ \o batch]
  IN IF Len(t.buffer) >= FlushThreshold THEN Flushed(t) ELSE {t}

(***************************************************************************)
(* A store call may fail part-way; what each operation leaves behind.      *)
(***************************************************************************)
\* put_blocks wrote some of the rows; the buffer is sorted by (level, ts).
FlushFailures(s) ==
  IF s.buffer = << >> THEN {}
  ELSE {[s EXCEPT !.buffer = SortSeq(@, LAMBDA x, y : x.lvl < y.lvl \/ (x.lvl = y.lvl /\ x.ts < y.ts)),
                  !.blocks = @ \cup {b \in FlushBlocks(s) : b.id < n},
                  !.frames[Len(s.frames)] = SavePrefix(Top(s), s.buffer)]
          : n \in Ids(FlushBlocks(s)) \cup {NextId(s.blocks \cup FlushBlocks(s))}}

\* replace_blocks failed among its inserts, or after the index swap.
SwapFailures(s) ==
  UNION {{[s EXCEPT !.blocks = @ \cup {b \in Merged(s, p) : b.id < n}]
            : n \in Ids(Merged(s, p))}
         \cup {[Swap(s, p) EXCEPT !.blocks = s.blocks \cup Merged(s, p)]}
           : p \in Plans(s.index)}

\* delete_blocks failed: the buffer is already pruned, the index is not.
PruneFailures(s) ==
  {[PruneBefore(s, c) EXCEPT !.index = s.index, !.blocks = s.blocks,
                             !.frames[Len(s.frames)] = SavePrefix(Top(s), s.buffer)]
     : c \in {c \in Cutoff : \E b \in s.index : TsMax(b) < c}}
-----------------------------------------------------------------------------
(***************************************************************************)
(* The specification: statements of the table and hooks of the host.       *)
(***************************************************************************)
Init ==
  /\ \E w \in Window : retention = w /\ HostInit([blocks |-> {}, retention |-> w])
  /\ buffer = << >> /\ index = {} /\ frames = << >> /\ floor = {}
  /\ failed = FALSE /\ marks = << >>

Fresh == Entry \ (Live \cup UNION {marks[i].live : i \in DOMAIN marks})
Batches == {<<e>> : e \in Fresh} \cup {<<e, f>> : e, f \in Fresh}

Statement == joined /\ ~failed /\ UNCHANGED <<retention, failed, marks>>

Insert ==
  /\ Statement
  /\ \E batch \in {b \in Batches : IsInjective(b)} :
       \E t \in Pushed(State, batch) : Become(t)

Flush == Statement /\ \E t \in Flushed(State) : Become(t)

Optimize ==
  /\ Statement
  /\ \E p \in Plans(index) \cup {{}} : Become(ApplyRetention(Swap(State, p)))

Prune == Statement /\ \E c \in Cutoff : Become(PruneBefore(State, c))

SetRetention ==
  /\ joined /\ ~failed
  /\ \E w \in Window :
       retention' = w /\ HostWrite([rows EXCEPT !.retention = w])
  /\ UNCHANGED <<buffer, index, frames, floor, failed, marks>>

\* An INSERT reaches the store only when it fills the buffer to the threshold.
StoreFails ==
  /\ joined /\ ~failed
  /\ \E t \in FlushFailures(State) \cup SwapFailures(State) \cup PruneFailures(State)
              \cup UNION {FlushFailures([State EXCEPT !.buffer = @ \o <<e>>])
                           : e \in {x \in Fresh : Len(buffer) + 1 >= FlushThreshold}} :
       Become(t)
  /\ failed' = FailuresUndone
  /\ UNCHANGED <<retention, marks>>

Start ==
  /\ \E m \in StartModes : HostStart(m)
  /\ marks' = <<Image>>
  /\ UNCHANGED <<engine, failed>>

\* xBegin, and xSavepoint for the innermost open savepoint.
Join ==
  /\ HostJoin(rows)
  /\ frames' = <<Frame(NoSavepoint)>> \o (IF depth > 0 THEN <<Frame(depth - 1)>> ELSE << >>)
  /\ UNCHANGED <<buffer, index, floor, retention, failed, marks>>

Savepoint ==
  /\ ~failed /\ HostSavepoint(rows)
  /\ frames' = IF joined THEN Append(frames, Frame(depth)) ELSE frames
  /\ marks' = Append(marks, Image)
  /\ UNCHANGED <<buffer, index, floor, retention, failed>>

Release(k) ==
  /\ ~failed /\ HostRelease(k)
  /\ frames' = IF \E pos \in FrameOf(k) : pos > 1
               THEN LET pos == Min(FrameOf(k))
                    IN Append(SubSeq(frames, 1, pos - 2),
                              FoldLeft(MergeFrame, frames[pos - 1],
                                       SubSeq(frames, pos, Len(frames))))
               ELSE frames
  /\ marks' = SubSeq(marks, 1, k + 1)
  /\ UNCHANGED <<buffer, index, floor, retention, failed>>

RollbackTo(k) ==
  /\ HostRollbackTo(k)
  /\ failed => k = depth - 1
  /\ IF FrameOf(k) = {} THEN UNCHANGED <<buffer, index, frames>>
     ELSE LET pos == Min(FrameOf(k))
              s == UndoDownTo(pos, State)
          IN /\ buffer' = s.buffer /\ index' = s.index
             /\ frames' = Append(SubSeq(frames, 1, pos - 1),
                                 [Frame(k) EXCEPT !.mark = Len(s.buffer)])
  /\ failed' = FALSE /\ marks' = SubSeq(marks, 1, k + 2)
  /\ UNCHANGED <<floor, retention>>

Commit ==
  /\ ~failed /\ HostEnd(rows)
  /\ frames' = << >> /\ marks' = << >>
  /\ UNCHANGED <<buffer, index, floor, retention, failed>>

Rollback ==
  /\ HostEnd(saves[1])
  /\ buffer' = UndoDownTo(1, State).buffer /\ index' = UndoDownTo(1, State).index
  /\ frames' = << >> /\ marks' = << >> /\ failed' = FALSE
  /\ UNCHANGED <<floor, retention>>

\* The process dies or the last connection closes; BlockEngine::new rescans.
Reopen ==
  /\ HostCrash
  /\ buffer' = << >> /\ index' = Committed.blocks /\ frames' = << >> /\ floor' = {}
  /\ retention' = Committed.retention
  /\ marks' = << >> /\ failed' = FALSE

Step ==
  \/ Insert \/ Flush \/ Optimize \/ Prune \/ SetRetention \/ StoreFails
  \/ Start \/ Join \/ Savepoint \/ \E k \in 0 .. MaxDepth - 1 : Release(k)
  \/ \E k \in -1 .. MaxDepth - 1 : RollbackTo(k)
  \/ Commit \/ Rollback

Next == Step \/ Reopen

Spec == Init /\ [][Next]_vars
-----------------------------------------------------------------------------
Block == [id : Nat \ {0}, ents : SUBSET Entry, raw : BOOLEAN]

\* The journal is live exactly while the table is part of a transaction, the
\* newest mark is inside the buffer, and frames hold only entries and blocks.
TypeOK ==
  /\ buffer \in Seq(Entry) /\ index \subseteq Block
  /\ rows.blocks \subseteq Block /\ rows.retention \in Window /\ retention \in Window
  /\ floor \subseteq Int /\ failed \in BOOLEAN /\ (frames # << >>) = joined
  /\ joined => Top(State).mark <= Len(buffer)
  /\ \A i \in DOMAIN frames :
       /\ frames[i].mark \in Nat /\ frames[i].saved \in Seq(Entry)
       /\ frames[i].added \subseteq Nat /\ frames[i].removed \subseteq Block

\* The in-memory index lists exactly the block rows the writer's transaction
\* sees, through every flush, compaction, prune, rollback and partial release:
\* a query never looks for a row that is gone nor misses one that is there.
IndexIsRows == ~failed => index = rows.blocks

\* Every live entry is held once: in the buffer or in a single block.
EachOnce ==
  ~failed =>
    /\ IsInjective(buffer)
    /\ Range(buffer) \cap EntriesOf(rows.blocks) = {}
    /\ \A b, c \in rows.blocks : b = c \/ (b.id # c.id /\ b.ents \cap c.ents = {})

\* Undoing the frames down to a savepoint's own frame yields the engine as it
\* was when that savepoint opened: the entries live then and the same index.
UndoReaches(pos, image) ==
  LET s == UndoDownTo(pos, State)
  IN /\ Range(s.buffer) \cup EntriesOf(s.index) = image.live
     /\ s.index = image.index /\ IsInjective(s.buffer)

SavepointsRestorable ==
  \A i \in DOMAIN frames :
    frames[i].sp # NoSavepoint => UndoReaches(i, marks[frames[i].sp + 2])

\* ROLLBACK undoes the whole journal and so returns to the engine as it was
\* when the transaction began, whatever savepoints came and went inside it.
RollbackExact == frames # << >> => UndoReaches(1, marks[1])

\* ROLLBACK TO a savepoint removes the rows inserted since it was opened and
\* brings back those that left (txn_rollback_to behind xRollbackTo).
RollbackToRestores ==
  [][\A k \in -1 .. MaxDepth - 1 :
       RollbackTo(k) => (Live' = marks[k + 2].live /\ index' = rows'.blocks)]_vars

\* The last cutoff applied, which the next one must pass by a slice before
\* apply_retention prunes again, never runs ahead of the data the table holds.
FloorFollowsData ==
  \A f \in floor : \E e \in Live : f <= e.ts - retention

\* The retention window in force is the one the transaction's _meta row holds:
\* rolling back a retention: command rolls back the live setting too.
LiveRetentionIsStored == retention = rows.retention

\* The engine implements the table it promises (module TxnTable).
Table ==
  INSTANCE TxnTable WITH
    live <- Live, stored <- EntriesOf(index), window <- retention,
    marks <- [i \in DOMAIN marks |->
                [live |-> marks[i].live, stored |-> EntriesOf(marks[i].index)]]
ImplementsTable == Table!Spec
=============================================================================
