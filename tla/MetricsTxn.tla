----------------------------- MODULE MetricsTxn -----------------------------
(***************************************************************************)
(* The metrics engine (timeless-core/src/engine.rs, metrics_vtab.rs) under *)
(* the host's transactions.  Everything durable is rows: chunks of points, *)
(* the series catalog, the rollup ladder in _meta.  In memory the engine   *)
(* keeps the points the open transaction wrote and has not stored, and     *)
(* what it worked out from rows: series ids by identity, totals, the       *)
(* retention floor, the ladder in force.  A journal frame notes only what  *)
(* a rollback would leave wrong among those.                               *)
(*                                                                         *)
(* A point is a record [id, key, ts], key standing for name and labels; a  *)
(* series row is [id, key]; a chunk row is [id, sid, pts].                 *)
(***************************************************************************)
EXTENDS HostTxn, FiniteSetsExt, SequencesExt

CONSTANTS Point,            \* the points that can be written
          FlushThreshold,   \* points of one series that make a chunk
          MemoryBudget,     \* points buffered in all before the largest go
          CacheSize,        \* capacity of the resolve cache
          Window,           \* the retention window, 0 for none
          Cutoff,           \* arguments of prune:<ts>
          Ladder,           \* rollup ladders that rollups:<spec> can set
          OtherProcess,     \* TRUE: another process writes the file too
          MaxId,            \* bound: it writes while row ids are below this
          FailuresUndone,   \* TRUE: the host undoes a statement that failed
          QueryOnly         \* TRUE: the writer may read under PRAGMA query_only

VARIABLES eng,        \* the engine, see Engine below
          foreign,    \* the rows moved past catalog_gen in another process
          failed,     \* the last statement returned a store error
          accepted,   \* history: the points of statements that succeeded
          marks       \* history: [points, accepted] at the start and savepoints

vars == <<host, eng, foreign, failed, accepted, marks>>

NoSavepoint == -2

\* rows and the engine's memory, as one record the operations map.
State == [eng |-> eng, rows |-> rows]

EmptyEngine(l) ==
  [buffer |-> {},      \* partitions: {[sid, p]}
   cache  |-> {},      \* ResolveCache: {[id, key]}
   totals |-> {},      \* chunk_totals: {} or {[n, points, newest]}
   floor  |-> {},      \* retention_floor: {} for i64::MIN
   bound  |-> 0,       \* raw_ts_upper_bound
   ladder |-> l,       \* rollup_tiers
   frames |-> << >>]   \* TxnJournal::frames: [sp, changed, before]

PointsOf(cs) == UNION {c.pts : c \in cs}
Newest(ps) == Max({0} \cup {p.ts : p \in ps})

\* What a query of the writing connection finds: points under a series row of
\* their own identity, buffered ones included (the read stores them first).
Contents ==
  {p \in Point : \E r \in rows.series :
     /\ r.key = p.key
     /\ [sid |-> r.id, p |-> p] \in eng.buffer
        \/ \E c \in rows.chunks : c.sid = r.id /\ p \in c.pts}

Image == [points |-> Contents, accepted |-> accepted]
-----------------------------------------------------------------------------
(* Mutated forms of the definitions below. *)
UndoFrameKeepsCache(f, e) ==
  [e EXCEPT !.totals = {}, !.floor = {},
            !.ladder = IF f.before = {} THEN @ ELSE CHOOSE l \in f.before : TRUE]

MergeFrameForgetsChange(p, c) ==
  [p EXCEPT !.before = IF @ = {} THEN c.before ELSE @]

MergeFrameTakesChild(p, c) ==
  [p EXCEPT !.before = IF c.before = {} THEN @ ELSE c.before,
            !.changed = @ \/ c.changed]

MovedIgnoresRemoved(t, new, gone) ==
  {[n |-> x.n + Cardinality(new), points |-> x.points,
    newest |-> Max({x.newest, Newest(PointsOf(new))})] : x \in t}

UndoDownToLeavesFrame(pos, e) ==
  [FoldRight(UndoFrameKeepsCache, SubSeq(e.frames, pos, Len(e.frames)), e) EXCEPT
     !.buffer = {}, !.cache = {}, !.frames = SubSeq(@, 1, pos)]

UndoDownToKeepsBuffer(pos, e) ==
  [FoldRight(UndoFrameKeepsCache, SubSeq(e.frames, pos, Len(e.frames)), e) EXCEPT
     !.cache = {}, !.frames = SubSeq(@, 1, pos - 1)]

StoreBufferedNothing(s) == s

RefreshNothing(e) == e

RefreshKeepsTotals(e) == IF foreign THEN [e EXCEPT !.cache = {}] ELSE e
-----------------------------------------------------------------------------
(***************************************************************************)
(* The journal.                                                            *)
(***************************************************************************)
Frame(k) == [sp |-> k, changed |-> FALSE, before |-> {}]

\* merge_txn_frame
MergeFrame(p, c) ==
  [p EXCEPT !.before = IF @ = {} THEN c.before ELSE @, !.changed = @ \/ c.changed]

\* rollback_txn_frame
UndoFrame(f, e) ==
  [e EXCEPT !.totals = {}, !.floor = {},
            !.ladder = IF f.before = {} THEN @ ELSE CHOOSE l \in f.before : TRUE,
            !.cache = IF f.changed THEN {} ELSE @]

\* Undo the frames from pos to the top, newest first, and drop the buffers.
UndoDownTo(pos, e) ==
  [FoldRight(UndoFrame, SubSeq(e.frames, pos, Len(e.frames)), e) EXCEPT
     !.buffer = {}, !.frames = SubSeq(@, 1, pos - 1)]

FrameOf(k) ==
  LET at == {i \in DOMAIN eng.frames : eng.frames[i].sp = k}
  IN IF at = {} THEN {} ELSE {Min(at)}
-----------------------------------------------------------------------------
(***************************************************************************)
(* The operations, as functions of State.                                  *)
(***************************************************************************)
\* resolve_series: the cache, then the catalog row, then a new row (max + 1).
Resolve(s, k) ==
  LET hit == {c \in s.eng.cache : c.key = k}
      row == {r \in s.rows.series : r.key = k}
      new == [id |-> Max({0} \cup {r.id : r \in s.rows.series}) + 1, key |-> k]
      r == IF hit # {} THEN CHOOSE c \in hit : TRUE
           ELSE IF row # {} THEN CHOOSE c \in row : TRUE ELSE new
      e == [s.eng EXCEPT
              !.cache = IF hit = {} /\ Cardinality(@) < CacheSize THEN @ \cup {r} ELSE @,
              !.frames[Len(s.eng.frames)].changed = @ \/ (hit = {} /\ row = {})]
  IN [id |-> r.id,
      s |-> [eng |-> e, rows |-> [s.rows EXCEPT !.series = IF hit = {} THEN @ \cup {r} ELSE @]]]

\* write_point_at
WritePoint(s, p) ==
  LET r == Resolve(s, p.key)
  IN [r.s EXCEPT !.eng.buffer = @ \cup {[sid |-> r.id, p |-> p]},
                 !.eng.bound = Max({@, p.ts})]

TotalsOf(cs) ==
  [n |-> Cardinality(cs), points |-> MapThenSumSet(LAMBDA c : Cardinality(c.pts), cs),
   newest |-> Newest(PointsOf(cs))]

\* chunks_moved: the cached totals follow chunks added and removed.
Moved(t, new, gone) ==
  LET x == CHOOSE y \in t : TRUE
      left == x.n + Cardinality(new) - Cardinality(gone)
  IN IF t = {} \/ left <= 0 THEN {}
     ELSE {[n |-> left,
            points |-> x.points + TotalsOf(new).points - TotalsOf(gone).points,
            newest |-> Max({x.newest, Newest(PointsOf(new))})]}

NextChunk(s) == Max({0} \cup {c.id : c \in s.rows.chunks}) + 1
Buffered(s, sid) == {x.p : x \in {y \in s.eng.buffer : y.sid = sid}}
Sids(s) == {x.sid : x \in s.eng.buffer}

\* Drain the buffers of these series into one chunk each, in series order.
Chunked(s, sids) ==
  {[id |-> NextChunk(s) + Cardinality({x \in sids : x < sid}), sid |-> sid,
    pts |-> Buffered(s, sid)] : sid \in sids}
Drain(s, sids) == [s EXCEPT !.eng.buffer = {x \in @ : x.sid \notin sids}]
Store(s, sids) ==
  [Drain(s, sids) EXCEPT !.rows.chunks = @ \cup Chunked(s, sids),
                         !.eng.totals = Moved(@, Chunked(s, sids), {})]

\* raw_high_water: reads the totals again if they were forgotten.
ReadHighWater(s) ==
  LET t == IF s.eng.totals = {} THEN {TotalsOf(s.rows.chunks)} ELSE s.eng.totals
      top == (CHOOSE x \in t : TRUE).newest
  IN [s EXCEPT !.eng.totals = t, !.eng.bound = Max({@, top})]
HighWater(s) == (CHOOSE x \in s.eng.totals : TRUE).newest

DeleteBefore(s, c) ==
  [s EXCEPT !.rows.chunks = {x \in @ : Newest(x.pts) >= c}, !.eng.totals = {}]

RemoveSeriesWithoutData(s) ==
  LET doomed == {r \in s.rows.series : r.id \notin {c.sid : c \in s.rows.chunks} \cup Sids(s)}
  IN IF doomed = {} THEN s
     ELSE [s EXCEPT !.rows.series = @ \ doomed, !.eng.cache = {},
                    !.eng.frames[Len(s.eng.frames)].changed = TRUE]

ApplyRetention(s) ==
  LET slice == Max({Window \div 16, 1})
      behind(ts) == \E f \in s.eng.floor : ts < f + slice
      t == ReadHighWater(s)
      hw == HighWater(t)
      u == DeleteBefore(t, hw - Window)
      v == IF u.rows = t.rows THEN u ELSE RemoveSeriesWithoutData(u)
  IN IF Window = 0 \/ behind(s.eng.bound) THEN s
     ELSE IF hw = 0 \/ behind(hw) THEN t
     ELSE [v EXCEPT !.eng.floor = {hw}]

FlushAll(s) == ApplyRetention(Store(s, Sids(s)))
StoreBuffered(s) == IF s.eng.buffer = {} THEN s ELSE FlushAll(s)

\* after_ingest: flush_pending, then flush_by_memory.
Full(s) == {sid \in Sids(s) : Cardinality(Buffered(s, sid)) >= FlushThreshold}
FlushPending(s) == IF Full(s) = {} THEN s ELSE ApplyRetention(Store(s, Full(s)))
AfterIngest(s) ==
  LET t == FlushPending(s)
  IN IF Cardinality(t.eng.buffer) <= MemoryBudget THEN {t}
     ELSE {Store(t, sids) : sids \in SUBSET Sids(t) \ {{}}}

\* A compaction step merges chunks of one series, or finds nothing to merge.
Compacted(s) ==
  LET merge(g) == [id |-> NextChunk(s), sid |-> (CHOOSE c \in g : TRUE).sid, pts |-> PointsOf(g)]
      groups == {g \in SUBSET s.rows.chunks :
                   Cardinality(g) > 1 /\ \A c, d \in g : c.sid = d.sid}
  IN {s} \cup {[s EXCEPT !.rows.chunks = (@ \ g) \cup {merge(g)},
                         !.eng.totals = Moved(@, {merge(g)}, g)] : g \in groups}

\* The rollup pass after it reads the high-water mark if a ladder is set.
RolledUp(s) == IF s.eng.ladder = "none" THEN s ELSE ReadHighWater(s)

\* set_rollups_transactional
ChangeLadder(s, l) ==
  IF s.eng.ladder = l THEN s
  ELSE [s EXCEPT !.eng.ladder = l, !.eng.floor = {},
                 !.eng.frames[Len(s.eng.frames)].before = IF @ = {} THEN {s.eng.ladder} ELSE @]

(***************************************************************************)
(* A store call may fail part-way; what each one leaves behind.            *)
(***************************************************************************)
\* The series row, or its label postings, could not be written: a row that is
\* there is in neither the cache nor the journal.
ResolveFailures(s, k) ==
  {t \in {s, [s EXCEPT !.rows = Resolve(s, k).s.rows]} : \A c \in s.eng.cache : c.key # k}

\* put_chunks: the buffers were drained, some chunk rows are written and the
\* totals were not moved.
PutFailures(s, sids) ==
  {[Drain(s, sids) EXCEPT !.rows.chunks = @ \cup done]
     : done \in {d \in SUBSET Chunked(s, sids) : sids # {}}}

\* delete_before: the chunk rows are there or gone, the totals are forgotten.
DeleteFailures(s, c) == {[s EXCEPT !.eng.totals = {}], DeleteBefore(s, c)}

\* apply_retention: its delete, or the removal of series that comes after it,
\* when the cache is dropped already and some of the rows are still there.
RetentionFailures(s) ==
  LET t == ReadHighWater(s)
      u == DeleteBefore(t, HighWater(t) - Window)
      v == RemoveSeriesWithoutData(u)
  IN IF ApplyRetention(s).eng.floor = s.eng.floor THEN {}
     ELSE DeleteFailures(t, HighWater(t) - Window)
          \cup {[v EXCEPT !.rows.series = @ \cup left]
                  : left \in {l \in SUBSET u.rows.series : u.rows # t.rows}}

\* replace_chunks: the merged row is in and the old ones are not out, before or
\* after the totals moved.
ReplaceFailures(s) ==
  UNION {{[s EXCEPT !.rows.chunks = @ \cup t.rows.chunks],
          [t EXCEPT !.rows.chunks = @ \cup s.rows.chunks]} : t \in Compacted(s)}

\* An INSERT of p reaches the store for a series it has not cached, for the
\* buffers at the threshold, and for the largest ones over the budget.
InsertFailures(s, p) ==
  LET w == WritePoint(s, p)
      t == FlushPending(w)
  IN ResolveFailures(s, p.key)
     \cup PutFailures(w, Full(w))
     \cup (IF Full(w) = {} THEN {} ELSE RetentionFailures(Store(w, Full(w))))
     \cup UNION {PutFailures(t, sids)
                   : sids \in {x \in SUBSET Sids(t) : Cardinality(t.eng.buffer) > MemoryBudget}}

\* 'flush', and the store_buffered of every command.
FlushFailures(s) == PutFailures(s, Sids(s)) \cup RetentionFailures(Store(s, Sids(s)))
-----------------------------------------------------------------------------
(***************************************************************************)
(* The specification: statements of the table and hooks of the host.       *)
(***************************************************************************)
Init ==
  /\ \E l \in Ladder : eng = EmptyEngine(l) /\ HostInit([chunks |-> {}, series |-> {}, ladder |-> l])
  /\ foreign = FALSE /\ failed = FALSE /\ accepted = {} /\ marks = << >>

Become(t) == eng' = t.eng /\ HostWrite(t.rows)

\* A statement that succeeds: the points it writes are accepted, and what
\* retention or a prune takes is no longer owed.
Succeeds(new) ==
  /\ accepted' = (accepted \cup new) \ ((Contents \cup new) \ Contents')
  /\ UNCHANGED <<foreign, failed, marks>>
Statement == joined /\ ~failed

Fresh == Point \ (accepted \cup Contents \cup UNION {marks[i].points : i \in DOMAIN marks})

Insert ==
  /\ Statement
  /\ \E p, q \in Fresh :
       /\ \E t \in AfterIngest(WritePoint(WritePoint(State, p), q)) : Become(t)
       /\ Succeeds({p, q})

\* 'flush', or a read of the table by the transaction's own connection.
Flush == Statement /\ Become(FlushAll(State)) /\ Succeeds({})

\* 'compact-step:<n>', and 'compact', which applies retention as well.
Compact ==
  /\ Statement
  /\ \E t \in Compacted(StoreBuffered(State)) :
       Become(RolledUp(t)) \/ Become(RolledUp(ApplyRetention(t)))
  /\ Succeeds({})

Prune ==
  Statement /\ (\E c \in Cutoff : Become(DeleteBefore(StoreBuffered(State), c))) /\ Succeeds({})

SetLadder ==
  /\ Statement
  /\ \E l \in Ladder :
       Become([ChangeLadder(StoreBuffered(State), l) EXCEPT !.rows.ladder = l])
  /\ Succeeds({})

\* A statement fails because one of its store calls did.
StoreFails ==
  /\ Statement
  /\ \E t \in FlushFailures(State) \cup ReplaceFailures(StoreBuffered(State))
              \cup UNION {DeleteFailures(StoreBuffered(State), c) : c \in Cutoff}
              \cup UNION {InsertFailures(State, p) : p \in Fresh} :
       Become(t)
  /\ failed' = FailuresUndone
  /\ UNCHANGED <<foreign, accepted, marks>>

\* store_own_writes cannot write: the SELECT fails, which undoes nothing.
ReadRefused ==
  /\ QueryOnly /\ Statement /\ eng.buffer # {}
  /\ Become(Drain(State, Sids(State)))
  /\ UNCHANGED <<foreign, failed, accepted, marks>>

Start ==
  /\ \E m \in StartModes : HostStart(m)
  /\ marks' = <<Image>>
  /\ UNCHANGED <<eng, foreign, failed, accepted>>

\* refresh_authoritative_state: the generation is not the one last published.
Refresh(e) == IF foreign THEN [e EXCEPT !.cache = {}, !.totals = {}] ELSE e

\* xBegin: refresh_authoritative_state, reload_configuration, txn_begin; then
\* xSavepoint for the innermost open savepoint.
Join ==
  LET e == [Refresh(eng) EXCEPT
                       !.floor = IF eng.ladder # rows.ladder THEN {} ELSE @,
                       !.ladder = rows.ladder,
                       !.frames = <<Frame(NoSavepoint)>>]
      t == IF depth = 0 THEN [eng |-> e, rows |-> rows]
           ELSE FlushAll([eng |-> e, rows |-> rows])
  IN /\ ~failed /\ HostJoin(t.rows)
     /\ eng' = IF depth = 0 THEN t.eng ELSE [t.eng EXCEPT !.frames = Append(@, Frame(depth - 1))]
     /\ foreign' = FALSE
     /\ accepted' = accepted \ (Contents \ Contents')
     /\ UNCHANGED <<failed, marks>>

\* The hook stores what is buffered before the savepoint opens.
Savepoint ==
  LET t == IF joined THEN FlushAll(State) ELSE State
  IN /\ ~failed /\ HostSavepoint(t.rows)
     /\ eng' = IF joined THEN [t.eng EXCEPT !.frames = Append(@, Frame(depth))] ELSE eng
     /\ accepted' = accepted \ (Contents \ Contents')
     /\ marks' = Append(marks, Image')
     /\ UNCHANGED <<foreign, failed>>

Release(k) ==
  /\ ~failed /\ HostRelease(k)
  /\ eng' = IF \E pos \in FrameOf(k) : pos > 1
            THEN LET pos == Min(FrameOf(k))
                 IN [eng EXCEPT !.frames =
                       Append(SubSeq(@, 1, pos - 2),
                              FoldLeft(MergeFrame, @[pos - 1], SubSeq(@, pos, Len(@))))]
            ELSE eng
  /\ marks' = SubSeq(marks, 1, k + 1)
  /\ UNCHANGED <<foreign, failed, accepted>>

RollbackTo(k) ==
  /\ HostRollbackTo(k)
  /\ failed => k = depth - 1
  /\ eng' = IF FrameOf(k) = {} THEN eng
            ELSE LET e == UndoDownTo(Min(FrameOf(k)), eng)
                 IN [e EXCEPT !.frames = Append(@, Frame(k))]
  /\ failed' = FALSE /\ accepted' = marks[k + 2].accepted /\ marks' = SubSeq(marks, 1, k + 2)
  /\ UNCHANGED foreign

\* xSync stores the buffers and may take a compaction step; then xCommit.
Commit ==
  /\ ~failed
  /\ LET stored == StoreBuffered(State)
         ends == IF joined THEN {stored} \cup {RolledUp(t) : t \in Compacted(stored)} ELSE {State}
     IN \E t \in ends : HostEnd(t.rows) /\ eng' = [t.eng EXCEPT !.frames = << >>]
  /\ accepted' = accepted \ (Contents \ Contents') /\ marks' = << >>
  /\ UNCHANGED <<foreign, failed>>

Rollback ==
  /\ HostEnd(saves[1])
  /\ eng' = IF joined THEN UndoDownTo(1, eng) ELSE eng
  /\ failed' = FALSE /\ accepted' = marks[1].accepted /\ marks' = << >>
  /\ UNCHANGED foreign

\* Another process's retention removes series with their chunks, and a series
\* it creates may be given one of their ids.
OtherWrites ==
  /\ OtherProcess /\ mode = "none"
  /\ \A r \in rows.series \cup rows.chunks : r.id < MaxId
  /\ UNCHANGED <<mode, depth, joined, saves, eng, failed, marks>>
  /\ \E keep \in SUBSET rows.series : \E new \in {{}} \cup {{k} : k \in {p.key : p \in Point}} :
       rows' = [rows EXCEPT
         !.chunks = {c \in @ : c.sid \in {r.id : r \in keep}},
         !.series = keep \cup {[id |-> Max({0} \cup {r.id : r \in keep}) + 1, key |-> k]
                                 : k \in new \ {r.key : r \in keep}}]
  /\ foreign' = TRUE /\ accepted' = Contents'

\* The process dies, or the last connection closes and the engine is reopened.
Reopen ==
  /\ HostCrash
  /\ eng' = EmptyEngine(Committed.ladder)
  /\ foreign' = FALSE /\ failed' = FALSE /\ marks' = << >>
  /\ accepted' = IF marks = << >> THEN accepted ELSE marks[1].accepted

Next ==
  \/ Insert \/ Flush \/ Compact \/ Prune \/ SetLadder \/ StoreFails \/ ReadRefused
  \/ Start \/ Join \/ Savepoint \/ \E k \in 0 .. MaxDepth - 1 : Release(k)
  \/ \E k \in -1 .. MaxDepth - 1 : RollbackTo(k)
  \/ Commit \/ Rollback \/ OtherWrites \/ Reopen

Spec == Init /\ [][Next]_vars
-----------------------------------------------------------------------------
\* The journal is live exactly in a transaction of the table, and the engine's
\* memory is made of points, identities, totals and ladders.
TypeOK ==
  /\ (eng.frames # << >>) = joined
  /\ \A x \in eng.buffer : x.sid \in Nat \ {0} /\ x.p \in Point
  /\ Cardinality(eng.cache) <= CacheSize /\ Cardinality(eng.totals) <= 1
  /\ eng.ladder \in Ladder /\ rows.ladder \in Ladder
  /\ \A i \in DOMAIN eng.frames : eng.frames[i].before \subseteq Ladder
  /\ accepted \subseteq Point

\* A remembered series id is a row of the catalog with that identity, in the
\* writer's own view: what a rollback or a removal took away is forgotten, and
\* no point is filed under a series that is not there or is another one.
CacheIsRows == joined /\ ~failed => eng.cache \subseteq rows.series

\* The totals kept in memory are what an aggregate over the chunk rows would
\* give, after any run of flushes, compactions, prunes and rollbacks.
TotalsAreRows ==
  joined /\ ~failed => \A x \in eng.totals : x = TotalsOf(rows.chunks)

\* The ladder in force is the one _meta holds for the writing transaction.
LadderIsRows == joined /\ ~failed => eng.ladder = rows.ladder

\* Every chunk and every buffered point belongs to a series row of its identity.
NoOrphans ==
  ~failed =>
    /\ \A x \in eng.buffer : [id |-> x.sid, key |-> x.p.key] \in rows.series
    /\ \A c \in rows.chunks : \A p \in c.pts : [id |-> c.sid, key |-> p.key] \in rows.series

\* Buffers hold only what an open transaction wrote: sync stores them before
\* every commit (metrics_vtab.rs:1749-1758), though the comment at 1697-1701
\* still says that a commit does not.
BuffersAreTheTransactions == ~joined => eng.buffer = {}

\* When no transaction is open, the table holds exactly the points whose INSERT
\* succeeded in a transaction that committed, less what retention took: what
\* commits is what was written.
CommitsWhatWasWritten == mode = "none" => Contents = accepted

\* ROLLBACK TO undoes the rows and drops what was still buffered.
RewindDropsBuffered ==
  [][\A k \in -1 .. MaxDepth - 1 : RollbackTo(k) => eng'.buffer = {}]_vars

\* The engine implements the transactional table it promises; a statement that
\* failed counts once the host has undone it.
Table ==
  INSTANCE AtomicTable WITH
    points <- IF failed THEN accepted ELSE Contents, marks <- [i \in DOMAIN marks |-> marks[i].points]
ImplementsTable == Table!Spec
=============================================================================
