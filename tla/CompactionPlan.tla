--------------------------- MODULE CompactionPlan ---------------------------
(***************************************************************************)
(* Metrics compaction.  A sweep reads the chunk index a stretch of series  *)
(* at a time, plans groups of chunks, and works them off a bounded step at *)
(* a time, each step in a transaction of the host.  The plan stays in the  *)
(* engine's memory between steps, while chunks are flushed, expire, and    *)
(* are rewritten by another process, and while row ids are used again.  An *)
(* action is an operation whose transaction commits.                       *)
(*                                                                         *)
(* A chunk row is [rowid, sid, enc, pts]; a plan keeps what it read of a   *)
(* row and not the row (Meta).  Byte budgets have the shape of the point   *)
(* budget and are left out.                                                *)
(***************************************************************************)
EXTENDS Integers, Sequences, FiniteSets, SequencesExt

CONSTANTS Point,         \* [id, sid, ts]: what may be written, each once
          Target,        \* METRICS_COMPACTION_TARGET_POINTS
          RawMinPoints,  \* METRICS_RAW_COMPRESS_MIN_POINTS
          MergeMin,      \* METRICS_MERGE_MIN_CHUNKS
          MaxSeries,     \* max_series of the budget, and the refill's share
          MaxInput,      \* max_input_points of the budget
          Stretch,       \* PLAN_STRETCH_SERIES
          Stretches,     \* PLAN_STRETCHES_PER_STEP
          Request,       \* [cutoff, raw]: the cutoff_ts and raw_min_chunks callers pass
          Legacy,        \* rows a database may have been opened with
          Expiry,        \* cutoffs of retention
          MaxRow,        \* bound: row ids a flush may take
          OtherProcess   \* may another process write?

VARIABLES rows,     \* the chunk rows
          plan,     \* the engine's compaction_plan: a set of at most one
          asked,    \* history: what the last step asked for, a set of at most one
          lately,   \* series written in the last hour
          live,     \* history: the points written and not expired
          last,     \* history: was the last action a step, the passing of time, or a change?
          stirred   \* history: did time or another process change what a sweep may find?

vars == <<rows, plan, asked, lately, live, last, stirred>>

Series == {p.sid : p \in Point}
MinTs(pts) == Min({p.ts : p \in pts})
MaxTs(pts) == Max({p.ts : p \in pts})
NextRow(rs) == Max({0} \cup {r.rowid : r \in rs}) + 1

\* ChunkMeta: what planning keeps of a row.
Meta(r) == [rowid |-> r.rowid, sid |-> r.sid, enc |-> r.enc, n |-> Cardinality(r.pts),
            min |-> MinTs(r.pts), max |-> MaxTs(r.pts)]

Before(a, b) == \E i \in DOMAIN a : a[i] < b[i] /\ \A j \in 1 .. i - 1 : a[j] = b[j]
Ordered(S, Key(_)) ==
  [i \in 1 .. Cardinality(S) |->
     CHOOSE x \in S : Cardinality({y \in S : Before(Key(y), Key(x))}) = i - 1]
PointsOf(ms) ==
  LET upTo[i \in 0 .. Len(ms)] == IF i = 0 THEN 0 ELSE upTo[i - 1] + ms[i].n
  IN upTo[Len(ms)]
CeilDiv(a, b) == (a + b - 1) \div b
MergeLimit == Target + CeilDiv(Target, 4)
-----------------------------------------------------------------------------
(* Mutated forms of the definitions below. *)
PresentByRowid(g) == \A i \in DOMAIN g.src : \E r \in rows : r.rowid = g.src[i].rowid

ReadOnEnds(p) ==
  IF p.pending # [kind |-> "done", left |-> {}] THEN p
  ELSE [p EXCEPT !.drained = TRUE, !.touched = {}]

ReadOnKeeps(p) ==
  IF p.pending # [kind |-> "done", left |-> {}] THEN p
  ELSE IF p.touched = {} THEN [p EXCEPT !.drained = TRUE]
  ELSE [p EXCEPT !.pending = [kind |-> "series", left |-> p.touched]]
-----------------------------------------------------------------------------
(***************************************************************************)
(* Planning one series.                                                    *)
(***************************************************************************)
\* Chunks in order, packed into runs of at most limit points; in tiers, a chunk
\* larger than the run so far starts a new one too.
Packed(ms, limit, tiers) ==
  LET add(acc, m) ==
        IF acc.n > 0 /\ (acc.n + m.n > limit \/ (tiers /\ m.n > acc.n))
        THEN [done |-> Append(acc.done, acc.run), run |-> <<m>>, n |-> m.n]
        ELSE [acc EXCEPT !.run = Append(@, m), !.n = @ + m.n]
      all == FoldLeft(add, [done |-> << >>, run |-> << >>, n |-> 0], ms)
  IN IF all.run = << >> THEN all.done ELSE Append(all.done, all.run)

\* Raw chunks, oldest first, up to the target; few of a busy series wait.
RawRuns(ms, busy, atLeast) ==
  LET raw == Ordered({m \in ms : m.enc = "raw"}, LAMBDA m : <<m.min, m.max, m.rowid>>)
  IN IF busy /\ Len(raw) < atLeast /\ PointsOf(raw) < RawMinPoints THEN << >>
     ELSE Packed(raw, Target, FALSE)

\* Compressed chunks over the target, each on its own.
OversizedRuns(ms) ==
  LET big == Ordered({m \in ms : m.enc = "pco" /\ m.n > Target}, LAMBDA m : <<m.min, m.rowid>>)
  IN [i \in DOMAIN big |-> <<big[i]>>]

WorthMerging(run, atLeast) ==
  /\ Len(run) >= 2
  /\ PointsOf(run) >= 2 * Max({run[i].n : i \in DOMAIN run})
  /\ Len(run) >= atLeast \/ PointsOf(run) >= CeilDiv(Target, 2)

\* Compressed chunks up to the target, smallest first, in size tiers.
MergeRuns(ms, busy) ==
  LET small == Ordered({m \in ms : m.enc = "pco" /\ m.n <= Target},
                       LAMBDA m : <<m.n, m.min, m.max, m.rowid>>)
  IN SelectSeq(Packed(small, MergeLimit, TRUE),
               LAMBDA run : WorthMerging(run, IF busy THEN MergeMin ELSE 2))

Eligible(m, cutoff) == m.max < cutoff /\ (m.enc = "raw" \/ m.n # Target)

\* The groups the rows rs have for a stretch of series under a request:
\* compressions first, then in the order of series.
Groups(rs, sids, ask) ==
  LET of(s) == {m \in {Meta(r) : r \in rs} : m.sid = s /\ Eligible(m, ask.cutoff)}
      made(s, runs) == [i \in DOMAIN runs |-> [sid |-> s, src |-> runs[i]]]
      start(g) == Min({g.src[i].min : i \in DOMAIN g.src})
      inOrder(gs) == LET at == Ordered(DOMAIN gs, LAMBDA i : <<gs[i].sid, start(gs[i]), i>>)
                     IN [i \in DOMAIN at |-> gs[at[i]]]
      each(Runs(_)) == FlattenSeq([i \in DOMAIN sids |-> made(sids[i], Runs(sids[i]))])
  IN inOrder(each(LAMBDA s : RawRuns(of(s), s \in lately, ask.raw)))
       \o inOrder(each(LAMBDA s : OversizedRuns(of(s)) \o MergeRuns(of(s), s \in lately)))
-----------------------------------------------------------------------------
(***************************************************************************)
(* The sweep's plan.                                                       *)
(***************************************************************************)
Done == [kind |-> "done", left |-> {}]
NewPlan(ask) == [ask |-> ask, groups |-> << >>, touched |-> {}, drained |-> FALSE,
                 pending |-> [kind |-> "from", left |-> Series]]
Active(p) == p.groups # << >> \/ p.pending # Done \/ p.touched # {}
\* A step goes on with a plan made for what it asks, under way or drained with
\* nothing added since.
Kept(p, ask) == p.ask = ask /\ (Active(p) \/ p.drained)

InIdOrder(S) == Ordered(S, LAMBDA s : <<s>>)

\* plan_metrics_stretch
PlanStretch(rs, p) ==
  IF p.pending.kind = "from"
  THEN LET have == p.pending.left \cap {r.sid : r \in rs}
           span == {s \in p.pending.left : s < Min(have) + Stretch /\ s >= Min(have)}
       IN IF have = {} THEN [p EXCEPT !.pending = Done]
          ELSE [p EXCEPT !.groups = @ \o Groups(rs, InIdOrder(span), p.ask),
                         !.pending.left = {s \in @ : s >= Min(have) + Stretch}]
  ELSE LET list == InIdOrder(p.pending.left)
           now == SubSeq(list, 1, Min({Stretch, Len(list)}))
           rest == p.pending.left \ ToSet(now)
       IN [p EXCEPT !.groups = @ \o Groups(rs, now, p.ask),
                    !.pending = IF rest = {} THEN Done ELSE [@ EXCEPT !.left = rest]]

\* refill_metrics_plan
Refill(rs, p) ==
  FoldLeft(LAMBDA q, i : IF Len(q.groups) < MaxSeries /\ q.pending # Done THEN PlanStretch(rs, q) ELSE q,
           p, [i \in 1 .. Stretches |-> i])

\* One turn of metrics_sweep_continues: end the pass, start the next, or end the sweep.
ReadOn(p) ==
  IF p.pending # Done THEN p
  ELSE IF p.touched = {} THEN [p EXCEPT !.drained = TRUE]
  ELSE [p EXCEPT !.pending = [kind |-> "series", left |-> p.touched], !.touched = {}]

\* metrics_sweep_continues
Continue(rs, p) ==
  LET turn(q, i) ==
        LET r == IF q.groups = << >> /\ ~q.drained THEN ReadOn(q) ELSE q
        IN IF r.groups = << >> /\ ~r.drained /\ i <= Stretches THEN PlanStretch(rs, r) ELSE r
  IN FoldLeft(turn, [p EXCEPT !.drained = FALSE], [i \in 1 .. Stretches + 1 |-> i])

\* Chunks were added: a drained plan is out of date, and a sweep under way
\* looks again at the series it could act on.
Noted(p, ms) ==
  [p EXCEPT !.drained = FALSE,
            !.touched = IF Active(p) THEN @ \cup {m.sid : m \in {x \in ms : x.max < p.ask.cutoff}}
                        ELSE @]
-----------------------------------------------------------------------------
(***************************************************************************)
(* A step.                                                                 *)
(***************************************************************************)
\* Whole groups until a budget is spent; the first is always taken.
Selected(groups) ==
  LET fits(k) == LET sel == SubSeq(groups, 1, k)
                 IN k = 1 \/ (/\ Cardinality({g.sid : g \in ToSet(sel)}) <= MaxSeries
                              /\ PointsOf(FlattenSeq([i \in 1 .. k |-> sel[i].src])) <= MaxInput)
  IN Max({0} \cup {k \in DOMAIN groups : \A j \in 1 .. k : fits(j)})

\* chunks_present: row id, series, first timestamp and number of points.
Present(g) ==
  \A i \in DOMAIN g.src : \E r \in rows :
    LET a == Meta(r) b == g.src[i]
    IN a.rowid = b.rowid /\ a.sid = b.sid /\ a.min = b.min /\ a.n = b.n

\* The points of a group, in time order, cut at the target.
Cut(pts) ==
  LET s == Ordered(pts, LAMBDA p : <<p.ts, p.id>>)
  IN [k \in 1 .. CeilDiv(Len(s), Target) |-> {s[i] : i \in {j \in DOMAIN s : CeilDiv(j, Target) = k}}]

Sources(g) == {r \in rows : \E i \in DOMAIN g.src : g.src[i].rowid = r.rowid}

\* Decoding goes by the planned encoding, and fails on another.
Decodes(g) == \A r \in Sources(g), i \in DOMAIN g.src : g.src[i].rowid = r.rowid => g.src[i].enc = r.enc

\* replace_chunks: the new rows are inserted before the old ones are deleted.
Replaced(done) ==
  LET pieces == FlattenSeq([i \in DOMAIN done |->
                  LET cut == Cut(UNION {r.pts : r \in Sources(done[i])})
                  IN [k \in DOMAIN cut |-> [sid |-> done[i].sid, pts |-> cut[k]]]])
      new == {[rowid |-> NextRow(rows) + i - 1, sid |-> pieces[i].sid, enc |-> "pco",
               pts |-> pieces[i].pts] : i \in DOMAIN pieces}
  IN (rows \ UNION {Sources(g) : g \in ToSet(done)}) \cup new

\* compact_partitions_inner.  It takes up at least one of the groups it
\* selected, and as many more as its time allows.
Step(ask) ==
  LET kept == {p \in plan : Kept(p, ask)}
      from == IF kept = {} THEN {NewPlan(ask)} ELSE kept
  IN \E p \in {Refill(rows, q) : q \in from} :
       LET sel == SubSeq(p.groups, 1, Selected(p.groups))
           left == SubSeq(p.groups, Len(sel) + 1, Len(p.groups))
           there == SelectSeq(sel, Present)
       IN /\ stirred' = (kept # {} /\ stirred) /\ asked' = {ask}
          /\ last' = IF last = "step" THEN "stepped" ELSE "step"
          /\ \/ /\ there = << >>
                /\ rows' = rows /\ plan' = {Continue(rows, [p EXCEPT !.groups = left])}
             \/ \E k \in DOMAIN there :
                  LET done == SubSeq(there, 1, k)
                      later == SubSeq(there, k + 1, Len(there)) \o left
                  IN IF \A g \in ToSet(done) : Decodes(g)
                     THEN /\ rows' = Replaced(done)
                          /\ plan' = {Continue(rows', [p EXCEPT !.groups = later, !.drained = FALSE,
                                                 !.touched = @ \cup {g.sid : g \in ToSet(done)}])}
                     ELSE rows' = rows /\ plan' = {[p EXCEPT !.groups = left]}
          /\ UNCHANGED <<lately, live>>
-----------------------------------------------------------------------------
(***************************************************************************)
(* What else happens to the rows.                                          *)
(***************************************************************************)
Chunk(s, enc, pts) == [rowid |-> NextRow(rows), sid |-> s, enc |-> enc, pts |-> pts]

\* A flush writes one chunk of a series, raw, as yet uncompressed.
Flush(s) ==
  /\ NextRow(rows) <= MaxRow
  /\ \E pts \in SUBSET {p \in Point \ live : p.sid = s} \ {{}} :
       /\ rows' = rows \cup {Chunk(s, "raw", pts)}
       /\ plan' = {Noted(p, {Meta(Chunk(s, "raw", pts))}) : p \in plan}
       /\ live' = live \cup pts
  /\ lately' = lately \cup {s}
  /\ last' = "change" /\ UNCHANGED <<stirred, asked>>

\* Retention deletes the chunks that end before a time.
Expire ==
  \E c \in Expiry : LET old == {r \in rows : MaxTs(r.pts) < c}
    IN /\ old # {}
       /\ rows' = rows \ old /\ live' = live \ UNION {r.pts : r \in old}
       /\ stirred' = TRUE /\ last' = "change" /\ UNCHANGED <<plan, asked, lately>>

\* A transaction that rolls back leaves the rows it began with, and no plan
\* (rollback_txn_frame); so does one that had written nothing.
Rollback ==
  /\ plan # {} /\ plan' = {} /\ asked' = {} /\ last' = "change"
  /\ UNCHANGED <<rows, lately, live, stirred>>

\* An hour passes without a write to the series.
Cool(s) ==
  /\ s \in lately /\ lately' = lately \ {s} /\ stirred' = TRUE /\ last' = "time"
  /\ UNCHANGED <<rows, plan, asked, live>>

\* Another process, between our transactions, flushes a chunk or compresses some.
OtherWrites ==
  /\ OtherProcess /\ NextRow(rows) <= MaxRow
  /\ \/ \E s \in Series : \E pts \in SUBSET {p \in Point \ live : p.sid = s} \ {{}} :
          rows' = rows \cup {Chunk(s, "raw", pts)} /\ live' = live \cup pts
     \/ \E s \in Series : \E old \in SUBSET {r \in rows : r.sid = s /\ r.enc = "raw"} \ {{}} :
          LET pts == UNION {r.pts : r \in old}
          IN /\ Cardinality(pts) <= Target
             /\ rows' = (rows \ old) \cup {Chunk(s, "pco", pts)} /\ live' = live
  /\ stirred' = TRUE /\ last' = "change"
  /\ UNCHANGED <<plan, asked, lately>>

Init ==
  /\ rows \in Legacy /\ live = UNION {r.pts : r \in rows}
  /\ plan = {} /\ asked = {} /\ lately = {} /\ stirred = FALSE /\ last = "change"

Next ==
  \/ \E ask \in Request : Step(ask)
  \/ Expire \/ Rollback \/ OtherWrites
  \/ \E s \in Series : Flush(s) \/ Cool(s)

\* The maintenance timer keeps stepping; a step can always be taken, and every
\* second one in a row leaves last = "step".
Spec == Init /\ [][Next]_vars /\ []<>(last = "step") /\ []<>(last # "step")
-----------------------------------------------------------------------------
\* Compaction neither loses nor doubles a point, nor moves it to another
\* series: whatever was planned before rows went, came back or were used again,
\* every point that was written and has not expired is in one chunk of its own.
EachPointOnce ==
  /\ UNION {r.pts : r \in rows} = live
  /\ \A r, q \in rows : (r.pts \cap q.pts # {} => r = q) /\ \A p \in r.pts : p.sid = r.sid

\* A sweep that says it is done has left nothing of what its caller asked for:
\* "until a chunk is added, there is nothing for it to find again", unless
\* series stopped being written or others wrote or deleted meanwhile.
DrainedIsDone ==
  \A p \in plan, ask \in asked :
    p.drained /\ ~stirred => Groups(rows, InIdOrder(Series), ask) = << >>

\* A sweep ends once its callers ask for one thing and nothing but its own
\* steps, and time, changes the rows.
SweepEnds ==
  \A ask \in Request :
    (<>[](last # "change" /\ asked \in {{}, {ask}})) => <>[](\E p \in plan : p.drained)
=============================================================================
