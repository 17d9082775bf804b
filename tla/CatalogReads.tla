---------------------------- MODULE CatalogReads ----------------------------
(***************************************************************************)
(* Metrics reads that take no lock: find_series answers a repeated         *)
(* selection from the SelectionCache, snapshot_totals answers from the     *)
(* totals last published.  Both decide by the store's generation,          *)
(* <<greatest series id, chunk generation>>, whether what is remembered    *)
(* is of the catalog the calling connection sees.  A writer of the same    *)
(* process, another process and the readers interleave step by step.       *)
(*                                                                         *)
(* A catalog is [series |-> {[id, key]}, chunks |-> [id -> count], bumps]. *)
(* One selection is asked, for the series of AskedKey.                     *)
(***************************************************************************)
EXTENDS Integers, FiniteSets, FiniteSetsExt

CONSTANTS Reader,      \* connections that read
          Key,         \* series identities
          AskedKey,    \* the one the selection asks for
          MaxId,       \* bound: series ids
          MaxBumps,    \* bound: chunk generations
          MaxEpoch     \* bound: the writer starts nothing past this epoch

VARIABLES store,      \* the committed catalog
          txn,        \* the writing connection's transaction
          eng,        \* the engine's shared memory
          rd,         \* each reader's call in progress
          ever        \* history: the series rows that were ever committed

vars == <<store, txn, eng, rd, ever>>

Catalog0 == [series |-> {}, chunks |-> [i \in 1 .. MaxId |-> 0], bumps |-> 0]
Ids(c) == {s.id : s \in c.series}
Answer(c) == {s.id : s \in {x \in c.series : x.key = AskedKey}}
Totals(c) == MapThenSumSet(LAMBDA i : c.chunks[i], 1 .. MaxId)

\* catalog_generation: the greatest series id and the chunk counter.
Gen(c) == <<Max({0} \cup Ids(c)), c.bumps>>
Older(g, h) == g[2] < h[2] \/ (g[2] = h[2] /\ g[1] < h[1])

NewId(c) == Max({0} \cup Ids(c)) + 1
Idle == [at |-> "idle", snap |-> Catalog0, own |-> FALSE, current |-> FALSE, epoch |-> 0,
         ans |-> {}, totals |-> 0]
NoTxn == [at |-> "none", view |-> Catalog0, written |-> {}, gen |-> <<0, 0>>]
-----------------------------------------------------------------------------
(* Mutated forms of the definitions below. *)
IsCurrentAlways(c) == TRUE

WorthKeepingAlways(r) == TRUE
-----------------------------------------------------------------------------
(***************************************************************************)
(* The shared memory.                                                      *)
(***************************************************************************)
\* SelectionCache::invalidate
Invalidate(e) == [e EXCEPT !.epoch = @ + 1, !.cache = {}]

\* series_changed
SeriesChanged(e) == [Invalidate(e) EXCEPT !.touched = TRUE]

\* series_settled
SeriesSettled(e) == IF e.touched THEN [Invalidate(e) EXCEPT !.touched = FALSE] ELSE e

\* Is what is remembered of the catalog this connection sees?
IsCurrent(c) == Gen(c) = eng.gen

\* The totals published for the generation that r sees.
PublishedFor(r) == {p \in eng.published : p.gen = Gen(rd[r].snap)}

\* Worth publishing: it is the committed store that was read.
WorthKeeping(r) == Gen(rd[r].snap) = eng.gen

\* The journal lock is held: by a refresh, or by txn_commit_published.
Publishing == txn.at \in {"installed", "totalled", "published"}
Refreshing == \E r \in Reader : rd[r].at = "refreshed"
OwnReads == \E r \in Reader : rd[r].own
-----------------------------------------------------------------------------
Init ==
  /\ store = Catalog0
  /\ txn = NoTxn
  /\ eng = [gen |-> <<0, 0>>, active |-> FALSE, touched |-> FALSE,
            epoch |-> 0, cache |-> {}, published |-> {}]
  /\ rd = [r \in Reader |-> Idle] /\ ever = {}

(***************************************************************************)
(* The writing connection.  SQLite's write lock is held from "begun" on,   *)
(* so the view starts from the last commit and nobody else commits.        *)
(***************************************************************************)
WriterMay(at) == txn.at = at /\ ~OwnReads /\ eng.epoch < MaxEpoch

\* xBegin: refresh_authoritative_state, txn_begin.
Begin ==
  /\ WriterMay("none") /\ ~Refreshing /\ store.bumps < MaxBumps
  /\ txn' = [NoTxn EXCEPT !.at = "open", !.view = store]
  /\ eng' = IF Gen(store) = eng.gen \/ Older(Gen(store), eng.gen)
            THEN [eng EXCEPT !.active = TRUE]
            ELSE [Invalidate(eng) EXCEPT !.active = TRUE, !.gen = Gen(store)]
  /\ UNCHANGED <<ever, store, rd>>

\* resolve_series and write_point: a row of its own for a new identity.
Write(k) ==
  LET c == txn.view
      row == {s \in c.series : s.key = k}
  IN /\ WriterMay("open") /\ c.bumps < MaxBumps
     /\ row # {} \/ NewId(c) <= MaxId
     /\ txn' = IF row # {} THEN [txn EXCEPT !.written = @ \cup {s.id : s \in row}]
               ELSE [txn EXCEPT !.written = @ \cup {NewId(c)},
                                !.view.series = @ \cup {[id |-> NewId(c), key |-> k]}]
     /\ eng' = IF row # {} THEN eng ELSE SeriesChanged(eng)
     /\ UNCHANGED <<ever, store, rd>>

\* A flush: one chunk for each series written, one bump.
Stored(t) ==
  IF t.written = {} THEN t
  ELSE [t EXCEPT !.view.chunks = [i \in DOMAIN @ |-> IF i \in t.written THEN @[i] + 1 ELSE @[i]],
                 !.view.bumps = @ + 1, !.written = {}]

Flush == WriterMay("open") /\ txn.written # {} /\ txn' = Stored(txn) /\ UNCHANGED <<ever, store, eng, rd>>

\* Retention takes a series' chunks and then its row: two bumps.
RemoveSeries ==
  /\ WriterMay("open") /\ txn.written = {} /\ txn.view.bumps + 1 < MaxBumps
  /\ \E s \in txn.view.series :
       txn' = [txn EXCEPT !.view.series = @ \ {s}, !.view.chunks[s.id] = 0, !.view.bumps = @ + 2]
  /\ eng' = SeriesChanged(eng)
  /\ UNCHANGED <<ever, store, rd>>

\* xSync stores what is buffered and captures the generation.
Sync ==
  /\ WriterMay("open")
  /\ txn' = LET t == Stored(txn) IN [t EXCEPT !.at = "synced", !.gen = Gen(t.view)]
  /\ UNCHANGED <<ever, store, eng, rd>>

\* The pager commits: new snapshots see the view.
HostCommits ==
  /\ txn.at = "synced"
  /\ store' = txn.view /\ txn' = [txn EXCEPT !.at = "committed"]
  /\ ever' = ever \cup store'.series /\ UNCHANGED <<eng, rd>>

\* txn_commit_published, which holds the journal lock to its end: the generation
\* is installed, then the totals if the writer kept count of both kinds, then the
\* journal is no longer active, then the change of series is settled.  Readers
\* look at each of these under its own lock or at none.
Publish ==
  /\ txn.at = "committed" /\ ~Refreshing
  /\ eng' = [eng EXCEPT !.gen = txn.gen] /\ txn' = [txn EXCEPT !.at = "installed"]
  /\ UNCHANGED <<ever, store, rd>>

PublishTotals ==
  /\ txn.at = "installed"
  /\ \/ eng' = [eng EXCEPT !.published = {[gen |-> txn.gen, n |-> Totals(txn.view)]}]
     \/ UNCHANGED eng
  /\ txn' = [txn EXCEPT !.at = "totalled"]
  /\ UNCHANGED <<ever, store, rd>>

Deactivate ==
  /\ txn.at = "totalled"
  /\ eng' = [eng EXCEPT !.active = FALSE] /\ txn' = [txn EXCEPT !.at = "published"]
  /\ UNCHANGED <<ever, store, rd>>

Settle ==
  /\ txn.at = "published"
  /\ eng' = SeriesSettled(eng) /\ txn' = NoTxn
  /\ UNCHANGED <<ever, store, rd>>

\* txn_rollback
Rollback ==
  /\ txn.at \in {"open", "synced"} /\ ~OwnReads
  /\ eng' = SeriesSettled([eng EXCEPT !.active = FALSE]) /\ txn' = NoTxn
  /\ UNCHANGED <<ever, store, rd>>

\* Another process commits: a new series with a chunk, or one removed.
OtherCommits ==
  /\ txn.at \notin {"open", "synced"} /\ store.bumps + 1 < MaxBumps
  /\ \/ \E k \in Key \ {s.key : s \in store.series} :
          /\ NewId(store) <= MaxId
          /\ store' = [store EXCEPT !.series = @ \cup {[id |-> NewId(store), key |-> k]},
                                    !.chunks[NewId(store)] = 1, !.bumps = @ + 1]
     \/ \E s \in store.series :
          store' = [store EXCEPT !.series = @ \ {s}, !.chunks[s.id] = 0, !.bumps = @ + 2]
  /\ ever' = ever \cup store'.series /\ UNCHANGED <<txn, eng, rd>>
-----------------------------------------------------------------------------
(***************************************************************************)
(* A read: the statement's snapshot is fixed, then refresh, then one call. *)
(***************************************************************************)
Step(r, at) == rd' = [rd EXCEPT ![r].at = at]

\* A reader's snapshot, or the writing connection reading its own transaction
\* (which stores its points first).
OpenSnapshot(r) ==
  /\ rd[r].at = "idle"
  /\ \/ rd' = [rd EXCEPT ![r] = [Idle EXCEPT !.at = "started", !.snap = store]] /\ UNCHANGED txn
     \/ /\ txn.at = "open" /\ ~OwnReads
        /\ txn' = Stored(txn)
        /\ rd' = [rd EXCEPT ![r] =
                    [Idle EXCEPT !.at = "started", !.snap = Stored(txn).view, !.own = TRUE]]
  /\ UNCHANGED <<ever, store, eng>>

\* refresh_authoritative_state up to its locks.
RefreshCheck(r) ==
  /\ rd[r].at = "started"
  /\ Step(r, IF eng.active \/ Gen(rd[r].snap) = eng.gen \/ Older(Gen(rd[r].snap), eng.gen)
             THEN "ready" ELSE "refresh")
  /\ UNCHANGED <<ever, store, txn, eng>>

\* Under the journal lock: forget, then take the generation seen.
RefreshClears(r) ==
  /\ rd[r].at = "refresh" /\ ~Refreshing /\ ~Publishing
  /\ IF eng.active THEN Step(r, "ready") /\ UNCHANGED eng
     ELSE Step(r, "refreshed") /\ eng' = Invalidate(eng)
  /\ UNCHANGED <<ever, store, txn>>

RefreshSets(r) ==
  /\ rd[r].at = "refreshed"
  /\ eng' = [eng EXCEPT !.gen = Gen(rd[r].snap)] /\ Step(r, "ready")
  /\ UNCHANGED <<ever, store, txn>>

\* find_series: is the cache about this catalog?  A hit answers at once.
CheckCurrent(r) ==
  /\ rd[r].at = "ready"
  /\ rd' = [rd EXCEPT ![r].at = IF IsCurrent(rd[r].snap) THEN "lookup" ELSE "epoch",
                      ![r].current = IsCurrent(rd[r].snap)]
  /\ UNCHANGED <<ever, store, txn, eng>>

Lookup(r) ==
  /\ rd[r].at = "lookup"
  /\ IF eng.cache = {} THEN Step(r, "epoch")
     ELSE rd' = [rd EXCEPT ![r].at = "answered", ![r].ans = CHOOSE a \in eng.cache : TRUE]
  /\ UNCHANGED <<ever, store, txn, eng>>

ReadEpoch(r) ==
  /\ rd[r].at = "epoch"
  /\ rd' = [rd EXCEPT ![r].at = "query", ![r].epoch = eng.epoch]
  /\ UNCHANGED <<ever, store, txn, eng>>

\* The catalog rows of the snapshot, and admit's first check.
Query(r) ==
  /\ rd[r].at = "query"
  /\ rd' = [rd EXCEPT ![r].ans = Answer(rd[r].snap),
                      ![r].at = IF rd[r].current /\ eng.epoch = rd[r].epoch THEN "admit" ELSE "answered"]
  /\ UNCHANGED <<ever, store, txn, eng>>

AdmitInserts(r) ==
  /\ rd[r].at = "admit"
  /\ eng' = [eng EXCEPT !.cache = {rd[r].ans}] /\ Step(r, "recheck")
  /\ UNCHANGED <<ever, store, txn>>

\* A change that raced the insert: empty the cache.
AdmitRechecks(r) ==
  /\ rd[r].at = "recheck"
  /\ eng' = IF eng.epoch = rd[r].epoch THEN eng ELSE [eng EXCEPT !.cache = {}]
  /\ Step(r, "answered")
  /\ UNCHANGED <<ever, store, txn>>

\* snapshot_totals: published for this generation, or read from the snapshot.
StatsLookup(r) ==
  /\ rd[r].at = "ready"
  /\ rd' = [rd EXCEPT ![r].at = IF PublishedFor(r) = {} THEN "keep" ELSE "counted",
                      ![r].totals = IF PublishedFor(r) = {} THEN Totals(rd[r].snap)
                                    ELSE (CHOOSE p \in PublishedFor(r) : TRUE).n]
  /\ UNCHANGED <<ever, store, txn, eng>>

StatsKeep(r) ==
  /\ rd[r].at = "keep"
  /\ Step(r, IF WorthKeeping(r) THEN "publish" ELSE "counted")
  /\ UNCHANGED <<ever, store, txn, eng>>

StatsPublish(r) ==
  /\ rd[r].at = "publish"
  /\ eng' = [eng EXCEPT !.published = {[gen |-> Gen(rd[r].snap), n |-> rd[r].totals]}]
  /\ Step(r, "counted")
  /\ UNCHANGED <<ever, store, txn>>

Return(r) ==
  /\ rd[r].at \in {"answered", "counted"}
  /\ rd' = [rd EXCEPT ![r] = Idle]
  /\ UNCHANGED <<ever, store, txn, eng>>

Next ==
  \/ Begin \/ \E k \in Key : Write(k)
  \/ Flush \/ RemoveSeries \/ Sync \/ HostCommits
  \/ Publish \/ PublishTotals \/ Deactivate \/ Settle \/ Rollback \/ OtherCommits
  \/ \E r \in Reader :
       \/ OpenSnapshot(r) \/ RefreshCheck(r) \/ RefreshClears(r) \/ RefreshSets(r)
       \/ CheckCurrent(r) \/ Lookup(r) \/ ReadEpoch(r) \/ Query(r)
       \/ AdmitInserts(r) \/ AdmitRechecks(r)
       \/ StatsLookup(r) \/ StatsKeep(r) \/ StatsPublish(r) \/ Return(r)

Spec == Init /\ [][Next]_vars
-----------------------------------------------------------------------------
\* Totals answered from memory are those of the caller's own snapshot, whatever
\* commits, rolls back or is reached again under the same generation.
StatsMatchSnapshot ==
  \A r \in Reader : rd[r].at = "counted" => rd[r].totals = Totals(rd[r].snap)

\* A selection never names a series that no commit gave that identity; only the
\* writing connection sees its own uncommitted ones.
NoPhantomSeries ==
  \A r \in Reader : rd[r].at = "answered" /\ ~rd[r].own =>
    \A i \in rd[r].ans : [id |-> i, key |-> AskedKey] \in ever

\* Remembered answers are of the catalog as last committed.
RememberedIsCommitted ==
  (eng.gen = Gen(store) /\ txn.at = "none" /\ \A r \in Reader : rd[r].at # "recheck")
     => eng.cache \subseteq {Answer(store)}
=============================================================================
