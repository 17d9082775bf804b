# TLA+ models of timeless-libsql

`timeless-libsql` is a loadable SQLite / libSQL extension that adds virtual tables for metrics,
logs and traces, and three HTTP servers built on it. The modules here model the parts of it
whose correctness depends on the order in which things happen: the writer gate, the engines
under the host's transactions, reads beside a writer, the compaction plan that lives between
transactions, and the admission path of the logs server. Paths below are relative to `src/`.

## 1. The system

### Parts and how they interact

* **Engines** (`crates/timeless-core`). The metrics engine (`engine.rs`) buffers points per
  series during a transaction; they become chunk rows of shadow tables before it commits, and
  are later compacted, rolled up and dropped by retention. The logs engine
  (`blocks/engine.rs`) keeps entries buffered *across* transactions until a flush turns them
  into block rows, and keeps an in-memory index of those rows. The span engine
  (`spans/engine.rs`) does the same for spans.
* **Virtual tables** (`crates/timeless-ext`). `metrics_vtab.rs`, `logs_vtab.rs` and
  `traces_vtab.rs` turn SQLite's callbacks into engine calls. Shadow tables follow SQLite's
  transaction by themselves; the engine's memory follows through a journal of undo frames that
  `vtab_tx.rs` drives from `xBegin`, `xSavepoint`, `xRelease`, `xRollbackTo`, `xCommit` and
  `xRollback`.
* **Sharing** (`crates/timeless-ext/src/shared.rs`). All connections of a process share one
  engine per table, found in a registry. `WriterGate` admits one writing transaction at a time
  and keeps logs and traces reads from copying the memory of an open one. Metrics reads take
  no gate: they compare generations.
* **Servers** (`servers/`). HTTP handlers admit batches through a lock, a gate on bytes and a
  bounded queue. One writer thread per server owns the writing connection, readers serve
  queries, an owner lease keeps a second server out.

### Inventory

`PROJECT.json` lists each part with its sources and status, and maps each definition to the
lines it models: about 5,000 lines, mostly of the transactional half of the two engines, out
of some 160,000 lines of Rust outside test directories. Most of the rest is query languages,
codecs, HTTP surfaces and unit tests kept beside the code. In short:

| Part | Status | Where |
|---|---|---|
| writer gate | partly (all but DROP TABLE), and proved | `WriterGate`, `WriterGateProofs` |
| host transaction hooks | partly (external: SQLite) | `HostTxn` |
| logs block engine | partly | `BlockTxn`, `TxnTable` |
| logs query path | partly | `BlockRead` |
| metrics engine transactions | partly | `MetricsTxn`, `AtomicTable` |
| metrics catalog reads | partly | `CatalogReads` |
| metrics compaction | partly | `CompactionPlan` |
| logs server storage | partly | `LogsServer` |
| registry, rollups, span engine, metrics and traces servers, schema upgrades | not yet | section 7 |
| codecs, templates, wire formats, query languages, HTTP surfaces, window functions | no | pure functions of strings, bytes or floats |
| in-memory stores, tools, benchmarks | no | not part of the running system |

## 2. Modules

| Module | Models | State and its counterpart |
|---|---|---|
| `WriterGate` | `WriterGate` of `shared.rs` and the hooks that bracket the journal with it | `writer`, `readers`, `waiting_writers` are `GateState`; `journal` is the owner of the engine's open journal; `gate_held` the virtual table's flag; `phase` where a callback stands; `gen` the registration of an address |
| `HostTxn` | SQLite's transaction as a virtual table sees it (external) | `mode`, `depth`, `joined`; `rows` the shadow tables in the writer's view, `saves` their image at each savepoint |
| `BlockTxn` | the logs engine: insert, flush with auto-optimize and retention, optimize, prune, `retention:`, journal, reopen | `buffer`, `index`, `frames`, `floor`, `retention` are the fields of `BlockEngine` and `TxnJournal`; `failed` the result of the last statement; `marks` is history |
| `TxnTable` | what the documentation promises of a buffered table | `live`, `stored`, `window`, `marks` |
| `BlockRead` | a SELECT by another connection; extends `BlockTxn` | `snap` the connection's snapshot, `result`, `refused`; `due` is history |
| `MetricsTxn` | the metrics engine: resolve, buffer, flush, retention, compaction, prune, `rollups:`, journal, reopen, another process | `eng` is the engine's memory (buffers, resolve cache, totals, floor, ladder, frames); `foreign`, `failed`; `accepted`, `marks` are history |
| `AtomicTable` | what the documentation promises of a metrics table | `points`, `marks` |
| `CatalogReads` | `find_series`, `snapshot_totals` and the commit that publishes to them, one lock or atomic at a time | `store` the committed catalog, `txn` the writer, `eng` the shared memory, `rd` each reader's call; `ever` is history |
| `CompactionPlan` | planning by stretches, size tiers, bounded steps, the presence check and the swap | `rows`, `plan`, `lately`; `live`, `last`, `stirred` are history |
| `LogsServer` | admission, queue, writer thread, live tail, jobs, disconnects, shutdown, lease | `call`, `lock`, `queue`, `writer`, `db`, `sd`, `lease` |

The `MC` modules give the constants their values, with one or more `.cfg` files each. Every
module holds, before the definition it changes, the mutated forms that show a property can be
broken.

**Composition.** `BlockTxn` and `MetricsTxn` extend `HostTxn`, so every step of an engine is
conjoined with the step of the host that calls it, and shadow rows and engine memory move as
SQLite moves them. `BlockRead` adds a second connection to `BlockTxn`. That one writer at a
time runs these steps is what `WriterGate` shows. `TxnTable` and `AtomicTable` are instantiated
in the engine modules (`ImplementsTable`).

**Granularity.** In `WriterGate`, an action is what happens under one hold of the mutex. In
`BlockTxn` and `MetricsTxn` it is one callback with all it calls: the gate makes callbacks of
writers exclusive. In `CatalogReads` it is one access to shared memory. In `CompactionPlan` it
is an operation whose transaction commits. In `LogsServer` it is what a task or thread does
between two waits.

## 3. What the runs check

### Passing

* **gate**. The journal has one writer, whoever holds the gate is a live connection (not a new
  one at a reused address), no read copies under a writer, the counters are exact, and no
  waiter sleeps through its wake-up. `WriterServed`: if the reads that are under way end, a
  waiting writer is served, or another writer is, or it gives up; a stream of new reads does not
  keep it waiting. `WaiterSettles`: if the clock goes on, a waiter gets the gate or the busy
  error, even if the holder never releases.
* **logs_txn**. The index is the rows, every entry is in one place, and the engine implements
  `TxnTable`: a rollback to any point restores live and stored entries, nothing leaves but by
  prune or the retention window, a crash keeps what was committed.
* **logs_read**. Under two nested savepoints and a second connection's query: nothing
  uncommitted is returned, nothing twice; every open savepoint can still be restored
  (`SavepointsRestorable`), and a rollback is exact.
* **metrics_txn**. Totals are the rows, no chunk or buffered point lacks its series, a commit
  stores what its statements wrote, and the engine implements `AtomicTable`.
* **metrics_memory**. Cache, ladder, totals and buffers agree with the rows, under two
  savepoints, a resolve cache of one entry, reads that fail, and another process that removes
  series and reuses their ids between transactions. `BuffersAreTheTransactions` follows the
  code: `sync` (`metrics_vtab.rs:1749-1758`) stores what is buffered before every commit. The
  comment above it (`metrics_vtab.rs:1697-1701`) still describes an earlier design, "We still do
  NOT flush per-commit ... Durability of buffered points still begins at 'flush'"; that comment
  is out of date.
* **catalog_reads**. Totals answered without a lock are those of the caller's snapshot, and a
  selection names no series that was never committed.
* **compaction**. Steps are asked for by two callers with different cutoffs and raw-chunk
  minimums, and a plan made for one is not kept for the other. No point is lost, doubled or
  moved to another series though plans go stale and row ids are used again; a sweep that reports
  done has left nothing its caller asked to have merged; every sweep ends, once one caller goes
  on asking. The second claim is made for sweeps during which neither time nor another
  process changed what there is to find (`stirred`): see section 6 for the rest.
* **logs_server**. The live tail shows only searchable batches; a flush, or a backup, covers
  every batch answered before it was sent; the lease is given up only by a stopped writer over
  durable data; every caller is eventually answered or gone.

### Violations: where the code and its documentation disagree

* **logs_late_join**. Outside `BEGIN`, `SAVEPOINT a; INSERT; ROLLBACK TO a` keeps the entry, and
  with a `'flush'` before the `ROLLBACK TO` the index keeps a block whose row is gone: SQLite
  reports that savepoint to no `xSavepoint`, so the engine has no frame for it. The same
  statements inside `BEGIN` are undone. `logs_vtab.rs:1294` says that "failed statements and
  explicit ROLLBACK TO are covered".
* **logs_read_stale**. A flush that commits between a reader's snapshot and its copy of the
  buffer hides committed entries from it: the block is too new, the buffer already drained.
* **metrics_query_only**. A read under `PRAGMA query_only` drains the buffers, fails to store
  them, and the later commit lacks the points.
* **catalog_stale**. `find_series` compares generations before it reads the epoch. When another
  process has committed and an `xBegin` of this one notices it between the two, the answer of
  the old snapshot is admitted under the new epoch, and answers for the new catalog from then
  on. A commit of this process opens the same window, between the generation it installs and the
  epoch it raises.

## 4. Bounds

Every bound is a constant, named where it is declared.

* *Gate*: three connections, so that two writers can wait behind a third or behind a reader.
  Each address is registered twice (`MaxGen = 1`), which is what address reuse needs.
* *Logs*: two levels (blocks are per level) and one entry far enough ahead to expire the rest.
  `FlushThreshold = 3` with three entries lets explicit flushes, threshold flushes and
  unflushed prefixes all occur. `logs_read` has two savepoints, since merging a released frame
  into its parent needs a frame on each side.
* *Metrics*: two series, a threshold and a memory budget of two points, so both flush causes
  occur; a cache that holds both identities in one run and only one in the other. `MaxId`
  bounds the ids the other process takes.
* *Catalog*: one reader, two identities, two ids, three chunk generations: enough for an id and
  a generation to be reached twice by different histories. `MaxEpoch` only stops the writer.
* *Compaction*: two requests, one that takes everything and one that leaves the recent chunk and
  the few raw chunks of a busy series; budgets of two series and two points, and one series a stretch, so that a
  step ends inside a plan and a sweep takes several steps. `MaxRow = 3` bounds flushes; two
  points share a timestamp, and one starting state has a chunk larger than every budget.
* *Server*: a gate of two units with batches of one and three, so that one batch must wait for
  the other and one is clamped; two queue slots for four callers and the shutdown.

No run uses symmetry. Deadlock is checked everywhere but in `logs_server`, where the server
stops.

`FailuresUndone = TRUE` assumes that SQLite undoes a statement that fails. It does for
statements with a statement journal and in autocommit; section 6 tells what happens where it
does not. `StoreFails` reaches a state a store call can leave behind when it fails: an INSERT
calls the store only for a series it has not cached and for buffers at the threshold or over the
budget. A savepoint hook that fails to store (`metrics_vtab.rs:1809`) fails the statement that
opened the savepoint, and is covered by the same assumption.

## 5. Fairness

* *Gate*: only the scheduler of a woken thread (`RecheckAcquires`, `RecheckTimesOut`) is fair.
  That the clock goes on (`DeadlinePasses`) is the hypothesis of `WaiterSettles`, and that reads
  end (`DropPermit`) the hypothesis of `WriterServed`. Nothing is assumed of the holder.
* *Compaction*: the maintenance timer keeps stepping. A step sets `last` to "step", or to
  "stepped" after a "step", so `[]<>(last = "step")` and `[]<>(last # "step")` together say that
  steps never cease. It is stated over the history variable because weak fairness of the step
  itself is costly to evaluate.
* *Server*: the writer thread, the shutdown task and each caller's future keep being run once
  they can. No client is assumed to stay.

The other specifications are safety only.

## 6. What was learnt without a run of its own

The following are stated in the modules or follow from them. Constants not named are those of
the run in parentheses.

* `BlockRead!NeverRefused` fails (`logs_read_stale`): a query is refused while a writer's
  transaction is open. `docs/GUIDE.md:793` says inserts are queryable "from any connection in
  the same process, even before `'flush'` or `COMMIT`"; `docs/GUIDE.md:147` says, as the code
  does, that other connections get a retryable busy-style error until then.
* `BlockTxn!FloorFollowsData` fails (`logs_late_join`, with `StartModes = {"begin"}`,
  `Window = {2}`, `Cutoff = {}`): the retention floor a transaction raised survives its rollback.
* `BlockTxn!LiveRetentionIsStored` fails (the same, with `Window = {0, 2}`, `Cutoff = {4}`): a
  `retention:` command that is rolled back leaves its window in force.
* `MetricsTxn!RewindDropsBuffered` fails (`metrics_query_only`, with `QueryOnly = FALSE`,
  `MaxDepth = 2`, `MaxJoinDepth = 2`): with two savepoints open at the first write, ROLLBACK TO
  the outer one finds no frame and keeps the buffered points.
* With `FailuresUndone = FALSE`, `IndexIsRows` and `CommitsWhatWasWritten` fail: a single-row
  INSERT has no statement journal, and inside an explicit transaction a failed flush is not
  undone.
* Compaction's presence check compares row id, series, first time and count but not the
  encoding; `EachPointOnce` holds all the same. A drained plan is kept while series cool down
  and while other processes add chunks. An index that cannot be read ends a sweep as drained.
* A disconnected client's byte permit is dropped while its batch is still queued, so the queue
  may hold more bytes than the gate counts. `is_ready` keeps answering true after the writer
  ended. A worker that ended with an error lets shutdown return before the lease is released.
* By reading only: `Drop` of a table object releases the gate and leaves the journal. When a
  connection closes, SQLite has rolled back first, and `WriterGate!Close` relies on it. A DROP
  TABLE inside a transaction that wrote to the table reaches `Drop` through xDestroy with the
  journal still open, while the comment at `blocks/engine.rs:781` calls nested begins impossible;
  no action models it.
* By reading only, with no model yet: a late sample may arrive while a rollup cycle advances
  its settled mark (`engine.rs:1872`).

## 7. Plan

1. `Registry`: open, rename, drop and reopen of shared engines; the registrations `WriterGate`
   takes as given.
2. `Rollup`: tiers, the settled mark against late samples, bounded cycles, merging of rollup
   chunks.
3. `SpanTxn` over `HostTxn` and `TxnTable`, and span reads.
4. `MetricsServer` and `TracesServer` beside `LogsServer`; reader threads; the exporter's queue.
5. Schema upgrade under a crash.
6. Proofs: `IndexIsRows` and `EachOnce` for `BlockTxn`; `NoOrphans` and `TotalsAreRows` for
   `MetricsTxn`; `TailIsSearchable` and `ReleasedIsDurable` for `LogsServer`;
   `StatsMatchSnapshot` for `CatalogReads`.

## 8. What is proved

`WriterGateProofs` proves, for every finite set of addresses and every number of registrations
(`AddrAssumption`, `MaxGenAssumption`, `NoneAssumption`):

| Theorem | Says |
|---|---|
| `GateInvariant` | the inductive invariant holds of `Spec` |
| `GateJournalSingleWriter` | the open journal belongs to the holder of the gate |
| `GateHolderIsLive` | the holder is the current registration of its address |
| `GateNoReadUnderWriter` | no read copies while another connection holds the gate or has the journal open |
| `GateCountersExact` | `readers` and `waiting_writers` count exactly the callbacks in those states |
| `GateNoLostWakeup` | a writer sleeps only while the gate is busy |

The argument: the safety properties are not inductive alone. They say
nothing of where the holder stands: one that could also be parked, or reading with a permit of
its own, would end a wait or a read it is counted for. `HolderPlaced` excludes that. And the gate
decides by `readers`, while the properties speak of connections that read, so each step needs
the counters to be exact. `SafetyInv` is therefore the conjunction of all safety properties,
`HolderPlaced` and `CountersExact`. `CountersStep` moves the two counters with one change of phase by
`CountAdd` and `CountRemove` (cardinality of a set with one element more or less).
`ActionKeepsCounters` and `ActionKeepsSafety` have a step for each action.

Only model-checked: liveness everywhere, the refinements, and all properties of the other
modules.
