# Mini-Mito in TLA+

This directory holds TLA+ specifications of Mini-Mito, the LSM storage engine in
this repository, TLC configurations that model-check them on small instances, and
TLAPS proofs of the properties that matter most. Paths such as
`memtable/memtable.rs` are relative to the crate's `src/`; line numbers are those
of the commit the project was written against, and `PROJECT.json` maps every
definition to the lines it stands for.

1. [The system](#1-the-system)
2. [The modules](#2-the-modules)
3. [Runs](#3-runs)
4. [Proofs](#4-proofs)
5. [What the checks found](#5-what-the-checks-found)
6. [What is not modelled](#6-what-is-not-modelled)
7. [Plan](#7-plan)

## 1. The system

### Components

| component | state | operations | must be correct |
|---|---|---|---|
| **Region** (`memtable/memtable.rs` 236-921, `version.rs`, `traits.rs`) | `seq` counter; `version` = active memtable, frozen memtables, SSTs behind one mutex; commit gate and write gate (`RwLock`); job channel; worker error | `write`, `delete`, `write_batch`, `get`, `begin`, `commit`, `flush`, `compact`, `iter_all_data`, `close` | no row is lost between memtable and SST; a reader finds the newest row; no deadlock; `flush` returns only when flushed |
| **Transactions** (`memtable/transaction.rs`) | `snapshot_seq`, an index of the newest row per key below it, buffered writes | `get`, `write`, `delete`, `commit`, drop | snapshot isolation, first committer wins, all or nothing |
| **Columnar memtable** (`memtable/columnar.rs`) | 16 shards of series, each columns of (ts, seq, value); the WAL it logs to | insert (log, then push), `get`, `to_batches`, `freeze`, `fork`, `replay` | a frozen copy is final; what is logged is what is inserted |
| **Background worker** (`memtable.rs` 49-234) | the job in hand, first error, files it could not delete | `flush_one`, `compact`, answering Sync, Shutdown | swaps lose nothing; files go only after the Version stops naming them |
| **WAL** (`memtable/wal.rs`) | file, write buffer, unsynced bytes, sync policy | append a frame, sync, recover, close | what was synced is recovered, a frame whole or not at all, in order |
| **Open and recovery** (`memtable.rs` 313-540) | manifest, SST files, WAL files | load manifest, adopt SSTs, replay the active WAL, merge orphan WALs | after a crash at any point nothing durable is lost and nothing deleted returns |
| **SST** (`sstable/sstable.rs`, `bloom.rs`) | file of row groups, index, FIFO cache of decoded groups | build, point read, range scan | index and cache never hide a row |
| **Merge** (`query/merge.rs`) | a heap of cursors over sorted sources | next row, batches | the newest row of each key, once, in key order |
| **Scan** (`query/stream.rs`, `provider.rs`, `scan.rs`, `predicate.rs`) | merge iterator, limit, time range | extract a range from filters, stream batches | pruning never drops a row the filter keeps |
| **Schema** (`schema.rs`) | tag and field columns | encode and decode rows, Arrow columns | decoding inverts encoding |

### How they interact

```
 client threads ──write/commit──▶ commit gate ─▶ seq ─▶ write gate ─▶ active memtable ─▶ WAL
      │                                                          │ freeze (write gate alone)
      ├──get──▶ clone of Version: active, frozen…, SSTs…          ▼
      ├──begin─▶ commit gate alone: seq, Version, sources   Job::Flush ─▶ channel (8) ─▶ worker
      └──flush/compact──▶ Job, then Job::Sync and wait ───────────────────────▲          │
                                                 swap Version, manifest, unlink ◀────────┘
```

All shared state hangs off one `Version` behind a mutex. Three parties replace it
(`freeze_active`, `flush_one`, `compact`), each by cloning it, doing long work, and
then building the new one *from what the Version is by then*. Two read-write locks
keep apart what must not overlap: the **commit gate** (shared by single writes and
readers, owned by `write_batch`, `begin` and `commit`) and the **write gate**
(shared by everyone who inserts, owned by `freeze_active`).

### What is hard

* **Interleaving.** Up to four kinds of threads work on the same Version, and
  only some pairs exclude each other. A sequence number is taken before the write
  gate, so rows reach memtables out of order.
* **Atomicity.** A commit inserts row by row; its atomicity is only the commit
  gate's.
* **Ordering and stale state.** `get` prunes by each source's `max_seq`;
  windowed compaction makes files whose ranges overlap.
* **Blocking.** The job channel is bounded; a caller blocks inside `send`.
* **Crashes.** The WAL is buffered, the manifest is renamed into place, WALs and
  SSTs are unlinked: the order of those decides what survives.

`PROJECT.json` lists every hazard with its line and the properties aimed at it.

## 2. The modules

| module | what it is |
|---|---|
| `SnapshotStore` | abstract: a key-value store with snapshot transactions, as a caller may rely on it |
| `Region` | the live Region, its clients and its worker; refines `SnapshotStore` |
| `RegionInv` | the inductive invariants of `Region`, in named parts |
| `Region_proofs`, `RegionWork_proofs`, `RegionTxn_proofs` | its proofs: storage; worker; refinement and readers |
| `MCRegion` | symmetry for TLC |
| `DurableLog` | abstract: a log of transactions with a durable first part |
| `Durability` | a Region's directory through crashes and openings; refines `DurableLog` |
| `DurabilityInv`, `Durability_proofs` | its inductive invariants, of the files and of the rows in them, and the proofs |
| `Scan` | a SQL scan: time range, pruning, k-way merge, tombstones, limit |
| `ScanInv`, `Scan_proofs` | its inductive invariant, and the proof that it loses no row, repeats none and returns no old one |
| `FlushWorker` | the job channel, failing jobs, the error latch, barriers, `close()`, `Drop` |
| `FlushWorkerInv`, `FlushWorker_proofs` | its inductive invariant and the proof |
| `RowCodec` | rows as bytes: the schema's codec, frames of the log, column batches |
| `SstTable` | an SST: row groups, index, Bloom filter, point read, range scan, projection |
| `RowPath` | a row on its way through both: log, replay, memtable, SST, file, compaction |
| `RowPath_proofs` | its proofs, and those about the codec, the log, batches and scans of SSTs |
| `GroupCache`, `GroupCache_proofs` | the cache of decoded row groups under concurrent readers, and its proof |
| `Reads`, `MCReads` | `Scan`, `RowPath` and `GroupCache` side by side; tables and bytes for TLC |

### SnapshotStore

`kv` holds the version of each key, and a transaction is a snapshot of all of
`kv` and a set of keys it will write. `Put` moves some keys to newer versions at
once; `Commit` does so for exactly the keys written, provided none of them changed since the
snapshot; `Reject` needs such a change. Nothing in it mentions memtables,
sequence numbers or gates.

### Region

A **row** is a key with the sequence number of the write that made it. Its value
or tombstone is whatever that write carried, so "which value does a reader get"
is "which sequence number". A key stands for its timestamp too (the code's keys
are series and timestamp; compaction windows only look at the timestamp).

| variable | code |
|---|---|
| `seq` | `Region::seq`, the next number |
| `mem[g]`, `frozen[g]` | the g-th memtable created and the copy `freeze()` took of it |
| `version` | `Arc<Mutex<Arc<Version>>>`: `active`, `imm`, `ssts` |
| `sst[i]`, `files` | contents of the i-th SST ever written; the files on disk |
| `queue`, `worker` | the job channel; what the background thread has in hand |
| `pc`, `todo`, `view`, `key`, `best`, `unread`, `found`, `barrier` | a client's place in its call and its locals |
| `tx`, `snap`, `index`, `writes` | its transaction |
| `latest`, `seen` | history: the newest row inserted per key, and what that was when the client passed the commit gate |

The gates have no variables: who holds one follows from where each client is
(`SharesCommit`, `OwnsCommit`, `SharesWrite`, `OwnsWrite`), as the guards in the
code are scopes. One action is one stretch of code between two points where
another thread can interfere:

| code | actions |
|---|---|
| `write`, `delete` | `TakeTicket`, `EnterWriteGate`, `Insert`, then the tail |
| `write_batch` | `TakeTickets`, `EnterWriteGate`, `Insert` per row, tail |
| `begin` | `BeginSnapshot`, `BeginIndexes` or `BeginFails`, `Return` |
| `commit` | `CommitLock`, `EnterWriteGate`, `CommitConflicts` / `CommitFails` / `CommitNumbers`, `Insert` per row, tail |
| buffered writes, empty commit, drop | `TxnWrite`, `CloseIdle` |
| `get` | `GetStart`, `GetActive`, `GetImm`*, `GetSst`* or `GetFails`, `Return` |
| `snapshot_columnar_sources`, `iter_all_data` | `ScanStart`, `ScanShard`*, `ScanRest` or `ScanFails`, `Return` |
| tail of a write (`maybe_flush`, `maybe_compact`) | `MaybeFlush`, `FreezeNothing` or `FreezeCopy`, `FreezeSwap`, `EnqueueFlush`, `MaybeCompact`, `EnqueueCompact` |
| `flush`, `compact` | `FlushCall` / `CompactCall`, the same freezing and enqueueing, `EnqueueSync`, `BarrierReturns` |
| worker | `FlushBuild`, `FlushSwap`, `CompactPick`, `CompactSwap`, `CompactUnlink`, `AnswerSync` |

Abstractions, and why they are sound for the properties:

* Taking a lock and the first statements under it are one action; a reader that
  holds the commit gate shared is inside a `get_*` or `scan_*` location.
* A memtable is one set of rows, a key stands for a shard (a key lives in one
  shard, and the order of shards is a hash's). `begin` reads all shards with every
  writer excluded; a scan reads them one by one, which `ScanShard` does.
* `Insert` pushes the row and counts it, `max_seq` included, in one step; `columnar.rs` 213-218 does so one
  after the other. Only a `get` or scan beside a plain write that has not returned can see it in between, and
  it may then miss that row, which none of the properties asks of it.
* Opening all sources in `begin` and looking at all keys in `commit` are one step
  each: the files can only disappear, so "some file is gone at the end" covers
  every interleaving of the opens. Both may also succeed on a file that is cached
  or opened in time, so failure is a choice where the code has one.
* `write_batch` of nothing returns at once and is left out.
* I/O fails only where another thread's step makes it fail: a file already
  unlinked. Crashes belong to `Durability`, failing jobs to `FlushWorker`.

`Visible`, the mapping to `SnapshotStore`, is `latest`, except that while a batch or
a commit is being inserted it is what `latest` was before: the commit gate makes the
rows of it appear together.

### DurableLog

A `log` of transactions, of which the first `synced` cannot be lost. `Stop` takes
what is served away, `Recover` keeps some first part of the log, at least the
synced one, and serves exactly what it says.

### Durability

One thread writes (`Region` has the threads) and the worker runs beside it; what is
modelled here step by step is what happens to *files*, since a stop may come between
any two of those operations.

| variable | code |
|---|---|
| `wal` | the log files by number: frames, and how many of them are synced |
| `sst`, `manifest` | the SST files by id; whether `manifest` exists and the ids it lists |
| `phase`, `orphans`, `pending` | how far `with_schema` has come: older logs to merge, rows of the first still to write |
| `active`, `ops`, `imm`, `ssts`, `seq`, `sstId` | memory: memtables with the number of their log, `ops_since_sync`, the Version, the counters |
| `writer`, `worker` | how far a freeze has come; the job in hand and how far it is |
| `cutoff` | what TTL makes of the clock |
| `log`, `synced`, `txns`, `purged`, `stops` | history |

| code | actions |
|---|---|
| `with_schema`, `load_manifest`, `scan_sst_files`, `ColumnarMemtable::new`, `Wal::recover` | `Open` |
| `merge_orphan_wals` | `MergeRow`*, `RemoveOrphan` |
| watermark, first manifest | `Serve` |
| `write`, `write_batch`, `commit`, down to the log | `Write` |
| `fork`, `freeze`, swap | `StartFreeze`, `Fork`, `Freeze` |
| `flush_one` | `FlushBuild`, `WriteManifest`, `FlushRemove` |
| `compact` | `CompactSwap`, `WriteManifest`, `CompactRemove`* |
| the clock, `close()` | `Expire`, `Close` |
| power loss, kill, drop without `close()` | `Crash` |

What is assumed of the file system, none of which the code makes sure of:
creating, renaming and removing a file are durable at once and in order (no
directory is synced); the unsynced part of a log survives as some first part of its
frames and possibly a torn one; what is found after a crash stays. Numbers of logs
stay below 1000: their names sort as strings. Steps that touch no file (building an
SST under a temporary name, swapping the Version) are joined to the operation
they precede, as a stop between them leaves the same directory. `maybe_flush` may
freeze after any write and `flush` at any time, so `StartFreeze` has no
threshold.

`Serve` shortens the history `log` to the longest first part that explains what is
served; if none does (part of a transaction is served, say), `log` stays and
`ImplementsLog` fails.

### Scan

What a SELECT does once it has its snapshot is sequential, so the interleavings are
left to `Region` and the hazards are in the data: which source, batch or row
group a row is in, and what is pruned. `Execute` therefore chooses any
contents the sources can have: up to `MaxWrites` rows are written, each to one or more
sources, and a source keeps the newest row of each key. (A row is in one source at a
time in the engine, and then the sources' order does not matter; the choice allows more.)

| variable | code |
|---|---|
| `filters`, `cutoff` | the expressions given to `LSMTableProvider::scan`; `ttl_cutoff()` |
| `range`, `limit` | what `LSMScanExec` keeps of them |
| `rows` | the snapshot of the Version's memtables and SSTs |
| `batches`, `cursor` | what each `Source` still delivers; the rest of a `SourceCursor`, whose first row is its entry in the heap |
| `buffered`, `result` | the output batch being built; what `LSMStream` has returned |

| code | actions |
|---|---|
| `extract_time_range`, the TTL clamp | `Plan` |
| `LSMScanExec::new` | `Prepare` |
| `snapshot_columnar_sources`, `scan_batches`, `ensure_primed` | `Execute` |
| `MergeBatchIter::next_batch`, one turn of its loop | `MergeKey` |
| `LSMStream::refill`, `strip_internal` | `HandOut`, `Exhausted` |

Tags, timestamps and literals are small integers; only their order matters. A parquet
batch is a row group (the reader may cut it finer, which is one more batch boundary).
Projection and column types are `SstTable`'s, failing reads are left out; filters on other columns and
expressions of other shapes leave the range alone, as no filter does. DataFusion
applies the filters again to what the scan returns and hands a limit down only
without filters (they are `Inexact`); both are taken as given. Memtable rows are not
filtered by the range, so the properties speak of rows in range.

### FlushWorker

The same worker as in `Region`, seen from its failures and its end. A memtable is a
number and its rows one piece of data, so nothing is said of keys, gates or windows here, and
in return every step of a job may fail and every call may be made by anybody at any time.

| variable | code |
|---|---|
| `jobs`, `alive`, `handle`, `worker` | the channel; the thread and its `JoinHandle`; the job in hand |
| `error` | `bg_error`, first error kept |
| `active`, `dirty`, `imm`, `ssts`, `sst` | the Version |
| `manifest`, `files`, `wals`, `pending` | the directory, and `pending_deletes` |
| `call`, `pc`, `out`, `result` | a client's call, its place in it, the job it sends, its result |
| `before`, `late` | history: flushes sent before the client's barrier; whether the error was older than the call |

| code | actions |
|---|---|
| `write`, `write_batch`, `commit` | `WriteCall`, `MaybeFlush`, `Freeze`, `MaybeCompact` |
| `flush`, `compact`, `close`, `drop` | `FlushCall`, `CompactCall`, `CloseCall`, `DropCall` |
| `enqueue`, `check_bg_error` | `Enqueue`, `Send` or `SendFails` |
| `flush_barrier` | `BarrierFails`, `BarrierPasses` |
| `shutdown_worker` | `TakeHandle`, `SendShutdown`, `Join`, then `LastCheck` |
| `worker_loop`, `retry_pending_deletes` | `Receive` in each of `StartFlush`, `StartCompact`, `AnswerSync`, `Shutdown` |
| `flush_one`, `compact` | `FlushSwap`, `CompactSwap`, `WriteManifest`, `Remove`, or `JobFailed` between any two |

A panic caught by the loop is recorded like an error. What a failed job has done stays done:
the SST in the Version without being in the manifest, say. A panic while
`compact` holds the Version's mutex would poison it and is left out, as are errors of the caller's own
file operations: those of `freeze`, and of the final sync in `close`.

### RowCodec, SstTable, RowPath

These are the conversions a row goes through, as operators, and a state machine of one client
that takes a table's rows through them: `AppendBatch` writes a frame and the memtable,
`Damage` is what a stop or the disk does to the log, `Recover` replays it, `Flush`
makes an SST of the memtable, `Reopen` reads its index back from the file, `Compact` merges it
into another. Every table, key, value, frame layout and point of damage within the bounds
is tried. That the keys it merges are sorted is a guard of `Compact` where `check_sorted` (`merge.rs` 77) returns an
error; they always are, since the rows of an SST are and `ExtractKeys` reads the same keys.

A byte is a number, and so is whatever the code writes in two, four or eight bytes. Bytes
may thus still be mistaken for a length, which is what a decoder gets wrong. A checksum is the
payload it was made of, so it never fails to notice; a real CRC may. Of column
types only those that behave differently are there: bytes, Booleans (any byte but 0
comes back as 1), integers and timestamps. Strings behave as bytes that have to be valid UTF-8,
floats as integers; time zones, which `cells_to_array` forgets, are not modelled. The hash has two
digits and the Bloom filter eight bits: false positives are frequent.

| code | definitions |
|---|---|
| `schema.rs` | `EncodeTags` .. `Value`, `CellsToArray`, `CellOrEmpty`, `AppendFrom` |
| `wal.rs` | `EncodeOps`, `ReadOp`, `DecodeOps`, `Readable`, `Recovered` |
| `columnar.rs` 55-138, 304-317 | `Kept`, `IsFast`, `FastBatch`, `BatchFromRows`, `ToBatches` |
| `bloom.rs` | `Hash`, `BitIndexes`, `BloomContains` |
| `sstable.rs` | `CreateFromBatches`, `ToJson`, `FromJson`, `CandidateRowGroup`, `SearchBatches`, `Get`, `SelectRowGroups`, `Wanted`, `RebuildFullWidth`, `NextBatch`, `ScanBatches` |
| `merge.rs` 91-132, 238-265 | `ExtractKeys`, `MergedBatch` |

### GroupCache

`map` and `order` are the fields of `GroupCache`. A reader finds its group missing
(`Miss`), decodes it without the lock (`DecodeGroup`, which may fail) and puts it in
(`Insert`), unless somebody else has done so meanwhile.

### Reads

`Scan`, `RowPath` and `GroupCache` run in one TLC run but never at once: a scan opens
its own files, and a cached group is what decoding it yields (an SST never changes). `Reads`
only starts a part while the others are at rest in their initial states.

## 3. Runs

The `region_*` runs use two clients (one in `region_stale_compact`) and small
thresholds, so that freezing, flushing and compacting happen after one or two rows.
`MaxSeq` bounds the numbers handed out, hence the rows ever written. `region_txn` has
three rows over two keys: a row can be overwritten, frozen, flushed and merged while
two transactions overlap. `region_background` lets the clients make every kind of call but
transactions, in all orders, over three keys in two compaction windows; it stops at two rows,
every one of which is frozen: enough for a row to be overwritten, flushed, merged with its
successor and read meanwhile, since what is checked there is about one row, or one pair
of rows of a key, and where they are. `region_stale_compact` shows what takes five rows. Clients are symmetric. `CHECK_DEADLOCK FALSE`
is set where a run ends because all numbers are handed out.

| run | properties | outcome | what it shows |
|---|---|---|---|
| `region_txn` | `ImplementsStore` | holds | Two clients with plain writes, batches and transactions on two keys while memtables are frozen, flushed and, with every write, compacted: every interleaving is one of the abstract snapshot store, begin and commit that fail on an unlinked file included. |
| `region_background` | `ReadInv`, `ScanKeepsUp`, `FilesLive`, `GetNeverMisses`, `NewestPresent`, `FrozenIsFinal`, `FlushPending`, `FlushReturnsFlushed` | holds | Writes, batches, reads, scans, flush() and compact() of two clients against the worker: no row is lost on the way from memtable to merged SST, and a read or a scan that does not fail has everything that was there when it began. |
| `region_live` | `TypeOK`, `StorageInv`, `FilesKept`, `FlushInv`, `TxnInv`, `CallsReturn`, `FreezesFlushed` | holds | Transactions and flush() calls on one key, every write frozen, come to an end although they freeze, queue and wait on two gates and a bounded channel, and frozen memtables reach disk; the inductive invariants hold on the way, those behind the refinement included. |
| `region_stale_compact` | `GetNotStale` | **violated** | With one thread: after two windowed compactions get() takes an older SST's row over the newer one. |
| `region_read_fails` | `ReadsNeverFail` | **violated** | A get() that cloned the Version before a compaction finds its file unlinked. |
| `crash_once` | `DirectoryInv`, `ImplementsLog` | holds | A crash between any two file operations in writing, freezing, flushing, compacting or the first opening, with or without a torn frame, costs at most the unsynced end of the log once the Region has been opened again; the inductive invariant behind it holds on the way. |
| `crash_restarts` | `TypeOK`, `ManifestNamesFiles`, `CountersAhead`, `LogsReclaimed` | holds | Two crashes, compaction and expiry: the manifest never names a file that is gone, the next sequence number and file name are ahead of all that can be found again, and old logs go away. |
| `crash_torn_tail` | `SyncedSurvives` | **violated** | A write that was synced and even closed is lost if an earlier crash left a torn frame in the same log. |
| `crash_orphan_merge` | `SyncedSurvives` | **violated** | A crash soon after an opening that merged an older log loses rows that were synced in it. |
| `crash_ttl_empty` | `ExpiredStayDead` | **violated** | A compaction that leaves no rows, and a crash before it has removed its inputs, bring expired rows back. |
| `reads` | `RangeKeeps`, `OnlyLiveRows`, `NothingMissed`, `OneRowPerKeyInOrder`, `LogReplays`, `GetsWhatWasWritten`, `ScanFindsRange`, `ProjectionKeepsRows`, `ShortcutAgrees`, `CacheInStep` | holds | A SQL scan of a memtable and an SST of three writes, with every pair of comparisons and a limit; every row of three operations from its bytes in the log to a compacted SST of four tables, point reads, range scans and projections of it; and three readers that share a cache of two row groups. |
| `worker` | `WorkerInv`, `TypeOK`, `OkMeansWritten`, `NothingLost`, `ErrorIsReported`, `DropDrains`, `ForgottenIsReported`, `CallsEnd` | holds | Two clients, three calls, a channel of two and one failing step of the worker: close() and Drop against writes and flushes of others, errors kept and reported, and no call left waiting. |

The `crash_*` runs have two keys (one in `crash_restarts` and most of those that show a
violation), up to four transactions, one or two stops and up to three freezes. Two stops are what it
takes to interrupt an opening that follows a crash, and three logs what it takes to
have an active log, a frozen one and an orphan. `SyncEvery` is 1 or 2
rows instead of the code's 100 so that synced and unsynced frames both occur in one
log. `CompactThreshold = 2` lets two flushes meet in a window. `crash_once`
allows one stop only: with a second one lie the violations; `crash_restarts`, with two, is about files and numbers. `CHECK_DEADLOCK FALSE` is set in them because
the transactions and stops run out.

`reads` adds up the states of three parts that share nothing. The scan has two series of
two timestamps, one memtable and one SST, up to three writes (put, put and delete of one
key beside another key, in every placement), row groups and output batches of two
rows, so that both a source's rows and the output cross a batch, a limit of two or
none, and up to two comparisons. The path of a row has four tables (the default
one, the same with timestamps, two tags in another order than their columns and no field, other
types), up to three operations in frames of one or two, tags of no or one byte and two
timestamps, row groups of two and reader batches of one or two rows, so that a key is first,
last, between and outside groups and batches; a tag length wraps at 4 and a
frame is too long above 14, so that both limits are passed. Three readers of three row groups share a cache of two, the fewest
that make two of them miss the same group while a third evicts. It stops
when a part has come to its end.

`worker` has two clients and three calls of any kind, a channel of two, a memtable whose
every write may or may not freeze, and one failure anywhere in the worker's steps or
removals; two SSTs are merged. Three calls are a write that freezes, one whose job fails or
is closed upon, and one that has to report it. The calls run out, so deadlock is
not checked; `CallsEnd` says that nobody waits for ever.

**Fairness.** `FairSpec` of `Region` is weak fairness of the worker (a thread that loops on
`recv`) and of every client inside a call (no thread stops in the middle of one).
Nobody has to make a call. A client that waits for the commit gate
has not taken its first step in the model, so nothing is claimed about
`RwLock` being fair to writers. A client at the write gate is let in eventually
because nobody stays inside: the exclusive holder does two steps, the shared ones
insert their rows. A client blocked on a full channel needs a free slot over and over: weak
fairness covers that only while others do not snatch the slot each time, which two
clients and a channel of two (`region_live`) exclude; starvation among many
callers on a one-slot channel is not excluded by `mpsc` either and not
claimed. `FairSpec` of `Durability` is weak fairness of opening (it is a
function call), of a freeze under way and of the worker; nobody has to write, crash
or close, and the bounds make crashes finite. `FairSpec` of `FlushWorker` is weak fairness of
the worker thread and of every client inside a call; nobody has to call. That no
call waits for ever relies on `MaxCalls` in one place: a sender that waits for room is passed over
only as often as others send, and `mpsc::sync_channel` promises no order
among waiting senders either.

## 4. Proofs

TLC checks small instances; the theorems hold for every value of the constants that
satisfies the named assumptions of the module proved about: every set of clients and readers, any
thresholds, capacities and bounds, and where a set is assumed finite (keys, timestamps, the sources of a scan) the
program has no other. A theorem stands in the module named with `_proofs` added.

| module, theorem | states | |
|---|---|---|
| `Region`: `StorageCorrect` | `Spec => []StorageInv` | The inductive invariant of the Region: gates, locations, jobs, memtables and SSTs, for any number of clients, keys and rows and any thresholds. |
| `Region`: `TypeCorrect` | `Spec => []TypeOK` | Every variable keeps its type and every file on disk was written, in every behaviour. |
| `Region`: `NewestRowPresent` | `Spec => []NewestPresent` | Freeze, flush and compaction never take the newest row of a key out of the current Version. |
| `Region`: `FrozenStaysFinal` | `Spec => []FrozenIsFinal` | No row is inserted into a memtable after freeze() copied it. |
| `RegionWork`: `VersionFilesLive` | `Spec => []FilesLive` | The current Version never names an SST whose file has been unlinked, whatever the worker merges. |
| `RegionWork`: `NoFlushForgotten` | `Spec => []FlushPending` | Every frozen memtable has its flush with the client that froze it, in the queue or with the worker. |
| `RegionWork`: `FlushedOnReturn` | `Spec => []FlushReturnsFlushed` | A flush() is woken only when the memtable it froze is in an SST, whatever others freeze and send meanwhile. |
| `RegionWork`: `WorkerKeepsFiles` | `Spec => []FilesKept` | Every file the current Version, a merge or a swap still needs is on disk, at every step of the worker. |
| `RegionWork`: `FlushesInOrder` | `Spec => []FlushInv` | The inductive invariant behind flush(): where the flush of every frozen memtable is, that a Sync job stands behind the flushes it vouches for, and that no two clients send the same memtable. |
| `RegionTxn`: `TxnCorrect` | `Spec => []TxnInv` | The inductive invariant of transactions: who owns the commit gate, which numbers are out, what a snapshot separates, and what the store was before a batch or commit that is half inserted. |
| `RegionTxn`: `RegionImplementsStore` | `Spec => ImplementsStore` | The Region implements the snapshot store: every step of every client and of the worker is a step of it or a stutter, so transactions have snapshot isolation and the first committer wins. |
| `RegionTxn`: `ReadersCorrect` | `Spec => []ReadInv` | The inductive invariant of readers: what was the newest row when a get or a scan began has been found, or lies in a source it has left to read. |
| `RegionTxn`: `ScansKeepUp` | `Spec => []ScanKeepsUp` | A scan that does not fail has, of each key, a row no older than the newest when it began, whatever is written, frozen, flushed and merged meanwhile. |
| `RegionTxn`: `GetsNeverMiss` | `Spec => []GetNeverMisses` | A get that does not fail finds a row of every key that had one when it began. |
| `FlushWorker`: `WorkerCorrect` | `Spec => []WorkerInv` | The inductive invariant of the background thread: calls, channel, files, errors and barriers, for any number of clients, calls and failures and any capacity. |
| `FlushWorker`: `WorkerTypes` | `Spec => []TypeOK` | Every variable keeps its type, and the channel never holds more than its capacity. |
| `FlushWorker`: `OkIsWritten` | `Spec => []OkMeansWritten` | A flush(), compact() or close() that returns Ok vouches for every flush sent before its barrier. |
| `FlushWorker`: `RowsStayOnDisk` | `Spec => []NothingLost` | The rows of every memtable stay in its log or in an SST the manifest lists, whichever steps and removals fail. |
| `FlushWorker`: `ErrorsStay` | `Spec => []ErrorIsReported` | A flush(), compact() or close() that begins after a job failed returns Err. |
| `FlushWorker`: `DropLeavesNothing` | `Spec => []DropDrains` | No job stands behind the Shutdown of a Drop. |
| `FlushWorker`: `NoneForgotten` | `Spec => []ForgottenIsReported` | A frozen memtable has its flush sent or in a client's hands, unless an error is there or a close() has taken the worker. |
| `Durability`: `DirectoryCorrect` | `Spec => []DurableInv` | The inductive invariant of a Region's directory through any number of stops, torn frames and openings: logs, memtables, SST files, manifest and numbers. |
| `Durability`: `DirectoryTypes` | `Spec => []TypeOK` | Every variable keeps its type, the log in use exists, and only its end is not synced. |
| `Durability`: `ListedFilesExist` | `Spec => []ManifestNamesFiles` | Wherever a stop comes, every SST the manifest lists and every SST of the Version is in the directory. |
| `Durability`: `NumbersStayAhead` | `Spec => []CountersAhead` | However often the process stops and opens again, the next sequence number is above every row in reach and the next file name is that of no file. |
| `Durability`: `DirectoryKeepsLog` | `Spec => []DirectoryInv` | Up to the second stop, and while nothing has expired, a first part of the log of transactions, not shorter than the synced one, explains the rows in memory, in the files, and at each step of opening what is in reach. |
| `Durability`: `ImplementsUntilSecondStop` | `Spec /\ []OneStop => ImplementsLog` | Up to the second stop, and while nothing has expired, the Region implements a log of transactions with a durable first part: every step of writing, freezing, flushing, merging, stopping and opening is a step of that log or a stutter. |
| `Durability`: `FirstStopKeepsSynced` | `Spec => [](OneStop => SyncedSurvives)` | Up to the second stop, and while nothing has expired, every transaction that was synced is served: SyncedSurvives, which a second stop violates. |
| `Scan`: `RangeLosesNothing` | `Spec => []RangeKeeps` | The time range taken from a query's filters, clamped by TTL, contains every timestamp all filters accept and the cutoff leaves. |
| `Scan`: `PruningLosesNothing` | about `Overlaps` | A row group skipped for its smallest and largest timestamps has no row in the range. |
| `Scan`: `SourcesDeliver` | about `Given` | The batches a memtable or an SST delivers are in the order of keys, within and across batches; they hold its rows only, and every one of them in range, whatever is pruned. |
| `Scan`: `MergeCorrect` | `Spec => []MergeInv` | The inductive invariant of the merge: what has been handed out, the cursors and the batches still to come fit together, for any number of sources and rows, any contents, limits and sizes of batches. |
| `Scan`: `LiveRowsOnly` | `Spec => []OnlyLiveRows` | A scan hands out no row in range that has been overwritten or deleted, whichever source holds the newer row and however it is pruned. |
| `Scan`: `NoLiveRowMissed` | `Spec => []NothingMissed` | A scan that ends has handed out every live row in range, or as many rows as were asked for; never more. |
| `Scan`: `KeysInOrder` | `Spec => []OneRowPerKeyInOrder` | Rows come in the order of keys and no key comes twice, across batches too. |
| `RowPath`: `FramesReadBack` | about `DecodeOps` | What EncodeOps makes of any operations whose tags' lengths fit, DecodeOps turns into the same operations, however many they are and whatever keys and values are made of. |
| `RowPath`: `ReplayCorrect` | `PathSpec => []LogReplays` | A log that is replayed yields the operations of its frames, in order, up to the first that is torn, changed or too long, and nothing else. |
| `RowPath`: `ShortcutCorrect` | `PathSpec => []ShortcutAgrees` | For one tag and one field of bytes the batch made of a series is the same whether or not the general way is cut short, whatever rows the memtable holds. |
| `RowPath`: `GetsCorrect` | `PathSpec => []GetsWhatWasWritten` | A point read of an SST finds for every key exactly the newest row that was in the memtable, value or tombstone, and nothing for any other key, whatever the schema, the cells, the row group and batch sizes, through flush, reopening and compaction. |
| `RowPath`: `ScansFind` | `PathSpec => []ScanFindsRange` | A scan of an SST hands out exactly the rows whose keys and times are in its ranges, in order, whatever row groups it skips and whichever batches it passes whole or drops, for any schema, cells, ranges, row group and batch sizes. |
| `RowPath`: `ProjectionsKeep` | `PathSpec => []ProjectionKeepsRows` | A scan of some columns, whichever and in whatever order, has them in their places and leaves the keys, sequence numbers and operations of every row as they are in the file. |
| `GroupCache`: `CacheStaysInStep` | `CacheSpec => []CacheInStep` | Queue and map of the group cache stay in step and within the capacity, for any number of readers and row groups and any capacity. |

### Region

The argument is one inductive invariant, `StorageInv` in `RegionInv`. TLC checks it
in `region_live`, so its parts are known to be true before they are proved.
Neither `NewestPresent` nor `FrozenIsFinal` is inductive alone:

* `FrozenIsFinal` (a frozen copy equals its memtable) needs that whoever
  inserts does so into a memtable that is not frozen. `WriteGateHeld` says so:
  all who hold the write gate, shared or not, have a view whose active memtable is
  the current one, and nobody freezes while somebody inserts. `Shape` places the
  active memtable at the end of `mem`, beyond every frozen one, except between
  `FreezeCopy` and `FreezeSwap`.
* `NewestPresent` (the newest row of each key is within reach of the current
  Version) is disturbed by the three swaps. `FreezeSwap` replaces the active memtable by its
  copy, equal by `FrozenIsFinal`. `FlushSwap` replaces the copy by an SST of its
  newest rows (`WorkerKnows`), and `CompactSwap` SSTs by the newest rows of
  their union; `LatestBounds` (no row is newer than `latest`) makes the newest row of a
  key one that such a merge keeps (lemma `NewestSurvives`).
* `ViewsExist`, `JobsExist`, `WorkAhead` say that what a client or a job names
  exists, and `BarriersWait` that a Sync job's client is at its barrier, so
  that answering it cannot move a client elsewhere.

The proof has a lemma per group of actions. Steps that only concern one client
go through `ClientStep`, which needs just the new state of that client; the six
steps that write or move rows (`Insert`, `FreezeCopy`, `FreezeSwap`, `FlushBuild`,
`FlushSwap`, `CompactSwap`) have their own. `LargestIsLargest` (a bounded non-empty
set of numbers has a largest element) comes from the well-foundedness of the
strict subset ordering.

`RegionWork_proofs` goes on from `StorageInv` to what the worker is asked to do:

* `FilesLive` (the Version names only files that are there) needs to know what the worker is in
  the middle of: `FilesKept` adds that the SST about to be swapped in is on disk, and
  that those about to be unlinked are no longer in the Version.
* `FlushPending` (no frozen memtable is forgotten) is inductive with `StorageInv`: the flush moves from the
  client to the queue, to the worker, to the Version, and no other step touches it.
* `FlushReturnsFlushed` (a `flush()` that returns has its memtable in an SST) is the hard one:
  `SyncBehindFlush` says that the Flush job of a waiting client lies before its Sync
  job. When the Sync job is sent, `FlushPending` finds the flush in the queue, with the worker, or with
  a client yet to send it; `FreezersApart` (no two clients have frozen the same memtable)
  rules out that this is somebody else. `ViewsCleared` is what `FreezersApart` needs of calls that
  freeze nothing.

`RegionTxn_proofs` proves that the Region implements `SnapshotStore`, from `TxnInv` (`region_live`
checks it, and `region_txn` the refinement itself):

* `CommitGateHeld` is what `commit_gate` is for. `TicketsFresh` says that numbers
  are handed out under it: nothing in the store and nothing still to be inserted has the next one.
* `SnapshotsCut` is the heart. A snapshot number separates what is in the store from what is still on
  its way to it, so of each key either nothing has changed since `begin`, or the newest row has a number from the
  snapshot on. The conflict check of `commit` compares numbers; this is why it sees the same as
  comparing the store with the store at `begin`. It needs `GateKeepsStore` to know that the Version
  cloned under the gate has the newest row of every key in reach (by `NewestPresent`).
* `HalfInserted` describes the moments between two rows of a batch or commit: which keys are
  already new, and what the store was before. That is what the mapping `Visible` shows while they last.

The simulation goes step by step: a plain write is a `Put` at its `Insert`, a batch or commit is one
`Put` or `Commit` at its last row, `BeginIndexes` is `Begin`, `CommitConflicts` is `Reject`, and a
lemma for every other action says that it leaves `Visible` and the transactions alone.

`RegionTxn_proofs` also proves `ScanKeepsUp` and `GetNeverMisses` from `ReadInv`, on top of `StorageInv`
and `TxnInv`: what was the newest row of a key when the call began has been found, or is in a source
still to be read. The sources a reader has cloned never lose a row (`mem` only grows, frozen copies and SSTs
are final), so each step has to show only that what it reads and moves past is kept in
`best` or `found`. `get` keeps *some* row of the key but not the newest one (section 5), so no more than
that is stated of it. With a failing file the call fails, so nothing is said.

### FlushWorker

`FlushWorkerInv` has the inductive invariant `WorkerInv`, which the run `worker` checks. Its parts: where each call
and the worker are and what they hold (`ShapeInv`); who has the thread's handle, and where Shutdown
and the Sync jobs lie in the channel (`ChannelInv`, `BarrierInv`); what is known once an error is
latched (`ErrorInv`); that a log goes only when the manifest lists an SST with its rows
(`FilesInv`); and where the flush of each frozen memtable is (`FrozenInv`). `OkMeansWritten` is the hardest. It needs,
for every Sync job, that each flush sent before it lies ahead of it in the channel, is with the
worker, is written, or has left an error that the barrier will see. The proof has a lemma per
action and component; what they share are lemmas on the first element of the channel being taken
and a last one being added.

### Durability

The invariant has two parts, `DirectoryInv == DurableInv /\ LogInv` in `DurabilityInv`; `crash_once`
checks both. `DurableInv`, about files and numbers, is proved for any number of stops,
transactions, freezes and openings, with torn writes and expiry:

* `Files`: inputs of a merge leave the Version, then the manifest, and only then the
  directory; the worker remembers which of these it has done. A stop forgets the worker and
  the Version, and what is left is still enough for `ManifestNamesFiles`.
* `Memtables`: each frozen memtable has a log of its own, older than the active one, so removing one
  memtable's log takes no other's rows, and `Open` finds the active log by its number.
* `Numbers` is the reason why `CountersAhead` holds across restarts: a stop forgets the counter, and opening takes
  it up from the rows that are left, however few. No row's number is above
  `txns * Cardinality(Keys)`, since a transaction numbers a row per key at most; this bound is what makes
  the largest number of a set of rows exist (`Max` is a `CHOOSE`). Hence the assumption that `Keys` is finite.
* `Ahead` says the same of the open Region, where numbers are compared.

`LogInv`, about the rows, is behind the refinement `ImplementsLog`. It says something only under
`OneStop` (at most one stop so far, nothing expired): beyond that lie the violations of section 5, which refute
`ImplementsLog` in the code. Nothing else is assumed: any keys, any sync policy, any threshold and
window, torn writes or not. `Explains(l, R)` says that a reader of the rows `R` is given what the log of
transactions `l` says; by `NewestRows` alone two sets of rows can be told apart, so `SameNewest` is what every
step has to keep:

* Before the first stop (`FramesAreLog`): the last transactions of the log are, one by one, the frames
  of the log file in use, and what came before them, `OldInMemory`, is explained by the part of the log before.
  This is the strengthening that matters. A crash keeps the first `n` frames, so it keeps
  the first part of the log that ends with the `n`-th of them; and with `synced` bounded by the synced
  frames, nothing that was synced is behind it.
* `OldIsKept`: the rows that have left the log in use have the same newest rows in memory
  (`OldInMemory`), in what a restart would list, adopt and recover (`OldToFind`) and in all files together
  (`OldInFiles`). A flush writes a file that is adopted if need be and removes its log only when the manifest is
  the Version's; a merge drops covered rows only; so each step of the worker
  moves one of the three sets between the other two (`NewestBetween`, `WorkerStep`). `LogsOfMemtables` says that a frozen
  memtable is its log, so that the log may stand in for it.
* While stopped (`StopKeepsLog`) and while opening (`OpeningKeepsLog`), a first part of the log, not shorter than
  the synced one, explains what is on disk, and then what is still in reach: the active memtable, the SSTs, the
  orphan being merged and the later ones. Merging an orphan drops rows that a newer one covers
  (`NewestWithoutOlder`; two rows of a key with one number are one, `OneRowPerNumber`), and the rows of the next orphan come
  from its file until its turn (`FirstOrphan`). When `Serve` comes, what is in reach is what is
  served, and the longest part that explains it is the log from then on (`LongestIsKept`).

The refinement (`ImplementsUntilSecondStop`) is then a case for each action. An open Region serves `Apply(log)` (`ServesWhatLogSays`),
so a step that leaves `log` and `synced` alone is a stutter, whatever it does to memtables
and files; `Write`, `Freeze`, `Close`, `Crash` and `Serve` are `Write`, `Sync`, `Stop`, `Stop` and `Recover` of
`DurableLog`, and a crash while opening is none. `ImplementsWithOneStop` restates it for constants that allow no second stop
and no expiry, those of `crash_once` among them.

### Scan and GroupCache

`Scan_proofs` proves all four properties of a scan, for any number of sources, series and rows, any
contents, filters, cutoff and limit, and any sizes of row groups and output batches. It goes along
the code:

* The range. `RangeKeeps`: by splitting on which filters bound the range from below and above and where the
  cutoff clamps it. A row group that is skipped has no row in it (`PruningLosesNothing`). Both rest on
  `Largest` and `Smallest` of finite non-empty sets being what they say.
* What a source delivers. `InOrder` and `Nth` choose the element that has n - 1 others below it; `RankFacts`
  shows for any strict order that there is exactly one, by counting alone, so sorting (`InOrderFacts`) and
  filtering (`PickedFacts`) need no induction. From them follows `SourcesDeliver`: batches are
  in the order of keys, one after the other, none is empty, and together they have what is in
  range. So `check_sorted` (`merge.rs` 78-90), which is not modelled for that reason, never refuses a batch.
* The merge. None of the three properties is inductive alone. `MergeInv` in `ScanInv`
  adds: of each source, that what it has left is in order from the cursor on (`InStep`), and that
  what is in range is either left or lies before everything that is left anywhere (`Placed`); of the output,
  that all that is left lies behind it (`Behind`) and that it has the newest rows of its
  keys. `TakenFacts` is the step that matters: the top of the heap is the first of all rows
  left, every other row of its key is itself on top of its cursor, and taking them all off leaves
  what lies behind that key. `HandOutMerge` adds the tombstones and the limit.

TLC has checked `MergeInv` with the constants of `reads`; no run does, since the
three properties it implies are checked there.

`GroupCache_proofs` proves `CacheInStep` for any number of readers and row groups
and any capacity, together with the type invariant it needs; `Insert` is the
only step that touches the queue, with one case for a cached group, one for room
left and one for eviction (lemma by lemma on the positions of `Tail` and `Append`).

### RowPath, RowCodec and SstTable

`RowPath_proofs` proves all five properties of `RowPath`: for any tables, cells and operations, any
damage to the log, any sizes of row groups and batches, any size of the Bloom filter and number of
hashes. Assumed of a table is what the code relies on, and nothing checks: it has one time index, an
integer or a timestamp, and is keyed by its tags, each once and at least one (`SchemasAssumption`;
without tags, `extract_keys` would take the first of none, `merge.rs` 103). Cells are bytes and no
size is zero (`CellsAssumption`, `BatchSizesAssumption`, `TagLimitAssumption`, `SstAssumption`). The
log keeps a tag's length modulo `TagLimit`, so where operations have to come back, their tags have
to be shorter; `Lengths` says so, in `LogReplays` and the theorems alike.

Most of it is about what recursive functions (`DecodeOps`, `Recovered`, folds over batches) compute.
Induction over data is out of the prover's reach; `CountingUp` does its work: a set of numbers that
has the first, and with each the next, has all of them, since otherwise it would miss a least one.
Each such lemma names the set of numbers up to which it holds. Positions are treated as in `Scan`:
the code's sorts and filters are `InOrderOf` and `Ascending`, and `RankFacts` shows that what they
choose exists and is the only one.

The invariants, each inductive with the ones before it:

* `LogInv`: whatever the disk has done, a frame of the log is the frame of the operations written at
  its place if it and all before it can be read, and if all can, none is missing. With
  `FramesReadBack` (each operation is read back and leaves the rest of the bytes as it was) this is
  `ReplayCorrect`.
* `RowsInv`: the operations have the numbers of their places, and the memtable is exactly what was
  written, or what was read back of it. No two rows share a number, so each key has one newest row.
* `SstInv`: an SST is `TableOf` one batch that `HoldsNewest` of the memtable: of each key its newest
  row and no other, in the order of keys, no key twice. A flush makes it (`ToBatches` has a batch
  for each series, in order, and each has its newest rows in order of time, which put end to end are
  still in order of keys), the file form of the index loses nothing of it, and compaction merges the
  SST's batches back into that same batch. It is also where `Refused` enters: there is no SST
  exactly if the table is one that the shortcut refuses (section 5).
* `IsThere`: what has been opened again is there.

From them:

* `GetsCorrect`. Row groups are slices of that batch between cuts (`GroupFacts`). The Bloom filter
  has the bits of every key (`BloomContains` never says no to a row that is there), the partition
  point over the groups' last keys finds the only group that can hold a key, the binary search in it
  the only row, and the row decodes to what was written (the codec's round trip, cell by cell). A
  key without a row is nowhere to be found at each of these steps.
* `ScansFind`. A scan's rows are told by their positions: `Chosen(b, q)` are the rows of `b` at the
  positions `q`, ascending. A row group that is not selected has no row with key and time in range
  (`SelectedReach`), so what is read is some of the rows, with all that are wanted (`ReadRows`).
  Sifting it piece by piece and dropping empty pieces is the same as sifting it whole
  (`SiftedPieces`), sifting some of the rows with all that are wanted the same as sifting all
  (`ChosenSifted`). Where the scan skips the checks, since its range spans the file, each row passes
  them; where it returns at once, none does.
* `ProjectionsKeep`. Columns are read in file order with the keys' added (`WantedIs`);
  `RebuildFullWidth` counts the columns read up to each one, and `UsedCounts` shows that this count
  is the column's place among those read. So what was read comes back in its place, and the merge's
  keys with it.
* `ShortcutCorrect`. The shortcut and the general way keep the same rows in the same order; arrays
  made from bytes at once and appended value by value are the same.

TLC evaluates none of these invariants, as their types are infinite; it checks the five properties.

### Only model-checked

* Liveness: `CallsReturn`, `FreezesFlushed`, `LogsReclaimed`, `CallsEnd`. Fairness and ENABLED are out
  of the prover's reach.
* What `Durability` keeps of the rows after a second stop. `ImplementsLog` is proved up to there, and
  refuted by `crash_torn_tail` and `crash_orphan_merge` beyond; with rows that expire it is not what the code
  promises.

## 5. What the checks found

* **`get` can return an old row** (`region_stale_compact`).
  `get` replaces what it has found by what a later source holds whenever that
  source's `max_seq` is larger, without comparing the two rows
  (`memtable.rs` 748-768). Two windowed compactions can leave an SST with a
  high `max_seq` and an old row of the key, with one thread and no race at all. A
  race may do it too, though the run, which has one client, does not show it: a number is taken
  before the write gate (582), so a frozen memtable
  can hold an older row of the key and a newer row of another. `visible_seq`,
  used by `commit`, compares and is not affected, and neither is a scan: `region_background` has two clients
  whose rows arrive out of order across a freeze, and `ScanKeepsUp` fails there if a scan takes what the
  active memtable has for the newest (`ActiveFirst`).
* **A reader can fail on an unlinked file** (`region_read_fails`). Compaction unlinks its
  inputs once the Version is swapped; a reader that cloned the Version before
  opens them by path.
* **A torn frame hides what is written after it** (`crash_torn_tail`). Recovery stops
  at a torn frame, but the log is opened for appending and not cut there. What is
  appended next is acknowledged, synced, even closed, and the next opening drops it.
* **Merging older logs makes durable rows volatile** (`crash_orphan_merge`). Opening copies the rows of an older log into the active one, row
  by row and under the Interval policy, and removes the older log at once. A
  second crash before the next sync loses rows that were synced, or leaves some rows of a
  transaction.
* **An empty compaction can bring expired rows back** (`crash_ttl_empty`).
  Opening adopts SST files with ids above the manifest's largest. A compaction whose
  rows have all expired writes no new file, so its inputs have the largest ids,
  and if it is interrupted before removing them they are adopted.
* **A table with one tag, one field of bytes and a timestamp time index cannot be
  flushed or scanned.** The shortcut of `materialize_series` (`columnar.rs` 115-117) builds its
  time column as `Int64`, which `RecordBatch::try_new` refuses for a `Timestamp`
  column. `Refused` models it; `GetsWhatWasWritten` says that this is the
  only case without an SST.
* **What is not a flaw but worth knowing.** A write that follows a failed job is put into
  the log and memtable and *then* reported as an error (`memtable.rs` 587), so a retry writes
  twice. `flush()` may return before rows are in an SST that another thread has frozen but not
  yet sent off (774). A tag of 65536 bytes or more has its length written modulo 2^16 and is not
  read back (`wal.rs` 162), which is why `LogReplays` speaks of shorter tags only. A table without tags can be written,
  logged and read key by key, but a scan or compaction of it panics (`merge.rs` 103): `SchemasAssumption` leaves it out.

Everything else that was stated holds: a single crash at any point costs only the unsynced end
of the log, old logs go away, the next number stays ahead of all that are found again; snapshot isolation with first committer
wins, no lost rows across freeze, flush and compaction, no forgotten flush, the
`flush` barrier, no deadlock.

## 6. What is not modelled

| part | status | |
|---|---|---|
| Region runtime: writes, reads, freezing, gates and versions | partly | write, delete, write_batch, get, scans (snapshot_columnar_sources, iter_all_data), freeze, maybe_flush, maybe_compact, flush, compact and flush_barrier with both gates and the Version swaps, step by step, and the worker's error latch, close() and Drop in FlushWorker; the set_ functions are bounds here, and TTL is only in Durability and Scan |
| Write-ahead log | partly | the bytes of frames and operations and their limits, checksums, batches, recovery (RowCodec, RowPath), the sync policy, torn frames and close (Durability); writes that fail, the Never policy and a frame length above 32 bits are left out |
| Open and recovery: manifest, SST adoption, orphan WALs | partly | the whole of with_schema() in its order, interrupted at any step: manifest, adoption of SST files, active log, merge of older logs, counters, manifest written; temporary files and failed removals are left out |
| Demo program and benchmarks | not modelled | drivers without logic of their own |

## 7. Plan

The modules of the plan this project was started with are all written. What comes next:

* A composition of `FlushWorker` with `Durability`: an error that has been latched,
  followed by a crash. The two share only files today.
* Writes that fail (a full disk) in the log, and what the memtable then holds.
