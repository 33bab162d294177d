# A verification of httk-store

TLA+ models of the storage layer of httk-store (`src/src/httk/store/`), checked
with TLC on small instances and, for the results listed under *Proofs*, proved
with TLAPS for every value of the constants.  Paths below are relative to
`src/src/httk/store/` unless they begin with `docs/` or `tests/`.

Two things are interesting in httk-store.  One is what it does *without the help
of a database transaction*: MongoDB without a replica set, ClickHouse and other
"degraded" SQL engines, several processes that write to one store, a garbage
collector beside them, and a bulk loader that spreads its work over processes.
The other is that one Python query means the same in very different places: in
WHERE and HAVING, in aggregation pipelines, in an evaluator over hydrated
records, on one page after another, over one store or several.  The models
follow that order.

## 1. Inventory

| Component | State | Operations | Interacts with |
|---|---|---|---|
| MongoDB leases (`backend/mongo/leases.py`) | lease documents with server-clock heartbeats, the `lease/fsck` singleton, the layout document's `generation` | `acquire_writer`, `refresh_writer`, `release_writer`, `acquire_fsck`, `heartbeat_fsck`, `release_fsck`, `clear_stale_lock` | every save and fsck of every store process |
| MongoDB store (`backend/mongo/store.py`) | record collections, `counters`, dispatch collections, identity caches, last seen generation | `save`, `replace`, `fetch`, `fetch_entry`, `transaction`, `close` | leases; readers that take no lease; fsck |
| MongoDB fsck (`backend/mongo/fsck.py`) | mark queues, report | dispatch repair, metadata and lineage checks, mark, sweep, timestamp clamp | leases; residue of saves |
| MongoDB mapping, documents | none (counters through the database) | encode, decode, indexes | store |
| MongoDB search (`searcher.py`, `evaluator.py`, `results.py`, `optimade.py`, `stored_properties.py`) | the searcher under construction; a page's candidates | compile and evaluate filters, verify candidates, page | store |
| SQL store (`backend/sql/store.py`) | tables, `_counters`, `_dirty` markers, writer lease row, mutation lock, transaction scope, identity caches, timestamp mark | `save`, `replace`, `fetch`, `sid_of`, `transaction`, `steal_lease`, schema creation | Backend, other processes |
| Backend (`backend/sql/engine.py`) | `_disposed`, guard owner, dispose callbacks | `lifecycle_guard`, `add_dispose_callback`, `dispose` | all stores on it |
| SQL fsck and graph (`backend/sql/fsck.py`, `graph.py`) | roles, dispatch rows, the logical edge graph | dispatch repair, marks, sweeps, clamps; load order, reachability waves | store, bulk ingest |
| Bulk ingest (`backend/sql/bulk.py`) | ingest marker, catalog snapshot, caches of the run, buffers | context manager, `save`, flush, commit, clean-up | store, lease, worker pool |
| Worker pool (`backend/sql/bulk_parallel.py`) | task queues, result queue, processes, shards | `dispatch`, `finish`, `close`, worker loop, merge | bulk ingest |
| Deferred finalizer (`backend/sql/bulk_deferred.py`) | staged shards, maps over them | collapse of equal records, survivors, final sids, projection | bulk ingest |
| ClickHouse (`backend/clickhouse/`) | KeeperMap lease and marker, bootstrap fence | bootstrap, lease, marker, ambiguous inserts | SQL store |
| Rows, results (`backend/sql/rows.py`, `results.py`) | lazily loaded batches with a transaction token, cursors | field access, iterate, page, seek | store |
| SQL search (`searcher.py`, `stored_properties.py`, `optimade.py`) | the searcher under construction: joins, child columns, renderings | compose, `add`, stored-property predicates | store |
| Federation (`federated_store.py`, `backend/sql/stored_federation.py`) | plans with a shared count; merge heap, snapshot cutoff | ordered merge, limits, counts, slices, probes, audit | several stores |
| Query language (`query/`) | none | portable filters, OPTIMADE filters, paging tokens | search |
| Layout (`storage_layout.py`, `backend/schema.py`, `codecs.py`) | stored layout document | classify upgrades | store open |
| Timestamps (`store_timestamp.py`), caches (`store_common.py`) | high-water mark; identity caches | capture, advance; remember, clear | stores |

What is hard, and what makes each part correct:

* **Leases.** Writers and fsck exclude each other by insert-then-check over a
  database without transactions; owners die, stall, or are declared dead.
  Correct when no *live* writer overlaps a repair, when two repairs never
  overlap, when a writer never uses caches older than the last repair, and when
  a drain ends.
* **Saves of object graphs.** One database operation at a time, beside other
  writers, failures and crashes.  Correct when references resolve, when what
  was acknowledged stays and is found, when one content has one document, and
  when fsck removes residue and nothing else.
* **Degraded SQL.** Child rows before parent rows, dirty markers instead of
  rollback, sids from a counter.  Correct when a visible parent row has exactly
  its child rows and residue is announced to the next writer; and when fsck,
  whose statements commit one by one, loses nothing a root needs at any of them.
* **Identity.** Rolled-back sids are given out again while objects of the program
  still carry them.  Correct when reads give what is stored, when a replacement
  joins the lineage of the object it replaces, and when timestamps do not
  decrease.
* **Disposal.** Two kinds of locks and a condition variable, re-entrant inside
  transactions.  Correct when no lease is released under a write, none is
  stranded, and `dispose()` ends.
* **Bulk ingest.** Rows are staged under provisional sids, by several processes,
  and become rows of the store after deduplication against it and each other.
  Correct when the result is that of a loop over `save()`, when sids and
  tokens that were handed out end at their record, and when a failure leaves the
  old tables or a fence.
* **The pool.** Bounded queues, results and exit codes seen through different
  channels, workers that die.  Correct when a merge has all records and no call
  waits forever.
* **Reading.** Pages and merged streams are many statements over a store that
  changes.  Correct when pages neither skip nor repeat what stays, when a snapshot
  page is a page of the snapshot, when no id is served from two origins, and when
  slices and counts agree.
* **Queries.** Three-valued logic, outer joins and aggregates, or documents and
  lookups.  Correct when a search, a filter and a declared predicate select what
  they say on either backend, however they are composed.

The `hazards` of `PROJECT.json` list these at their source lines, with the
properties that would catch each and, where there is none, the reason.

## 2. Modules

| Module | Models | Composition |
|---|---|---|
| `MongoLease` | `leases.py` and its callers in `store.py` and `fsck.py` | – |
| `MongoSave` | `MongoStore.save` in degraded mode, readers, `fsck.py` | takes the exclusion `MongoLease` establishes as guards; implements `ContentStore` |
| `MongoSaveTx` | `save` as one transaction on a replica set | extends `MongoSave` (fsck, readers, state) |
| `ContentStore` | what a store promises: sids denote one object for ever, acknowledged objects stay with all they refer to | the abstract specification |
| `BackendLifecycle` | `Backend` and the locks and lease of `SqlStore` | – |
| `DegradedWrite` | the statements of a degraded `SqlStore.save` | its lease is the row of `BackendLifecycle`, seen from another side |
| `SqlFsck` | `backend/sql/fsck.py` statement by statement, in both profiles | begins with the damage `DegradedWrite` leaves, and more |
| `LogicalGraph` | `backend/sql/graph.py`: the edges of a schema, load order, reachability waves | the order in which `BulkEncode` and `SqlFsck` visit tables |
| `SqlIdentity` | transactions, caches, lazy rows, `replace()`, lineages, timestamps of `SqlStore` | – |
| `WorkerPool` | `ParallelController`, `_worker_main` and the parallel save path of `bulk.py` | – |
| `SqlSave` | the rows `SqlStore.save` writes and reuses for one object after another, as functions | the reference of `BulkEncode` and `BulkShards` |
| `BulkEncode` | the encoder, deduplication, remapping and garbage collection of `bulk.py`, as functions on the memory of an ingest | extends `SqlSave` |
| `BulkIngest` | the bulk ingestion context: marker, transaction, catalog, DDL, clean-up, crashes | extends `BulkEncode` |
| `BulkShards` | the encoder of a worker, the merge of shards (`_Merger`) and the deferred finalizer | extends `SqlSave`; starts from what `WorkerPool`'s `finish` returns |
| `Ordering` | what ORDER BY and LIMIT select of a finite set of rows | – |
| `ResultPaging` | `SqlResultSet.page`, `MongoResultSet.page`, paging tokens | uses `Ordering` |
| `StoredFederation` | `StoredEntryFederation`: queries, cutoffs, probes, audit | uses `Ordering` |
| `FederatedUnion` | the result plans of `FederatedStore` | – |
| `ThreeValued` | true, false and unknown; comparisons with NULL | – |
| `SearchRendering` | `SqlSearcher` and `MongoSearcher`: building a search, and what each backend makes of it | extends `ThreeValued` |
| `FilterTranslation` | `query/optimade_filters.py` over both searchers, with its lookups of related entries | extends `SearchRendering`, whose renderings run the filter |
| `StoredPredicates` | predicates of stored properties, as correlated subqueries and in the evaluator | extends `ThreeValued` |
| `*Proofs` | theorems | each about the module in its name; `MongoSaveProofs` also about `MongoSaveTx`, `SqlSweepProofs` about `DegradedWrite` and `SqlFsck`, `ReadingProofs` about `ResultPaging`, `StoredFederation` and `FederatedUnion` |
| `MC*` | instances for TLC | – |

Some runs check several modules, each in behaviours of its own: the MC module has
a variable `mode`, chosen initially, and while one of the models runs the variables
of the others stay as they are.  Nothing of one model then depends on another.

`map` in `PROJECT.json` gives the source lines of every definition.  Some
correspondences are worth stating here.

**MongoLease.** One action per database command.  A heartbeat is its age
(0..`StaleAfter`): the queries only compare it with `$$NOW - stale_after`, and
BSON orders the null heartbeat of a new fsck document before every date, so it
has age `StaleAfter`.  `acquire_writer` is `RegisterWriter` (insert), then
`CheckFsck`; `acquire_fsck` is `InsertFsck`, or `ReplaceFsck` and `ConfirmFsck`
for a stale one, then the drain loop (`PollWriters`, `PollAgain`) and the two
separate queries `QueryFresh` and `GrantFsck`.  `Tick` moves the clock;
`lapsed` records who let its own heartbeat go stale, because everything the
protocol promises is up to that.

**MongoSave.** A document is its object, its role and the sids it refers to.
`_save` recurses over references: `stack` is its call stack, `memo` the
projection's `mongo_sids`, and `step` the next database operation: the
`content_id` lookup, the by-value match, the counter, the insert and, after a
duplicate key error, the lookup of the winner, the role promotion, the dispatch
row.  A failure or a crash may happen between any two.  fsck repairs dispatch
rows, marks in batches from the roots it read, and deletes one collection after
another, in any order.  `Fetch*` and `FindRow`, `CheckBacking`,
`ProbeBackings` are readers; they take no lock.

**MongoSaveTx.** Two saves that insert into one collection write one counters
document and conflict, so a committed save is one step (`TxSave`); readers still
read between commits, without a snapshot.  `supports_transactions` is a property of
the database that all its clients share, chosen initially: where there are no
transactions the saves are those of `MongoSave`.  A client that sets
`transactions="never"` on a database that others use with transactions is not modelled.

**BackendLifecycle.** `pc[t]` is where a thread is inside `save`, `steal_lease`,
`transaction` or `dispose`; `mutex` is the re-entrant mutation lock of a store,
`holder` the lifecycle guard.  `Other` owns the lease from other processes.

**DegradedWrite.** One parent table with its child tables; one action per
autocommitted statement.  A marker value is its operation while that runs, and
`Residue` afterwards.

**SqlFsck.** A store is its parent rows with their roles (dependency, root, or a
value the code has to normalize), one reference column, child rows that may have
lost their owner, and the dispatch rows of one family.  Each of `fsck`'s statements is
an action; in the transactional profile a crash restores `saved`, in the degraded
one it does not.  The mark is the code's loop over a queue (`MarkRoots`, `MarkTargets`).  `FsckSpec`
begins with any damage at all.  `kept` is history: what the roots of the start lead to.

**SqlIdentity.** One process per store, one thread per process; `work` is what the
connection that holds SQLite's write lock sees.  A lazy row carries, per chunk, the
fate of the transaction it was read in: the token that its rows share.  A row of the table
remembers, as history, which transaction stored it and which object it replaced.
A save of a record with references numbers what is new below it, children first:
`Numberings` are the sids that can be given out so (with one reference per record, one way) and
`Stored` is the table after it.  Cyclic references have no such order and the save fails, as with the code's
`StorageProjectionCycleError`.

**WorkerPool.** The caller's thread polls: `Poll` drains the result queue,
`CheckExits` reads exit codes, and between the two a worker may report and
exit.  A manifest is modelled by the set of tokens its worker encoded.

**SqlSave, BulkEncode.** A row carries its child rows as `elems`; a
dictionary is a set of pairs.  `Saved` and `Encoded` recurse over the object as
`_save_active` and `_encode_active` do, with the database or the memory of the
ingest passed along.  `Flush` is `_resolve_and_insert`: `ResolveHits` visits the
tables in dependency order, `Collapse` lets staged rows give way to stored ones
and `Remap` rewrites what refers to them, `CollectGarbage` removes what only the
dropped rows needed.  The code looks at a table's largest sid when it meets the
table first, `Begun` at once: nobody else writes meanwhile.

**BulkIngest.** `store` is durable, `ing.db` is what the open transaction sees;
`cat` holds the catalogs of both.  `Ddl` and `Dml` are the transaction control
of Python's `sqlite3`, which begins a transaction at the first DML: DDL before
that is durable at once and does not roll back (`EagerDdl`).  The statements of a flush are stated at once,
by what stands durable and in the transaction after them (`Flushed`).  `outcome` and
`serial` are history: `serial` runs `SqlSave` on the same objects from the same
database.

**BulkShards.** `SaveTask` is a call of `save()` and the encoding of its record by
its worker, in the worker's block of sids, with the worker's own memory and
flushes.  Then `_Merger` loads, collapses, sweeps and renumbers the shards
(`LoadShards` to `Compact`), or the deferred finalizer works on maps over them
(`MakeMaps` to `ProjectTables`); `looped` is the loop over `SqlSave`.

**Ordering.** An order is the set of the pairs in which the first row comes before the
second.  `Limited(S, before, n)` are the rows of `S` with fewer than `n` rows before them, which is
what a statement with ORDER BY and LIMIT returns; `OrderBy` puts each row at the place that the
number of rows before it says.  Nothing is recursive, so theorems about pages need no
induction over sorting.

**ResultPaging.** A page is a seek after the order values and the sid in its token
(`SeekPredicate`, with NULL-first or NULL-last per key, as in the code a disjunction over the
keys), and size + 1 rows of what it admits (`PageStatement`).  The MongoDB page is a sequence of
such seeks (`NextBatch`), each from the last candidate of the one before, until its verifier has
let one row more through than the page holds or a batch is short (`Return`); other callers
save and sweep between them.  Order keys are small tuples; tokens are the anchor, the direction
and the plan.

**StoredFederation.** Per stream a count (`CountStream`), a fetch (`FetchUnsorted` or `FetchSorted`)
and the probes of the visible page (`Probe`), each a statement, with commits in between.  The
heap of the sorted merge holds the first row left of each stream, so what `PopLeast` takes is the
least row of all that are left.  The order of a stream that is not sorted is taken to be
the order of insertion; what a stream serves are positions in it (`Served`).  Ids are numbers: they
are only compared.  The clock counts nanoseconds, a store's timestamps its own units.

**FederatedUnion.** One action per source asked, by a count or by an execution; a source may fail at any
time, and all sources grow.  `slices` is history, and the reference cuts the concatenation
of what the sources held with Python's slices, one after the other.

**SearchRendering.** The caller's expressions are a stack that `Combine` and
`Negate` reduce, so every tree is built in the order Python would.  An expression
is rendered as `searcher.py` does: row-wise for WHERE, aggregated for HAVING,
with the inverted renderings for `~`; in MongoDB as a pair of truth and falsity.
`SqlMatches` and `MongoMatches` are what SQL's outer joins and grouping and
MongoDB's lookups do with them; `Meant` is the meaning of the expression for a record.

**FilterTranslation.** `TranslateLeaf` is one handler; a leaf on a related entry
queries at that moment (`SemiJoin`) and its ids go into the main search, which
`Selected` runs at any later time.  `SaveLater` is another session.

**StoredPredicates.** A declaration is a sequence of calls (`Declare*`).
`SqlVerdict` builds the subqueries inside out with the correlations the code gives
them, and evaluates them; `MongoVerdict` walks the predicate with an environment.

## 3. Runs

| Run | Instance | What it shows |
|---|---|---|
| `mongo_lease` | 2 stores, 2 leases, stale after 2 ticks, 2 repairs | `FsckExclusion`, `SingleFsck`, `GenerationCurrent` under every interleaving of writers, fsck runs with and without `force`, `clear_stale_lock`, failures and crashes; `FsckEnds`: a drain ends, granted or refused |
| `mongo_save` | 2 stores; entry → by-value record → leaf, 4 sids, 1 repair; a sweep that begins deleting ends | `SavedIsDurable`, `OneDocumentPerContent`, `RefsResolve`, `FsckLeavesClean`, and the refinement `ImplementsContentStore` |
| `mongo_read` | 2 stores, on a replica set or degraded; readers; a sweep may stop half way | `EntryNotLost`: an acknowledged entry is found by `fetch_entry` whatever goes on; `TransactionsLeaveNothing`: with transactions, no document is without the whole of its graph |
| `mongo_save_sweep` | 1 store, content-addressed objects | *violation* of `SavedResolves` (below) |
| `lifecycle` | 2 threads, 2 stores, `transaction()` on one of them | `WriterOwnsLease`, `NoStrandedLease`, `DisposeEnds` |
| `worker_pool` | 2 workers, queues of 1, 4 records | `ManifestsComplete`, `CallsEnd` |
| `bulk` | serial: two ingests, 4 saves inside or outside of them, 9 objects of 5 classes, chunks of 2, SQLite's DDL; shards: 2 workers, 4 saves of 10 objects, chunks of 1 and 2, both finalizers, with and without tokens | `SameAsSerial`, `ResolvedSids`; `FencedResidue` and `RestoredOnFailure` under exceptions, failing clean-up and crashes; `ShardsAsSerial`, `TokensResolved` |
| `sql_sweep` | writes: 2 owners, 2 contents with 3 and 1 child rows in 2 tables, 3 sids; fsck: stores of 4 rows, 1 dispatch row and 1 child row with nearly any damage, every combination of arguments, 2 runs; graphs: all schemas of 3 types | `ParentComplete`, `ResidueMarked`; `RootsSurvive`, `OnePassFixpoint`; `LoadOrderSound` |
| `sql_identity` | 2 processes, 2 transactions, 2 rows, a record with a reference and one with conflicting metadata, clocks of 2 ticks | `ReadsFaithful`, `LineageKept`, `PinnedTimestamps` |
| `reading` | pages: plans of 2 keys with nulls, size 2, 4 rows, writers; federation: 2 sources of 3 streams, 3 contents, 1 commit; union: 2 sources of up to 2 rows, a slice of a slice | `WalkComplete`, `PreviousRecovers`; `SnapshotPage`, `CountedPage`, `NoHiddenDuplicate`; `SliceOfUnion` |
| `queries` | searches of 2 conditions and 1 negation over 7 records; 9 shapes of filters with 24 leaves; predicates of up to 5 calls over 4 records | `SqlMeansIt`, `MongoMeansIt`; `FilterSelects`; `BackendsAgree` |
| `stored_nested` | the same predicates, 5 calls | *violation* of `NestedCorrelated` (below) |

Every property of a passing run is broken by a mutant of the code's definitions
(`mutants`): operators marked *Faulty variant* in the modules, each a plausible
bug, substituted for the definition that follows them.

### Bounds

* `MongoLease`: `MaxGeneration = 2` lets a second repair follow one that some
  store has observed and one has not; two lease identifiers let a store hold
  one while a residue exists.  The safety properties are proved for any number
  of stores and leases.  `RefreshInterval = 1`, `StaleMultiplier = 2`
  keep fresh, late and stale apart.
* `MongoSave`: `MaxSid` lets every object be stored once and one be residue or
  a duplicate; one repair, since a second begins in the same kind of state as
  the first.  The chain of three makes the mark follow references of references and gives
  a save two levels of recursion; the by-value record in the middle changes its
  identity when the leaf is swept and saved again.
  `SweepMayStop` separates what holds always from what needs a complete sweep.
  `Fetchers` and `Lookups` limit who reads.
* `MongoSaveTx`: in the degraded half of `mongo_read` nobody saves the by-value record
  (the constraint `FewerObjects`), which `mongo_save` does; with transactions all three
  objects are saved.
* `BackendLifecycle`: with two threads one disposes or steals while the other
  writes.  `TxStores = {s2}`: `NoStrandedLease` is about the other store.
  `CrossStore = FALSE` because of `DisposeEnds` alone (see *Limits*); the
  safety properties are proved for every number of threads and stores and
  either value.
* `WorkerPool`: queues of one make every full-queue path happen; four records
  fill both queues and leave one waiting.
* `BulkIngest`: by-value records with a reference and with elements that differ
  between equal records, content-addressed entries with conflicting metadata and
  with two backings, and a record that is never reused.  Four saves allow a
  stored object, a full chunk and one in the next chunk; two ingests allow one
  that meets the residue of the other.  `EagerDdl = TRUE` is the harder case;
  the fence is proved for both.
* `BulkShards`: chains of by-value records need as many rounds of the collapse as
  they are long, here three, over shards of different workers and chunks; `Block`
  keeps the sids of workers apart without a second block, which only repeats the first.
* `DegradedWrite`: three sids give two complete records and one residue.
  `StealLive = FALSE` (see *Limits*).
* `SqlFsck`: four rows are two backings of one family, a reference and a reference of that
  reference, also back; a second run after a cut-off one; more rows repeat these relations.  Timestamps
  that lie in the future, which fsck clamps before all else, come with stores without child
  rows and references back only (`Damaged`).
* `LogicalGraph`: three types contain every shape of cycle and every way into one.
* `SqlIdentity`: `MaxSid = 2` makes a sid be given out again at once; a record with
  a reference takes two; two transactions let one run within, before or after the other.
* `ResultPaging`: size 2 over 4 rows has full, short, last and empty pages; the four
  contents hold a null on either key, an equal first key and a rejected one.
* `StoredFederation`: resolutions 2 and 3 have their buckets end at different times; one
  commit falls before, between or after any two statements of a call; a stream begins empty or
  with one of the `Early` ids, so the third one can only be committed meanwhile.
* `FederatedUnion`: bounds of slices 0, 1, 2 lie inside, between and behind two sources of two rows.
* `SearchRendering`: with two conditions and one negation every connective has a
  negated and a plain operand and a negation of a connective; records differ in null,
  reference, children, lineage and time.
* `FilterTranslation`: every handler of `optimade_filters.py` that is modelled has a
  leaf that answers, one that refuses and, where there are two backends' ways, both.
* `StoredPredicates`: five calls nest three quantifiers, or a filter in a quantifier in a count.

`CHECK_DEADLOCK FALSE` is set where the model really stops: counters reach
their bounds (`mongo_lease`, `mongo_save`, `mongo_read`, `sql_sweep`, `sql_identity`,
`reading`), a fenced store is never opened again or an ingest is done (`bulk`), the pool is closed
at the end (`worker_pool`), a query is complete (`queries`).  `lifecycle` is checked
for deadlock.

### Fairness

* `FsckEnds`: the operations of the lease protocol run on (weak fairness) and
  the clock does not stop.  The property itself supposes that from some time on
  callers do not call again while the fsck lease they were refused for is there
  (`RespectsRefusal`).  The store never retries by itself, so this is about
  callers; with callers that register afresh for ever a drain need not end.
* `DisposeEnds`: a thread that has called an operation runs on, the body of a
  transaction ends, and a lock, or the guard with its condition variable, that becomes
  free again and again is granted to each waiter at some time (strong fairness
  of `TakeMutationLock`, `EnterGuard`, `ReleaseLease`): CPython's locks do not
  promise an order, but wake waiters.
* `CallsEnd`: the caller's thread runs on and living workers run on.  Nothing
  is assumed of the stall timeouts; they may run out at any time and need not.

## 4. Proofs

Eight modules hold theorems, for any number of stores, threads, workers, records,
tables, rows, sources and steps.  They use the assumptions that the modules state of their constants
(distinct names, positive periods and sizes, an order of the types without repetition
in `SqlSave`, finitely many objects in `MongoSaveTx`, a value `None` that is not one of
the others in `SqlIdentity`, and in the reading modules that values which are compared are
integers or the null, which is none: `PagingAssumption`, `FederationAssumption`,
`UnionAssumption`); some suppose more, as the last column says:

| Theorem | Property | Supposing |
|---|---|---|
| `MongoLeaseProofs!TypeCorrect` | `TypeOK` | |
| `MongoLeaseProofs!FsckExclusionHolds` | `FsckExclusion` | |
| `MongoLeaseProofs!SingleFsckHolds` | `SingleFsck` | |
| `MongoLeaseProofs!GenerationCurrentHolds` | `GenerationCurrent` | |
| `MongoSaveProofs!TypeCorrect` | `TypeOK` | |
| `MongoSaveProofs!SavedIsDurableHolds` | `SavedIsDurable` | |
| `MongoSaveProofs!OneDocumentPerContentHolds` | `OneDocumentPerContent` | |
| `MongoSaveProofs!EntryNotLostHolds` | `EntryNotLost` | |
| `MongoSaveProofs!FsckLeavesCleanHolds` | `FsckLeavesClean` | |
| `MongoSaveProofs!RefsResolveHolds` | `RefsResolve` | `~SweepMayStop` |
| `MongoSaveProofs!ImplementsContentStoreHolds` | `ImplementsContentStore` | `~SweepMayStop` |
| `MongoSaveProofs!TransactionsLeaveNothingHolds` | `TransactionsLeaveNothing` | |
| `MongoSaveProofs!EntryNotLostWithTransactions` | `EntryNotLost`, of `TxSpec` | |
| `BackendLifecycleProofs!TypeCorrect` | `TypeOK` | |
| `BackendLifecycleProofs!WriterOwnsLeaseHolds` | `WriterOwnsLease` | |
| `BackendLifecycleProofs!OneMutationHolds` | `OneMutation` | |
| `BackendLifecycleProofs!NoStrandedLeaseHolds` | `NoStrandedLease` | |
| `SqlSweepProofs!TypeCorrect` | `TypeOK` | `~StealLive` |
| `SqlSweepProofs!ParentCompleteHolds` | `ParentComplete` | `~StealLive` |
| `SqlSweepProofs!ResidueMarkedHolds` | `ResidueMarked` | `~StealLive` |
| `SqlSweepProofs!FsckTypeCorrect` | `FsckTypeOK` | |
| `SqlSweepProofs!RootsSurviveHolds` | `RootsSurvive` | |
| `SqlSweepProofs!OnePassFixpointHolds` | `OnePassFixpoint` | |
| `SqlIdentityProofs!TypeCorrect` | `TypeOK` | |
| `SqlIdentityProofs!ReadsFaithfulHolds` | `ReadsFaithful` | |
| `SqlIdentityProofs!LineageKeptHolds` | `LineageKept` | |
| `SqlIdentityProofs!PinnedTimestampsHolds` | `PinnedTimestamps` | |
| `WorkerPoolProofs!TypeCorrect` | `TypeOK` | |
| `WorkerPoolProofs!ManifestsCompleteHolds` | `ManifestsComplete` | |
| `BulkIngestProofs!FencedResidueHolds` | `FencedResidue` | |
| `BulkIngestProofs!RestoredOnFailureHolds` | `RestoredOnFailure` | |
| `ReadingProofs!WalkIsComplete` | `WalkComplete` | |
| `ReadingProofs!PreviousIsRecovered` | `PreviousRecovers` | |
| `ReadingProofs!SnapshotIsUnion` | `SnapshotPage` | |
| `ReadingProofs!CountedIsPage` | `CountedPage` | |
| `ReadingProofs!NoDuplicateHidden` | `NoHiddenDuplicate` | |
| `ReadingProofs!UnionIsSliced` | `SliceOfUnion` | |

`~SweepMayStop`: a sweep that has begun to delete ends.  Without it `RefsResolve` fails,
which is the first finding below.  `~StealLive`: a lease is stolen only from an owner
that is in no operation, as `steal_lease` demands of its caller (*Limits*).

**Leases.** `FsckExclusion` is not inductive: nothing in it says why a writer
that is about to write cannot have a drained fsck beside it.  `WriterHeld` says
that an unlapsed writer past its insert has its document with a fresh
heartbeat, under an identifier of its own (`LeasesDistinct`); `FsckHeld` the
same of an unlapsed fsck and the singleton; and `DrainExclusion` extends the
exclusion back to the moment fsck's query found no fresh writer.  The query
cannot miss an unlapsed writer that registered before it, and one that
registers later meets the singleton in `CheckFsck`.  `SingleFsck` follows from
`FsckHeld`, as the singleton names one owner; `GenerationCurrent` from
`DrainExclusion`, as a bump happens after the drain.

**Saves and sweeps in MongoDB.** `IInv` of `MongoSaveProofs` says where a save, the mark
and the sweep stand.  `SaveKnows`: what a save remembers (`memo`) are documents of the
objects they are remembered for, at each step of it; nothing deletes them, as no
save runs beside fsck (`Excluded`).  `Numbered`: a sid that a save has drawn is
nobody else's.  `MarkState`: every main document is marked, marked documents outside the queue
refer to marked ones only, a marked dependency is referred to by a marked document, and
what is still condemned lies in collections that were not swept yet.  `SavedIsDurable` follows as
main documents are marked, `FsckLeavesClean` from the last two parts, for an fsck that
starts from any residue.  `DispatchSound` and
`LookupState` give `EntryNotLost`: a dispatch row names a main document for ever, so a lookup of an
entry that was saved before finds the row, and then its backing.

The sweep of one collection may remove what a condemned document of another one refers to, so
`RefsResolve` lets condemned documents dangle until the sweep has been through
all collections; that it gets there is what `~SweepMayStop` adds.  The refinement maps each
step: an insert writes a new sid whose references are there (`WriteStep`), `done` acknowledges
(`AcknowledgeStep`), the sweep of a collection keeps the marked documents, which are closed under
references and hold all that was acknowledged (`CollectStep`), and everything else stutters or
wastes a sid.

**Transactions in MongoDB.** `TransactionsLeaveNothing` needs that every document is *reached* from a
main one, and reachability is stated without recursion (`Transacted`): every set with all
main documents that is closed under references has all documents.  A committed save
adds a graph below its main document (`TxSaveTransacted`; `VisitedLeast` is what makes the
visited objects the least closed set); the mark is such a set, so the sweep removes
nothing (`SweepTransacted`).

**Disposal.** `GuardHeld` (who mutates holds the guard) and `DisposalDrained`
(who calls release callbacks had nobody in the guard, and nobody can enter it any
more) make `WriterOwnsLease` inductive; `OneMutation` is a consequence.
`NoStrandedLease` needs to follow the callbacks: a store that can be used is
fenced, i.e. has its callback registered until `dispose()` takes it
(`UsersFenced`); while somebody is still in the guard no callback has been
called (`NotStarted`); so a lease present after the disposal began is one whose
callback is pending (`LeaseAccounted`), and pending callbacks have a thread that
works on them (`DisposerWorks`).

**Degraded writes.** One owner at a time is in an operation (`Exclusive`), and its sid is below
the counter, so the rows that carry the sid are exactly those written so far (`Written`).
`Progress` says which tables it has been through, `MarkerOwned` that a marker with
its name is in a table it has touched.  `ResidueMarked` alone is broken by the removal of another
operation's marker; `SweptFirst` says that the table was swept before, and
`MarkedRows` that the rows without a parent under one's own marker are one's own, so
that removing it after the parent row leaves none.  Rows of saves that raised are excepted (`raised`).

**fsck of SQL stores.** The marked set is the least one that has the roots and is closed under
references and elements, but for the queue (`Least`, in `Marking`), and stays so while rows are
swept, since only unmarked ones are (`LeastSame`).  `Needed` states the same of the rows owed
to the user, whatever has been repaired in between, so these stay within the marks
(`KeptMarked`).  `Rollback` keeps the saved copies of the tables intact too, for a crash in the transactional profile.
`Achieved` adds what each part has reached and no later part undoes, which is
`OnePassFixpoint`.

**Identity.** `Pending`: what the connection with the write lock sees is the committed table,
roles aside, and rows of its own transaction.  So a sid that was read outside of
a transaction keeps its row, and one that was read inside keeps it until that
transaction ends; if it ends in a rollback, the caches are emptied and the rows read in it expire
(`Caches`, by `CachedSound` and `LazySound`).  Then `replace()` finds the row of the
object it was given, which makes `Lineage` inductive together with `ReadsFaithful`.
`Marked` and `Ordered`: a running transaction has one timestamp, not behind the mark of its
process, which is not behind any of its committed rows.  The sids of a save exceed all in the
table because `NextSid` looks at its greatest (`Greatest`, by well-founded induction).

**The pool.** `StopIsLast`: a sentinel is the last element of its queue, and is
only sent after the last dispatch.  Hence a worker that takes it has taken all
tasks before (`RunningAccounts`, `DoneEncoded`, `DoneAfterStop`), it reports *ok* only
then, and `finish` returns only when every worker has reported *ok*
(`CountedDone`).  Deaths and failures never give an *ok* report.

**The fence and the clean-up.** `FencedResidue` speaks of finished ingests only.  While one runs,
an ingest of an empty store either owns a marker that is there (`Marked`,
`Opened`) or has not touched anything (`Untouched`); and between transactions
the durable catalog is what the next probe sees (`Quiet`), so a comparison
with the snapshot compares what survives.  For `RestoredOnFailure`, `Undoable` says that
the differences to the catalog of the entry, in the durable one and in what the open
transaction sees, are among those the context has noted to undo.  It must hold
of both, as it is not known before a failure which DDL rolls back.  Nothing is needed of what the ingest
computes, so the theorems hold for every graph of records.

**Pages.** The first lemmas of `ReadingProofs` are about `Ordering`: in a strict total order of a
finite set, the places of the rows are distinct and fill 1..n, a limited set is closed downwards,
and what comes before a row of it is in it.  `SortsBefore` is such an order of rows with distinct sids,
keys of either direction and nulls on either side included, and `SeekPredicate` is that order
relative to the anchor: that the two definitions, one for ORDER BY and one for the predicate with the
token's values, agree is the core of the matter.  The invariant of a walk then says that what it has seen is in order
and lies before where the query stands, and that every row that was there all the time lies either behind that point
or among what was seen and what the page in progress has verified.  A batch takes all admitted rows up to its
last candidate, so neither an inserted nor a deleted row moves the point past a row that stays.

`PreviousRecovers` needs more, as going backward has to stop where the page began.  `TrailInv`
says that, while the store does not change, each page of the trail consists of the verified rows
just before the next one, and is full unless the rows begin with it; so the rows that the backward
token admits end with the page one came from, and size of them are that page.
`CleanInv` says of a page in progress on an unchanged store that it has every admitted row up to the last
candidate of its batches.

**Stored federation.** Rows are only added, at the end of a stream.  For `CountedPage` the beginnings that were
counted stay, and what was taken so far is a window of the counted beginnings
(`Sound`).  For `SnapshotPage` the cutoff lies below the bucket every store is still filling:
a later transaction is stamped after it, and one that was in flight is excepted, so what is
served as of the cutoff never changes.  Counts and fetches of different times then are
those of one list.  Of each sorted stream the first offset + limit + 1 rows are fetched, and what
is cut off comes after so many rows that it cannot be on the page; what `PopLeast` has taken is the beginning of
the sorted union.  For `NoHiddenDuplicate` a probe finds later what was there when the
page was cut; of an audit, the invariant says that an id which two streams held at its beginning is, in both
of them, still ahead or in the buffer, and ahead of every id that was compared, until the
two meet as heads of their buffers.

**Union of stores.** What was taken from the sources so far is the window of the concatenation of those asked
so far, so a source may be cut to offset + limit rows and skipped in part.  A slice of a window is the
window of the sliced plan, which gives `Sliced` its meaning for any number of
slices; the length of a window of n rows is `Available`.

TLC finds the inductive invariants true on the runs' instances too, but for `SlicesInv` of
`ReadingProofs`, which speaks of every list there is.
`OneMutationHolds`, the `TypeCorrect` theorems and `EntryNotLostWithTransactions` state what no run lists as such:
types are a part of every inductive invariant, and `mongo_read` checks `EntryNotLost` of `TxSpec`.

Only model-checked, and why:

* `FsckEnds`, `DisposeEnds` and `CallsEnd`: liveness under fairness.
* `SameAsSerial` and `ResolvedSids` of `BulkIngest`, `ShardsAsSerial` and `TokensResolved` of
  `BulkShards`: they compare what two programs compute, by recursion over graphs of records and by folds
  over what was staged, so a proof is by induction over that data.
* `LoadOrderSound` of `LogicalGraph`, `SqlMeansIt` and `MongoMeansIt` of `SearchRendering`, `FilterSelects`
  of `FilterTranslation` and `BackendsAgree` of `StoredPredicates`: what `RECURSIVE` operators
  compute for every input, which is out of the prover's reach.

## 5. Findings

* **`mongo_save_sweep`.** The sweep deletes collections in arbitrary order.
  When it ends between two of them, an orphan can survive its own reference;
  the next save of that content finds the orphan by `content_id`, promotes it
  and returns a record whose reference is missing.  docs/details/mongo.md says
  that a record cannot point to a missing sid.  With complete sweeps
  (`mongo_save`) it cannot.
* **`stored_nested`.** A predicate of a stored property may put a condition two
  quantifiers away from the scope it names: "of some child, of the record it refers to,
  a value equal to one of the other children".  `_correlate_nested`
  (`backend/sql/stored_properties.py:1192`) replaces the subqueries it finds and does
  not look into what it replaced, so the innermost one is never correlated to the
  outermost scope and selects all of that scope's table: the predicate answers from
  children of other records.  Its docstring promises the relationship for every nested
  subquery.  `BackendsAgree` covers what names the scope one query further out at most.

Disagreements that need no run to see, met while modelling:

* `transaction()` verifies the lease without the lifecycle guard
  (`backend/sql/store.py:947`), so it acquires a lease on a disposed `Backend` and
  nobody releases it.  The comment in `SqlStore.__init__` (259-261) says that no
  dispose interleaving permits this.  `save()` alone keeps the promise
  (`NoStrandedLease`).
* `_raise_if_worker_broken` (`backend/sql/bulk_parallel.py:956`) drains the results first
  and reads exit codes second; a worker that reports and exits in between is taken
  for crashed and aborts the ingest.  The docstring (951-954) and
  `tests/test_db_bulk_parallel.py:831` say it is recognized as done.  Nothing is lost
  (`ManifestsComplete`).
* `_resolve_and_insert` (`backend/sql/bulk.py:1406`) visits each stored table once.  When
  by-value classes refer to each other, a hit in the second table makes a row of
  the first equal to a stored one, too late: an ingest of a record that is
  already there inserts it again, where `save()` finds it.  docs/details/db.md:588-590
  promises deduplication exactly as by `save()`.  The classes of `bulk` do not refer
  to each other mutually.
* The deferred finalizer compares all columns of a by-value row but its sid, timestamp and
  lineage (`backend/sql/bulk_deferred.py:310`), `_httk_role` included: a record saved both
  as a root and as part of another one stays two rows.  In `bulk` such classes are saved in
  one of the two ways (`NestedOnly`).
* `replace()` takes the predecessor's sid from the caches or the row object without
  checking that the row is alive (`backend/sql/store.py:2047`).  For a lazy row of a
  rolled-back transaction, whose attributes raise `ExpiredLazyRecordError`
  (`rows.py:37`), it is the sid of whatever row has it by now, and the replacement
  joins that lineage.  `LineageKept` is about predecessors that live.

### Limits met while modelling

Stores:

* Inside `transaction()` on one store, saving through another while a third
  thread disposes can deadlock: the mutation lock, the guard and the release
  callbacks are then taken in opposite orders.  `DisposeEnds` holds only
  with `CrossStore = FALSE`.
* MongoDB `fetch()` remembers what it read whatever happened since.  When an fsck and
  the next write of the store fall between its read and its memory, a swept
  record is back in the cleared cache.
* `fetch_entry()` outside a transaction reads the dispatch row and the backing in
  two operations; a save that commits in between makes it raise an integrity
  error for a sound store, once.  `EntryNotLost` is therefore about saves that
  returned before the lookup.
* An unforced fsck decides with two queries; a writer whose heartbeat lapsed and
  that refreshes between them is counted by neither.  `FsckExclusion` excepts
  lapsed owners.
* A save that *raises* in the degraded profile removes its markers although its
  child rows remain; only fsck removes these.  `ResidueMarked` excepts them.
* A lease stolen from a process in the middle of a write (`StealLive = TRUE`)
  lets the targeted sweep delete rows of that write.  `steal_lease` asks its
  caller to be sure that the owner is gone, so the runs exclude it.
* fsck of a PostgreSQL store takes the store's own mutation lock only
  (`backend/sql/store.py:1037`); writers of other processes go on.  `SqlFsck` has no
  writers.

Bulk ingest:

* An ingest encodes the elements of a by-value record before it knows that the
  record is there already, so conflicting metadata of an element is refused where
  `save()`, which does not look at the elements, accepts.  The universe of
  `bulk` has its metadata conflicts elsewhere.
* An exception of `bulk.save()` that the block catches leaves rows half encoded,
  and the ingest commits them.  In `BulkIngest` an exception ends the block.
* On a populated SQLite store there is no marker.  A crash after an eager
  `DROP INDEX` or `CREATE TABLE` leaves a store that opens without the index; the
  catalog snapshot of an empty store does not have indexes either, so a clean-up
  that fails at an index still removes the marker.  `FencedResidue` is about
  tables and stages.
* A store whose failed ingest left the marker can still be written through the
  open `SqlStore`; it is only refused when it is opened again.  The same holds when
  everything is committed and the delete of the marker fails.
* `save()` asks for an open ingest before it takes the mutation lock, which a
  transactional ingest does not take.  `BulkIngest` excludes ordinary saves.

Reading:

* A transaction that was open at the cutoff of a snapshot captured its timestamp before it
  and may still enter; the docstring (`backend/sql/stored_federation.py:262`) excludes
  future writes only for the writers that begin later.  `SnapshotPage` excepts it.
* A live page of a sorted federated query may have a `total_count` that its rows
  contradict, as the counts are earlier statements.  Only the ids of the visible page are
  probed for a second origin; the audit looks at all.
* `FederatedSearcher.count()` is kept with the plan and may be stale by the next `len`.
* Anchors that a token cannot encode raise.  The federated merge compares strings in
  Python and the streams in the database's collation; sort values here are numbers.

Queries, the two backends:

* `filtered(filtered(scope, p), q)` replaces the earlier filter in MongoDB and adds to it in SQL.
* A scope that is quantified again, a filtered copy of a bound scope, and a parent scope
  quantified inside the quantifier of its descendant bind differently; `Fresh` excludes
  them from `BackendsAgree`.
* The ClickHouse validation of correlated subqueries lets a `count` or `exists` of a filter
  with a subquery pass (`backend/sql/stored_properties.py:343-365`, `844-857`).
* A declared column that is reached through a missing reference is NULL in SQL and false in
  MongoDB's `x_present`; a field of a collection that is not bound is a cartesian product in SQL;
  a distinct count needs a field of its own scope in MongoDB; ordering exact values raises in SQL.
* A negated membership of a scalar that is NULL is true in SQL and unknown in MongoDB, as
  their tests say (`tests/test_db_searcher.py:309`, `tests/test_mongo_searcher.py:89`);
  `Meant` has a parameter for it.
* SQLite's `LIKE` ignores case; MongoDB's `endswith` accepts a trailing newline.  String
  matching is not modelled.
* A child column of SQL that a caller keeps and uses in `has_any` and in `has_only` is one join
  for both.  MongoDB references lack `has_any` and `has_only`, and its filters lack
  `_httk_store_timestamp` and `_httk_logical_id`.
* In filters, `HAS` of a scalar raises `TypeError`, `IS UNKNOWN` of a declared nullable field
  is false and a negated comparison of an unknown property matches everything.
* Ids of related entries that were looked up for a negated leaf can match, wrongly, rows saved
  after the lookup; `FilterSelects` excepts them.  With `as_of`, naming a reference chain hides
  rows whose reference is NULL.

## 6. Not modelled, and the plan

Not modelled at all: engine creation and SQL dialects (I/O and text), table layout,
schema resolution and codecs (type-directed, no state), document encoding, entry
providers, validation and export.  Of what is modelled, left out are: promotion and native
loaders of bulk ingests; MongoDB's `replace()`, lineages, explicit transactions and
timestamps; schema creation and upgrades; statistics and aggregation; string and
timestamp predicates; cursor rows.  `components` gives the reason for each part.

Planned, in this order:

1. Proofs about single steps of what bulk ingest computes, below `SameAsSerial`: that `Flush` leaves
   every reference of a staged row to a staged or a stored row, and that the merge renumbers
   injectively.
2. `MongoReplace`: `replace()`, lineages and explicit `transaction()` with
   unknown commits, in place of the atomic `MongoSaveTx`, with the timestamps it writes.
3. `BulkAdmission`: a `save()` or a transaction of another thread that was
   admitted before the ingest claimed the store.
4. `ClickHouseFence`: lease, marker and bootstrap with ambiguous inserts.
5. `LayoutUpgrade`: `classify_schema_upgrade` against what an upgrade must preserve.
