# TLA+ models of normous (a MongoDB code base)

This directory holds TLC-checked TLA+ models of the parts of the repository
that have concurrency, failure handling or non-trivial algorithms. Every
definition that models code is listed in `PROJECT.json` under `map` with the
source lines it translates. `runs` lists what TLC checks. `hazards` lists what
is hard to test in the code and which property covers it.

## 1. Inventory of the system

The repository is a sample of MongoDB server files. Some files hold the
source of another file (noted below). The parts and how they interact:

| Part | Source | State | Operations | Interacts with |
|---|---|---|---|---|
| External sorter | `db/sorter/sorter.h` (declarations); behaviour in `spec.md` | options, unsorted buffer and its memory estimate, spilled run files, file deleter reference counts, merge heap | `add`, `done`, spill, `more`/`next`, destructors | the filesystem (scratch directory) |
| mongod `dropDatabase` | `bson/bson_depth.h` lines 57-323 | the Database's drop-pending flag, the collections (live, drop-pending, gone), the client's last optime, the commit point | three steps: locked, unlocked wait, locked; scope guards | replication coordinator, drop-pending reaper, users creating collections |
| mongos `dropDatabase` | `s/commands/cluster_drop_database_cmd.cpp` lines 1-214 | config metadata (database entry, sharded collections), database and collection data per shard | lock, read metadata, drop collections from config, drop on the primary shard, then on the other shards, remove the entry | the config server, the shards (each runs mongod `dropDatabase`), the client's retries |
| WriteBatchExecutor | `db/index_names.h` lines 84-1458 | batch items, per-item results, locks, stale-version state | validate, bulk execute, insert/update/delete with lock upgrade and write-conflict retries, upsert creation race | locks, sharding version checks, replication write concern |
| Page residency tracker | `unnamed/part_003` lines 1-411 | ten hash-map slices of region bitmaps under a mutex, rotated in turn; a thread-local ring cache of pages | `Rolling::access`, `_rotate`, `Slice::get`/`in`, `Record::likelyInPhysicalMemory`, `Record::accessed` | the page-fault retry protocol |
| runCount | `unnamed/part_002` | skip, limit, count, cursor, the lazily made ClientCursor | the counting loop with yields | the query cursor, concurrent drops during a yield |
| Date and time support | `db/query/datetime/date_time_support.cpp` | none | `seconds`, the `DateParts` millisecond, `dayOfWeek`/`dayOfYear`/`week`, `validateFormat` | timelib (outside the repository) |
| `$redact` | `db/pipeline/document_source_redact.cpp` | the source's remaining documents | `getNext`, `redactObject`, `redactValue` | the expression evaluator, the source stage |
| Index key generation | `db/index/expression_key_generator.cpp` | none (keys are built per document) | `getS2Keys` with `getGeoKeys` and the literal-key helpers, `get2DKeys`, `getHashKeys`, `getHaystackKeys` | S2 cell covering, geohashing and the element hash (outside the repository); `getFTSKeys`, a one-line forward to the text index |
| Declarations, wrappers, tests | `index_set.h`, `batched_update_request.h`, `unnamed/part_000`, `unnamed/part_001`, tests | none of interest | | |

### The hard behaviours

- **Sorter**
  - Spill points depend on record sizes and the budget.
  - Files are shared between the sorter and the merge iterator, and each may be destroyed first.
  - Writes and reads may fail at any point.
  - The top-N limit cuts the merge.
- **mongod drop**
  - The locks are released while waiting for replication.
  - The node may step down in the meantime.
  - Three separate guards must undo the drop-pending flag.
  - The wait target differs depending on whether this call dropped anything.
  - Drop-pending collections of earlier attempts must also be committed.
  - A write conflict retries the first step with the counters of the failed run.
  - Two calls can interleave between each other's steps.
- **mongos drop**
  - Every remote call can fail, and some fail after doing their work.
  - A client retry starts from whatever metadata the failed attempt left.

### What makes each part correct

- **Sorter**
  - The output is the sorted multiset of the records added, cut to the limit.
  - No run file is read after it is deleted.
  - No file outlives the sort.
  - The budget is respected when external sort is off.
- **mongod drop**
  - The database never stays drop-pending after a call returns.
  - It is removed only after its collection drops are majority committed.
  - A call always returns.
- **mongos drop**
  - Metadata goes before the database entry.
  - A database reported dropped exists on no shard.

## 2. Modules

| Module | Models | Composes |
|---|---|---|
| `SortAbstract` | what the sorting framework promises: records added while open, output the smallest unproduced record up to `min(limit, #added)`, abort at any time | |
| `Sorter` | the facade, the SortedFileWriter, the MergeIterator and the FileDeleter | refines `SortAbstract` via `INSTANCE SortAbstract WITH status <- SortStatus, limit <- opts.limit` |
| `MCSorter` | constants for TLC | extends `Sorter` |
| `DropDatabase` | mongod `dropDatabase()` and its environment | |
| `MCDropDatabase` | constants for TLC | extends `DropDatabase` |
| `ClusterDropDatabase` | the mongos command with failures and retries | |
| `MCClusterDropDatabase` | constants for TLC | extends `ClusterDropDatabase` |
| `WriteBatch` | `executeBatch` and `bulkExecute`: one batch from validation to response, with stepdowns, metadata refreshes and migrations around it | |
| `MCWriteBatch` | constants for TLC | extends `WriteBatch` |
| `InsertOne` | the lock protocol of `execInserts` for several concurrent insert batches, with concurrent drops | |
| `MCInsertOne` | constants for TLC | extends `InsertOne` |
| `UpdateRemove` | one update or delete item (`multiUpdate`, `multiRemove`) per thread, racing drops and stepdowns | |
| `MCUpdateRemove` | constants for TLC (the `update_remove_lastop` violation run) | extends `UpdateRemove` |
| `WriteOps` | an insert batch and an update or delete item on one namespace, sharing the database, the collection, the role and the drops | `INSTANCE InsertOne` and `INSTANCE UpdateRemove` with their variables renamed apart |
| `MCWriteOps` | constants for TLC | extends `WriteOps` |
| `Redact` | the `$redact` stage: `getNext` over a source, `redactObject` and `redactValue` as `RECURSIVE` operators | |
| `MCRedact` | the levels, the documents (three levels deep, with arrays) | extends `Redact` |
| `CInt` | C++ `long long` arithmetic: truncating `/` and `%`, two's-complement wrap at a width `LongBits` | |
| `RunCount` | one call of `runCount`: the code before the loop, one turn of the loop, the return | extends `CInt` |
| `DateTime` | `seconds`, the `DateParts` millisecond, `week`, `validateFormat` as operators; one call as the state | extends `CInt` |
| `KeyGen` | `getS2Keys` as a `RECURSIVE` operator; `get2DKeys`'s loop as steps; `getHashKeys` and `getHaystackKeys` as operators | extends `SequencesExt`, `CInt` |
| `MCQuery` | the query layer for TLC: a behaviour runs `$redact`, a count, a date call, an S2 key call, a hashed or haystack key call, a 2d key generation, or the page tracker, the others idle | extends `MCRedact`, `RunCount`, `DateTime`, `KeyGen`; `INSTANCE PageTracker` |
| `PageTracker` | the page-residency tracker of `record.cpp`: one `Rolling`, its `Slice`s and the threads' `SimpleCache`s | |
| `MCPageTracker` | constants for TLC (the region hash, the watched page), for the `page_tracker_known` violation run | extends `PageTracker` |

### Sorter

The code of `sorter.cpp` is not in the repository. `sorter.h` gives the types,
the options (`SortOptions`) and the ownership (`SortedFileWriter::_fileDeleter`,
shared pointers handed to `merge`). The behaviour comes from `spec.md`, and the
map marks those definitions `spec_modelled`.

**State.**
- `opts` is chosen in `Init` from every combination of limit, budget and `extSortAllowed`.
- `buffer` and `memUsed` are the unsorted records and their estimate.
- `runs` and `content` hold the sealed files.
- `onDisk` and `owners` are the scratch directory and the holders of each file's deleter.
- `srcs`, `pos` and `iter` are the merge iterator.
- `added` and `out` are histories for the properties.

**Actions.**
- `Add` models `add()`, including the spill or the failure it triggers (`OverBudget`, `Spill`, `SpillFails`).
- `Done` models `done()`, which shares every file with the iterator.
- `DestroySorter` and `DestroyIterator` model the destructors, which drop references (`Release`).
- `Prime`, `MergeNext`, `ReadFails` and `Exhaust` model `more()` and `next()`.

### DropDatabase

**Callers.** `Callers` are concurrent `dropDatabase` calls on one node. Each has its own `pc`, its client's lastOp (`clientLastOp[t]`) and the locals `numCollectionsToDrop[t]` and `latestDropPendingOpTime[t]`. Those locals are declared outside the `writeConflictRetry` lambda (lines 160-164), so they keep their values when the lambda is retried.

**Steps.**
- `StartDrop` is the call, entering the first `writeConflictRetry` lambda under the global X lock. `RetryDropCollections` is the same lambda run again after a `WriteConflictException`. Both are `DropCollectionsStep`, which covers:
  - `EarlyReturn`: the `NamespaceNotFound` and `NotMaster` early returns, and `setDropPending(true)` throwing when the flag is already set. The `Database` class is not in the repository; `EarlyReturn` follows the 3.6 server's `Database::setDropPending`, which refuses a second drop-pending marker. The scope guard on the flag (line 188) is not yet armed in any of these;
  - the loop that two-phase-drops replicated collections (each a new optime, `DropColls`) and notes the newest drop-pending optime (`NewestPending`);
  - a write conflict part-way through the loop: some of the collections are dropped, the scope guard resets the flag, and the call goes to `retry`;
  - `_finishDropDatabase` when there is nothing to wait for.
- `AwaitReplication` is the unlocked wait. `AwaitTarget` chooses between `awaitReplicationOfLastOpForClient` and `awaitReplication(latestDropPendingOpTime)`. On failure, `dropPendingGuardWhileAwaitingReplication` resets the flag if the database exists.
- `FinishDrop` is the second locked step. It covers the `PrimarySteppedDown` reset, `_finishDropDatabase`, and `NamespaceNotFound`.
- `FinishDropDatabase` may fail, and then its guard resets the flag.

**Environment.** None of these is code of the repository:
- `Replicate` advances the commit point.
- `Reap` removes a drop-pending collection whose drop is committed.
- `StepDown` and `StepUp` change the node's role.
- `CreateCollection` lets users create collections. The Database refuses this while it is drop-pending; that is an assumption about `Database`, which is not in the repository.

Each client calls `dropDatabase` again after any outcome, up to `MaxAttempts` calls in all.

### ClusterDropDatabase

**Actions.**
- `Start` is `run()` up to the loop. It covers the lock (which may fail), the cache invalidation, "database does not exist" and reading the sharded collections.
- `DropShardedCollectionFromConfig(n)` is one turn of the loop.
- `DropFromPrimary` and `DropFromShard(s)` call `_dropDatabaseFromShard`. Its effect is `ShardDrops`, and it may fail before or after the shard has dropped.
- `RemoveConfigDocuments` removes the database's config entry and replies "dropped".
- `Fail` is any `uassert` ending the command.

The config server's `dropCollection` is treated as atomic: it removes the metadata and drops the collection on its shards, or does neither.

### WriteBatch

The executor's code sits in `db/index_names.h` (lines 84-1458).

**State.**
- The request is chosen in `Init`, covering every combination of:
  - batch type, ordering and size (0 up to one past the maximum);
  - whether the request carries a shard version (`versioned`). `checkShardVersion` (lines 274-302) checks the request's own version for every item; the `ChunkVersion::IGNORED()` that `execUpdate` and `execRemove` set for a multi write goes into `OperationShardVersion`, which no check in this file reads;
  - which insert documents fail `fixDocumentForInsert` (`badDoc`);
  - whether the write concern is silent.
- `errors` is the `writeErrors` vector, as a sequence of `[idx, code]` records. `applied` lists the items that took effect.
- The environment is the node's role, the shard's and the config's collection versions, and the migration critical section.

**Actions.**
- `ExecuteBatch` is the validation: `validateBatch` (`ValidateBatch`, a request flag `badNs` for an invalid or unwritable namespace or an invalid index request), then the empty and oversized checks.
- `NormalizeInserts` is `normalizeInserts`.
- `ExecItem` is one turn of `bulkExecute`'s loop, with the checks in `CheckError`.
- `FillStaleErrors` (with `FillCopies`) is the fill-in for unordered batches.
- `EnforceWriteConcern` covers `needToEnforceWC` and the wait.
- `RefreshIfStale` and `WaitForMigrationCommit` cover the metadata refresh and the queue for the migration commit.
- `Respond` builds the response.

### InsertOne

**State.** Per thread:
- the position in `execInserts`/`insertOne` (`pc`) and `currIndex` (`idx`);
- `_lockAndCheckImpl`'s `intentLock` argument (`intent`);
- the modes of `_dbLock` and `_collLock`, and whether `_collection` is set.

**Actions.**
- `NextInsert` is the loop head. When the batch ends, the `ExecInsertsState` destructor releases the locks.
- `Yield` is the periodic unlock.
- `LockDb` and `LockColl` are `_lockAndCheckImpl`. This includes its retry in X when the database or collection is missing, and implicit creation.
- `LockColl` also makes the checks done under both locks: not primary (`NotMaster`) and a stale request version (`StaleShardVersion`) fail the insert and unlock. `checkIndexConstraints` only ever refuses an index request, and those never call `lockAndCheck`, so it never fails here.
- `Insert` is `singleInsert` inside `insertOne`'s retry loop: success keeps the locks, a `WriteConflictException` unlocks and retries, and an error unlocks (`Fail`).
- `CreateIndex` is the index-request branch of that loop (`singleCreateIndex`). The thread takes none of the executor's locks: the `createIndexes` command takes the database in X itself and creates the database and collection. So the `intentLock = false` of `_lockAndCheckImpl` (line 998) is never reached.
- `Drop` is another operation dropping the collection or the database under an X lock. Drops are unbounded.
- `StepDown` (bounded) and `StepUp` change the node's role.

**Lock grants.** Locks are granted as the lock manager does: `Grantable` makes IX compatible with IX only.

### UpdateRemove

**Locked regions as actions.** Each locked region is one action:
- `CreateCollection` is the upsert's X region (`AutoGetOrCreateDb`).
- `Run` is `multiUpdate`'s IX region. `Missing` handles an absent database or collection, and `Executed` is the plan's outcome.
- `RemoveRun` is `multiRemove`'s IX region.

A drop needs the database X lock, so it falls between regions, never inside one.

**Item results.**
- A write conflict restarts the loop. For a multi update it escapes as `aborted`.
- `ShardVersionAttached` is `execUpdate`'s and `execRemove`'s choice of the version the operation carries: the request's for a single write, `IGNORED` for a multi update. Only a write that carries it can also fail stale inside its plan.
- `getExecutorDelete`, given a NULL collection, either throws or plans an empty delete. It is not in the repository, so both are allowed.

**Write concern.**
- The client's lastOp is abstracted to `upToDate[t]`: t's lastOp is the node's newest optime.
- `Write` moves it for the writer. A drop makes it stale for everyone.
- `NoOpReset` is the `setLastOpToSystemLastOpTime` step after a no-op.
- `raced` is a history variable. It records a drop after the thread last created the collection.

### WriteOps

`WriteOps` composes one `InsertOne` instance and one `UpdateRemove` instance over the shared `dbExists`, `collExists`, `primary` and `stepDowns`. The per-thread variables are renamed apart (`pc` becomes `ipc` and `upc`, `wces` becomes `iwces` and `uwces`).

An insert thread holds its locks between steps. An item's locked regions are single actions. Such an action is enabled only when the lock manager would grant it:
- `ItemCreate` and `Drop` need the database in X (`DbFree`);
- `ItemRun` needs IX on the database and the collection (`IntentFree`).

An insert step that writes (`InsStep`) makes every item client's lastOp stale, as a drop does.

### Redact

**Values.** A value is a record:
- a scalar;
- a document: a sequence of fields in order;
- an array;
- `Missing`.

`Failed` stands for uassert 17053, which ends the aggregation.

**The expression.** The expression is a function `policy` from a document's `level` field (or its absence) to keep, prune, descend, or anything else. It is chosen in `Init`, so every such `$cond` is covered.

**Operations.**
- `RedactObject` and `RedactValue` translate `redactObject` and `redactValue` line for line.
- In an array, only elements that are documents or arrays are redacted and pushed. Scalar elements of an array in a descended document are dropped, as the code drops them (lines 79-86).
- `GetNext` is one turn of `getNext`'s `while` loop. It pulls the source's next document and redacts it. A pruned document is passed over and the loop goes on; any other is returned (or `redactObject` throws). At the end of the source `getNext` returns none. A turn that passes over a document leaves `out` and `pc` unchanged, so the turns of one call and the calls themselves look alike; `StreamComplete` compares the whole stream with the source.

### RunCount

**State.** `countPc` is where the call is; `skip`, `limit`, `count` are the locals; `pos` is the cursor's position; `clientCursor` is whether `ccPointer` holds a ClientCursor. `docs` abstracts the cursor to the documents it reaches, TRUE for those that count (a simple equality match, or a matching document not already seen). `args` is the call: whether the namespace exists, and `cmd`'s skip and limit. `disturbed` is a history variable: a failed yield or an exception ended the loop.

**Operations.**
- `Call` is lines 31-58: "ns missing" returns -1; otherwise skip and limit are read and a negative limit negated in a `long long` (`Wrap`).
- `Turn` is one turn of `while (cursor->ok())`. It throws (caught: -2); or, with a ClientCursor, the yield finds the cursor gone and the count so far is returned; or the ClientCursor is made if the interval elapsed (a free choice: it depends on the clock and the turn count), and the document is skipped, counted, or counted and the limit reached.
- `End` is the return after the cursor is exhausted.

**A failed yield.** A yield that fails (the collection dropped during the yield) breaks the loop and returns the partial count as a success (lines 67-69), while an exception returns -2. The model reaches both. Nothing in the repository says which the caller should see, so no property chooses an answer.

### DateTime

The functions hold no state. The module's one variable, `call`, is a call of one of them with arguments from a bounded set, so each call is a state the properties are checked in.
- `Seconds` is `seconds()`; `DatePartsMillisecond` is the millisecond field of `DateParts` and `Iso8601DateParts`.
- `DayOfWeek`, `DayOfYear` add one to timelib's results; `Week` is `week()`. timelib's results are generated from the weekday of January 1 and the day of the year, so they are those of a real (leap) year.
- `ScanFormat` is `validateFormat`'s loop, `RECURSIVE` over the position; its results are `"ok"` or the uassert codes.

**An observation, not checked by a run.** For the 999 dates nearest `LLONG_MIN`, `millis -= 1000 - 1` (line 62) overflows. That is undefined behaviour; the server's builds wrap, and `seconds()` then returns a large positive value. `SecondsAgreeWithDateParts` excludes these dates. No such date can come from a real calendar (it is 292 million years before 1970), but a BSON date can hold it.

### KeyGen

**Values.** BSON values are records: numbers, strings, arrays and objects (with their elements in order), and the key values null and undefined. What the code takes from outside the repository is an input: the elements `getFieldsDotted` finds, S2's cell covering of a geometry (`CellsOf`), the geohash of a location (`GeoHash`), and the 64-bit hash of an element (`ElementHash`).

**getS2Keys.**
- `GeoKeys` is `getGeoKeys`: uasserts 16754, 16755 and 16756, the cells as keys, and null for a missing field.
- `LiteralKeys`, `OneLiteralKey` and `LiteralKeysArray` are the literal helpers: a missing field is null, an array stands for its elements, and an empty array is undefined.
- `S2Loop` is the loop over the key pattern: the first field seeds `keysToAdd`, and every later field is appended to each key so far. The warning above `maxKeysPerInsert` is only a log line.

**get2DKeys.** It is a step per turn, so that its pushes to `locs` can be observed as they happen:
- `NextGeo` passes over a location field that is not an object or array, or is empty.
- `LocStep` is one turn of the `while (oi.more())` loop. A single location (its first element a number) is pushed and keyed, then the loop breaks; `oi` is never advanced for it. In a list, each element must be a location object (uassert 16804), and empty ones are passed over.
- `Key` is the key of a location: its geohash, then each other field as null, the one element, or an array of the elements.

**getHashKeys and getHaystackKeys.** They hold no state, so the variable `keyCall` is one call of either, with arguments from a bounded set.
- `HashKeys` is `getHashKeys`: an array is refused (uassert 16766), a present field is hashed, and a missing one is hashed as null unless the index is sparse. `SingleHashKey` is `makeSingleHashKey`, with its massert 16767 on the hash version.
- `HaystackKeys` is `getHaystackKeys`. A missing location gives no key. A location that is not an object or array fails uassert 16775, and one whose first two elements are not both numbers fails 16776 (`Elem` gives EOO past the end, as `BSONObjIterator::next` does). `AddKey` is `addKey`: the root, then each value of the other field, or null when there is none.
- `HaystackBucket` is `hashHaystackElement`: shift by 180, divide by the bucket size, and truncate toward zero (`CDiv`). Coordinates and bucket sizes are whole numbers, for which the double arithmetic is exact.
- The root string `"x_y"` of `makeHaystackString` is kept as the pair `<<x, y>>`. The string tells pairs apart, so keys are equal exactly when their pairs are.

**An observation.** A coordinate below -180 is not rejected. With truncation toward zero it lands in bucket 0, together with the coordinates just above -180. No document of the repository says what such a coordinate should give. Within -180..180 the shift makes truncation a floor by the arithmetic itself, so no run states a property about buckets.

### MCQuery

The components share no state. `QueryInit` starts one of them and leaves the others idle, and `QueryNext` steps whichever is running. The state space is then the sum of the components, not their product. The page tracker is taken in with `INSTANCE PageTracker` under its own variables (its `Init` and `Next` share names with `Redact`'s). `QueryPagesInit` starts it in its initial state in every behaviour, and the flag `pagesOn` lets it step only in the behaviours that exercise it; the other components are idle there.

## 3. Runs

| Run | Checks | Shows |
|---|---|---|
| `sorter_core` (`MCSorter.cfg`) | `TypeOK`, `OutputComplete`, `NoReadOfDeletedRun`, `NoLeakedFile`, and `SortRefinement` (the abstract spec as a `PROPERTY`) | The sorter implements the abstract sort for every budget, limit, spill pattern and failure point. An exhausted iterator has returned exactly the limit smallest records. Files are deleted exactly when the last holder goes. |
| `mongod_drop` (`MCDropDatabase.cfg`) | `TypeOK`, `NoStuckDropPending`, `NoLiveCollectionAtDbDrop` (an action property) | With two concurrent calls, write conflicts, failed waits and stepdowns, the flag never stays set once no call is past the first step, and the database is never removed while a replicated collection is live. |
| `mongod_drop_wce` (`MCDropDatabaseWCE.cfg`, expected violation) | `DbDropAfterDropsCommitted` (an action property) | See finding 4. |
| `mongos_drop` (`MCClusterDropDatabase.cfg`) | `TypeOK`, `NoShardedCollOutlivesDb` | Failures at any step of any attempt never leave sharded-collection metadata or data behind the database entry. |
| `mongos_drop_orphan` (`MCClusterDropDatabaseOrphan.cfg`, expected violation) | `NoOrphanedShardDb` | See finding 1. |
| `write_batch` (`MCWriteBatch.cfg`) | `TypeOK`, `NoAppliedItemReportedFailed`, `InsertWithinNormalized` | In every batch shape, with failures, stale versions and migrations, no applied item is reported as failed, not even after the stale-error fill-in. Every insert the loop reaches was normalised, although `normalizeInserts` stops an ordered batch early. |
| `write_batch_wc` (`MCWriteBatchWC.cfg`, expected violation) | `UnorderedSuccessAwaitsWC` | See finding 2. |
| `update_remove_lastop` (`MCUpdateRemoveAckedCoversObserved.cfg`, expected violation) | `AckedCoversObserved` (action property) | See finding 3. |
| `page_tracker_known` (`MCPageTrackerAccessed.cfg`, expected violation) | `AccessedIsKnown` | See finding 5. |
| `insert_locks` (`MCInsertOne.cfg`) | `TypeOK`, `CollectionPointerValid`, `AllBatchesFinish` (liveness) | Two batches (inserts or index builds) racing to create a missing database and collection never deadlock, and never keep a collection pointer without the locks that protect it. |
| `write_ops` (`MCWriteOps.cfg`) | `TypeOK`, `DefeatOnlyAfterRace`, `AllBatchesFinish`, `AllItemsFinish` (liveness, drops unbounded) | An insert batch and an update, delete or upsert item run on the same namespace. An upsert gives up only when a drop removed the collection it had created or found, never because an insert created it. Both finish however often the collection is dropped and re-created. |
| `query_layer` (`MCQuery.cfg`) | `NoPrunedContentReturned`, `StreamComplete`, `CountMatchesReference`, `SecondsAgreeWithDateParts`, `WeekCountsSundays`, `FormatValidIffTokens`, `PageTypeOK`, `KnownOnlyIfRecent`, `S2KeysAreProduct`, `TwoDFollowsGrammar`, `HashedKeyPerDocument` | For every keep/prune/descend expression, `$redact` never returns content the expression prunes, at any depth or inside arrays. When the stream ends without error it has returned exactly the unpruned source documents, in order. A count that no failed yield or exception cuts short returns the reference count for every cursor, skip and limit, `LLONG_MIN` included. `seconds()` and the `DateParts` millisecond split every date outside the overflow band so that they add back up. `week()` is the number of Sundays so far. `validateFormat` accepts exactly the formats that split into tokens. `getS2Keys` gives every combination of its fields' keys exactly once. `get2DKeys` pushes the grammar's locations once each and in order, keys each of them, and throws 16804 exactly at the first malformed list. A hashed index refuses arrays, and gives every other document one key (none for a sparse index's document without the field); a missing field gets the key of null. The page tracker never says a page is in RAM unless it was passed to `access` within the last `NumSlices` rotations, whether it was found through `In`, set on the `Out` path in an older slice, or aged by chain-full rotations. |

### PageTracker

**State.**
- `slices[i]` is `Rolling::_slices[i]`: a function from bucket to an entry with a region (0 when empty, as in `Slice::_get`) and the set of page offsets whose bit is set.
- `curSlice` is `_curSlice`; `cache[t]` and `cachePos[t]` are thread t's `SimpleCache` entries and `_pos % SIZE`.
- `age` and `ans` are history variables for one page, `Watched`: the rotations since it was last passed to `access`, and the answer and age of its last `likelyInPhysicalMemory` lookup.

**Operations.**
- `ChainIdx`, `SliceGet`, `SliceIn` are `Slice::_get`, `get` and `in`: probe `MaxChain` buckets from the region's hash; `SliceCanAdd` is `in`'s full-chain failure.
- `Rotate` is `_rotate`; `Search` is `access`'s loop over all (or, for `doHalf`, the first half of the) slices from the current one and its add to the current slice, rotating when the chain is full.
- `Access` is the whole of `Rolling::access` under `_lock`: the "rarely" time check is a free choice whether to rotate first (it depends on the clock and a call counter).
- `LikelyInPhysicalMemory` and `Accessed` are the `Record` methods past the `inCache` check; `Accessed` also adds the page to the ring.

**Shadowing by `doHalf`.** Because `accessed()` searches only half the slices, it can add a fresh entry for a region to the current slice while an older slice holds the region's bits. The next lookup stops at the fresh entry and answers "not in RAM" for a page accessed with no rotation since. This contradicts the comment "after this call, we assume the page is in ram" (`part_003:140`); `page_tracker_known` shows it (finding 5). Its effect is a needless page-fault yield. `KnownOnlyIfRecent`, the safe direction, holds and is checked in `query_layer`.

**Abstractions.** One `Rolling` of the 128 is modelled: a region always maps to the same one, so they never interact. `ps::hash` is a constant function chosen so two regions share a bucket. The DEV random `false` answer and the OS `blockInMemory` fallback only replace the answer and are left out.

### Findings

**1. Orphaned shard database (code bug).** TLC finds the following 8-state trace against `NoOrphanedShardDb`:
1. Attempt 1 drops `n1` and `n2` from config.
2. Sending `dropDatabase` to the primary fails.
3. Attempt 2 finds no sharded collections, so `allShardIds` is empty.
4. It drops the database on the primary only, removes the config entry and replies "dropped".
5. The database still exists on `s2` and `s3`.

The code (`cluster_drop_database_cmd.cpp:119`) derives the shards to drop from the metadata it is about to delete, so nothing remembers those shards across attempts.

**2. Write concern skipped for unordered batches (divergence from the comment).** The comment at `index_names.h:384-385` says write concern is enforced "if something succeeded and we're unordered". TLC finds this 7-state trace against `UnorderedSuccessAwaitsWC`:
1. An unordered, versioned batch of two inserts; the request's version is newer than the shard's. The fill-in runs for every batch type, so updates and deletes behave the same way.
2. Item 1 fails `checkShardVersion` with `StaleShardVersion`.
3. Another operation refreshes the shard's metadata, so the shard's version now equals the request's.
4. Item 2 passes the check and is applied.
5. `bulkExecute`'s fill-in (lines 816-827) sees a stale *last* error and appends a copy of it for every item after item 1, item 2 included.
6. The errors now equal the batch size, so `needToEnforceWC` (line 389) is false.
7. The reply is sent without waiting for write concern, although item 2's write succeeded.

The fill-in ("update/delete can't do this on own", though it runs for inserts too) assumes every item after a stale one would also be stale; that stops being true once the version changes during the batch.

The same fill-in also reports item 2 with item 1's index. `NoAppliedItemReportedFailed` holds because the copies keep that index: no *applied* index is reported failed.

**3. No-op early returns skip the lastOp reset (divergence from the comment).** Lines 1336 and 1433 say "No-ops need to reset lastOp in the client, for write concern."

The following returns come before that reset and skip it:
- `multiUpdate`'s early returns for a missing database or collection (lines 1265-1285 and 1290-1309);
- `multiRemove`'s `break` on a missing database (1401-1403).

TLC's trace:
1. The client's lastOp is older than the node's newest optime, for example because of a drop.
2. An update finds no database and returns n = 0.
3. The item is acknowledged with the old lastOp, so `w: majority` does not wait for the drop it observed.

**4. A write-conflict retry waits for too little (code bug).** The counters `numCollectionsToDrop` and `latestDropPendingOpTime` live outside the `writeConflictRetry` lambda (`bson_depth.h:160-164`), so a retry keeps them. When the first attempt dropped something, a retry waits only for the client's last optime (`awaitReplicationOfLastOpForClient`), even if it has since found a newer drop-pending collection of another call. TLC's trace against `DbDropAfterDropsCommitted`:
1. Call `d1` drops `c1` (optime 2), then hits a write conflict; the guard resets the flag, and `numCollectionsToDrop` stays 1.
2. Call `d2` drops `c2` (optime 3) and waits for it.
3. `d2`'s wait times out, and its guard resets the flag.
4. `d1` retries: there is nothing left to drop, `c2` is drop-pending at optime 3, but `numCollectionsToDrop > 0`, so it waits only for its client's optime 2.
5. Optime 2 commits, and `d1` removes the database while `c2`'s drop (optime 3) is not majority committed.

The comment at lines 162-163 waits for the last drop-pending collection only "if there are no collections to drop", on the assumption that the client's last optime then covers every drop-pending collection. The wait target is chosen from `numCollectionsToDrop` alone (line 251), and that counter also counts drops of earlier, failed runs of the lambda, so the assumption fails after a retry.

**An observation, not checked by a run: NULL collection in `multiRemove`.**
- When the database exists but the collection does not, `getCollection` returns NULL.
- `multiRemove` passes that to `getExecutorDelete`.
- If that call plans an empty delete, line 1431 calls `collection->infoCache()` on NULL.
- `multiUpdate` checks for NULL first (line 1290). `multiRemove` does not.

`getExecutorDelete` is not in the repository, so whether it plans an empty delete or throws on NULL is unknown. `UpdateRemove` keeps both outcomes (`nullDeref` in `RemoveRun`), but no run states it as a violation.

**5. A page just passed to `access` is answered "not in RAM" (divergence from the comment).** The comment on `Rolling::access` (`part_003:140`) says "after this call, we assume the page is in ram". TLC finds this 6-state trace against `AccessedIsKnown` (one thread, two slices, a one-entry cache; pages (3,0) and (3,1) share region 3). Its first step is a lookup of the unrelated page (1,0); then:
1. A lookup of (3,0) finds nothing and adds region 3 to slice 0.
2. The next lookup of (3,0) makes the time-based rotation: slice 1 is current and reset. It finds the bit in slice 0 and answers "in RAM".
3. `accessed((3,1))` calls `access` with `doHalf`, which searches slice 1 only (line 161). It finds no entry there and adds a fresh entry for region 3, holding (3,1) only, to slice 1. The page goes into the cache, pushing (3,0) out.
4. A lookup of (3,0), with no rotation since step 2, stops at the fresh entry in slice 1 and answers "not in RAM".

The cost is a needless page-fault yield, not a wrong read. But the tracker forgets a page it was just told about, which is what the comment rules out.

### Mutants

Every property of a passing run has a mutant in `PROJECT.json`. A mutant is a plausible bug in the mapped code, defined just above the definition it replaces, and TLC finds the property violated with it. Examples:
- a spill writes the buffer unsorted;
- the iterator takes no file reference;
- the wait target's branches are swapped;
- the failure guard is dropped;
- the cache is not invalidated.

## 4. Bounds, fairness, and why they are enough

- **`MCSorter`**
  - Records `{1,2,3}`, with record 3 twice the size of the others.
  - Budgets 2 and 4, limits 0 and 2, up to five adds.
  - With budget 2, a spill happens every two or three records, so five adds give two spilled runs plus a residual buffer: a three-way merge.
  - Budget 4 keeps the records in memory.
  - Limit 2 cuts a merge with records left in the runs.
- **`MCDropDatabase`**
  - Three collections, one unreplicated, each starting live, drop-pending or absent. That covers all three outcomes of the first step.
  - Two concurrent calls and three calls in all, so retries after a failure and after a success both happen, and one call can act between another's steps.
  - One write conflict, so a retry of the lambda with non-zero counters happens.
  - One stepdown. Users write up to optime 5 (drops take optimes past it), so recreated collections have newer optimes than earlier drops.
  - About 2.7 million distinct states, checked in about two minutes with liveness.
- **`MCClusterDropDatabase`**
  - Three shards. Collection `n1` is on the primary and `s2`; `n2` is on `s3` alone.
  - Three attempts.
- **`MCWriteBatch`**
  - Up to four items with a maximum batch size of 3, so the empty, the full and the oversized batch all occur.
  - Versions 1 to 3, so a request can be older than, equal to or newer than the shard.
  - One stepdown, so `NotMaster` can hit any item.
- **`MCUpdateRemove`** (the violation run)
  - Two threads, each running any of the four item kinds, and any initial database and collection state.
  - One write conflict and one stepdown.
- **`MCWriteOps`**
  - One insert thread of two documents (insert or index request, ordered or not), so it can yield between its inserts.
  - One item thread of any kind, one write conflict per side, and one stepdown.
  - Drops are unbounded: there is no counter, and the state space stays finite. So both liveness properties are checked against endless drop and re-create cycles.
  - Races between two creators are covered by `insert_locks` (two inserts) and here (an insert and an upsert).
  - Two item threads are out of reach: the safety run alone has 3.5M states, and the liveness run did not finish in six minutes.
- **`MCQuery`**
  - A `long long` is 12 bits wide. 1000 and -1999 still fit, and the bottom of the range behaves as at 64 bits. Every one of the 4096 dates is checked.
  - Counts: cursors of up to four documents (31 cursors), skip and limit from -3..3 and `MinLong`, `MinLong + 1`, `MaxLong`. So negative limits, skips past every match, limits reached exactly, and the negation of `LLONG_MIN` all occur.
  - `week()`: every start weekday and every day of a leap year.
  - Formats: every string of up to five characters over `%`, `Y` and `q`, so `%%`, `%%Y`, a trailing `%` and an unknown modifier all occur.
  - S2 keys: key patterns of one or two fields. Each field is a geometry field or a literal field, holding none, one or two of: two strings, an empty array, arrays of one and two strings, and four geometries (covered by two cells, by one cell, by none, or malformed). This gives every uassert, null, undefined, exploded arrays, and products of up to 4 x 4 keys.
  - 2d keys: one or two location fields. Each is a string, or an object that is a point, empty, or a list of one or two of: two points, an empty location and a string. Keys and locations are each requested or not. The other field is missing, one value, or two values. Two points share a geohash.
  - Hashed keys: a missing field, null, two strings, a number, an empty array and an array of one string. Each is tried with a sparse and a non-sparse index, and with hash versions 0 and 1. The hash keeps null apart from a missing field, and it collides strings with numbers.
  - Haystack keys: every longitude from -181 to 181 against the latitudes -180, -1, 0 and 180, and bucket sizes 1, 2 and 7. So negative coordinates whose truncation differs from the floor all occur. Malformed locations are also tried: a string, an empty object, one element, and a string first. The other field is missing, one value, or two values.
  - `$redact`, as in `MCRedact`:
  - Levels 0 and 1, and every one of the 64 expressions mapping a level (or its absence) to keep, prune, descend or something else.
  - Sources of one or two documents, from 30 documents. Each has an optional level and a field holding a scalar, an embedded document, or an array of a scalar and an embedded document.
  - Some embedded documents hold an array of their own, so redaction reaches three levels and passes through arrays inside embedded documents.
- **Page tracker** (inside `MCQuery`, and `MCPageTracker` for the `page_tracker_known` run; the same constants)
  - Three regions, two offsets, two slices of two buckets, chains of two, a cache of one page, one thread.
  - Regions 2 and 3 share a hash bucket, so chains fill and full-chain rotations happen; with two slices `doHalf` searches one slice, as it searches five of ten in the code.
  - Accesses are atomic under `_lock` and each cache is thread-local, so a second thread adds only another cache.
- **`MCInsertOne`**
  - Two threads of two documents each, each an insert or an index request.
  - One write conflict and one stepdown. Drops are unbounded.
  - Every pair of initial database and collection states is covered, so both threads can race on creating either.

Fairness assumptions:
- **`DropDatabase`.** No fairness: only safety is checked. The wait for replication ends by the 10-minute `wtimeout` of `kDropDatabaseWriteConcern` (line 115), which the model takes as a failure branch of `AwaitReplication` that is always enabled. A property that every call returns would therefore hold by construction, so none is checked.
- **`WriteBatch`.** No fairness: only safety is checked. Whether a batch held up by a migration's critical section ends depends on the migration, which is outside this code.
- **`UpdateRemove`.** Fairness is weak on each thread's steps. Drops and stepdowns get none.
- **`PageTracker`**, **`Redact`**, **`RunCount`**, **`DateTime`**, **`KeyGen`**. No fairness: only safety is checked.
- **`WriteOps`.** Fairness is that of its two components. It is strong on every step that waits for a lock: an insert's `LockDb`, `LockColl` and `CreateIndex`, and an item's `ItemCreate` and `ItemRun`.
- **`InsertOne`.** Fairness is weak on each thread's steps. It is strong on lock acquisition, because the lock manager grants in FIFO order (the comment at `index_names.h:886-889` relies on this). A waiter that is grantable infinitely often is therefore granted eventually.

`CHECK_DEADLOCK FALSE` is set for every run except the `PageTracker` runs, because each of those systems really stops (the page tracker can always be asked, so deadlock is checked there):
- the sort ends when both objects are destroyed;
- the server goes idle when the client stops calling;
- the mongos client stops once it has used its attempts;
- a write batch ends when it has answered;
- insert threads stop when their batches end;
- `$redact`'s stream ends at the end of its source or at the first failed expression;
- a count ends when it returns, and 2d key generation when it returns or throws;
- a date call or an S2 key call is a single state.

## 5. Not modelled, and the plan

Modelled so far:
- Sorter, with its abstract spec;
- mongod `dropDatabase`;
- mongos `dropDatabase`;
- `WriteBatchExecutor`'s batch execution (`WriteBatch`), its insert lock protocol (`InsertOne`), and its update and delete items (`UpdateRemove`);
- the page-residency tracker (`PageTracker`);
- inserts and update/delete items together (`WriteOps`);
- the `$redact` stage (`Redact`);
- `runCount`'s query path (`RunCount`);
- the date arithmetic and format scanner (`DateTime`);
- 2dsphere, 2d, hashed and haystack index key generation (`KeyGen`).

`$redact` drops the scalar elements of an array in a descended document (lines 79-86). The model keeps that behaviour. Nothing in the repository says whether it is intended, so no run states it as a property.

Left open: the `SimpleCache` `_pos` overflow (`part_003:228`). Showing it would need a run with a narrow counter width, stated as a violation. The project uses its twelve runs and forty passing properties, so that run would have to replace another. `PageTracker` keeps `_pos` reduced modulo the cache size, which is how it behaves for the first 2^31 adds of a thread.

Not modelled, by design:
- declarations without behaviour (`IndexNames`, `IndexSet`, `BatchedUpdateRequest`, the `CollectionCloner` header, `BSONDepth`);
- pure wrappers over external libraries: the date functions that call timelib or build strings; and `getFTSKeys`, a one-line forward to the text index code outside this file;
- `runCount`'s empty-query path: `applySkipLimit` is declared in `count.h`, outside the repository;
- tests and documentation;
- the write conflict of `onDropDatabase` after the database is removed (`bson_depth.h:139`): the model treats removing the database and logging it as one step;
- the load generator tool (`cluster_drop_database_cmd.cpp` lines 216-514). It is a client-side benchmark driver: its workers send commands over connections and time them. That is I/O and timing, with no server state to check.
