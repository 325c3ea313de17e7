# FerresDB in TLA+

FerresDB is a vector database in Rust: an embeddable engine (`crates/core`) and a
server around it (`crates/server`). This directory holds TLA+ modules of the parts
whose correctness depends on order, failure or concurrency, the TLC runs that check
them on small instances, and TLAPS proofs of the theorems that matter most.

## The system

| component | source | state it keeps | operations | what makes it correct |
|---|---|---|---|---|
| write-ahead log | `core/src/wal.rs` | `wal.log`, its buffered writer, `ops_since_snapshot`, fsync counters | `append_*`, `truncate_after_snapshot`, `read_entries`, `count_entries`, retention compaction | what is acknowledged is replayed; the log is discarded only when a snapshot holds it |
| snapshot files | `core/src/storage.rs` | `config.json`, `points.jsonl`/`.bin`, `checksum.md5`, `index.bin`, `namespaces/`, `last_snapshot_timestamp` | `save_collection`, `load_collection`, atomic writes | a crash between any two renames leaves a loadable directory; a load returns what was saved |
| storage circuit breaker | `core/src/storage.rs` | failure counter, last failure, state | `call` | few probes on a failing disk; closes again when the disk is healthy |
| engine | `core/src/lib.rs` (`VectorDB`) | map of collections, map of logs | create, delete, upsert, delete points, search, start | log before memory, snapshot every threshold, recovery |
| collection | `core/src/collection.rs` | points, HNSW index, per-field indices, BM25, LRU cache, dirty flag | `insert`, `insert_batch`, `remove`, `search`, relations, vacuum | index and points agree; the cache is never stale |
| HNSW index | `core/src/search.rs` | id map rows, reverse map, tombstones | `add_point`, `remove_point`, `build`, `search` | a live point is found, a removed one never |
| reindex | `core/src/reindex.rs`, `server/src/handlers/reindex.rs` | jobs and their status | start, build, apply delta, swap | writes during the build are in the new index |
| tiered storage | `core/src/tiered.rs` | hot, warm and cold maps | promote, demote, save | a point is in one tier and survives a restart |
| point-in-time recovery | `core/src/wal.rs`, `server/src/state.rs` | log with timestamps, last snapshot timestamp | `recover_collection_to_timestamp`, restore points | the state is the one of that time |
| server state | `server/src/state.rs`, `main.rs`, `handlers/points.rs`, `handlers/collections.rs` | collections behind `RwLock`s, dirty flags, auto-save, shutdown | handlers, `save_dirty_collections`, shutdown | a change is eventually saved; nothing saved is overwritten by older data |
| replication | `server/src/replication.rs`, `raft.rs` | follower's collections | poll the leader's log | the follower converges |
| streaming and events | `server/src/handlers/streaming.rs`, `state.rs` | broadcast channel | publish, subscribe | every subscriber sees the changes in order or is told it lagged |
| keys, users, permissions | `server/src/{auth,api_keys,users,permissions}.rs` | SQLite tables, roles | check, grant, revoke | a permission check admits exactly what the role says |
| query helpers | `core/src/{bm25,fusion,graph,cost,explain,rerank}.rs` | none or inverted index | score, fuse, traverse | pure algorithms |
| audit, query log, metrics, rate limits | `server/src/{audit,query_logger,metrics,middleware}.rs` | files, counters | append, rotate | bounded loss |
| clients and tools | `crates/sdk-rust`, `crates/benchmark`, `dashboard/`, `core/src/bin/cli.rs` | none | HTTP calls | outside this project |

The engine owns everything behind `&mut self`; the server keeps its own map of
collections, each behind a `std::sync::RwLock` in a `DashMap`, and calls the storage layer
directly: **a server writes no log**. The parts interact through
- the collection's files (engine, server saves, start, backup, recovery to a time),
- the lock and the dirty flag of each collection (handlers, auto-save, reindex swap,
  vacuum, retention),
- the circuit breaker around every save and load,
- one broadcast channel of events per collection (handlers to subscribers),
- the log of a collection (engine to followers and to recovery to a time).

Hard here are crashes and failing I/O between the steps of a snapshot, saves that
run beside handlers and beside each other, a reindex built while the collection
changes, channels that are full when a client leaves, and the order of a shutdown.
The hazards are listed, each at its line, in `PROJECT.json`.

## Modules

| module | models | state and actions in the code |
|---|---|---|
| `LogReplay` | replay of log entries over a map, `wal::recover_collection` | `Overlay(log, n, map)`: the last of the first n entries of an id decides |
| `DurableMap` | *abstract*: what a crash-safe collection promises | live, stable and acknowledged values |
| `CollectionStore` | `VectorDB`, `Wal`, `FileStorage` for one collection | memory and files as variables; one action per step between two effects on the disk; a crash or a failure may come at each |
| `CollectionStoreRefinement` | refinement mapping from `CollectionStore` to `DurableMap` | live = memory, stable = what a start makes of the files |
| `CollectionStoreInv` | `SafeFaults` and the inductive invariant `IInv` | |
| `MCCollectionStore` | instances for TLC | |
| `Breaker` | *abstract*: the promise of the breaker's comments | |
| `StorageCircuitBreaker` | `StorageCircuitBreaker::call` | three atomics; every load and store is a step of its own |
| `CollectionIndex` | `HnswIndex`, `Collection`, the search cache, reindex jobs | rows, tombstones, points; a handler under the lock is one step, a job takes the lock three times |
| `ServerState` | `AppState`, create, delete, patch, save, upsert handlers, auto-save, shutdown | a task has a program counter; locks and map references are sets of tasks |
| `WsConnection` | `handle_ws_connection` and its tasks | every step ends at an await that waits; channels are bounded sequences |
| `TieredCollection` | `TieredCollection`, `WarmStorage`, `ColdStorage`, `AccessTracker` | every call is a step; the warm file is a sequence of slots |
| `AnnIndex` | the plain, the scalar and the polar index of `search.rs` | an index is a record of rows, tombstones and names; add, build, remove, search and re-rank |
| `Retrieval` | `Collection` with its index, BM25 index, cache and relations; the search semaphore | a write is one step; a request arrives, gets a permit, searches, or is dropped by its client |
| `RetrievalQueries` | what search by REST, gRPC and MCP, hybrid search, explain, listing and traversal answer | operators on a state of `Retrieval`, compared with reference definitions |
| `CollectionFiles` | the directory of a collection: both snapshot formats, both layouts, both encodings of the log | what a save writes, in order; what a load, a replay and a recovery to a time make of the files there are |
| `DataDirectory` | that directory under engines and servers one after the other: writes, saves, drops, gRPC and MCP calls, PATCH, restores, retention | a save is one step per file; the process may be killed at any step; ghosts say which of the code's known lapses a directory has met |
| `Backup` | the backup of that directory | a save, the list of files, one step per file read, the end or the failure |
| `Replication` | a follower of a server over that directory | list, create, stream, apply entry by entry |
| `AuditTrail` | `AuditLogger`: bounded channel, batches, files by day, query | one action per step of the writer's task |
| `AccessControl` | keys, users, permissions, provider credentials, LLM proxy, start with migrations, shutdown | a request stops at each statement of SQLite and each access to a cache |
| `MCRetrieval`, `MCReplication`, `MCAccessControl` | instances for TLC | |

`*_proofs` hold the theorems about the module they are named after, with their lemmas
(`Replication_proofs` those about `CollectionFiles`, `DataDirectory` and `Backup` too, on
which it is built); the few facts about natural numbers and recursive functions that they
need are repeated in each. Mutants (definitions marked so) are the plausible bugs that show
that a property can fail; no specification uses them.

Composition: `CollectionStore` uses `LogReplay`; `CollectionStoreRefinement` instantiates
`DurableMap` and `StorageCircuitBreaker` instantiates `Breaker`. `Replication` extends
`Backup`, `DataDirectory` and `CollectionFiles`, one upon the other, the last with the
replay of `LogReplay`: one directory is shared by an engine, a server, a backup and a
follower. `AccessControl` composes the audit writer's actions with those of the handlers
that log. `RetrievalQueries` extends `Retrieval`, which extends `AnnIndex`. The rest meets
in the interfaces named above: `ServerState` treats a collection as a version,
`CollectionIndex`, `Retrieval` and `TieredCollection` say what is inside one (the first
its index under reindex jobs, the second what is searched), `WsConnection` has
`emit_event` as its environment, and `CollectionStore` has step by step the appends and
snapshots that `DataDirectory` takes in one.

## Runs

| run | instance | bounds, and why they suffice | shows |
|---|---|---|---|
| `core` | `CollectionStore.cfg` | 2 points, 3 values of which 1 is refused, batches of 2, snapshot every 2 entries, logs of 3, backpressure at 3; failing appends that leave nothing or a whole entry behind, failing snapshots and truncations | `AckedSurvives`, `AckedVisible`, `StartsReadable`, `IInv`, `WriteAhead`, and `KeepsPromise`: the store implements `DurableMap`, under `SafeFaults` |
| `faults` | `CollectionStoreFaults.cfg` | 1 point, logs of 4, every crash and failure, with every way an entry may be torn by either | `LogOutlivesSnapshot` even then |
| `crash_in_save` | `CrashInSave.cfg` | the smallest instance | **violated** `StartsReadable`: a crash between the renames of points and checksum |
| `breaker` | `Breaker.cfg` | 3 callers, 2 failures, 2 ticks | `HalfOpenHasAttempt`, `Recovers` |
| `index` | `CollectionIndex.cfg` | 3 ids, 3 insertions or removals, batches of 2 that may fail half-way and larger ones, 2 jobs, any number of failing builds | `IndexInv` (`TypeOK`, `NoResurrection`), `Found`, `ReindexProgress` (`JobsEnd`, `Compacted`) |
| `retrieval` | `Retrieval.cfg` | 3 ids in 2 namespaces, two of which are one bare id; 3 writes or restarts, batches below and above the rebuild threshold; 3 kinds of index; cache and scan limits of 1; 2 requests, 1 permit | `SearchAnswers` (`NearestFirst`, `StreamNearestFirst`, `Withheld`, `PagesComplete`), `ExplainAgrees`, `TextCounted`, `FusionKeepsOrder`, `Connected`, `SearchesEnd` |
| `history` | `Replication.cfg` | 2 ids, one in a namespace; up to 4 calls, 3 seconds, 3 starts, snapshot every 3 entries, 1 failing file; seven workloads, each a set of calls and of options, two of them with points that the index refuses | `Recoverable`, `Restores` (`RestoresPast`, `BackupRestores`), `FollowerAgrees` |
| `server_saves` | `ServerSaves.cfg` | 2 collections, 2 handlers, 2 requests, any number of failing saves | `ServerInv` (`TypeOK`, `NoGhost`), `CleanIsSaved`, `ExitSaves`, `AckedIsSaved`, `Exits` |
| `server_requests` | `ServerRequests.cfg` | 1 collection, 2 handlers, 1 stream, 3 requests: creations, deletions, upserts, PATCHes; any number of failing saves; saves and requests that outlast the shutdown's timeouts | `SnapshotsAdvance`, `RequestsEnd` |
| `access` | `AccessControl.cfg` | 2 keys, one of the configuration, 2 users, 2 requests; 3 calls and 1 restart; four workloads; channel of 1, batch of 2, 2 days, 1 failing write | `KeysHonoured`, `GrantedAsStored`, `AsPermitted`, `Audited` (`InOrderAndComplete`, `QueryFinds`), `Started` (`StartsWithAdmin`, `Starts`) |
| `ws` | `WsConnection.cfg` | 2 collections, every channel of capacity 1, 3 inputs (messages, events, ticks, dropped collections) | `ConnectionInv` (`TypeOK`, `InOrder`), `Accounted`, `NoGap`, `Ends`, `Delivered` (`AnswersCome`, `EventsCome`) |
| `tiered` | `TieredCollection.cfg` | 2 ids, 2 values, 8 calls, failing writes of both storages | `TierInv` (`TypeOK`, `Kept`, `Gone`), `Demoted` |

A capacity of 1 makes every channel full after one message, so that all waiting
happens; two points, ids or collections are the fewest that interfere; the bounds
on calls are the lengths of the longest histories a property needs (insert, demote,
remove, insert, demote and two compactions; a build with an insertion, a removal
and another job) and some more. Logs are longer than the snapshot threshold, so
that crashes meet entries the snapshot already has. In `history` and `access` all calls
at once would be too many: a workload is a set of calls whose interplay matters, the
bounds hold for each, and the initial state chooses one. An id without namespace and
the same id within one are the fewest that namespaces can confuse. No symmetry is declared:
liveness is checked, or the instances are small.

Deadlock is checked only where the system never stops (`breaker`). Elsewhere a
bound on calls, an exited server, a closed connection or a deleted collection is
an end.

What a search, a listing or a traversal answers is no action: it is an operator, and
the properties of `retrieval` ask it in every reachable state, for every query, limit
and filter of the instance. Where the code is known to answer otherwise (an updated
point keeps its row; a quantized index names rows by bare id), `OneRowPerId` and
`NamesKnown` say so, and the answers are claimed only when both hold. In the same way
`Recoverable` and `Restores` excuse a directory that met one of the lapses told
below; `lapses` names them. `NoResurrection` excuses the row that a failed batch left for
an id after its removal (`stray`), and `FollowerAgrees` a log with an entry that the index
refuses.

### Fairness

- `StorageCircuitBreaker`: a call returns, time passes, and someone calls again (the
  auto-save task does while a collection is dirty).
- `CollectionIndex`: a job's task runs on; the worker looks at each collection every
  30 minutes. Nothing is assumed of requests. That a build fails again and again is
  not excluded: `Compacted` says that the tombstones are compacted over and over unless
  it does, `JobsEnd` holds even then.
- `ServerState`: handlers run on, the timer ticks, and a shutdown, once signalled, goes
  on. Neither requests nor a signal are assumed. Any save may fail: `AckedIsSaved` speaks
  of the behaviours in which they do not fail for ever, `Exits` and `RequestsEnd` of all.
- `WsConnection`: strong fairness of the tasks, which compete for room in one
  channel and which tokio serves in order; the client, while it is there, reads.
  A client that neither reads nor leaves blocks its connection (TCP backpressure);
  it need not send anything.
- `Retrieval`: the runtime resumes the first waiter when there is a permit, and a
  search ends. Writers and clients need not come. (The second is stated of the
  stages and permits only: what the search does to the cache is no matter of it.)
- `Replication`: the follower's loop goes on, as it does until its process ends;
  nothing is assumed of the leader, but the property is about one that stays up, with a
  log from some time on without refused entries.
- `AccessControl`: a start goes on, and the audit writer's task runs. Nothing is
  assumed of requests.

## Proofs

Proved for every value of the constants, from their named assumptions and the
hypotheses told here only:

| theorem | states | hypotheses |
|---|---|---|
| `CollectionStore_proofs!TypeCorrect` | `TypeOK` | none: any faults |
| `CollectionStore_proofs!Invariance` | `IInv` | `SafeFaults`, as for the next five |
| `...!Survival`, `Visibility`, `Startable` | `AckedSurvives`, `AckedVisible`, `StartsReadable` | |
| `...!WritesAreAhead` | `WriteAhead`, an action property | |
| `...!Implementation` | `KeepsPromise`: every step is one of `DurableMap`, or a stutter | |
| `...!LogIsKept` | `LogOutlivesSnapshot`, an action property | none: any faults |
| `StorageCircuitBreaker_proofs!TypeCorrect`, `NeverLeftHalfOpen` | `TypeOK`, `HalfOpenHasAttempt` | any number of callers |
| `...!PromiseKept` | `KeepsPromise`: every step is one of `Breaker`, or a stutter | `OneCaller`, as in `VectorDB` |
| `CollectionIndex_proofs!RemovedStaysHidden` | `IndexInv`, but for rows that failed batches left | none |
| `...!KeptIsFound` | `Found` | `Namespaced = {}` |
| `ServerState_proofs!TypeCorrect`, `NeverOlder` | `TypeOK`, `SnapshotsAdvance` | none: all operations and timeouts |
| `...!DeletedLeavesNothing` | `ServerInv` | no creations |
| `...!CleanHeld` | `CleanIsSaved`, but for files that a failed save broke | no creations, no PATCHes |
| `...!ExitIsSafe` | `ExitSaves`, of an exit whose final save met no error | `Streams = {}`, `Slow = {}` |
| `WsConnection_proofs!OrderKept`, `NoneForgotten`, `NoneSkipped` | `ConnectionInv`, `Accounted`, `NoGap` | none |
| `TieredCollection_proofs!NothingLost`, `AllDemoted` | `TierInv`, `Demoted` | none |
| `AccessControl_proofs!KeysAreHonoured`, `ListsAreGranted`, `PermissionsDecide` | `KeysHonoured`, `GrantedAsStored`, `AsPermitted` | none |
| `...!RootIsAdmin` | `StartsWithAdmin` | none |
| `...!TrailIsWhole` | `Audited` | none |
| `Replication_proofs!DirectoryInvariant` | `DirInv`, with the type of every variable of `DataDirectory` | none |
| `...!DirectoryIsRecoverable` | `Recoverable` | none |
| `...!RestorePointsRestore`, `BackupsRestore` | `RestoresPast`, `Restores` | none |

The last three rows are of `Replication`'s `Spec`, the follower and the backup included.
`Recoverable` and `Restores` name what they excuse in `lapses`, as told below. They assume
that ids are finitely many and that the marks for "no file", "no collection" and "no save"
are none of the data (`CollectionFilesAssumption`, `DataDirectoryAssumption`).

A hypothesis excludes what the code is known not to survive, and each such lapse is
told below: the delta of a reindex takes namespaced points for removed ones; two
creations, or a creation and a deletion, of one name race; a PATCH takes away the
mark of an upsert; a stream's upsert, or an operation that outlasts the timeout of the
shutdown, comes after the final save.

`SafeFaults` names the faults under which the engine's properties hold. It leaves out
- a crash, or a failing rename, between those of points and checksum, and a crash in the
  middle of the removal of a directory;
- a first snapshot and log that fail, and loads that fail;
- an append that fails when a part of its entry has reached the file, of a process that
  lives on (`"tear"`, `wal.rs:455`): the next entry, acknowledged, is glued to that part;
- a log torn by a crash inside a character or a compressed frame.

Left in are crashes at every other step, also those that cut off a line of text, and
snapshots, truncations and appends that fail, the last with nothing, or all that was
buffered, in the file or still in the buffer. What happens under the faults left out is
told below; the run `faults` and `LogIsKept` have all of them.

### The inductive invariants

No property but the type invariants is inductive as it stands. Each `IInv` was first
checked by TLC; each action then has its lemma (`...Keeps`).

- **CollectionStore**: that a restart gives the acknowledged values says nothing of a
  write that is in the log and not in memory, nor of a snapshot in the middle. `IInv`
  adds what each step says of the open collection and its call (`ControlInv`); which
  files may exist, and when a checksum is stale and a log torn (`FilesInv`); that a
  submitted write is `Unknown` until it is acknowledged, that the logged part of the
  batch is the end of the log, and that after the batch memory and files have its last
  values (`WritesInv`); and that memory and snapshot agree on every id the log says
  nothing of (`AgreeInv`), which is what makes truncation safe. The lemmas on `Overlay`
  and `Hits` say what appending an entry, and dropping the log over a snapshot that has
  it, do to the replay. `LogOutlivesSnapshot` needs only what a save has written at each
  of its steps (`SnapshotWritten`), and so holds under any faults.
- **CollectionIndex**: what an answer must not show is said of the points, of the live
  rows of the index and of the cached answer (`Hidden`), and of the rows a job has built:
  they are those of its snapshot (`BuiltFromSnapshot`), so that the delta finds every
  removal since. `Found` needs the opposite bound on the same three (`Shown`).
- **ServerState**: a snapshot does not get older because a collection cannot change
  between the write of a `.tmp` and its rename: the writer holds a read lock (`Written`),
  and a task that has a reference into the map works on the collection the name stands for
  (`Referenced`, `OneName`). What a client was told is bounded by what memory has
  (`Happened`). `Marked` and `Quitting` are what `CleanIsSaved` and `ExitSaves` need in
  addition: who marks or saves what has changed, at each stage of the shutdown.
- **WsConnection**: the numbers of the upserts increase from what was applied, through the
  batch and the channel, to what the handler holds (`Queued`, `Behind`), so that one that
  moves on overtakes none. `Followed` relates what a subscriber has got, what its channel
  still has and what was dropped to what was emitted.
- **TieredCollection**: a new vector's offset is the number of offsets there are, which
  after removals may be one in use. Offsets may therefore coincide, but never are more
  than *k* of them below *k* (`Stores`), and this is why a new offset lies in the file.
  `Placed` says what each tier says of a point that is, or is not, in it. `Demoted` needs
  what a compaction does to a whole list of candidates, by recursion over it.
- **AccessControl**: a row that is gone stays gone, but for keys of the configuration at a
  start; a key has one request that creates it; the cache says what the row says unless
  the row was updated or is gone, also while a request between the two still holds what
  it read (`Kept`, `Admitted`, `OneCreator`).
- **AuditTrail** (in the same module, whose `Next` moves it): files, buffer and channel are
  increasing, each before the next (`InOrder`); no entry is in the file of a day before its
  own, and no file of a later day than the writer's has a line (`InTheirDays`); while no
  write has failed the three have all that was accepted (`Lost`). A torn line is joined
  by the next: it costs entries, but no order (`AppendedFacts`). That a query finds what
  it should also needs that any finite set of numbers can be listed downwards.
- **DataDirectory**: that a start finds what it must says nothing of a save at work, whose
  files replace the old ones one by one. `SaveInv` says what the writes left are (each is
  due, a points file is followed by its checksum, the stamp comes before both), and that
  the places without a write left have the new points; so that at every step each point
  is the old one or the new one (`GivesBack`). `FilesInv` says which files there may be at
  all, in which layout, and that a checksum disagrees between two writes only; `LogInv`
  that the engine's log decides nothing other than its memory, which is what makes the
  replay of a log over the snapshot that already has it harmless, and that beside a
  server's save the log decides nothing. For the past, what clients saw is compared with
  memory while the program watches (`PastSeen`), with the snapshot once it is written
  (`SavedInv`, `PastSaved`), and with the files at every restore point (`PastKept`). The
  lemmas that carry most of it: what `Put` of one due write does to `Loaded`, and what an
  entry appended, a log truncated or compacted does to `Replay` and to `RecoveredTo`.
- **Backup**: each file in the archive is one of a moment between the call and its end, and
  a points file that is whole has points of that moment (`ValuesInv` of the directory,
  `CopyInv` of the copy). Files of two saves are told apart by the checksum alone, which is
  why values are claimed of each point and not of all at once. `CalmInv` says that an
  archive no save met has the files of the listing and no other.

Induction over natural numbers is done by least counterexample (`LeastNatural`,
`Induction`, and `Iterates`, that a function defined by recursion exists);
it is what the replay of a log, the list of a compaction, the batches of a connection
and the first of several permissions need.

### Only model-checked

`Retrieval` and `RetrievalQueries` (`SearchAnswers`, `ExplainAgrees`, `TextCounted`,
`FusionKeepsOrder`, `Connected`): the answers are sorted sequences, whose library
operators the prover cannot expand, and the traversal is a RECURSIVE operator. That
`DirInv` and the backup's invariant have no counterexample was first seen by simulation.
`FollowerAgrees` of `Replication`, `AckedIsSaved`, `Exits`, `Recovers` and all other
liveness, which the prover cannot treat under fairness.

## What the models leave out

**CollectionStore**: plain (not tiered) collections; one collection; Link entries
(the engine appends none). An error of `remove_dir_all` comes before anything is
removed. Whether a checksum computed over points in the order of a HashMap agrees
is nondeterministic. Entries stuck in a BufWriter go to the file with the next
append or at the end of the process; the write of a call that failed stays
`Unknown` for ever. The magic of a compressed log is whole or absent: a truncation that
fails while it writes those four bytes is left out. Power loss is not modelled, only the
end of the process.

**StorageCircuitBreaker**: the counter saturates at the threshold; time is the age of
the last failure, up to the timeout.

**CollectionIndex**: the plain `HnswIndex`, searched exhaustively by one query;
named vectors, BM25, tiers and quantization are left out. Answers are those of
`Collection::search`; the HTTP handler drops rows without a point. The check of
`maybe_auto_reindex` and its registration are one step, those of a request two.

**ServerState**: points are a version counter; a section under a write lock is one step;
one file and its .tmp stand for the four of a snapshot; the creation and the removal of a
directory are one step. Ticks that find nothing dirty and requests that are refused (404,
409) do nothing and are omitted; two creations of one name at a time are left out. An open
circuit breaker is a save that fails before it writes. The files of a save that failed are
one value, `Broken`, be they cut off or half replaced. `server_saves`, where
`AckedIsSaved` is checked, has no creations and no PATCHes, which may take away the mark
of an upsert (told below). Readers may wait behind a waiting writer, as with
`std::sync::RwLock`.

**AnnIndex, Retrieval**: vectors are naturals, the metric is Euclidean; the graph finds
the nearest rows and quantization loses nothing, so that approximation and `ef` are
left out, and the numerics of `quantization.rs`, `simd` and `cost.rs` with them. A
text query has one word. Named vectors, which the server never sets, the model of
the reranker (a function of the vector), query profiles and telemetry are left out.

**CollectionFiles, DataDirectory, Backup, Replication**: the order of points in a file and
`index.bin` are left out; an append and a truncation are one step (they are step by
step in `CollectionStore`). A start with another layout, or without binary snapshots
after one with them, and two saves at a time, which share their .tmp files, are
excluded by guards. A batch has one point, and may be refused (larger ones are in
`CollectionStore`). An archive is what a server would start from: `wal.log`, which is in
it too, is left out. The answers to the follower's requests for one collection are one
step. Power loss, and with it the fsync policy, is not modelled.

**AuditTrail, AccessControl**: a key stands for its hash and row; tokens and hashes are
not computed; an entry is a number. An entry's day is the day it was logged. A database
without a record of its migrations is new or complete. Updates of the keys that the
configuration sets are not among the requests. Statements of SQLite do not fail: an error
in `get_permissions` grants what the role alone does (`auth.rs:293`). A failed write of
the audit file is seen at once, where `tokio::fs::File::write_all` may return first and
report it at the next batch (`audit.rs:143`): what is claimed assumes that none failed.

**WsConnection**: one connection; an upsert message has one point; the message that the
writer holds counts as in its channel; `process_upsert_batch`, which has no await, is
one step with the events it emits; binary and ping frames are left out.

**TieredCollection**: ids without namespace; no restart; only warm points are asked to
go to cold; a point's vector and metadata are one value, read from where each is;
after a failed `reload_mmap` the older mapping is not distinguished from the file.

### Not modelled

Quantization and distance kernels, cost estimates and statistics (numerics on which no
state depends); the raft stub (a status, behind a feature); the upload of a backup (I/O);
the MCP tool that shows statistics; configuration, warmup, rate limits and metrics; the
clients.

## What else the code does

Found while modelling. `crash_in_save` has a run; the rest has none.

Engine and log
- An append that fails when a part of its entry is in the file leaves it there: one of 8
  KiB or more bypasses the `BufWriter`, and one that fills it to the last byte loses its
  newline (`wal.rs:455`). The process goes on, and the next entry, whose call succeeds, is
  glued to that part; at the next start replay skips both (`wal.rs:581`), although the doc
  comment at `wal.rs:3` has every operation in the log before memory, replayed after a
  crash. With `"tear"` among its failures the instance `core` violates `AckedSurvives`,
  `AckedVisible` and `WriteAhead`.
- A log torn inside a character (`wal.rs:631`) makes `count_entries` and the replay
  stop there: acknowledged entries behind it are lost. A torn compressed frame
  (`wal.rs:532`) makes the log unreadable.
- A crash in the middle of `delete_collection` may leave `wal.log`; a collection of the
  same name then starts with its entries (`lib.rs:653`).
- `create_collection` keeps the collection when its log cannot be opened
  (`lib.rs:605`). Failed deletes grow the log past its threshold (`lib.rs:857`). After a
  restart the log no longer follows the fsync policy of the options (`lib.rs:1356`).
- Every collection is loaded through the circuit breaker at start: five corrupt ones
  open it, and all that follow are skipped (`lib.rs:1346`).

Directory and history
- A namespace whose last point was deleted keeps its directory, and the points come
  back at the next start (`storage.rs:643`). With isolation turned off, old
  `namespaces/` override the root's points; turned on, a crash in the first save loses
  the namespaced points.
- After binary snapshots were on, a JSONL save leaves `points.bin` preferred, with a
  checksum that is not its own. A log that is reopened with another compression
  setting mixes both (`wal.rs:355` and `wal.rs:367` say that it is detected): later
  acknowledged entries are unreadable.
- Recovery to a time compares seconds: entries of the snapshot's second are skipped
  (`wal.rs:834`), and a time before the snapshot gives the snapshot, where the doc
  comment promises an earlier one. A crash between stamp and points of a save makes it
  skip entries it needs.
- The server never writes the log, so that a follower gets only what an engine left
  (`docs/api.md:1434` says that writes replicate), and a server's snapshot beside an
  engine's log mixes both. Retention compacts away entries that no snapshot has.
- A restore saves and then truncates: a crash in between lets an engine replay what
  was undone. A failing save leaves the restored points in memory only. A restore
  overwrites a retention that was changed meanwhile.
- A follower reads the log from its first entry every two seconds (`replication.rs:148`)
  and flickers back while it applies it; a point that `insert` refuses,
  which the engine logs before it tries it, ends every cycle (`replication.rs:157`), so that
  nothing behind it is applied until the leader truncates its log; a truncated
  log and a deleted collection never reach it. Expiry, named vectors and relations are
  lost on the way.
- The gRPC service has no authentication, permissions, replica guard, events or
  automatic reindex; HTTP PATCH passes the replica guard; a streamed upsert drops
  the namespace, a unary one the ttl.
- A backup reads the files one after the other while auto-save replaces them
  (`handlers/backup.rs:36`): the call may succeed with an archive that does not load, and
  a save's temporary file that is gone ends it. What loads is what clients had
  (`BackupRestores`); a collection dropped before the files are listed is not in it.

Server
- A PATCH, like a creation, releases the lock before it marks the collection clean: an
  upsert between the two is no longer dirty and is lost at exit (`collections.rs:266`,
  `:516`, against `valt/overview.md:64`).
- Two creates of one name may both succeed (`collections.rs:218`); a delete during the
  save of a create leaves its files (`collections.rs:254`, against `docs/api.md:472`); a
  stream's upsert after the final save is lost (`main.rs:316`); a slow save at exit
  shares its .tmp files with the final one (`main.rs:315`).
- A save that fails ends the loop over the collections (`state.rs:906`, `:947`): those
  behind it are not saved while it keeps failing, and at the exit not at all; the error
  is logged and the server exits (`main.rs:316`). `POST /save` and the exit also save clean
  collections: one whose files such a save replaced in part stays clean, and is not
  saved again before its next change. Of two saves that share a .tmp file one may
  fail and leave the other a cut-off file, which it renames and takes for saved.
  A creation whose save fails answers an error, but the collection is there, and clean
  (`collections.rs:254`).
- An overdue pong queues an error and ends the heartbeat, but does not close the
  connection (`streaming.rs:297`, against `docs/api.md:2115`). Upserts received and not
  yet applied are dropped when the connection closes. The limit of connections is
  checked and counted in two steps (`streaming.rs:200`).

Index and search
- An updated point keeps its old row, which is found and takes a place of the answer;
  tombstones are counted by id, not row, so that an answer may be short. The delta of a
  reindex does not see updates (`docs/api.md:577` says otherwise), and compares bare ids
  with storage ids, so that it takes namespaced points for removed ones
  (`handlers/reindex.rs:304`, against `docs/api.md:572`). A point
  inserted again after its removal is hidden until the next reindex (`search.rs:706`).
  The rows a failed batch has added stay, without a point (`collection.rs:561`), and a
  search of the collection may return them; the handler drops them
  (`handlers/points.rs:711`), so that its answer is short.
  Two jobs may run for one collection (`docs/api.md:584` says one).
- A large batch of ids that exist puts old and new rows into the rebuilt index. The
  quantized indices name rows by bare id: namespaced points fall out of the re-rank, or
  are ranked by the vector of the id's first row.
- The restriction of a permission replaces the request's own condition on that field
  (a comment says AND), and only search applies it; hybrid, explain and gRPC apply the
  namespace only. Hybrid search filters by namespace after it has cut to the limit.
  Hybrid and gRPC searches take no permit of the semaphore; a client that leaves
  returns its permit while its search goes on. By gRPC `alpha` 0 without a named
  strategy means 0.5.
- Distances are squared from a scan, a re-rank and a connected search, and roots from
  the plain index; explain takes a second root. An upsert resets a point's relations on
  one side only. A listing ignores the filter's namespace, and with limit 0 always
  says that there is more.

Tiers
- The offset of a vector that goes warm is the number of warm points: after a removal
  it is another's, and the point reads the wrong vector (`tiered.rs:311`; `:263` has
  the index map each id to its offset).
- Nothing promotes a tiered point on access, and neither the engine nor the server
  calls compaction (`docs/api.md:563` says both happen). A promoted point stays behind
  its tombstone. `warm_metadata` is not persisted, so that a restart forgets warm points.

Access
- A key of the configuration is accepted for ever, also once it was deleted; a key
  whose row is gone, as by a deletion during the request, is granted all namespaces. An
  update of a key's namespaces reaches the database, and the cache only at the next
  start (`api_keys.rs:4`, `docs/api.md:1665`). A deletion beside the creation may leave
  a hash without row.
- The last administrator can be deleted (`users.rs:263` says not); a role stays in its
  token for up to a day. A database without `schema_migrations` counts as migrated.
- An audit entry logged before midnight and flushed after it is in the next day's file,
  which a query ending on that day does not read; a full channel drops entries
  (`audit.rs:223`); a client that leaves during the provider's answer leaves none.

## Plan

1. *Core*, done: the inventory, the engine with its log and snapshots, proved; the
   breaker, proved; index, server, WebSocket connection and tiers, checked.
2. *Breadth*, done: `AnnIndex`, `Retrieval` and `RetrievalQueries`; `CollectionFiles`,
   `DataDirectory`, `Backup` and `Replication`; `AuditTrail` and `AccessControl`. Runs
   whose only purpose was one known violation made room for them, and their violations are
   told above.
3. *Proofs*, done: engine and log, breaker, index, server, WebSocket connection, tiers,
   access, audit trail; the directory with its saves, recovery, restores and retention, and
   the backup. What is left is out of the prover's reach: the answers of `RetrievalQueries`
   and liveness.
