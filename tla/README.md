# TLA+ models of the bonsai-ninja engine

bonsai-ninja is a static-analysis engine in Rust: source files are interned in a
versioned file system, parsed, lowered to declaration indexes by parallel
workers, indexed, analysed through cached queries, and the resulting facts are
written to immutable store files; flow queries then run fixed points over the
interprocedural graph of those facts. The analyses themselves are sequential
functions of immutable inputs. What is hard to test is what lies between them:
caches that are filled while their inputs change, memory gates and bounded
queues shared by threads, a background writer that must publish everything or
nothing; and in the fixed points, what depends on the order of a worklist or on
a table that spills. These are what this project models, checks and proves.

Paths below are relative to `src/crates/`.

## 1. Inventory

| component | state | operations | hard behaviour |
|---|---|---|---|
| **memory permits** (`common/src/resources.rs`) | bytes in use, sleepers | acquire, try_acquire, drop of a permit | lost wake-ups, over-admission, units larger than the budget |
| **resource sizing** (same file) | none | worker counts, batches, memory windows | saturation at tiny limits and huge sources |
| **vfs** (`vfs/src/lib.rs`) | path and basename tables, snapshots, lazy identities, retired ids, edit log, revision | write, write_lazy, both with a fixed id, remove, snapshot, apply_edits, take_edits, unique_file_ending_with | the text of a lazy file is loaded outside the lock |
| **parser** (`parser/src/lib.rs`) | one tree per file and grammar, a pool of parsers | parse, parse_snapshot, release, invalidate | threads parse different snapshots of a file; incremental hints; recovery consults other sources |
| **db: ordered streaming** (`db/src/lib.rs` 1118-1290) | two bounded channels, admission turn, reorder map | stream_decl_indexes_in_order | ordered publication of unordered work under a memory gate; panics |
| **db: derived caches** (`db/src/lib.rs`) | declaration indexes, global index, CFGs | decl_index, global_index, cfg, invalidate_file | queries straddle edits; ids are positions |
| **db: compiler objects** (`db/src/compiler_object.rs`) | two bounded channels, admission turn, reorder map, cancellation flag | try_visit_parallel | errors and panics while workers are blocked; permits inside results |
| **factstore: writer** (`factstore/src/writer.rs`) | channel, byte budget, pending index, temporary file | create, add_owned, add_streamed, finish, Drop | failure of the thread under its callers, crashes |
| factstore: reader, cache | mapped file, LRU of decoded values | get, iter | reads only what the writer published |
| **workspace: exact body cache** (`workspace/src/exact_body_cache.rs`) | LRU, in-flight slots, byte count, generation | get_or_insert_with, clear | single flight, clear during a build, panics, eviction |
| **workspace: taint graph index** (`workspace/src/taint_index.rs`) | persist session: lock, writer; resident graphs | begin_persist, finish_persist, clear; get, insert_if_absent | a session dropped or killed half-way; generation change during a decode or a computation |
| **workspace: sidecars** (`workspace/src/factstore_cleanup.rs`, `idg_persistence.rs`) | temporary and versioned files, advisory locks | publish, prune, clean up | several processes in one directory |
| **idg: queries** (`idg/src/service.rs`, `function_summary.rs`, `symbolic.rs`) | function summaries, backward proof, forward closure with call contexts and field facts | compile_summaries_to_fixed_point, target_relevance*, symbolic_forward_closure_nodes | the order of the worklists, recursion, callers that come late, pruning |
| **idg: spill stores** (`idg/src/spill_set.rs`) | resident table, sorted runs, Bloom filter, CLOCK cache; LIFO chunks in a file | insert, contains, keys_with_prefix_batch; push, pop | a key lost or doubled by a flush or a merge; readers that promote at once |
| callgraph, cfg, resolve, taint, security; idg: graph building | derived graphs | build, query | large, sequential |
| lang_api and 20 adapters | none | parse hooks, lowering | pure |
| browse, inspect, retrieval, trace, sdk, cli | results of queries | rendering, paging | I/O |

How they interact. The `Workspace` facade writes sources into the vfs and calls
`AnalyzerDb::invalidate_file`. Queries ask the db, the db asks the parser for a
tree, the parser asks the vfs for a snapshot (and, through an adapter, for other
sources). Caches at every level are keyed by `(FileId, version)`, so the meaning
of that pair (`OneTextPerVersion`) is what all of them rest on. Whole-workspace
passes go through the ordered stream, whose workers take permits of the memory
gate, or through the parallel visitor of compiler objects, whose workers take
permits of the same gate and pass them on inside their results. The taint graph
index writes its results through a `FactStoreWriter` inside a persist session,
which owns the target's advisory lock against other processes. A flow query runs
three fixed points of the IDG service one after the other, all of them on spill
stores; a finished backward proof is shared by the workers of an inspection.

What makes each correct: the gate never over-admits and never forgets a sleeper;
the stream publishes every file once in canonical order, within a window, and
cannot deadlock; the visitor gives back every permit and returns; a query answers
with exactly the flow its program has, however it is pruned and spilled; the writer publishes all accepted entries or leaves the old
generation, answers every caller and loses no file to another process; each cache returns what belongs to its
key, whatever happened between the read of the key and the insertion; budgets
are exact. The list of hazards with their lines is in `PROJECT.json`.

## 2. Modules

| module | models | composed of |
|---|---|---|
| `WeightSums` | sums of weights over a set, as a cardinality; saturating subtraction | |
| `PermitPool` | `SyntaxMemoryPermitPool` | `WeightSums` |
| `MemorySchedules` | the batching and width functions of `resources.rs` | `WeightSums` |
| `OrderedStream` | `stream_decl_indexes_in_order` | extends `PermitPool`: files are its units |
| `CompilerVisit` | `try_visit_parallel` and the admission of its callers | extends `PermitPool`: items are its units |
| `FactStoreWriter` | `FactStoreWriter` | its byte budget refines `PermitPool` (`INSTANCE ... WITH`) |
| `PersistSession` | persist sessions and temporary-file sweeps of several processes | extends `FactStoreWriter`: every session has one |
| `ExactBodyCache` | `ExactBodyCache` | `WeightSums` |
| `Vfs` | `Vfs` | |
| `ParserCache` | `ParserCache::parse_snapshot` and the parser pool | assumes of texts and versions what `Vfs` checks |
| `AnalyzerDb` | `decl_index`, `global_index`, `cfg`, `invalidate_file` | assumes the same |
| `SpillStore` | `SpillSet`, `SpillStack` and their parts, as operators on records | |
| `IdgProgram` | the runtime indexes of a compiled program, its boundaries, transforms and summaries | `SpillStore` |
| `IdgFlow` | what a query means: two declarative closures of the one-step flow (reference, no code) | `IdgProgram` |
| `IdgQuery` | one query: summaries, backward proof, forward closure, readers of the proof | `IdgFlow` |
| `PermitPoolProofs`, `VfsProofs`, `ParserCacheProofs`, `AnalyzerDbProofs` | theorems | the module they name |
| `MemoryBoundProofs` | theorems about what keeps the engine within a memory bound | `ExactBodyCache`, `MemorySchedules`, `SpillStore` |
| `PersistSessionProofs` | theorems about the writer in its sessions | `PersistSession` |
| `OrderedStreamProofs`, `CompilerVisitProofs` | theorems about the passes | the module they name and `PermitPoolProofs` |
| `MC*` | constants for the runs | |

Every critical section of the code (mutex, write lock) is one action; what the
code does between two sections is between two actions, and any other thread's
action may fall there. Definitions whose comment starts with `Mutant:` belong to
no specification: each is a plausible bug in the definition that follows it, and
the property named for it in `PROJECT.json` fails when it takes that
definition's place.

**PermitPool.** `used`, the bytes of each live permit and where each submitting
thread is. A unit is one call of `acquire` or `try_acquire` and its guard.
`Capacity = NoLimit` is the code's `None`.

**MemorySchedules.** One call at a time of the functions that turn source sizes,
CPUs, a limit and a resident size into ranges or a width; an iteration of a
batching loop is one step. The properties are stated in true sums while the
code's sums saturate at `U64Max`, and over whichever units may run together.
The code's constants in bytes are CONSTANTS here, so that the limit can lie below
the headroom and a weight above the type.

**OrderedStream.** The coordinator (`mpc`), workers (`wpc`), the two channels,
the admission turn, the reorder map and the visits so far. A worker that waits
for a permit holds the admission mutex (`AdmissionFree`), as at db l.1198-1209.
Threads that could not be spawned are an initial choice; none is the serial
loop. `MayPanic` names the files whose lowering may panic.

**CompilerVisit.** Like the stream, but the caller is told of errors and
cancels: `cancelled` is read by a worker before and after it takes an index,
`DropWorkSender` and `DropReceiver` are the two drops before the scope joins, and
the results that die in the channel give their permits back. Both visiting orders
are initial choices; only the input order takes memory in turns. A panic of a
visit unwinds past the cancellation, a panic of a worker is caught.

**FactStoreWriter.** Producers (`call`), byte budget (`charged`, `budgetUsed`),
channel, writer thread (`wpc`), disk (`tmp`, `target`, `durable`), owner (`opc`)
and the two reply channels. The target is abstracted to `old`, `new` or `torn`;
a file renamed without having been synced is torn. `Crash` may lose a rename
whose directory was not synced. `finish` and `Drop` own the writer, so no add is
under way when they start (`NoCallUnderWay`, guaranteed by the borrow checker).
The crossbeam channel is external: `DiscardOnDrop = TRUE` says that dropping the
receiver of a bounded channel drops the queued commands, which the locked
version 0.5.16 does and on which the return of sleeping producers depends.

**PersistSession.** `lock` is the advisory lock `<target>.lock`, which the
operating system releases with its process; `strays` are the temporary files of
killed processes, `tmp` is that of the live writer. A session is begun, swept,
written, and finished or dropped; its fields are dropped in the order of their
declaration, the lock before the writer, so a rival may sweep the file of a
writer that will no longer publish. `ProcessStops` may fall anywhere, `rival` is
another process that maintains the same directory.

**ExactBodyCache.** Resident entries with their recency list, in-flight slots,
the byte count and the retention generation; `OnceLock` cells with their states;
callers. `Arc::ptr_eq` is equality of cells. The evictions of one critical
section are separate steps under the lock (`evictor`), so that `NewestSurvives`
can look at each.

**Vfs.** The tables of `Inner` and the threads inside `snapshot` and
`apply_edits`. A text stands for its identity: the loader returns the text the
identity was computed from or an error. The loader the workspace installs
(`workspace/src/lib.rs:5663`) verifies this by length and 64-bit hash, so the
model leaves out collisions of that hash. `denotes` is a history variable: what
each `(file, version)` was written to mean.

**ParserCache.** One cache key, since keys do not interact, and its grammar's
pool. What is true of a tree and what the code records about it are kept apart.
`tree` is the truth: whether the tree is partial (the placeholder of a timeout, or
a parse of a normalized or recovered buffer), consulted a context other than the
fingerprinted one, or is corrupt, that is, edited out of a partial or a corrupt
tree. `used_recovery` and the timeout (`timed_out` of the parse, a diagnostic of the
`ParsedFile`) are the code's flags, and `incremental_tree` (`Hint`) reads only them;
`NoCorruptTree` is violated when any one path leaves its flag unset. Timeouts,
damage, normalization and recovery rounds are outcomes.

**AnalyzerDb.** The writer's two steps (vfs, then invalidation), query threads
inside `cfg` or `decl_index`, the single-flight lock of the global index. An
index of a file is named by the version it was lowered from, a CFG by the
declaration it was built from; `FuncIdOf` is the position the id stands for.
`Consume` selects the builder that takes local indexes out of the cache.

**SpillStore.** Records for the containers of `spill_set.rs`. A run is the sorted
sequence in its file; its checkpoints are computed from it and `Locate` uses only
the block they name. The Bloom filter is its set of one bits; `mix64` is a small
hash, so that keys collide. `contains` is split into `LookupKey` (shared lock) and
`Promote` (exclusive lock), because a proof is read by several workers.

**IdgProgram.** A program is a record of nodes, rows, bases, fields and transforms,
in stored order, as the segments give them to the service. Access paths are short
sequences; a field fact is a base, a suffix and the span of the write it came from
(`prov`), so that a copy does not see a later write.

**IdgFlow.** The meaning of a query, with none of the service's machinery. `Steps`
is what one fact or node leads to and whether that enters or leaves a call.
`Tabulated` closes it with one context per call boundary, which is what the
service computes; `RealizableNodes` closes it with concrete call stacks, which is
what its documentation promises not to lose.

**IdgQuery.** Each turn of a worklist loop is a step: a turn pops a node, then a
fact (then a base), and pushes what follows. `rel` and `fwd` are the two
worklists with their spill sets, `runtime` the indexes that the service builds once
from the program (`RuntimeOf`). Keys are packed with `Radix` in place of 2^32. The
loops over rows inside one turn are RECURSIVE operators, so nothing is proved about
this module; `SpillStore` and `IdgProgram` have none.
Other workers (`reader`) look facts up in the shared proof between any two turns.

## 3. Runs

| run | result | bounds |
|---|---|---|
| `compiler_visit` | passes | 5 items, 2 workers, window 3, a gate of 4 with an oversize item; 2 items may fail, one visit may fail |
| `memory_schedules` | passes | up to 4 units of 4 sizes, limits and resident sizes at the edges of a type of 41 values |
| `ordered_stream` | passes | 7 files, 2 workers, window 4, one oversize file, one that may panic |
| `ordered_stream_panic` | violation | the same, the first file may panic |
| `factstore_writer` | passes | 4 entries (equal keys, empty, larger than the budget, streamed), queue of 2, budget of 3, 2 sessions, 1 rival |
| `exact_body_cache` | passes | 2 keys that do not fit together, 2 callers, 3 flights, 1 clear |
| `vfs` | passes | 3 spellings of 2 paths with one basename, 2 texts, 2 slots, 3 changes, 2 readers |
| `parser_cache` | passes | 2 threads, 2 contexts, 2 writes |
| `analyzer_db` | passes | 2 files of 2 versions, the first loses a declaration, 2 threads |
| `analyzer_db_cfg_ids` | violation | the same, one thread, edits only between queries |
| `idg_closure` | passes | 9 questions about 4 programs, rows in both orders, with and without root and proof; tables that spill after 2 keys, 2 readers |
| `idg_source_relevance` | violation | one of those programs, with the proof rooted at the source function |

Why the bounds are enough to be interesting: each is the smallest in which the
cases of the property happen. The stream needs more files than the window and a
window larger than the result channel, or neither refill nor back-pressure
occurs. The writer needs a queue shorter than the entries, two equal keys and
both extremes of the charge. The body cache needs two keys that evict each
other, and as many flights as a clear between two builds takes. The vfs needs
three changes for write, remove, write again (id reuse), and two readers so that
one installs while the other loads; the number of changes also bounds how often
`snapshot` retries, so `SnapshotReturns` says that each retry looks anew, not
that it wins against writers that never stop. The schedules need sizes
whose weights are zero, ordinary and saturated. The parser needs two writes for a
context to change and change back. The visitor needs an item heavier than the
gate, failures of a first, a middle and a visited item, and fewer workers than
window. The sessions need one that is killed and one that sweeps after it. The
programs of `MCIdgQuery` are the smallest with a helper shared by two callers
(call contexts, replay), mutual recursion (summary rounds), heap flow, a field
copied before and after a write, a nested path, a field returned as a scalar, an
aggregate consumed whole; sets and frontiers that spill after two keys make every
query flush and merge, evict from the cache and reload. The reference closures are computed for 24
rounds, and `ReferenceIsClosed` checks that one more adds nothing; call stacks of
3 frames are deeper than any chain of distinct calls in the programs. Symmetry is used for the threads of
`parser_cache` and `analyzer_db` and the contexts of `parser_cache`; both runs check no
liveness.

Fairness. Threads that can run are scheduled (weak fairness of each thread's
next step); parking_lot mutexes hand the lock over eventually, which is strong
fairness for a caller of the body cache that waits for the mutex (`CallStep`);
lowering, encoding, writing and loading end. Nobody is obliged to start a call,
to drop the writer, to crash or to panic, to begin a session or to sweep. The
thread of a query runs until it has its answer: `tick` flips with its steps only,
so weak fairness of a flip is fairness of the query's thread and not of the readers'.
`AnalyzerDb`, `ParserCache` and `MemorySchedules` check no
liveness and state no fairness.

Deadlock is checked in `memory_schedules`, `vfs`, `parser_cache` and `analyzer_db`, whose callers can
always call again, and in the IDG runs, where only an answered query rests. The other specifications describe one pass, one writer, or a
bounded number of flights, and may stop.

### What the violations show

* `ordered_stream_panic` (db/src/lib.rs:1267). The coordinator resumes a
  worker's panic inside `thread::scope`, while `result_rx` lives outside. Workers
  go on with the indices already queued, fill the result channel and block in
  `send`; or sleep in `acquire` behind a permit that sits in that channel. The
  scope waits for them for ever and the panic never reaches the caller. The
  serial loop propagates it, and `try_visit_parallel` in `compiler_object.rs`
  drops its receiver inside the scope for this reason.
* `analyzer_db_cfg_ids` (db/src/lib.rs:1103). `invalidate_file` keeps the CFGs of
  other files, but FuncIds are positions in the rebuilt index: an edit that
  removes a declaration renumbers the functions of later files, whose versions do
  not change, and `cfg` returns the CFG of another function. No concurrency is
  needed.

* `idg_source_relevance` (idg/src/service.rs:5559). The backward proof rooted at a
  source function follows an argument edge only into a function that is active
  when the fact is popped, and pops each fact once. `TwoRoutes` reaches the shared
  helper `f` first from `main` itself; `c`, which also calls it, becomes active one
  step later, through its own return, and its argument to `f` was dropped by then.
  The realizable path `b -> c -> f -> c -> main` is excluded, the seed is not in
  the proof, and the closure rooted at `main` answers with nothing. With the proof
  for all functions (`idg_closure`) no target is lost.

### Disagreements and observations without a run of their own

The first two are stated in the modules and refuted by TLC when they are put into
a configuration; the others were found by reading or with variants of the models.

* `AbortedVisitReturns` (db/src/compiler_object.rs:806). An input-order visit
  whose worker failed may hang: worker 2 receives index 1, sees `cancelled` at the
  second test and leaves; worker 1 holds index 2 and waits for turn 1 for ever, and
  the scope waits for it. `VisitReturns` excepts exactly this. In the
  code the failures in input order are caught panics; the test at
  compiler_object.rs:3840 ("worker errors must abort publication") visits in
  completion order.
* `HitMatchesContext` (parser/src/lib.rs:223, 246, 283). The fingerprint of the
  context is taken before the context is consulted. A header that changes in
  between yields a tree of the new context under the old fingerprint; when the
  header returns to its former content the tree is served, although
  lang_api/src/lib.rs:273-274 says the cache "cannot reuse a tree after the
  external context changes".
* `TaintGraphIndex::insert_if_absent` (workspace/src/taint_index.rs:361) does not
  compare the generation: a graph computed before a `clear` becomes resident after
  it, although the module comment (l.11-12) says that an edit clears the whole index.
* `discard_stale_factstore_sidecar` (workspace/src/cache_fingerprint.rs:262-266)
  removes a sidecar without its lock; between the failed open and the removal
  another process may have published a good one.
* `persist_graph_entry` (taint_index.rs:1024-1035) marks a key as written before it
  takes the writer; a `finish` in between loses the entry, which is recomputed later.
* A dropped persist session closes its lock before its writer (taint_index.rs:195-196),
  so a sweep may unlink the file of the dying writer. `PersistSession` allows it;
  nothing is published from that file.
* `cfg` takes its declaration from the index first and the file's version
  afterwards (db/src/lib.rs:947-951). With ids that never shift
  (`DeclCount` constant) and concurrent edits, `CfgIsOfFunction` fails too: the
  old body's CFG is stored under the new version.
* `apply_edits` loads the previous text before it takes the write lock
  (vfs/src/lib.rs:337-338). A `write_lazy` in between makes the logged edits
  address a text that was never loaded.
* When the writer thread has ended with a write error before `finish` sends its
  command, `finish` returns a broken pipe (writer.rs:684-696) and the error kept
  for it (writer.rs:524-528) is not read.

## 4. Proofs

TLC checks the instances above; the following holds for every value of the
constants that satisfies the named assumptions (`PoolAssumption`,
`StreamAssumption`, `VisitAssumption`, `WriterAssumption`, `SessionAssumption`,
`CacheAssumption`, `ScheduleAssumption`, `SpillAssumption`, `VfsAssumption`, `ParserAssumption`, `DbAssumption`). These say
that sets of threads are finite where they are counted, that sizes and bounds are
numbers, positive where the code has a `max(1)`, and that the value which stands
for `None` is not also a text, an id or a version. Each inductive invariant was
checked by TLC before it was proved (that of the spill sets on one
set of ten keys, all sequences of up to nine operations). Fairness is not used.

* `PermitPoolProofs`. The sum of weights is the cardinality of a set of tokens,
  so that adding or removing one summand is a statement about finite sets that
  needs no induction (`WeightAdd`, `WeightRemove`, `WeightAgree`).
  `PoolInvariance` proves the inductive invariant `PoolIInv`: types, each live
  permit is exactly its unit's admitted charge and nobody else has one, the sum is
  finite, `used` is that sum and at most the capacity. `used` alone is not
  inductive: to know that a release does not clip, one must know that the released
  bytes are part of the sum. From it follow `PoolAccounting`, `PoolWithinCapacity`,
  `PoolOversizeAlone` (an oversize unit is charged the whole capacity, a second
  permit at least one byte more) and `PoolSleeperHasWaker` (a thread sleeps only if
  something is charged; its own invariant). The module also holds the lemmas about
  bounded channels that both passes need.
* `OrderedStreamProofs`. `StreamInv`: a file is in the work channel, with one
  worker, in the result channel or in the reorder map, in one of these only and
  once; all such files lie between the last visit and the last scheduling; the
  worker at the gate is alone there and it is its file's turn; the live permits
  are exactly those of the files being lowered, sent, received or visited. That a
  file has one place is what the window needs: the visit of the head moves the lower
  end of the interval past it, so no second copy may be under way. Theorems:
  `StreamPublishesInOrder`, `StreamWithinWindow` (the interval is no longer than the
  window), `StreamReturnsPermits` (a pass that is done has dropped every permit).
  A pass that panicked is not covered by the last: permits stay in the result
  channel, which is the hang that `ordered_stream_panic` shows.
* `CompilerVisitProofs`. `VisitInv` is of the same kind; a failed item has given its
  permit back before its result is sent, received items are remembered, and the
  caller's place says how the visit ended. Theorems: `VisitsAreExact` and
  `VisitReturnsPermits`. The count of the visits needs the pigeonhole principle:
  an Ok visit has visited as many distinct items as there are.
* `StreamUsesGate` and `VisitUsesGate` show that both passes implement the gate:
  every step of theirs is a step of `PermitPool` or leaves it alone. So its theorems
  carry over (`StreamGate`, `VisitAccounting`, `VisitWithinCapacity`,
  `VisitSleeperHasWaker`).
* `PersistSessionProofs`. `SessionInv`: the lock is held from the beginning of a
  session to its end; the temporary file exists while it may be published and is
  synced before it is renamed; a permit is live from its grant until its command
  is written, discarded or refused; nothing follows `finish` in the queue, and no
  add is under way by then; the target is new exactly from the rename on; an entry
  whose add returned Ok is in the index or still queued. Only together are these
  inductive: that finish finds the whole index needs the order of the queue, that
  the file is still there needs the lock. Theorems: `WriterKeepsFile`,
  `FinishOkComplete`, `FailureKeepsOld`, `TargetWhole`, `NoFileLeft`, and
  `BudgetRefinesGate`: under the mapping of `FactStoreWriter`, every step of the
  sessions is a step of the abstract gate, a stutter, or the creation of a fresh
  one. All of it holds for either value of `DiscardOnDrop`, on which only liveness
  depends.
* `MemoryBoundProofs`, the body cache. `CacheInvariance` proves two invariants together.
  `FlightInv`: one builder per cell, a cell that is not finished still is the
  in-flight slot of its key, no key is both resident and in flight. The second
  part is the point: a slot can only be freed by somebody who saw the finished
  cell, hence nobody starts a second build (`CacheSingleFlight`).
  `LedgerInv`: the recency list names each resident key once, whoever evicts has
  its own key at the back, the count is the sum. The eviction loop stops before
  it reaches the back because that body alone fits the budget
  (`CacheNewestSurvives`), so it always ends within the budget (`CacheBudget`).
  `CacheRetention` is the generation check at the settling section.
* `MemoryBoundProofs`, the schedules. `SchedInv`: the finished batches tile the sources
  up to `start`; the bytes of the batch being filled are its true sum capped at `U64Max`;
  a batch of several units is within the window. The code's saturating sum is the true
  sum capped (`min` commutes with the next addition), and the window lies below
  `U64Max`, so a sum that is found to fit has not saturated: that is why
  `SchedBatchesExact` holds in true sums. `SchedWidthFits` needs what sorting does:
  `Largest` ranks the sources by weight, the ranks are a bijection, and an exchange
  argument shows that no set of as many sources weighs more than the first ones.
* `MemoryBoundProofs`, the spill stores. The theorems are per operation, for any keys and bounds:
  each operation keeps the container's invariant and does to its members what its name says.
  Any sequence of operations, by any number of readers, therefore keeps them, which is
  what a table shared by the workers of an inspection needs.
  `SpillSetInv`: the runs are ascending and disjoint from each other and the resident table,
  a run on level i holds `2^(i-1)` flushes, the filter misses no spilled
  key, the cache holds members and no key twice. That a lookup through the
  checkpoints finds what a search of the whole run finds (`LocateFacts`) and that a
  flush climbs the levels without losing a key (`PushRunFacts`) are the two lemmas the rest stands on.
  Theorems: `SpillSetInsert`, `SpillSetLookup`, `SpillSetPromote`,
  `SpillSetContains`, and `SpillSetPage`: the smallest keys of a union are among the smallest
  of its parts, so asking each run for one page is enough. `SpillSetExact` gives the
  conjuncts of `SpillStoresExact` and `PromotionKeepsCacheExact` for one set.
  `StackInv`: the chunks tile the file, none larger than the resident part. Theorems:
  `SpillStackPush`, `SpillStackPop` (last in, first out, whether a chunk was written or
  read back in between), `SpillStackExact`.
  The hypothesis of each theorem is what the previous operation left, from `SpillSetEmpty` and
  `SpillStackEmpty` on; `Promote` may come any number of steps after its lookup, because
  a spilled key stays spilled (`SpillSetInsert`). `SpillSetPage` is about sets that file
  their keys by prefix, which no operation changes (`SpillSetTracks`). Of `mix64` the
  proofs use only that it yields a natural number, so they hold for the code's hash.
* `VfsProofs`. `VfsInv`: the path and basename indexes are inverse to the table of
  live files, retired ids are tombstones, nothing was written under an id never
  used nor under a version still to come, and every live file means what its version
  was written to mean, loaded or not. The third part makes a new version safe to
  write (`VfsOneTextPerVersion`), the last one makes a load outside the lock safe to
  install (`VfsSnapshotIsDenoted`). Also `VfsSuffixLookupExact` and
  the action property `VfsRevisionCoversContent`.
* `ParserCacheProofs`. `ParseInv`: wherever an entry can still be edited (the cache, a
  thread's old entry, its build, an answer) a partial tree carries one of the code's
  flags and no tree is corrupt, and what a thread would insert is an entry for its own
  snapshot. The first part is the strengthening: `NoCorruptTree` alone is not
  inductive, since an unflagged partial tree in the cache is corrupt only one
  reparse later. Theorems: `ParserAnswersItsSnapshot`, `ParserTreesSound`, the
  action property `ParserKeepsNewest`, and `ParserPoolBalanced`, which counts the
  parsers of the pool.
* `AnalyzerDbProofs`. `DbInv`: the build lock is a mutex; the source is read after
  the key and versions only grow, so an entry was lowered from its key's version or
  a later one, never from one that does not exist yet; while no edit waits for
  its invalidation, a builder has current versions of all files it is done with. The
  last part is what survives a build that overlaps an edit: the invalidation waits
  for that build's lock and then drops the index it published. Theorems: `DbDeclIndexCurrent`,
  `DbGlobalIndexCurrent`, `DbOneCfgPerFunc`, for both builders (`Consume`).

The type invariants of all these modules are part of the invariants above
(`VfsTypes`, `ParserTypes`, `DbTypes`, `SessionTypes` state them by themselves).

Only model-checked:

* liveness (all `~>` and `<>` properties), which the prover does not reach;
* the IDG queries: `ClosureIsLeastFixpoint`, `RealizableFlowFound`, `RelevanceKeepsTargets`,
  `SummariesExact`. That a query computes a least fixed point for every program needs an invariant
  over its worklists, and the loops of `IdgQuery` over rows are RECURSIVE operators,
  under which the prover has no arithmetic;
* `SpillStoresExact` and `PromotionKeepsCacheExact` as invariants of a query: the
  theorems above prove them of each container and each operation, but `IdgQuery`, which
  calls these operations, is out of reach for the same reason.

The library's induction theorems cannot be used with an operator as parameter. Where
an induction is unavoidable (a set of naturals has a least element, the run
that climbs the levels, the keys remembered one after the other), the proof takes the least
counterexample of a set of naturals, from `NatLessThanWellFounded`, and contradicts it.

## 5. Plan

1. Done: memory gate and schedules, ordered stream, compiler visitor, writer and
   persist sessions, body cache, vfs, parser, derived caches, IDG queries on their
   spill stores; proofs of all safety properties of the gate, the schedules, the two
   passes, the writer, the body cache, the vfs, the parser and the derived caches, and
   of every operation of the spill stores.
2. Next modules: the resident part of `TaintGraphIndex` (hydration and insertion
   against `clear`); pruning of older sidecar versions; the batch of return
   summaries of the IDG (`return_taint_param_indices`).
3. Next proofs: the loops of `IdgQuery` as recursive functions or folds, so that
   soundness of the forward closure (every answered node is in the least fixed point) can be proved as
   an invariant: it needs only that each step adds facts its rows justify.

## 6. Not modelled

Tree-sitter and the lowering of twenty languages, name resolution, the call
graph, the building of the IDG, rule matching: sequential computations on data far
larger than a bounded instance. They are most of the source, which is why
the map covers a small share of it. Encodings of rows and compiler objects: pure.
Rendering, paging, argument parsing: I/O. Memory limits and resident-size
readings of the operating system: parameters here (`Capacity`, `Limits`,
`Residents`, `ByteLimit`, `Budget`). Counters (`revision`, versions, generations) are 32 or 64 bits wide in
the code and unbounded or capped here: no run is long enough to wrap them.

Of the IDG service: the function corridor (`allowed_funcs` is the whole program),
the batch mode that stops at summarised callees, the evidence of crossed calls, the
switch between sparse and dense visited sets, the remapping of boundaries through
structural fields and the filter of projected endpoints that goes with it, the
fallback from target nodes to target functions, calls with more than one
argument, spans in several files, paging and persistence of the indexes. I/O
errors of a spill store panic in the code. Of the persist sessions: pruning of older
versions, `save_to_disk`, loading and hydration, the unlocked discard, carrying
entries over into a new session. Of the compiler visitor: threads that cannot be
spawned, which panics.
