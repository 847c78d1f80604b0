# LivingAI in TLA+

TLA+ modules, TLC runs and TLAPS proofs about the durable execution layer in
`livingai/`: an agent records its steps as nodes, every state of a node is
checkpointed through a two-tier engine, and an execution that died is resumed
from its last checkpoint without repeating side effects.  Paths below are
relative to the repository (`src/` in `PROJECT.json`).

## 1. The system

| Component | State | Operations | Correct when |
|---|---|---|---|
| Hot cache, `checkpoint.py` 43-88 | `OrderedDict` id -> (timestamp, node), capacity, TTL | `put`, `get`, `__len__` | a hit is the last value put and not older than the TTL; an entry leaves only if it expired or is the least recently used of a full cache |
| Checkpoint engine, `checkpoint.py` 95-194 | the hot cache, a reference to the store; one pending `save` per node | `save` (budgeted), `load`, `latest` | `save` returns in its budget; `True` means durable; nothing older is read back over an acknowledged state |
| SQLite store, `storage/sqlite_store.py` | append-only table, one connection, one lock, an open transaction | `write`, `read`, `list_by_execution`, `get_latest_checkpoint` | the committed table only grows, survives crashes, and its queries see the newest row of each node |
| Recovery engine, `recovery.py` | none of its own (a plan between two awaits and a replay) | `plan`, `replay`, `recover` | resumes from the newest checkpoint, accounts for every executed step, never repeats a side effect, ends |
| Adapters, `adapters/*.py` | the live nodes of a run | `on_node_start`, `on_node_end`, `on_node_error`, `classify_name` | each transition is saved before the agent goes on; a step is marked replayable only if its caller or its name says so |
| Execution graph, `graph.py` | nodes, their mutable status, output, blob | status changes, `is_idempotent`, JSON round trip | what is read back is what JSON makes of the node |
| Replay session, `replay.py` | its results, three counters | `run` in four modes | one result per selected node, in order; one node only gets the changed input; outputs are those of the steps' ends, once these are in the log |
| Command line, `cli.py`; Studio, `studio/app.py` | the page that is shown | `list`, `show`, `replay`; select box, node list, "Replay from this node" | lists keep their order; a click is lost to a new execution at most, and is else carried out on the nodes that were shown |
| Redis store, `stores/redis.py` | per node a JSON key and a blob key, per execution a sorted set; times to live | the `CheckpointStore` protocol, each call several commands | acknowledged nodes are read back; of the nodes with a checkpoint the one seen last answers; no node outlives its blob |
| LangGraph saver, `showcase/langgraph_redis_saver.py` | - | `aput`, `aget_tuple` | hands out a state that was put, no older than the last acknowledged one (each put is a node of its own) |
| Postgres store, `stores/postgres.py` | append-only table behind a pool | the `CheckpointStore` protocol | the same answers as SQLite |
| Compression, `compression.py` | none | `compress`, `decompress` | any codec decodes what any codec wrote |
| Metrics, `metrics.py` | counters, samples | `increment`, `observe`, `percentile` | linear interpolation stays in the list and between neighbours |
| Benchmarks, examples, demos | - | drivers of the above | - |

How they interact.  An adapter owns its node objects and awaits
`CheckpointEngine.save` after every change.  `save` puts *the live object* in the
hot cache and gives *the same object* to `store.write`, which runs `_write_sync`
in a thread of the default executor (`asyncio.to_thread`).  All threads share one
SQLite connection, under one lock.  `asyncio.wait_for` bounds the await, not the
thread.  `load` tries the hot cache, then the store; `latest`, which recovery uses,
asks the store only.  `plan` awaits `latest`, then `list_by_execution`, and splits
the nodes listed behind the checkpoint node into those to replay and those to skip.
A `ReplaySession` lists an execution once and walks through the list; the command line
and the Studio give it a handler that returns the recorded output.  The Redis and the
Postgres store take the SQLite store's place behind the same protocol; the LangGraph saver is
one more owner of nodes, over Redis.

What is hard here, and hardly reached by a unit test:

- a thread whose save gave up reads the live object *later* than the save, maybe
  while the event loop is changing it, and commits after later saves;
- a `load` that awaits the store comes back to a hot cache that has moved on;
- an insert or a commit that raises, with nothing that rolls back, in a
  transaction shared by all threads;
- a crash between insert, commit and return, or in the middle of a replay;
- a pool full of abandoned writes, in front of reads that have no budget;
- the order of nodes is the order of their first *rows*, which late or lost rows
  make differ from the order of creation;
- the rows that abandoned writes add between the two awaits of `plan`, or between a page of
  the Studio and a click on it, which runs the page again before it does anything;
- the same thread reading status and output one after the other, between which `on_node_end`
  sets them one after the other;
- Redis pipelines that are not transactions, expire key by key, break off or run late, under
  reads that take several commands;
- blobs that outlive the process, and the codec, that wrote them.

`PROJECT.json` lists these hazards at their lines, with the property that covers
each, or why none does yet.

## 2. The modules

| Module | What it models |
|---|---|
| `HotCacheContract` | constant-level operators: what a put, a lookup and a trim may do to a map that may forget entries |
| `Ordering` (`OrderingProofs`) | `ORDER BY` and `WHERE`: the elements of a set by their rank, the elements of a sequence at some positions, and what these operators return |
| `HotCache` (`MCHotCache`, `HotCacheProofs`) | `HotCache` with its clock, as a sequence from least to most recently used |
| `ExecutionNode` | `graph.py`: types, flags, `is_idempotent`, what of a node survives its JSON |
| `Adapters` | `classify_name`, the hint words of the four adapters, the flag that `on_node_start` sets |
| `SQLiteStore` (`SQLiteStoreProofs`) | the queries of `sqlite_store.py` as operators on a sequence of rows (`Latest`, `LatestCheckpoint`, `ListByExecution`), and facts proved of them |
| `DurableLog` | the abstract promise of engine and store: a log that only grows, in which no node goes backwards, and acknowledgements only of what is in it |
| `CheckpointEngine` (`MCCheckpointEngine`, `CheckpointEngineProofs`) | the engine, the thread pool and the SQLite store together |
| `Recovery` (`MCRecovery`, `RecoveryProofs`) | an agent behind an adapter, the table it leaves, crashes, and `RecoveryEngine` |
| `PostgresStore` | the queries of `stores/postgres.py` on the same rows |
| `Replay` (`MCReplay`, `ReplayProofs`) | `ReplaySession` and its three callers, on a table agents still write to |
| `Compression` | both codecs and the codec byte |
| `RedisStore` (`MCRedisStore`, `MCRedisLatest`, `RedisStoreProofs`) | `stores/redis.py` under the engine's `save` and `latest`, for adapters and for the LangGraph saver |
| `Metrics` (`MetricsProofs`) | `percentile` |

`HotCache` is checked to keep to `HotCacheContract`, and `CheckpointEngine` assumes
no more of its hot tier than that contract (`PutOutcomes`, `GetOutcomes`).
`CheckpointEngine`, `Recovery` and `PostgresStore` extend `SQLiteStore`, which extends
`ExecutionNode` and `Ordering`; `HotCache` extends `Ordering`, too; `Recovery` extends `Adapters`, `Replay` extends `PostgresStore`, `RedisStore`
extends `Compression` and `Ordering`.  `CheckpointEngine` implements `DurableLog`.

### HotCache

`entries` is `_entries`, head first out; `now` is `time.monotonic()`.  `Put`
replaces, moves to the end, sweeps what expired (`EvictExpired`) and then pops the
head until the capacity holds (`EvictLRU`).  `Get` deletes an expired entry, moves a
live one to the end and *leaves its timestamp alone*.  `Count` is `__len__`, which
sweeps.  Calls are made on the event loop only, so each is one step.
`recency` and `lastPut` are history for the properties.

### CheckpointEngine

| State | Code |
|---|---|
| `live[n] = [ver, ckpt]` | the node object: the state its owner last gave it, and at which state its blob was made |
| `saving[n]` | the owner: between saves, after the change, in `await save(...)`, gone with its process |
| `task[<<n, v>>]` | the executor task of the save of node `n` in state `v`: queued, running, holding the lock, inserted, landed, failed, cancelled |
| `buf` | what `node.to_json()` returned to the lock holder |
| `queue` | the executor's FIFO queue, with cancelled items still in it |
| `reader[r]` | a caller of `load` or `latest` |
| `rows`, `committed` | the table as the shared connection sees it; how much of it is committed |
| `hot[n]` | the hot tier: nothing, the live object (`Live`), or a row that a load put there |

`Save` is `save` up to its await: blob, hot tier, task.  It ends in `ReturnTrue`,
`Raise` (only `TimeoutError` is caught) or `Timeout`, which may come at any moment
and cancels the task only while no thread has taken it.  `Acquire`, `Insert`,
`Commit` are the three steps of `_write_sync`: `node.to_json()` under the lock, then
`node.checkpoint` and the insert, then the commit.  They are apart because the event
loop may change the node between them.  `to_json` itself reads one attribute after the
other; for the version number that stands for a node's data here the first of them counts, and `Replay` takes
the read apart.  `InsertFails`, `CommitFails` and `FetchFails` raise; after
a failed commit the rows stay in the open transaction (busy) or SQLite has dropped
them (disk full).  `Load`/`AskLatest`, `Fetch` and `Return` are the two sides of the
awaits of `load` and `latest`.  `Crash` loses all but the committed rows.

Assumed: one execution in the table; a file database, so that commits survive; a
node is changed by one owner, and not while its own save is awaited, as every
adapter does; the lock goes to any waiting thread.  Left out: compression (see `RedisStore`),
metrics, log lines, `close()`.  A second process on the same file is only one that makes a
commit fail (busy).

### Recovery

Nodes are numbered in creation order.  `call[n]` is the call of `on_node_start` the step is
made with: framework, hint words in the name, explicit type, `metadata`, `idempotent`.  `Started`
makes its type and flag of it, and `IsReplayed` is `is_idempotent` of those.  `Start`, `Body`, `End`, `Fail` are a step between
`on_node_start` and `on_node_end` or `on_node_error`; up to `MaxActive` steps overlap.
The save each of them awaits is reduced to what `CheckpointEngine` shows of it:
its row lands (`Land`, `SaveTrue`), or the save gives up (`Miss`) and the row lands
later (`LandLate`), or never.  A row carries the blob the node has *when it lands*.
A row that was read early and lands late is one of these: while a save is awaited its
node does not change, and a later row of the node is never older (`AckedNeverHidden`).
The status in a row is left out because `plan` never reads it.
`blob[n]` is the set of steps the agent's state knew at the end of step `n`.
`Stop` ends the agent's task with an exception while its threads go on; `Crash` also
takes the threads and a recovery in progress.  `PlanLatest` and `PlanList` are the
two awaits of `plan`, with landing rows in between; `ReplayNode`, `HandlerRaises` and
`ReplayDone` are `replay`.

### ExecutionNode and Adapters

Pure.  A node is a record; `flag` is `metadata["idempotent"]`, which may be missing, a boolean, or
something else, which `is_idempotent` ignores.  A value is nothing, JSON, one JSON changes (a
tuple comes back as a list) or one `json.dumps` refuses (`HasJson`): `to_json`, and the save
that called it, raise.  A name is the set of hint words it contains.

### Replay

| State | Code |
|---|---|
| `plan` | what the agents of this behaviour do (chosen in `Init`) |
| `live[n]` | the node object of the adapter |
| `stage[n]` | where the adapter is with it: new, started, in `on_node_end` after the status or after the output, over; or made whole by a program |
| `writer` | the thread in `_write_sync` under the lock, and what of the node it has read |
| `table` | the rows |
| `page` | the page of the Studio: executions, the one selected, its nodes, the button that was clicked |
| `session`, `results`, `counters` | the arguments and the progress of `run`, its results, its metrics |

`Start` is `on_node_start`.  `SetStatus`, `SetOutput`, `HandOver` are `on_node_end`: two
assignments and then `save`, which sets the blob.  There is no await between them (`LoopFree`), so the event loop does nothing else,
but a worker thread may run.  `Error` is `on_node_error`.  `Record` is a program that makes a finished node and
saves it once, as `studio/seed_demo.py` does.  `Serialize`, `ReadOutput`, `Insert` are the thread of a save, in time,
late or never: it reads the status, the output and the blob, in this order, and whatever happens between
them is in the row.

`Open`, `Choose` and `Click` run `main` of the Studio up to its await: Streamlit runs it from its top for every click, too.  It lists
the executions, and the select box, which has no key, keeps its value if its options are the same and goes back to the first one if
not.  `Render` is the rest: it loads the nodes and, if the button that was clicked is there again, replays.

`Run`, `Command` and that replay call `run` from a program, the command line and the page:
`Begin` has its argument checks, `ListNodes` its await and `_select`, `Mock`, `Reconstruct`,
`Execute` and `Raise` are the branches of its loop, `Finish` its end.  `Reconstruct` is the handler
that only looks the output up, `Execute` one that really runs the node.  One behaviour has one
session, and the user of a page waits for it; sessions share nothing but the table.  `told`, `session.ended` (the nodes that had been written after
their end when the session began) and `session.shown` (the nodes of the page that was clicked on) are history for the properties.

### PostgresStore

`DistinctOnId` is `SELECT DISTINCT ON (id) ... ORDER BY id, seq DESC`: one row per node, in the order
of the *ids*.  `ListBySeq` and `LatestDistinct` are the two queries that use it.  Ids are numbers that
have nothing to do with the order of rows.

### RedisStore

| State | Code |
|---|---|
| `data[n]`, `blob[n]` = [val, dies] | the keys `lai:n:` and `lai:c:`, with their expiry |
| `index[n]` | the score of the node in `lai:e:` (0: no member) |
| `pipe[w]` | commands of a write that the server has not carried out |
| `live`, `saving`, `failed` | node objects, awaited saves, pipelines with an error reply |
| `reader` | one `read`, `list_by_execution` or `latest` and what it has read so far |
| `now`, `ttl`, `codec` | the clock, and the settings of the store and the engine |

`Pipeline` is what `write` builds, from the node at the time of the call.  `Execute` carries out one
command; `Fault` is a refused command or a broken connection, `Raise` the exception `execute()`
then throws, `Miss` the budget; the rest of a given-up pipeline runs at any time or is `Cut`.
`Restart` is a new process with any codec.  `Tick` moves the clock of client and server and
expires keys.  Reads are one step per command: `ListData` then `ListBlobs`, `LatestBlob` then
`LatestData` for one node after another.  `spoiled` names the nodes with a write that did not
end well; the code makes no promise about the content of those.  `MCRedisLatest` adds the history of which
checkpoint is the most recent, for an agent that awaits one save at a time.

## 3. The runs

| Run | Shows | Bounds |
|---|---|---|
| `hotcache` | `HitsAreFresh`, `EvictsLeastRecentlyUsed`, `KeepsContract` | 3 keys, 2 values, capacity 2, TTL 1, 3 ticks |
| `engine_log` | `AckedIsDurable`, `AckedNeverHidden`, `ImplementsDurableLog` | 2 nodes of 2 states, 2 threads, 1 store error, 1 crash, no reader |
| `engine_threads` | `SaveReturns`, `WritesSettle`, `LoadsReturn` | 1 node of 2 states, 1 reader, 2 threads, 1 error, 1 crash |
| `recovery_sequential` | `NothingForgotten`, `ResumesFromLatestAcked`, `RecoveryEnds` | 3 nodes, one step at a time, no missed save, 1 crash or raising handler |
| `recovery_parallel` | `NoEffectTwice`, `ResumeNodeStaysOut`, `NeverForgetsCheckpoint`, `PlanOnlyGrows` | 2 nodes, two at a time, 2 missed saves, 2 crashes or raising handlers, five kinds of call |
| `replay` | `ClicksAreServed`, `ClickedIsFound`, `OutputsAreRecorded`, `OneInputChanged`, `CountersMatch`, `PostgresListsAlike`, `ListsOnlyGrow` | three plans of 2 or 3 nodes in 1, 2 or 3 executions, 3 rows, all modes, callers and arguments |
| `redis` | `AckedReadBack`, `LatestIsLastSeen`, `LatestIsWhole`, `BlobOutlivesData` | an adapter's node of 2 states and a saver's node, TTL none or 1, 2 clock values, 1 trouble (miss, fault or restart), both codecs |

What they say, beyond type correctness:

- *HitsAreFresh*: what a hit returns is the last value put, at most TTL old, however
  often it was read meanwhile.
- *EvictsLeastRecentlyUsed*: a live entry leaves only if Capacity more recently used
  entries stay.
- *KeepsContract*: the cache is a map that only forgets.
- *AckedIsDurable*: a save that returned `True` has its exact data and blob in a
  committed row, through later failures and crashes.
- *AckedNeverHidden*: no write of an earlier, given-up save can bring back an older
  state.  This holds because a thread serializes the live object under the lock; a
  version of the code that serialized at hand-over would break it.
- *ImplementsDurableLog*: refinement, with the committed rows as the log.
- *SaveReturns*: the agent is not held back by stuck threads or a full pool.
- *WritesSettle*, *LoadsReturn*: the lock and the threads are given back, after
  exceptions too, so reads, which have no budget, return.
- *NothingForgotten*: every executed step is in the blob resumed from or in exactly
  one of the two lists.  It needs an agent that runs one step at a time and saves
  that are in time: a step that runs beside a checkpointed one is recorded *before* it
  and is by design neither in the blob nor behind it.
- *ResumesFromLatestAcked*: no acknowledged state is lost by resuming.
- *NoEffectTwice*: a tool call without an `idempotent` flag, or a node flagged as not
  idempotent, is executed at most once, whatever crashes, misses and repeated recoveries.
- *ResumeNodeStaysOut*: the checkpoint node itself is neither replayed nor skipped.
- *PlanOnlyGrows*: rows that land between the two awaits of `plan` drop or move no node that
  followed the checkpoint at the first.
- *NeverForgetsCheckpoint*: a fresh start is only advised if no blob was acknowledged.
- *RecoveryEnds*: a recovery that has found a checkpoint ends: it returns after a complete replay, its handler
  raises, or its process dies.
- *ListsOnlyGrow*: lists are in the order of first rows, and rows are never
  deleted, so later rows only add at the end.
- *ClicksAreServed*: a click on a page is lost only if an execution has appeared since, and never on the page of the first
  execution, to which the select box falls back.
- *ClickedIsFound*: a click that is not lost is carried out; what is replayed begins with the nodes the page showed from the clicked
  one on, whatever rows came meanwhile.
- *OutputsAreRecorded*: a result that is taken from the log (a mocked tool, the command line, the Studio) is what the step
  returned, as JSON reads it, or nothing; and nothing only if no write after the step's end had been committed when the session
  began.  So a torn row never stands for a step's end once that is recorded: the later row comes from a thread that
  took the lock after the end.
- *OneInputChanged*: one result per selected node, in order; the input is changed in the one node
  asked for, or in none if that is not listed.
- *CountersMatch*: counters and results agree after a handler that raised, too.
- *PostgresListsAlike*: the window of `_LIST_ORDER_SQL` sees all rows, before `DISTINCT ON` thins them
  out, so both stores list alike.
- *AckedReadBack*: without expiry, a `read` or a list that begins after a save returned `True` has that
  node, at least as new, although it takes its JSON and its blob at different times.
- *LatestIsLastSeen*: `latest`, and so `aget_tuple`, answers with a node first seen no earlier than any with an
  acknowledged checkpoint, whatever failed or ran late.  That is not always the node checkpointed last (run `redis_latest`).
- *LatestIsWhole*: the state handed out is one that was saved, decoded right whatever codec wrote it,
  and not newer than the node beside it.
- *BlobOutlivesData*: JSON before blob in one pipeline, each with the same TTL, on every save: a node
  that is still there still has its blob.

Why the bounds are enough.  Capacity 2 and 3 keys give full caches in which the
least recently used entry is live, expired, or the one just read; 3 ticks pass a TTL
of 1 twice.  A node of two states is the shortest history in which a late write can
meet a later save; two nodes and two threads bring two writers to the lock and rows of
another node between them; one failing commit is enough for its row to be committed,
rolled back or lost by what follows.  Three nodes give recovery a node before the
checkpoint, the checkpoint and one behind it, with and without a later blob; two
misses let one node's saves both be late.  Three rows are a node listed, another behind it, and
a late row of either; the plans have two nodes of one execution in both orders of ids and rows, two
executions, outputs JSON changes or refuses, and three executions, so that a third can appear under a page of the second.  For Redis, two states of a node bring an old
and a new pipeline together, the saver's node gives `latest` a second candidate with an equal,
lower or higher score, and two clock values with a TTL of 1 let each key expire before the other.  Every bound is a constant of its module
and appears in a guard.  `engine_log` (the nodes) and `hotcache` (keys and values) use symmetry; they check
nothing temporal but step relations, which do not tell those values apart.  Deadlock is not checked where agents and
recoveries come to an end by design.

Fairness.  `LoopFairness` is weak fairness of the end of each save: the event loop
runs its callbacks and its timers, and `wait_for` has a timer; it says nothing of
threads, and `SaveReturns` needs nothing else: it is checked under `FairSpec`, which assumes no more.  `ThreadFairness` is weak fairness of the
pool and of each task: no SQLite call blocks for ever (`sqlite3` gives up on a busy
database) and each thread is scheduled; the lock's fairness follows, because finitely many
writes are made.  It is the premise of `WritesSettle` and `LoadsReturn`.  `Recovery` assumes weak fairness of `Continue`, the steps of a recovery
that has begun: its event loop runs, its call of the store returns (the premise of `LoadsReturn`), and its handler returns or raises.
Nobody is obliged to begin a recovery, or another one after a crash or a handler that raised.  The agent is never obliged to do anything.

### Where the code does not do what is written

Five runs are expected to find a violation, each of a sentence of the repository:

| Run | The sentence | What happens |
|---|---|---|
| `engine_hot` | the hot tier "must reflect the latest state even if the cold write is dropped", `checkpoint.py:137-139` | a `load` that missed the hot tier puts the row it fetched over the entry of a save made during its await |
| `recovery_skipped` | skipped nodes "must NOT be re-run (their side effects already happened)", `recovery.py:60-61` | a node recorded as RUNNING whose body never ran is skipped |
| `recovery_acked` | "Return the most recent checkpoint for an execution", `checkpoint.py:183` | the late row of an earlier node has the highest `seq` and hides a later, acknowledged checkpoint |
| | of a missed write: "it is dropped and recorded as missed rather than blocking execution. Because Tier 1 already holds the state, recovery is unaffected", `README.md:178-180` | the same trace: the write was not dropped but lands late, and what Tier 1 holds is not asked; without a missed save the property holds (`recovery_sequential`, `LatestAckedIsResumed`) |
| `redis_latest` | "Return the most recent checkpoint for an execution", `checkpoint.py:183`, `docs/checkpointing.md:66` | the index keeps the time a node was first seen (`zadd` with `nx`), so a node seen later hides a checkpoint that an earlier one made after it |
| `postgres_latest` | "return the one with the highest global seq", `stores/postgres.py:166-167` | `DISTINCT ON (id) ... ORDER BY id ... LIMIT 1` returns the smallest id's checkpoint; the fake pool of `tests/test_postgres_store.py` takes the highest `seq`, so the tests pass |

Met while modelling, and not made into runs of their own:

- `sqlite_store.py:8` promises "the full history of every node transition"; a thread that starts
  after its save gave up writes the node's *next* state, and the transition it was sent for is in
  no row.  A save that "dropped" its write is often committed all the same.
- `latest` never asks the hot tier, so what was saved without an acknowledgement is not resumed from, whatever Tier 1 holds; the
  comment of the LangGraph saver says that it does.
- A torn read (`graph.py:173`, `_base.py:113-114`) may leave a SUCCESS row without output, or a RUNNING one with it: for good,
  if the save of the end is missed and never lands.  Replay then hands out None as the output of a step in status SUCCESS.
- A click in the Studio does nothing, and says nothing, if an execution has appeared and its page was not the first one's.
- The probe of a counterfactual (`replay.py:110`) is made by `from_dict(to_dict())`, which drops the
  checkpoint; the handler's docstring says it receives the recorded node.
- The Studio says "MOCK_TOOLS-safe mode" and uses `FROM_NODE`; its handler only looks outputs up.
- `livingai replay --from` without `--mode FROM_NODE` is silently ignored.
- After an output that JSON refuses, `on_node_error` keeps the output, its save raises too, and the
  table shows the node as RUNNING for good.
- The late pipeline of a given-up save overwrites newer, acknowledged Redis keys of its node.

## 4. The proofs

`SQLiteStoreProofs` proves, for any table: the newest of a nonempty set of indices
exists (`MaxOfIndices`), `Latest` answers with the last matching row (`NewestIsLast`),
and the queries return rows of the table or none (`QueriesReturnRows`).

`CheckpointEngineProofs` proves, for every set of nodes and readers, every number of
threads, versions, faults and crashes, under the module's assumptions
(`WorkersAssumption`, `BoundsAssumption`, `SentinelAssumption`: there is a thread, bounds are
naturals, sentinels differ from values):

| Theorem | States |
|---|---|
| `TypeCorrect` | `Spec => []TypeOK` |
| `AckedDurable` | `Spec => []AckedIsDurable` |
| `AckedVisible` | `Spec => []AckedNeverHidden` |
| `EngineImplementsDurableLog` | `Spec => ImplementsDurableLog` |

The inductive invariant is

    IInv == TypeOK /\ LockInv /\ RowsBelowLive /\ RowsInOrder /\ AwaitInv /\ AckedIsDurable

- `LockInv`: at most one task holds the lock, and what it has serialized is neither newer than
  the live object nor behind any row of its node.  Without it a second writer could append
  between a read of the object and its insert.
- `RowsBelowLive`: no row is newer than the live object, in data or in blob: rows are read off
  the objects, and the objects only move on.
- `RowsInOrder`: the rows of a node never go backwards, in data or in blob.  With `AckedIsDurable` and `NewestIsLast` it gives
  `AckedNeverHidden`.
- `AwaitInv`: while a save is awaited, what its task has serialized, inserted or committed is
  exactly the node's state: the owner does not change the node meanwhile.
  This is what `ReturnTrue` acknowledges.

`AckedIsDurable` alone is not inductive (a `True` could acknowledge anything) and
`AckedNeverHidden` needs the order of rows.  TLC checked `IInv` as an invariant with the
bounds of `engine_log` before it was proved.  For the refinement, every action that leaves
`committed` and `acked` alone is a stutter of the log, `Commit` is `Extend` (its order is
`RowsInOrder`), and `ReturnTrue` is `Ack`.

`OrderingProofs` has the lemmas behind every list.  A query's rows are those of a set, each at the place
its rank gives it (`InOrder`), and a loop with an `if`, or a `WHERE`, takes the elements at some positions
(`SelectAt`).  The community modules define the same by sorting and by recursion over the sequence, of which nothing can be
proved here.  The lemmas say that ranks count from 1 without gaps (`RankIsBijective`), that the result is sorted and has each element
once (`InOrderIsSorted`, `SelectAtSelects`), that a new greatest element is appended and the rest
stays (`InOrderGrows`, `SelectAtGrows`), and that two sets matched by a map that keeps the order give
corresponding lists (`InOrderCorresponds`).  `SQLiteStoreProofs` derives from them what `ListByExecution`
answers (`ListFacts`, `FirstRowsAre`) and that a new row leaves every node at its place (`NodesKeepPlaces`).

`RecoveryProofs` proves, for any number of nodes, overlapping steps, missed saves, crashes and attempts, from
`BoundsAssumption`, `SentinelAssumption` and `StepAssumption` (the kinds of call):

| Theorem | States |
|---|---|
| `RecoveryTyped` | `Spec => []TypeOK` |
| `CheckpointNeverForgotten` | `Spec => []NeverForgetsCheckpoint` |
| `EffectsHappenOnce` | `Spec => []NoEffectTwice` |
| `ResumeNodeIsNotRunAgain` | `Spec => []ResumeNodeStaysOut` |
| `PlanKeepsItsNodes` | `Spec => PlanOnlyGrows` |
| `NoStepIsForgotten` | `MaxActive = 1`, `MaxMisses = 0`: `Spec => []NothingForgotten` |
| `LatestAckedIsResumed` | `MaxActive = 1`, `MaxMisses = 0`: `Spec => []ResumesFromLatestAcked` |

The two hypotheses of the last two are those of `recovery_sequential`: an agent that runs one step at a time and saves that are
in time.  Both are needed: one missed save refutes `ResumesFromLatestAcked` (the run `recovery_acked`), and a step that ran beside a
checkpointed one is in neither list.
`PlanKeepsItsNodes` is `NodesKeepPlaces` for the part of the list behind one node (`FollowersKeepPlaces`).
The others are made of four inductive invariants, each on top of the ones before:

- `IInv`: a landed save's blob is in a row (`LandedIsRecorded`), acknowledged blobs are (`AckedIsRecorded`), and no recovery starts while
  its agent runs (`RecoveryComesAfter`): otherwise a save could be acknowledged after a fresh start was advised.
  `NothingMeansNoBlob` is where the query comes in: no answer means no row with a blob.
- `TInv`: `TypeOK`, and a save only in a phase that awaits one.
- `EInv`: a step that was executed has gone through its body once (`RunWithBody`), and a plan lists for replay only what
  `is_idempotent` lets it (`PlanIsSafe`).  What may have effects is neither flagged nor classified as safe
  (`EffectsAreNotReplayed`), so it is in no such list.
- `AInv /\ RInv`: with one step at a time and no write abandoned, rows are in the order of steps (`RowsInTurn`) and each
  blob knows all steps up to its own (`BlobsKnowAll`); so the newest row with a blob is the last step that has one
  (`LatestIsGreatest`), and the rows listed behind it are exactly the later steps (`PlanIsWhole`, `RunHaveRows`).

`ReplayProofs` proves, for any nodes, plans, values, rows and calls, from `SentinelAssumption` (`None` is neither a
node nor a caller) and the assumptions on the plans:

| Theorem | States |
|---|---|
| `ReplayTyped` | `Spec => []TypeOK` |
| `RecordedOutputs` | `Spec => []OutputsAreRecorded` |
| `ResultsAreInOrder` | `Spec => []OneInputChanged` |
| `CountersAgree` | `Spec => []CountersMatch` |
| `ClickIsFound` | `Spec => []ClickedIsFound` |
| `ClicksServed` | `Spec => ClicksAreServed` |
| `ListsGrow` | `Spec => ListsOnlyGrow` |
| `PostgresListsLikeSQLite` | `Spec => []PostgresListsAlike` |

The inductive invariant is `Inv == AgentInv /\ SessionInv /\ CountersInv /\ PageInv /\ StudioInv`:

- `AgentInv`: each node object is one its plan can produce, without an output until `SetOutput` (`LiveInv`); the output in a row is
  the step's or none, and the first row that was written after the end of a step has it, and so have all later rows of the
  node (`TableInv`); nothing that was read before the end is written after such a row, as one thread at a time has the
  lock (`WriterInv`).
- `SessionInv`: nothing is selected before the list came (`NothingYet`); what was listed comes from rows of the table, and a
  node that was told when the session began is listed with its output (`SessionIsTold`); the results are those of the first
  selected nodes, one each and in order (`ResultsInv`).
- `CountersInv`: the property and the range of the counters.
- `PageInv`: a page shows prefixes of today's lists, because rows are only added (`ListGrows`); a click that is pending was on such a
  page (`ClickPending`).  If the executions are still the same, so is the one selected, and its list has the node.
- `StudioInv`: a session of the Studio was given a node of the page shown, and finds it.

`PostgresListsLikeSQLite` is a fact about tables: `DISTINCT ON` leaves the last row of each node (`LastRows`),
`MIN(seq) OVER` orders those as their first rows are, and the map from first to last rows keeps that order.

`HotCacheProofs` proves, for any keys, values, capacity and TTL, from `CapacityAssumption`, `TTLAssumption`,
`BoundsAssumption` and `NoneAssumption` (`None` is no value and no record of a put):

| Theorem | States |
|---|---|
| `HotCacheTyped` | `Spec => []TypeOK` |
| `HitsFresh` | `Spec => HitsAreFresh` |
| `HotCacheKeepsContract` | `Spec => KeepsContract` |
| `HotCacheEvictsLRU` | `Spec => EvictsLeastRecentlyUsed` |

The inductive invariant `HInv` says that the entries are in the order of `recency`, each with the value and the time of its
key's last put (`Fits`), that there are at most `Capacity`, and that no stamp is in the future.  The
order is what eviction needs: `TypeOK` does not say that the head is the least recently used entry.  `HotCacheKeepsContract` closes
the gap between the hot tier and `CheckpointEngine`, whose proofs assume that contract.

`MetricsProofs` proves, of `percentile` in exact arithmetic for any sorted samples and any
integer pct from 0 to 100, that its indices are in the list and its value between two neighbours
(`PercentileInRange`), and that it never falls as pct rises (`PercentileMonotonic`).

`RedisStoreProofs` proves, for any nodes, states of a node, times to live and numbers of troubles, from `NodeAssumption` (node numbers
are positive) and `BoundsAssumption`:

| Theorem | States |
|---|---|
| `RedisInvariant` | `Spec => []Inv`, the inductive invariant |
| `RedisTyped` | `Spec => []TypeOK` |
| `RedisReadsBack` | `Spec => []AckedReadBack` |
| `RedisLatestIsLastSeen` | `Spec => []LatestIsLastSeen` |
| `RedisLatestIsWhole` | `Spec => []LatestIsWhole` |
| `RedisBlobOutlivesData` | `Spec => []BlobOutlivesData` |

`Inv == StoreInv /\ ReaderInv`.  A pipeline is at most five commands in a fixed order, so what is left of one is a set of places
(`Left`, 1 to 5), and a command takes the least of them away (`NextCommand`).  `StoreInv` says what holds at each:

- `PipesInv`: commands are in their order with the index last, no `SET` is left without its `EXPIRE`, and the blob is sent whenever the
  data are (`PipeOf`, `Sent`).
- `KeysInv`: keys hold a state the node once had, and die no later than one time to live from now.
- `CleanInv`: a node no write of which failed or was given up has no commands but those of the save it awaits (`Quiet`), and for what
  is carried out of that save, its keys hold this state; the blob dies no earlier than the data; the blob is never newer
  than the data (`CleanOf`).  `BlobOutlivesData` is this with nothing left.  It needs the third part: while the `EXPIRE` of a blob is
  still to come, that blob has no time to die.
- `ThereInv`: without a time to live, what is carried out of a save of which no command failed is there, even if earlier writes
  of the node ended badly.
- `AckedInv`: what was acknowledged is in its keys and in the index (without a time to live), and as new as it was acknowledged if the
  node is clean.  It is what `ReturnTrue` takes from the two before.

`Moves` is all that a reader relies on between its commands: what any step may do to keys, index and acknowledgements
(`StoreKeeps`).  `ReaderInv` is about the calls: the list that a call walks through is in the order of the index and has
every node acknowledged when it began (`ListInv`, `LatestInv`); a node that `latest` passes over has no acknowledged checkpoint
(`SkipKeeps`).  Blobs are compared by the state they were made in (`State`), which does not depend on the codec of the process that
reads (`DecodedIs`, `RoundTrip`).  TLC checked the parts of `Inv` on the instance of `redis` before they were proved.

Every safety invariant and every action property that a passing run checks is thus proved.  Only model-checked: liveness (`SaveReturns`,
`WritesSettle`, `LoadsReturn`, `RecoveryEnds`), which is out of the prover's reach.

## 5. Not modelled, and what comes next

Not modelled: the pool of the Postgres store, and whether the server still carries out an insert that
`asyncpg` cancelled; `close()` of the stores; a Redis clock that runs backwards; several executions
in one Redis database, which share no key; the levels of zlib; floating point and fractional percentiles in `percentile`; counters
and samples of engine and recovery; argument parsing, printed text, Graphviz output; the demos, examples
and benchmarks, which drive the parts above and keep no state (of `seed_demo.py` only its finished nodes, `Record`);
what a browser does to a page of the Studio while its script runs.
`recovery.py:107` has no property: a step that runs beside a checkpointed one is, by `plan`'s rule, neither
in the blob nor behind it, so `NothingForgotten` is stated for agents that run one step at a time.

Next, proofs: weaker hypotheses of `NoStepIsForgotten` and `LatestAckedIsResumed`: agents of which only the steps with a checkpoint
run alone.
