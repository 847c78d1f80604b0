-------------------------- MODULE CheckpointEngine --------------------------
(***************************************************************************)
(* checkpoint.py CheckpointEngine over storage/sqlite_store.py.            *)
(*                                                                         *)
(* The event loop runs save, load and latest; a store call is a task of    *)
(* the thread pool (asyncio.to_thread), and the threads share one SQLite   *)
(* connection under one lock.  A save that overruns its budget returns     *)
(* False, but the thread that carries its write is not stopped.  A write   *)
(* task refers to the live node object, so what it inserts is what the     *)
(* object holds when the lock holder reads it.                             *)
(*                                                                         *)
(* A node's state is [ver, ckpt]: ver numbers the states its owner (the    *)
(* adapter) gives it, RUNNING, then SUCCESS or FAILED; ckpt is the ver at  *)
(* which its blob was made, 0 while it has none.                           *)
(***************************************************************************)
EXTENDS HotCacheContract, SQLiteStore

CONSTANTS
    Node,           \* nodes of one execution
    Reader,         \* tasks of the event loop that call load or latest
    Live,           \* hot tier entry that refers to the live node object
    Workers,        \* threads of the default executor
    MaxVersion,     \* bound: states a node goes through
    MaxFaults,      \* bound: store operations that raise
    MaxCrashes      \* bound: crashes of the process

ASSUME WorkersAssumption == Workers \in Nat \ {0}
ASSUME BoundsAssumption == MaxVersion \in Nat /\ MaxFaults \in Nat /\ MaxCrashes \in Nat

Version == 0..MaxVersion
Write == Node \X (1..MaxVersion)       \* the save of node w[1] in its state w[2]
Row == [node : Node, ver : Version, ckpt : Version]

ASSUME SentinelAssumption ==
    NoRow \notin Row /\ Live \notin Row \cup {None} /\ None \notin Row \cup Node

VARIABLES
    live,           \* the node objects: [Node -> [ver, ckpt]]
    saving,         \* where the owner of each node is in its save
    task,           \* the write tasks of the thread pool
    buf,            \* the version the lock holder serialized
    queue,          \* the executor's work queue
    reader,         \* the callers of load and latest
    rows,           \* the table as the shared connection sees it
    committed,      \* how many of the rows are committed
    hot,            \* the hot tier
    faults, crashes,
    acked           \* history: states whose save returned True

loopVars  == <<live, saving, reader, hot, acked>>
tableVars == <<rows, committed>>
vars == <<live, saving, task, buf, queue, reader, rows, committed, hot,
          faults, crashes, acked>>

Holding == {w \in Write : task[w] \in {"holding", "inserted"}}

\* Plausible bug: lock.acquire() and release() without `with', so that an
\* exception leaves the lock taken.
LockFreeUnlessFailed == \A w \in Write : task[w] \notin {"holding", "inserted", "failed"}

LockFree == Holding = {}

\* Plausible bug: a cancelled task keeps a thread of the pool.
BusyWithCancelled ==
    Cardinality({w \in Write : task[w] \in {"running", "holding", "inserted", "cancelled"}})
    + Cardinality({r \in Reader : reader[r].pc = "running"})

Busy == Cardinality({w \in Write : task[w] \in {"running", "holding", "inserted"}})
        + Cardinality({r \in Reader : reader[r].pc = "running"})

Stamp(n) == [node |-> n, ver |-> live[n].ver, ckpt |-> live[n].ckpt]
Current(n) == <<n, live[n].ver>>       \* the write of the save n is in

\* Plausible bug: a rollback that takes a committed row along.
RolledBackTooFar == SubSeq(rows, 1, committed - 1)

\* The committed part of the table.
Durable == SubSeq(rows, 1, committed)

\* What a hot tier entry shows when it is read.
Shown(n) == IF hot[n] = Live THEN Stamp(n) ELSE hot[n]

IdleReader == [pc |-> "idle", want |-> None, row |-> NoRow]

Init ==
    /\ live = [n \in Node |-> [ver |-> 0, ckpt |-> NoBlob]]
    /\ saving = [n \in Node |-> "idle"]
    /\ task = [w \in Write |-> "none"]
    /\ buf = 0
    /\ queue = << >>
    /\ reader = [r \in Reader |-> IdleReader]
    /\ rows = << >> /\ committed = 0
    /\ hot = [n \in Node |-> None]
    /\ faults = 0 /\ crashes = 0
    /\ acked = {}

-----------------------------------------------------------------------------
\* The owner creates the node, or changes it before it saves it.
Mutate(n) ==
    /\ saving[n] = "idle" /\ live[n].ver < MaxVersion
    /\ live' = [live EXCEPT ![n].ver = @ + 1]
    /\ saving' = [saving EXCEPT ![n] = "mutated"]
    /\ UNCHANGED <<task, buf, queue, reader, tableVars, hot, faults, crashes, acked>>

\* save up to its await: the blob, the hot tier, and the write handed to the
\* pool.  A save without state keeps the blob the node has.
Save(n, withState) ==
    /\ saving[n] = "mutated"
    /\ live' = IF withState THEN [live EXCEPT ![n].ckpt = live[n].ver] ELSE live
    /\ hot' \in PutOutcomes(hot, n, Live)
    /\ saving' = [saving EXCEPT ![n] = "awaiting"]
    /\ task' = [task EXCEPT ![Current(n)] = "queued"]
    /\ queue' = Append(queue, Current(n))
    /\ UNCHANGED <<buf, reader, tableVars, faults, crashes, acked>>

\* Plausible bugs: save is told before the commit, or despite the exception.
WriteDoneOnInsert(w) == task[w] \in {"inserted", "landed"}
WriteDoneAnyhow(w) == task[w] \in {"landed", "failed"}

WriteDone(w) == task[w] = "landed"

\* save returns True
ReturnTrue(n) ==
    /\ saving[n] = "awaiting" /\ WriteDone(Current(n))
    /\ saving' = [saving EXCEPT ![n] = "idle"]
    /\ acked' = acked \cup {Stamp(n)}
    /\ UNCHANGED <<live, task, buf, queue, reader, tableVars, hot, faults, crashes>>

\* The store's exception leaves save: only TimeoutError is caught.
Raise(n) ==
    /\ saving[n] = "awaiting" /\ task[Current(n)] = "failed"
    /\ saving' = [saving EXCEPT ![n] = "idle"]
    /\ UNCHANGED <<live, task, buf, queue, reader, tableVars, hot, faults, crashes, acked>>

\* wait_for gives up and save returns False.  Cancelling reaches a write that
\* no thread has taken yet; any other goes on, and may even have ended just now.
AfterCancel(state) == IF state = "queued" THEN "cancelled" ELSE state

\* Plausible bug: the timeout waits for the write it cannot cancel.
OverBudgetOnceOver(n) ==
    saving[n] = "awaiting" /\ task[Current(n)] \notin {"running", "holding", "inserted"}

\* The budget may run out at any moment of the await.
OverBudget(n) == saving[n] = "awaiting"

Timeout(n) ==
    /\ OverBudget(n)
    /\ task' = [task EXCEPT ![Current(n)] = AfterCancel(@)]
    /\ saving' = [saving EXCEPT ![n] = "idle"]
    /\ UNCHANGED <<live, buf, queue, reader, tableVars, hot, faults, crashes, acked>>

-----------------------------------------------------------------------------
\* A free thread takes the oldest task; a cancelled one is thrown away.
Start ==
    /\ queue # << >> /\ Busy < Workers
    /\ queue' = Tail(queue)
    /\ LET t == Head(queue) IN
       IF t \in Reader
       THEN /\ reader' = [reader EXCEPT ![t].pc = "running"]
            /\ UNCHANGED task
       ELSE /\ task' = [task EXCEPT ![t] = IF @ = "queued" THEN "running" ELSE @]
            /\ UNCHANGED reader
    /\ UNCHANGED <<live, saving, buf, tableVars, hot, faults, crashes, acked>>

\* Plausible bug: the node is serialized when save hands it over.
VersionHandedOver(w) == w[2]

\* _write_sync takes the lock and evaluates node.to_json() ...
VersionRead(w) == live[w[1]].ver

Acquire(w) ==
    /\ task[w] = "running" /\ LockFree
    /\ task' = [task EXCEPT ![w] = "holding"]
    /\ buf' = VersionRead(w)
    /\ UNCHANGED <<loopVars, queue, tableVars, faults, crashes>>

\* ... then node.checkpoint, and inserts the row in the open transaction.
Insert(w) ==
    /\ task[w] = "holding"
    /\ task' = [task EXCEPT ![w] = "inserted"]
    /\ rows' = Append(rows, [node |-> w[1], ver |-> buf, ckpt |-> live[w[1]].ckpt])
    /\ buf' = 0
    /\ UNCHANGED <<loopVars, queue, committed, faults, crashes>>

\* The insert raises (to_json, a busy or a full database); `with' unlocks.
InsertFails(w) ==
    /\ task[w] = "holding" /\ faults < MaxFaults
    /\ task' = [task EXCEPT ![w] = "failed"]
    /\ buf' = 0
    /\ faults' = faults + 1
    /\ UNCHANGED <<loopVars, queue, tableVars, crashes>>

\* commit() makes the whole open transaction durable, rows that an earlier
\* failed commit left in it included.
Commit(w) ==
    /\ task[w] = "inserted"
    /\ task' = [task EXCEPT ![w] = "landed"]
    /\ committed' = Len(rows)
    /\ UNCHANGED <<loopVars, buf, queue, rows, faults, crashes>>

\* commit() raises and nothing in the code rolls back: the transaction stays
\* open (a busy database), or SQLite itself has rolled it back (a full disk).
CommitFails(w) ==
    /\ task[w] = "inserted" /\ faults < MaxFaults
    /\ task' = [task EXCEPT ![w] = "failed"]
    /\ rows' \in {rows, Durable}
    /\ faults' = faults + 1
    /\ UNCHANGED <<loopVars, buf, queue, committed, crashes>>

-----------------------------------------------------------------------------
\* load(n): the hot tier answers at once, or a read goes to the pool.
Load(r, n) ==
    /\ reader[r].pc \in {"idle", "returned"}
    /\ \E got \in GetOutcomes(hot, n) :
          /\ hot' = got[1]
          /\ \/ /\ got[2] # None
                /\ reader' = [reader EXCEPT ![r] =
                                 [pc |-> "returned", want |-> n, row |-> Shown(n)]]
                /\ UNCHANGED queue
             \/ /\ got[2] = None
                /\ reader' = [reader EXCEPT ![r] = [pc |-> "queued", want |-> n, row |-> NoRow]]
                /\ queue' = Append(queue, r)
    /\ UNCHANGED <<live, saving, task, buf, tableVars, faults, crashes, acked>>

\* latest() never looks at the hot tier.
AskLatest(r) ==
    /\ reader[r].pc \in {"idle", "returned"}
    /\ reader' = [reader EXCEPT ![r] = [pc |-> "queued", want |-> None, row |-> NoRow]]
    /\ queue' = Append(queue, r)
    /\ UNCHANGED <<live, saving, task, buf, tableVars, hot, faults, crashes, acked>>

\* _read_sync or _latest_checkpoint_sync in a thread, under the lock.
Fetch(r) ==
    /\ reader[r].pc = "running" /\ LockFree
    /\ LET found == IF reader[r].want = None THEN LatestCheckpoint(rows)
                                             ELSE Latest(rows, reader[r].want)
       IN  reader' = [reader EXCEPT ![r].pc = "fetched", ![r].row = found]
    /\ UNCHANGED <<live, saving, task, buf, queue, tableVars, hot, faults, crashes, acked>>

\* The query raises (a busy or a damaged database, a row that is no JSON): the
\* lock is given back and the exception leaves load or latest.
FetchFails(r) ==
    /\ reader[r].pc = "running" /\ LockFree /\ faults < MaxFaults
    /\ reader' = [reader EXCEPT ![r].pc = "returned"]
    /\ faults' = faults + 1
    /\ UNCHANGED <<live, saving, task, buf, queue, tableVars, hot, crashes, acked>>

\* Back on the event loop: a node with a blob goes into the hot tier, whatever
\* the hot tier has come to hold since the read was sent.
Return(r) ==
    /\ reader[r].pc = "fetched"
    /\ LET row == reader[r].row IN
       IF row # NoRow /\ row.ckpt # NoBlob
       THEN hot' \in PutOutcomes(hot, row.node, row)
       ELSE UNCHANGED hot
    /\ reader' = [reader EXCEPT ![r].pc = "returned"]
    /\ UNCHANGED <<live, saving, task, buf, queue, tableVars, faults, crashes, acked>>

-----------------------------------------------------------------------------
\* The process dies.  The database rolls the open transaction back; the node
\* objects, the hot tier and every task are gone.  The next process makes
\* nodes of its own, with new ids.
Crash ==
    /\ crashes < MaxCrashes
    /\ crashes' = crashes + 1
    /\ rows' = Durable
    /\ saving' = [n \in Node |-> IF live[n].ver = 0 THEN "idle" ELSE "gone"]
    /\ task' = [w \in Write |-> "none"]
    /\ buf' = 0
    /\ queue' = << >>
    /\ reader' = [r \in Reader |-> IdleReader]
    /\ hot' = [n \in Node |-> None]
    /\ UNCHANGED <<live, committed, faults, acked>>

Agent(n) == Mutate(n) \/ \E withState \in BOOLEAN : Save(n, withState)
SaveEnds(n) == ReturnTrue(n) \/ Raise(n) \/ Timeout(n)
WriteThread(w) == Acquire(w) \/ Insert(w) \/ InsertFails(w) \/ Commit(w) \/ CommitFails(w)
LoadEnds(r) == Fetch(r) \/ FetchFails(r) \/ Return(r)

Next ==
    \/ \E n \in Node : Agent(n) \/ SaveEnds(n)
    \/ Start
    \/ \E w \in Write : WriteThread(w)
    \/ \E r \in Reader : (\E n \in Node : Load(r, n)) \/ AskLatest(r) \/ LoadEnds(r)
    \/ Crash

Spec == Init /\ [][Next]_vars

\* The event loop runs its callbacks and timers, nothing is said of threads.
LoopFairness == \A n \in Node : WF_vars(SaveEnds(n))

\* No SQLite call blocks for ever and the operating system runs every thread.
ThreadFairness ==
    /\ WF_vars(Start)
    /\ \A w \in Write : WF_vars(WriteThread(w))
    /\ \A r \in Reader : WF_vars(LoadEnds(r))

FairSpec == Spec /\ LoopFairness

-----------------------------------------------------------------------------
HotEntry == {None, Live} \cup Row
TaskState == {"none", "queued", "running", "holding", "inserted",
              "landed", "failed", "cancelled"}
ReaderState == [pc : {"idle", "queued", "running", "fetched", "returned"},
                want : Node \cup {None}, row : Row \cup {NoRow}]

TypeOK ==
    /\ live \in [Node -> [ver : Version, ckpt : Version]]
    /\ saving \in [Node -> {"idle", "mutated", "awaiting", "gone"}]
    /\ \A n \in Node : saving[n] \in {"mutated", "awaiting"} => live[n].ver > 0
    /\ task \in [Write -> TaskState]
    /\ buf \in Version
    /\ queue \in Seq(Write \cup Reader)
    /\ reader \in [Reader -> ReaderState]
    /\ rows \in Seq(Row)
    /\ committed \in 0..Len(rows)
    /\ hot \in [Node -> HotEntry]
    /\ faults \in 0..MaxFaults /\ crashes \in 0..MaxCrashes
    /\ acked \subseteq Row

\* A save that returned True is durable: its exact state, data and blob, is a
\* committed row, through crashes, failed commits and whatever the writes that
\* timed out before it still do.
AckedIsDurable == \A a \in acked : \E i \in 1..committed : rows[i] = a

\* Nothing older is ever read back over an acknowledged save: the row that
\* read() answers with, now or after a crash, is that state or a newer one,
\* even when the write of an earlier, missed save lands after it.
AckedNeverHidden ==
    \A a \in acked :
        \A table \in {rows, Durable} :
            LET r == Latest(table, a.node) IN
            r # NoRow /\ r.ver >= a.ver /\ r.ckpt >= a.ckpt

\* The engine and the store implement the abstract durable log.
Log == INSTANCE DurableLog WITH State <- Row, log <- Durable, acked <- acked
ImplementsDurableLog == Log!Spec

\* save returns whatever the threads do: stuck writers, a full pool and a held
\* lock never hold the agent back, the event loop's timer is enough.
SaveReturns == \A n \in Node : saving[n] = "awaiting" ~> saving[n] # "awaiting"

\* If threads run, every write that was handed to the pool is over some day, and
\* so gives the lock and its thread back, when another write raises in its
\* transaction too.
WritesSettle ==
    ThreadFairness =>
        \A w \in Write : task[w] \in {"queued", "running", "holding", "inserted"}
                            ~> task[w] \notin {"queued", "running", "holding", "inserted"}

\* load and latest have no budget: if threads run they return, because the
\* writes settle.
LoadsReturn ==
    ThreadFairness =>
        \A r \in Reader : reader[r].pc = "queued" ~> reader[r].pc \in {"returned", "idle"}

-----------------------------------------------------------------------------
\* What the documentation says and the code does not do.

\* The hot tier "must reflect the latest state even if the cold write is
\* dropped": an entry is no older than the last save of its node.
HotReflectsLatest ==
    \A n \in Node : hot[n] # None /\ saving[n] \in {"idle", "awaiting"}
                       => Shown(n).ver = live[n].ver
=============================================================================
