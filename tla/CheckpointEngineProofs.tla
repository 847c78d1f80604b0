----------------------- MODULE CheckpointEngineProofs -----------------------
(***************************************************************************)
(* Proofs about CheckpointEngine, for every number of nodes, threads,      *)
(* readers, versions, faults and crashes.                                  *)
(***************************************************************************)
EXTENDS CheckpointEngine, SQLiteStoreProofs, SequenceTheorems

-----------------------------------------------------------------------------
\* The hot tier operations only ever leave values they were given.
LEMMA PutType ==
    ASSUME NEW V, NEW h \in [Node -> V], NEW k \in Node, NEW v \in V, None \in V,
           NEW g \in PutOutcomes(h, k, v)
    PROVE  g \in [Node -> V]
BY DEF PutOutcomes

LEMMA GetType ==
    ASSUME NEW V, NEW h \in [Node -> V], NEW k \in Node, None \in V,
           NEW got \in GetOutcomes(h, k)
    PROVE  got[1] \in [Node -> V] /\ got[2] \in {h[k], None}
BY DEF GetOutcomes

\* A prefix of a sequence agrees with it.
LEMMA PrefixProperties ==
    ASSUME NEW R, NEW s \in Seq(R), NEW n \in 0..Len(s)
    PROVE  /\ SubSeq(s, 1, n) \in Seq(R) /\ Len(SubSeq(s, 1, n)) = n
           /\ DOMAIN SubSeq(s, 1, n) = 1..n
           /\ \A i \in 1..n : i \in DOMAIN s /\ SubSeq(s, 1, n)[i] = s[i]
<1>1. \A i \in 1..n : i \in DOMAIN s /\ s[i] \in R
    OBVIOUS
<1>2. n \in Nat /\ 1 \in Int /\ n \in Int
    OBVIOUS
<1>3. /\ SubSeq(s, 1, n) \in Seq(R)
      /\ Len(SubSeq(s, 1, n)) = IF 1 <= n THEN n - 1 + 1 ELSE 0
      /\ \A i \in 1..n - 1 + 1 : SubSeq(s, 1, n)[i] = s[1 + i - 1]
    BY <1>1, <1>2, SubSeqProperties
<1>4. Len(SubSeq(s, 1, n)) = n /\ \A i \in 1..n : SubSeq(s, 1, n)[i] = s[i]
    BY <1>2, <1>3
<1> QED BY <1>1, <1>3, <1>4

\* Truncating the table to its committed part keeps that part as it is.
LEMMA DurablePart ==
    ASSUME TypeOK
    PROVE  /\ Durable \in Seq(Row) /\ Len(Durable) = committed
           /\ DOMAIN Durable = 1..committed
           /\ \A i \in 1..committed : i \in DOMAIN rows /\ Durable[i] = rows[i]
BY PrefixProperties DEF TypeOK, Durable

LEMMA StampType == TypeOK => \A n \in Node : Stamp(n) \in Row
BY DEF TypeOK, Stamp, Row

LEMMA TypeInit == Init => TypeOK
<1> SUFFICES ASSUME Init PROVE TypeOK
    OBVIOUS
<1>1. 0 \in Version /\ NoBlob \in Version
    BY BoundsAssumption DEF Version, NoBlob
<1>2. queue \in Seq(Write \cup Reader) /\ rows \in Seq(Row) /\ committed \in 0..Len(rows)
    BY EmptySeq DEF Init
<1>3. faults \in 0..MaxFaults /\ crashes \in 0..MaxCrashes
    BY BoundsAssumption DEF Init
<1> QED BY <1>1, <1>2, <1>3 DEF Init, TypeOK, IdleReader, HotEntry, TaskState, ReaderState

LEMMA TypeStep == TypeOK /\ [Next]_vars => TypeOK'
<1> SUFFICES ASSUME TypeOK, [Next]_vars PROVE TypeOK'
    OBVIOUS
<1> USE DEF TypeOK, tableVars, loopVars
<1>1. ASSUME NEW n \in Node, Mutate(n) PROVE TypeOK'
    <2>1. live[n].ver + 1 \in Version
        BY <1>1, BoundsAssumption DEF Mutate, Version
    <2>2. live' \in [Node -> [ver : Version, ckpt : Version]]
        BY <1>1, <2>1 DEF Mutate
    <2>3. \A m \in Node : saving'[m] \in {"mutated", "awaiting"} => live'[m].ver > 0
        BY <1>1, BoundsAssumption DEF Mutate, Version
    <2> QED BY <1>1, <2>2, <2>3 DEF Mutate
<1>2. ASSUME NEW n \in Node, NEW s \in BOOLEAN, Save(n, s) PROVE TypeOK'
    <2>1. live' \in [Node -> [ver : Version, ckpt : Version]]
        BY <1>2 DEF Save
    <2>2. \A m \in Node : saving'[m] \in {"mutated", "awaiting"} => live'[m].ver > 0
        BY <1>2 DEF Save
    <2>3. hot' \in [Node -> HotEntry]
        BY <1>2, PutType DEF Save, HotEntry
    <2>4. Current(n) \in Write
        BY <1>2 DEF Save, Current, Write, Version
    <2>5. task' \in [Write -> TaskState]
        BY <1>2 DEF Save, TaskState
    <2>6. queue' \in Seq(Write \cup Reader)
        BY <1>2, <2>4, AppendProperties DEF Save
    <2>7. saving' \in [Node -> {"idle", "mutated", "awaiting", "gone"}]
        BY <1>2 DEF Save
    <2> QED BY <1>2, <2>1, <2>2, <2>3, <2>5, <2>6, <2>7 DEF Save
<1>3. ASSUME NEW n \in Node, ReturnTrue(n) PROVE TypeOK'
    <2>1. Stamp(n) \in Row
        BY StampType
    <2> QED BY <1>3, <2>1 DEF ReturnTrue
<1>4. ASSUME NEW n \in Node, Raise(n) PROVE TypeOK'
    BY <1>4 DEF Raise
<1>5. ASSUME NEW n \in Node, Timeout(n) PROVE TypeOK'
    <2>1. Stamp(n) \in Row
        BY StampType
    <2>2. task' \in [Write -> TaskState]
        BY <1>5 DEF Timeout, TaskState, AfterCancel
    <2> QED BY <1>5, <2>1, <2>2 DEF Timeout
<1>6. ASSUME Start PROVE TypeOK'
    <2>1. Head(queue) \in Write \cup Reader /\ queue' \in Seq(Write \cup Reader)
        BY <1>6, HeadTailProperties DEF Start
    <2>2. CASE Head(queue) \in Reader
        <3>1. [reader[Head(queue)] EXCEPT !.pc = "running"] \in ReaderState
            BY <2>2 DEF ReaderState
        <3>2. /\ reader' = [reader EXCEPT ![Head(queue)].pc = "running"]
              /\ UNCHANGED <<live, saving, task, buf, tableVars, hot, faults, crashes,
                             acked>>
            BY <1>6, <2>2 DEF Start
        <3>3. reader' \in [Reader -> ReaderState]
            BY <2>2, <3>1, <3>2
        <3> QED BY <2>1, <3>2, <3>3
    <2>3. CASE Head(queue) \notin Reader
        <3>1. task' \in [Write -> TaskState]
            BY <1>6, <2>3 DEF Start, TaskState
        <3> QED BY <1>6, <2>1, <2>3, <3>1 DEF Start
    <2> QED BY <2>2, <2>3
<1>7. ASSUME NEW w \in Write, Acquire(w) PROVE TypeOK'
    <2>1. w[1] \in Node
        BY DEF Write
    <2>2. buf' \in Version /\ task' \in [Write -> TaskState]
        BY <1>7, <2>1 DEF Acquire, VersionRead, TaskState
    <2> QED BY <1>7, <2>2 DEF Acquire
<1>8. ASSUME NEW w \in Write, Insert(w) PROVE TypeOK'
    <2> DEFINE row == [node |-> w[1], ver |-> buf, ckpt |-> live[w[1]].ckpt]
    <2>1. w[1] \in Node
        BY DEF Write
    <2>2. row \in Row
        BY <2>1 DEF Row
    <2> HIDE DEF row
    <2>3. rows' = Append(rows, row)
        BY <1>8 DEF Insert, row
    <2>4. rows' \in Seq(Row) /\ Len(rows') = Len(rows) + 1
        BY <2>2, <2>3, AppendProperties
    <2>5. committed' \in 0..Len(rows')
        BY <1>8, <2>4 DEF Insert
    <2>6. buf' \in Version /\ task' \in [Write -> TaskState]
        BY <1>8, BoundsAssumption DEF Insert, TaskState, Version
    <2> QED BY <1>8, <2>4, <2>5, <2>6 DEF Insert
<1>9. ASSUME NEW w \in Write, InsertFails(w) PROVE TypeOK'
    <2>1. buf' \in Version /\ task' \in [Write -> TaskState] /\ faults' \in 0..MaxFaults
        BY <1>9, BoundsAssumption DEF InsertFails, TaskState, Version
    <2> QED BY <1>9, <2>1 DEF InsertFails
<1>10. ASSUME NEW w \in Write, Commit(w) PROVE TypeOK'
    <2>1. task' \in [Write -> TaskState] /\ committed' \in 0..Len(rows')
        BY <1>10 DEF Commit, TaskState
    <2> QED BY <1>10, <2>1 DEF Commit
<1>11. ASSUME NEW w \in Write, CommitFails(w) PROVE TypeOK'
    <2>1. task' \in [Write -> TaskState] /\ faults' \in 0..MaxFaults
        BY <1>11, BoundsAssumption DEF CommitFails, TaskState
    <2>2. rows' \in Seq(Row) /\ committed' \in 0..Len(rows')
        BY <1>11, DurablePart DEF CommitFails
    <2> QED BY <1>11, <2>1, <2>2 DEF CommitFails
<1>12. ASSUME NEW r \in Reader, NEW n \in Node, Load(r, n) PROVE TypeOK'
    <2>1. PICK got \in GetOutcomes(hot, n) :
              /\ hot' = got[1]
              /\ \/ /\ got[2] # None
                    /\ reader' = [reader EXCEPT ![r] =
                                     [pc |-> "returned", want |-> n, row |-> Shown(n)]]
                    /\ UNCHANGED queue
                 \/ /\ got[2] = None
                    /\ reader' = [reader EXCEPT ![r] =
                                     [pc |-> "queued", want |-> n, row |-> NoRow]]
                    /\ queue' = Append(queue, r)
        BY <1>12 DEF Load
    <2>2. hot \in [Node -> HotEntry] /\ None \in HotEntry
        BY DEF HotEntry
    <2>3. hot' \in [Node -> HotEntry] /\ got[2] \in {hot[n], None}
        BY <2>1, <2>2, GetType
    <2>4. got[2] # None => Shown(n) \in Row
        BY <2>2, <2>3, StampType DEF Shown, HotEntry
    <2>5. CASE got[2] # None
        <3>1. [pc |-> "returned", want |-> n, row |-> Shown(n)] \in ReaderState
            BY <2>4, <2>5 DEF ReaderState
        <3>2. reader' = [reader EXCEPT ![r] =
                            [pc |-> "returned", want |-> n, row |-> Shown(n)]]
              /\ UNCHANGED queue
            BY <2>1, <2>5
        <3>3. reader' \in [Reader -> ReaderState]
            BY <3>1, <3>2
        <3> QED BY <1>12, <2>3, <3>2, <3>3 DEF Load
    <2>6. CASE got[2] = None
        <3>1. [pc |-> "queued", want |-> n, row |-> NoRow] \in ReaderState
            BY DEF ReaderState
        <3>2. reader' = [reader EXCEPT ![r] = [pc |-> "queued", want |-> n, row |-> NoRow]]
              /\ queue' = Append(queue, r)
            BY <2>1, <2>6
        <3>3. reader' \in [Reader -> ReaderState]
            BY <3>1, <3>2
        <3>4. queue' \in Seq(Write \cup Reader)
            BY <3>2, AppendProperties
        <3> QED BY <1>12, <2>3, <3>3, <3>4 DEF Load
    <2> QED BY <2>5, <2>6
<1>13. ASSUME NEW r \in Reader, AskLatest(r) PROVE TypeOK'
    <2>1. queue' \in Seq(Write \cup Reader)
        BY <1>13, AppendProperties DEF AskLatest
    <2>2. reader' \in [Reader -> ReaderState]
        BY <1>13 DEF AskLatest, ReaderState
    <2> QED BY <1>13, <2>1, <2>2 DEF AskLatest
<1>14. ASSUME NEW r \in Reader, Fetch(r) PROVE TypeOK'
    <2>1. LatestCheckpoint(rows) \in Row \cup {NoRow}
          /\ Latest(rows, reader[r].want) \in Row \cup {NoRow}
        BY QueriesReturnRows
    <2>2. \A row \in Row \cup {NoRow} :
              [reader[r] EXCEPT !.pc = "fetched", !.row = row] \in ReaderState
        BY DEF ReaderState
    <2>3. \E row \in Row \cup {NoRow} :
              reader' = [reader EXCEPT ![r].pc = "fetched", ![r].row = row]
        BY <1>14, <2>1 DEF Fetch
    <2>4. reader' \in [Reader -> ReaderState]
        BY <2>2, <2>3
    <2> QED BY <1>14, <2>4 DEF Fetch
<1>15. ASSUME NEW r \in Reader, Return(r) PROVE TypeOK'
    <2>1. hot' \in [Node -> HotEntry]
        <3>1. CASE reader[r].row # NoRow /\ reader[r].row.ckpt # NoBlob
            <4>1. reader[r].row \in Row /\ reader[r].row.node \in Node
                BY <3>1 DEF Row, ReaderState
            <4>2. hot' \in PutOutcomes(hot, reader[r].row.node, reader[r].row)
                BY <1>15, <3>1 DEF Return
            <4> QED BY <4>1, <4>2, PutType DEF HotEntry
        <3>2. CASE ~(reader[r].row # NoRow /\ reader[r].row.ckpt # NoBlob)
            BY <1>15, <3>2 DEF Return
        <3> QED BY <3>1, <3>2
    <2>2. reader' \in [Reader -> ReaderState]
        <3>1. [reader[r] EXCEPT !.pc = "returned"] \in ReaderState
            BY DEF ReaderState
        <3>2. reader' = [reader EXCEPT ![r].pc = "returned"]
            BY <1>15 DEF Return
        <3> QED BY <3>1, <3>2
    <2> QED BY <1>15, <2>1, <2>2 DEF Return
<1>16. ASSUME Crash PROVE TypeOK'
    <2>1. rows' \in Seq(Row) /\ committed' \in 0..Len(rows')
        BY <1>16, DurablePart DEF Crash
    <2>2. crashes' \in 0..MaxCrashes /\ buf' \in Version
        BY <1>16, BoundsAssumption DEF Crash, Version
    <2>3. queue' \in Seq(Write \cup Reader)
        BY <1>16, EmptySeq DEF Crash
    <2>4. task' \in [Write -> TaskState] /\ hot' \in [Node -> HotEntry]
        BY <1>16 DEF Crash, TaskState, HotEntry
    <2>6. reader' \in [Reader -> ReaderState]
        BY <1>16 DEF Crash, IdleReader, ReaderState
    <2>5. saving' \in [Node -> {"idle", "mutated", "awaiting", "gone"}]
          /\ \A n \in Node : saving'[n] \notin {"mutated", "awaiting"}
        BY <1>16 DEF Crash
    <2> QED BY <1>16, <2>1, <2>2, <2>3, <2>4, <2>5, <2>6 DEF Crash
<1>17. ASSUME NEW r \in Reader, FetchFails(r) PROVE TypeOK'
    <2>1. reader' \in [Reader -> ReaderState]
        <3>1. [reader[r] EXCEPT !.pc = "returned"] \in ReaderState
            BY DEF ReaderState
        <3>2. reader' = [reader EXCEPT ![r].pc = "returned"]
            BY <1>17 DEF FetchFails
        <3> QED BY <3>1, <3>2
    <2>2. faults' \in 0..MaxFaults
        BY <1>17, BoundsAssumption DEF FetchFails
    <2> QED BY <1>17, <2>1, <2>2 DEF FetchFails
<1>18. CASE UNCHANGED vars
    BY <1>18 DEF vars
<1> QED BY <1>1, <1>2, <1>3, <1>4, <1>5, <1>6, <1>7, <1>8, <1>9, <1>10, <1>11, <1>12,
           <1>13, <1>14, <1>15, <1>16, <1>17, <1>18
        DEF Next, Agent, SaveEnds, WriteThread, LoadEnds

\* The type invariant, for every number of nodes, readers, threads and faults.
THEOREM TypeCorrect == Spec => []TypeOK
<1> QED BY TypeInit, TypeStep, PTL DEF Spec

-----------------------------------------------------------------------------
\* The inductive invariant behind AckedIsDurable.

\* One thread holds the lock; what it serialized is no newer than the node is
\* now and no older than any row the node has.
LockInv ==
    /\ \A v, w \in Holding : v = w
    /\ \A w \in Holding : task[w] = "holding" =>
          /\ buf <= live[w[1]].ver
          /\ \A i \in DOMAIN rows : rows[i].node = w[1] => rows[i].ver <= buf

\* Rows are read off the live objects, and the objects only move on.
RowsBelowLive ==
    /\ \A n \in Node : live[n].ckpt <= live[n].ver
    /\ \A i \in DOMAIN rows :
          /\ rows[i].ver <= live[rows[i].node].ver
          /\ rows[i].ckpt <= live[rows[i].node].ckpt

RowsInOrder == Log!InOrder(rows)

\* While its save is awaited a node does not change, so its own write can only
\* record the state the caller will be told about.
AwaitInv ==
    \A n \in Node : saving[n] = "awaiting" =>
        LET w == Current(n) IN
        /\ task[w] = "holding" => buf = live[n].ver
        /\ task[w] = "inserted" => Len(rows) > 0 /\ rows[Len(rows)] = Stamp(n)
        /\ task[w] = "landed" => \E i \in 1..committed : rows[i] = Stamp(n)

IInv == TypeOK /\ LockInv /\ RowsBelowLive /\ RowsInOrder /\ AwaitInv /\ AckedIsDurable

LEMMA IInvInit == Init => IInv
<1> SUFFICES ASSUME Init PROVE IInv
    OBVIOUS
<1>1. TypeOK
    BY TypeInit
<1>2. rows = << >> /\ DOMAIN rows = {}
    BY DEF Init
<1>3. Holding = {}
    BY DEF Init, Holding
<1>4. LockInv /\ RowsInOrder
    BY <1>2, <1>3 DEF LockInv, RowsInOrder, Log!InOrder
<1>5. RowsBelowLive
    BY <1>2 DEF Init, RowsBelowLive, NoBlob
<1>6. AwaitInv /\ AckedIsDurable
    BY DEF Init, AwaitInv, AckedIsDurable
<1> QED BY <1>1, <1>4, <1>5, <1>6 DEF IInv

\* The steps that touch neither the objects nor the table nor a save.
LEMMA ReadsTouchNothing ==
    ASSUME [Next]_vars
    PROVE  \/ UNCHANGED <<live, saving, task, buf, rows, committed, acked>>
           \/ \E n \in Node : Agent(n) \/ SaveEnds(n)
           \/ Start
           \/ \E w \in Write : WriteThread(w)
           \/ Crash
<1>1. ASSUME NEW r \in Reader, NEW n \in Node, Load(r, n)
      PROVE  UNCHANGED <<live, saving, task, buf, rows, committed, acked>>
    BY <1>1 DEF Load, tableVars
<1>2. ASSUME NEW r \in Reader, AskLatest(r) \/ LoadEnds(r)
      PROVE  UNCHANGED <<live, saving, task, buf, rows, committed, acked>>
    BY <1>2 DEF AskLatest, LoadEnds, Fetch, FetchFails, Return, tableVars
<1>3. CASE UNCHANGED vars
    BY <1>3 DEF vars
<1> QED BY <1>1, <1>2, <1>3 DEF Next

\* Whatever the event loop does, no object goes back to an older state or blob.
LEMMA ObjectsMoveOn ==
    ASSUME TypeOK, RowsBelowLive, NEW n \in Node, Agent(n) \/ SaveEnds(n)
    PROVE  \A m \in Node : /\ live'[m].ver \in Nat /\ live'[m].ckpt \in Nat
                           /\ live[m].ver <= live'[m].ver /\ live[m].ckpt <= live'[m].ckpt
                           /\ live'[m].ckpt <= live'[m].ver
<1>1. /\ live \in [Node -> [ver : Version, ckpt : Version]]
      /\ \A m \in Node : /\ live[m].ver \in Nat /\ live[m].ckpt \in Nat
                         /\ live[m].ckpt <= live[m].ver
    BY DEF TypeOK, Version, RowsBelowLive
<1>2. CASE Mutate(n)
    <2>1. live' = [live EXCEPT ![n].ver = @ + 1]
        BY <1>2 DEF Mutate
    <2>2. \A m \in Node : /\ live'[m].ckpt = live[m].ckpt
                          /\ live'[m].ver = IF m = n THEN live[m].ver + 1 ELSE live[m].ver
        BY <1>1, <2>1
    <2> QED BY <1>1, <2>2
<1>3. ASSUME NEW s \in BOOLEAN, Save(n, s)
      PROVE  \A m \in Node : /\ live'[m].ver \in Nat /\ live'[m].ckpt \in Nat
                             /\ live[m].ver <= live'[m].ver /\ live[m].ckpt <= live'[m].ckpt
                             /\ live'[m].ckpt <= live'[m].ver
    <2>1. live' = IF s THEN [live EXCEPT ![n].ckpt = live[n].ver] ELSE live
        BY <1>3 DEF Save
    <2>2. \A m \in Node : /\ live'[m].ver = live[m].ver
                          /\ live'[m].ckpt = IF s /\ m = n THEN live[m].ver ELSE live[m].ckpt
        BY <1>1, <2>1
    <2> QED BY <1>1, <2>2
<1>4. CASE SaveEnds(n)
    BY <1>1, <1>4 DEF SaveEnds, ReturnTrue, Raise, Timeout
<1> QED BY <1>2, <1>3, <1>4 DEF Agent

\* The lock is taken by one thread at a time, and what it has serialized is
\* between the node's last row and the node.
LEMMA LockStep == IInv /\ [Next]_vars => LockInv'
<1> SUFFICES ASSUME IInv, [Next]_vars PROVE LockInv'
    OBVIOUS
<1> USE DEF tableVars, loopVars
<1>0. TypeOK /\ LockInv /\ RowsBelowLive
    BY DEF IInv
<1>1. /\ live \in [Node -> [ver : Version, ckpt : Version]]
      /\ \A n \in Node : live[n].ver \in Nat
      /\ rows \in Seq(Row) /\ committed \in 0..Len(rows)
      /\ task \in [Write -> TaskState]
      /\ \A w \in Write : w[1] \in Node
    BY <1>0 DEF TypeOK, Version, Write
<1>2. ASSUME NEW n \in Node, Agent(n) \/ SaveEnds(n) PROVE LockInv'
    <2>1. Holding' \subseteq Holding /\ \A w \in Holding' : task'[w] = task[w]
        BY <1>1, <1>2 DEF Agent, SaveEnds, Mutate, Save, ReturnTrue, Raise, Timeout,
                          Holding, AfterCancel
    <2>2. rows' = rows /\ buf' = buf
        BY <1>2 DEF Agent, SaveEnds, Mutate, Save, ReturnTrue, Raise, Timeout
    <2>3. \A m \in Node : live'[m].ver \in Nat /\ live[m].ver <= live'[m].ver
        BY <1>0, <1>2, ObjectsMoveOn DEF IInv
    <2>4. \A w \in Holding : w[1] \in Node
        BY <1>1 DEF Holding
    <2>5. buf \in Nat
        BY <1>0 DEF TypeOK, Version
    <2> QED BY <1>0, <1>1, <2>1, <2>2, <2>3, <2>4, <2>5 DEF LockInv
<1>3. CASE Start
    <2>1. Holding' \subseteq Holding /\ \A w \in Holding' : task'[w] = task[w]
        BY <1>1, <1>3 DEF Start, Holding
    <2>2. rows' = rows /\ buf' = buf /\ live' = live
        BY <1>3 DEF Start
    <2> QED BY <1>0, <2>1, <2>2 DEF LockInv
<1>4. ASSUME NEW w \in Write, Acquire(w) PROVE LockInv'
    <2>1. Holding' = {w}
        BY <1>1, <1>4 DEF Acquire, Holding, LockFree
    <2>2. rows' = rows /\ live' = live /\ buf' = live[w[1]].ver
        BY <1>4 DEF Acquire, VersionRead
    <2>3. \A i \in DOMAIN rows : rows[i].ver <= live[rows[i].node].ver
        BY <1>0 DEF RowsBelowLive
    <2>4. buf' <= live'[w[1]].ver
        BY <1>1, <2>2
    <2>5. \A i \in DOMAIN rows' : rows'[i].node = w[1] => rows'[i].ver <= buf'
        BY <2>2, <2>3
    <2> QED BY <2>1, <2>4, <2>5 DEF LockInv
<1>5. ASSUME NEW w \in Write,
             Insert(w) \/ InsertFails(w) \/ Commit(w) \/ CommitFails(w)
      PROVE  LockInv'
    <2>1. Holding' \subseteq Holding /\ w \in Holding
        BY <1>1, <1>5 DEF Insert, InsertFails, Commit, CommitFails, Holding
    <2>2. \A v \in Holding' : v = w
        BY <1>0, <2>1 DEF LockInv
    <2>3. task'[w] # "holding"
        BY <1>1, <1>5 DEF Insert, InsertFails, Commit, CommitFails
    <2> QED BY <2>2, <2>3 DEF LockInv
<1>6. CASE Crash
    <2>1. Holding' = {}
        BY <1>6 DEF Crash, Holding
    <2> QED BY <2>1 DEF LockInv
<1>7. CASE UNCHANGED <<live, saving, task, buf, rows, committed, acked>>
    BY <1>0, <1>7 DEF LockInv, Holding
<1> QED BY <1>2, <1>3, <1>4, <1>5, <1>6, <1>7, ReadsTouchNothing DEF WriteThread

\* A row shows an object as it was, and the object only moves on.
LEMMA BelowLiveStep == IInv /\ [Next]_vars => RowsBelowLive'
<1> SUFFICES ASSUME IInv, [Next]_vars PROVE RowsBelowLive'
    OBVIOUS
<1> USE DEF tableVars, loopVars
<1>0. TypeOK /\ LockInv /\ RowsBelowLive
    BY DEF IInv
<1>1. /\ live \in [Node -> [ver : Version, ckpt : Version]]
      /\ \A n \in Node : live[n].ver \in Nat /\ live[n].ckpt \in Nat
      /\ rows \in Seq(Row) /\ committed \in 0..Len(rows)
      /\ \A w \in Write : w[1] \in Node
      /\ \A i \in DOMAIN rows : /\ rows[i].node \in Node
                                /\ rows[i].ver \in Nat /\ rows[i].ckpt \in Nat
    <2>1. rows \in Seq(Row)
        BY <1>0 DEF TypeOK
    <2>2. \A i \in DOMAIN rows : rows[i] \in Row
        BY <2>1
    <2>3. live \in [Node -> [ver : Version, ckpt : Version]] /\ committed \in 0..Len(rows)
        BY <1>0 DEF TypeOK
    <2>4. \A n \in Node : live[n].ver \in Nat /\ live[n].ckpt \in Nat
        BY <2>3 DEF Version
    <2>5. \A i \in DOMAIN rows : /\ rows[i].node \in Node
                                 /\ rows[i].ver \in Nat /\ rows[i].ckpt \in Nat
        BY <2>2 DEF Row, Version
    <2>6. \A w \in Write : w[1] \in Node
        BY DEF Write
    <2> QED BY <2>1, <2>3, <2>4, <2>5, <2>6
<1>2. ASSUME NEW n \in Node, Agent(n) \/ SaveEnds(n) PROVE RowsBelowLive'
    <2>1. rows' = rows
        BY <1>2 DEF Agent, SaveEnds, Mutate, Save, ReturnTrue, Raise, Timeout
    <2>2. \A m \in Node : /\ live'[m].ver \in Nat /\ live'[m].ckpt \in Nat
                          /\ live[m].ver <= live'[m].ver /\ live[m].ckpt <= live'[m].ckpt
                          /\ live'[m].ckpt <= live'[m].ver
        BY <1>0, <1>2, ObjectsMoveOn
    <2>3. \A i \in DOMAIN rows : /\ rows[i].ver <= live[rows[i].node].ver
                                 /\ rows[i].ckpt <= live[rows[i].node].ckpt
        BY <1>0 DEF RowsBelowLive
    <2>4. ASSUME NEW i \in DOMAIN rows
          PROVE  /\ rows[i].ver <= live'[rows[i].node].ver
                 /\ rows[i].ckpt <= live'[rows[i].node].ckpt
        <3>1. rows[i].node \in Node /\ rows[i].ver \in Nat /\ rows[i].ckpt \in Nat
            BY <1>1
        <3>2. live[rows[i].node].ver \in Nat /\ live[rows[i].node].ckpt \in Nat
            BY <1>1, <3>1
        <3> QED BY <2>2, <2>3, <3>1, <3>2
    <2> QED BY <2>1, <2>2, <2>4 DEF RowsBelowLive
<1>3. CASE Start
    BY <1>0, <1>3 DEF Start, RowsBelowLive
<1>4. ASSUME NEW w \in Write, Insert(w) PROVE RowsBelowLive'
    <2> DEFINE row == [node |-> w[1], ver |-> buf, ckpt |-> live[w[1]].ckpt]
    <2>1. w[1] \in Node /\ row \in Row
        BY <1>0, <1>1 DEF Row, TypeOK
    <2>2. row.ver <= live[row.node].ver /\ row.ckpt <= live[row.node].ckpt
        <3>1. w \in Holding /\ task[w] = "holding"
            BY <1>4 DEF Insert, Holding
        <3> QED BY <1>0, <1>1, <2>1, <3>1 DEF LockInv
    <2> HIDE DEF row
    <2>3. live' = live /\ rows' = Append(rows, row)
        BY <1>4 DEF Insert, row
    <2>4. /\ DOMAIN rows' = 1..(Len(rows) + 1) /\ DOMAIN rows = 1..Len(rows)
          /\ \A i \in DOMAIN rows : rows'[i] = rows[i]
          /\ rows'[Len(rows) + 1] = row
        BY <1>1, <2>1, <2>3, AppendProperties
    <2>5. \A i \in DOMAIN rows' : rows'[i].ver <= live[rows'[i].node].ver
                                  /\ rows'[i].ckpt <= live[rows'[i].node].ckpt
        BY <1>0, <2>2, <2>4 DEF RowsBelowLive
    <2> QED BY <1>0, <2>3, <2>5 DEF RowsBelowLive
<1>5. ASSUME NEW w \in Write, Acquire(w) \/ InsertFails(w) \/ Commit(w) PROVE RowsBelowLive'
    BY <1>0, <1>5 DEF Acquire, InsertFails, Commit, RowsBelowLive
<1>6. ASSUME live' = live, rows' \in {rows, Durable} PROVE RowsBelowLive'
    <2>1. DOMAIN Durable = 1..committed /\ \A i \in 1..committed : i \in DOMAIN rows
                                                        /\ Durable[i] = rows[i]
        BY <1>0, DurablePart
    <2> QED BY <1>0, <1>6, <2>1 DEF RowsBelowLive
<1>7. CASE UNCHANGED <<live, saving, task, buf, rows, committed, acked>>
    BY <1>0, <1>7 DEF RowsBelowLive
<1> QED BY <1>2, <1>3, <1>4, <1>5, <1>6, <1>7, ReadsTouchNothing
        DEF WriteThread, CommitFails, Crash

\* A row is appended by the lock holder, and is no older than its node's rows.
LEMMA InOrderStep == IInv /\ [Next]_vars => RowsInOrder'
<1> SUFFICES ASSUME IInv, [Next]_vars PROVE RowsInOrder'
    OBVIOUS
<1> USE DEF tableVars, loopVars
<1>0. TypeOK /\ LockInv /\ RowsBelowLive /\ RowsInOrder
    BY DEF IInv
<1>1. rows \in Seq(Row) /\ \A i \in DOMAIN rows : rows[i] \in Row
    <2>1. rows \in Seq(Row)
        BY <1>0 DEF TypeOK
    <2> QED BY <2>1
<1>2. CASE rows' = rows
    BY <1>0, <1>2 DEF RowsInOrder, Log!InOrder
<1>3. ASSUME NEW w \in Write, Insert(w) PROVE RowsInOrder'
    <2> DEFINE row == [node |-> w[1], ver |-> buf, ckpt |-> live[w[1]].ckpt]
    <2>1. w[1] \in Node /\ row \in Row
        BY <1>0 DEF Row, TypeOK, Write
    <2>2. \A i \in DOMAIN rows : rows[i].node = row.node =>
              rows[i].ver <= row.ver /\ rows[i].ckpt <= row.ckpt
        <3>1. w \in Holding /\ task[w] = "holding"
            BY <1>3 DEF Insert, Holding
        <3>2. \A i \in DOMAIN rows : rows[i].node = w[1] => rows[i].ver <= buf
            BY <1>0, <3>1 DEF LockInv
        <3>3. \A i \in DOMAIN rows : rows[i].node = w[1] => rows[i].ckpt <= live[w[1]].ckpt
            BY <1>0 DEF RowsBelowLive
        <3> QED BY <3>2, <3>3
    <2>3. row.ver <= row.ver /\ row.ckpt <= row.ckpt
        BY <1>0, <2>1 DEF TypeOK, Version
    <2> HIDE DEF row
    <2>4. rows' = Append(rows, row)
        BY <1>3 DEF Insert, row
    <2>5. /\ DOMAIN rows' = 1..(Len(rows) + 1) /\ DOMAIN rows = 1..Len(rows)
          /\ Len(rows) \in Nat
          /\ \A i \in DOMAIN rows : rows'[i] = rows[i]
          /\ rows'[Len(rows) + 1] = row
        BY <1>1, <2>1, <2>4, AppendProperties
    <2>6. ASSUME NEW i \in DOMAIN rows', NEW j \in DOMAIN rows',
                 i <= j, rows'[i].node = rows'[j].node
          PROVE  rows'[i].ver <= rows'[j].ver /\ rows'[i].ckpt <= rows'[j].ckpt
        <3>1. CASE j \in DOMAIN rows
            <4>1. i \in DOMAIN rows
                BY <2>5, <2>6, <3>1
            <4> QED BY <1>0, <2>5, <2>6, <3>1, <4>1 DEF RowsInOrder, Log!InOrder
        <3>2. CASE j \notin DOMAIN rows
            <4>1. rows'[j] = row
                BY <2>5, <2>6, <3>2
            <4>2. CASE i \in DOMAIN rows
                BY <2>2, <2>5, <2>6, <4>1, <4>2
            <4>3. CASE i \notin DOMAIN rows
                <5>1. rows'[i] = row
                    BY <2>5, <2>6, <4>3
                <5> QED BY <2>3, <4>1, <5>1
            <4> QED BY <4>2, <4>3
        <3> QED BY <3>1, <3>2
    <2> QED BY <2>6 DEF RowsInOrder, Log!InOrder
<1>4. CASE rows' = Durable
    <2>1. DOMAIN Durable = 1..committed /\ \A i \in 1..committed : i \in DOMAIN rows
                                                        /\ Durable[i] = rows[i]
        BY <1>0, DurablePart
    <2> QED BY <1>0, <1>4, <2>1 DEF RowsInOrder, Log!InOrder
<1>5. ASSUME NEW w \in Write, Acquire(w) \/ InsertFails(w) \/ Commit(w) PROVE rows' = rows
    BY <1>5 DEF Acquire, InsertFails, Commit
<1>6. ASSUME NEW n \in Node, Agent(n) \/ SaveEnds(n) PROVE rows' = rows
    BY <1>6 DEF Agent, SaveEnds, Mutate, Save, ReturnTrue, Raise, Timeout
<1>7. CASE Start
    BY <1>2, <1>7 DEF Start
<1> QED BY <1>2, <1>3, <1>4, <1>5, <1>6, <1>7, ReadsTouchNothing
        DEF WriteThread, CommitFails, Crash

\* A committed row stays where it is, whatever happens.
LEMMA CommittedStays ==
    ASSUME TypeOK, TypeOK', [Next]_vars
    PROVE  committed <= committed' /\ \A i \in 1..committed : rows'[i] = rows[i]
<1> USE DEF tableVars, loopVars
<1>1. /\ committed \in Nat /\ rows \in Seq(Row) /\ committed <= Len(rows)
      /\ committed' \in Nat /\ committed <= committed
      /\ 1..committed \subseteq DOMAIN rows
    BY DEF TypeOK
<1>2. CASE rows' = rows /\ committed' = committed
    BY <1>1, <1>2
<1>3. ASSUME NEW w \in Write, Insert(w)
      PROVE  committed <= committed' /\ \A i \in 1..committed : rows'[i] = rows[i]
    <2> DEFINE row == [node |-> w[1], ver |-> buf, ckpt |-> live[w[1]].ckpt]
    <2>1. row \in Row
        BY DEF Row, TypeOK, Write
    <2> HIDE DEF row
    <2>2. rows' = Append(rows, row) /\ committed' = committed
        BY <1>3 DEF Insert, row
    <2> QED BY <1>1, <2>1, <2>2, AppendProperties
<1>4. ASSUME NEW w \in Write, Commit(w)
      PROVE  committed <= committed' /\ \A i \in 1..committed : rows'[i] = rows[i]
    BY <1>1, <1>4 DEF Commit
<1>5. CASE rows' = Durable /\ committed' = committed
    BY <1>1, <1>5, DurablePart
<1>6. ASSUME NEW w \in Write, Acquire(w) \/ InsertFails(w)
      PROVE  rows' = rows /\ committed' = committed
    BY <1>6 DEF Acquire, InsertFails
<1>7. ASSUME NEW n \in Node, Agent(n) \/ SaveEnds(n)
      PROVE  rows' = rows /\ committed' = committed
    BY <1>7 DEF Agent, SaveEnds, Mutate, Save, ReturnTrue, Raise, Timeout
<1>8. CASE Start
    BY <1>2, <1>8 DEF Start
<1> QED BY <1>2, <1>3, <1>4, <1>5, <1>6, <1>7, <1>8, ReadsTouchNothing
        DEF WriteThread, CommitFails, Crash

\* What save is told about its own write is what the write did.
LEMMA AwaitStep == IInv /\ TypeOK' /\ [Next]_vars => AwaitInv'
<1> SUFFICES ASSUME IInv, TypeOK', [Next]_vars,
                    NEW n \in Node, saving'[n] = "awaiting"
             PROVE  /\ task'[Current(n)'] = "holding" => buf' = live'[n].ver
                    /\ task'[Current(n)'] = "inserted" =>
                          Len(rows') > 0 /\ rows'[Len(rows')] = Stamp(n)'
                    /\ task'[Current(n)'] = "landed" =>
                          \E i \in 1..committed' : rows'[i] = Stamp(n)'
    BY DEF AwaitInv
<1> USE DEF tableVars, loopVars
<1> DEFINE me == Current(n)
           Told == /\ task'[Current(n)'] = "holding" => buf' = live'[n].ver
                   /\ task'[Current(n)'] = "inserted" =>
                         Len(rows') > 0 /\ rows'[Len(rows')] = Stamp(n)'
                   /\ task'[Current(n)'] = "landed" =>
                         \E i \in 1..committed' : rows'[i] = Stamp(n)'
<1>0. TypeOK /\ LockInv /\ AwaitInv
    BY DEF IInv
<1>1. /\ live \in [Node -> [ver : Version, ckpt : Version]]
      /\ saving \in [Node -> {"idle", "mutated", "awaiting", "gone"}]
      /\ task \in [Write -> TaskState]
      /\ rows \in Seq(Row) /\ committed \in 0..Len(rows)
    BY <1>0 DEF TypeOK
<1>2. ASSUME saving[n] = "awaiting"
      PROVE  /\ me \in Write
             /\ task[me] = "holding" => buf = live[n].ver
             /\ task[me] = "inserted" => Len(rows) > 0 /\ rows[Len(rows)] = Stamp(n)
             /\ task[me] = "landed" => \E i \in 1..committed : rows[i] = Stamp(n)
    <2>1. live[n].ver > 0
        BY <1>0, <1>2 DEF TypeOK
    <2>2. me \in Write
        BY <1>1, <2>1 DEF Write, Current, Version
    <2> QED BY <1>0, <1>2, <2>2 DEF AwaitInv
<1>3. ASSUME UNCHANGED <<live, task, buf, rows, committed>>, saving[n] = "awaiting" PROVE Told
    BY <1>2, <1>3 DEF Stamp, Current
<1>4. ASSUME NEW m \in Node, Agent(m) \/ SaveEnds(m) PROVE Told
    <2>1. CASE m = n
        <3>1. PICK s \in BOOLEAN : Save(n, s)
            BY <1>1, <1>4, <2>1 DEF Agent, SaveEnds, Mutate, ReturnTrue, Raise, Timeout
        <3>2. live[n].ver > 0 /\ Current(n)' = me
            BY <1>0, <1>1, <3>1 DEF TypeOK, Save, Current
        <3>3. me \in Write
            BY <1>1, <3>2 DEF Write, Current, Version
        <3>4. task'[me] = "queued"
            BY <1>1, <3>1, <3>3 DEF Save
        <3> QED BY <3>2, <3>4
    <2>2. CASE m # n
        <3>1. saving[n] = "awaiting" /\ live'[n] = live[n] /\ rows' = rows
              /\ committed' = committed /\ buf' = buf
            BY <1>1, <1>4, <2>2
               DEF Agent, SaveEnds, Mutate, Save, ReturnTrue, Raise, Timeout
        <3>2. Current(n)' = me /\ Stamp(n)' = Stamp(n) /\ Current(m) # me
            BY <2>2, <3>1 DEF Current, Stamp
        <3>3. task'[me] = task[me]
            BY <1>1, <1>2, <1>4, <3>1, <3>2
               DEF Agent, SaveEnds, Mutate, Save, ReturnTrue, Raise, Timeout
        <3> QED BY <1>2, <3>1, <3>2, <3>3
    <2> QED BY <2>1, <2>2
<1>5. CASE Start
    <2>1. /\ UNCHANGED <<live, saving, buf, rows, committed>>
          /\ task'[me] \in {task[me], "running"}
        BY <1>1, <1>2, <1>5 DEF Start
    <2> QED BY <1>2, <2>1 DEF Stamp, Current
<1>6. ASSUME NEW w \in Write, WriteThread(w) PROVE Told
    <2>1. saving[n] = "awaiting" /\ live' = live
        BY <1>6 DEF WriteThread, Acquire, Insert, InsertFails, Commit, CommitFails
    <2>2. Current(n)' = me /\ Stamp(n)' = Stamp(n)
        BY <2>1 DEF Current, Stamp
    <2>3. CASE w # me
        <3>1. task'[me] = task[me]
            BY <1>1, <1>2, <1>6, <2>1, <2>3
               DEF WriteThread, Acquire, Insert, InsertFails, Commit, CommitFails
        <3>2. CASE task[me] \in {"holding", "inserted"}
            <4>1. me \in Holding /\ me # w
                BY <1>2, <2>1, <2>3, <3>2 DEF Holding
            <4>2. Holding # {} /\ w \notin Holding
                BY <1>0, <4>1 DEF LockInv
            <4> QED BY <1>6, <4>2
                    DEF WriteThread, Acquire, Insert, InsertFails, Commit, CommitFails,
                        LockFree, Holding
        <3>3. CASE task[me] \notin {"holding", "inserted"}
            <4>1. committed <= committed' /\ \A i \in 1..committed : rows'[i] = rows[i]
                BY <1>0, CommittedStays
            <4>2. committed \in Nat /\ committed' \in Nat
                BY <1>0 DEF TypeOK
            <4>3. 1..committed \subseteq 1..committed'
                BY <4>1, <4>2
            <4> QED BY <1>2, <2>1, <2>2, <3>1, <3>3, <4>1, <4>3
        <3> QED BY <3>2, <3>3
    <2>4. CASE w = me
        <3>1. CASE Acquire(me)
            <4>1. task'[me] = "holding" /\ buf' = live[n].ver
                BY <1>1, <1>2, <2>1, <3>1 DEF Acquire, VersionRead, Current
            <4> QED BY <2>1, <2>2, <4>1
        <3>2. CASE Insert(me)
            <4>1. task[me] = "holding" /\ task'[me] = "inserted"
                BY <1>1, <1>2, <2>1, <3>2 DEF Insert
            <4>2. Stamp(n) = [node |-> me[1], ver |-> buf, ckpt |-> live[me[1]].ckpt]
                BY <1>2, <2>1, <4>1 DEF Stamp, Current
            <4>3. rows' = Append(rows, Stamp(n)) /\ Stamp(n) \in Row
                BY <1>0, <3>2, <4>2, StampType DEF Insert
            <4>4. Len(rows') = Len(rows) + 1 /\ rows'[Len(rows) + 1] = Stamp(n)
                BY <1>1, <4>3, AppendProperties
            <4> QED BY <1>1, <2>2, <4>1, <4>4
        <3>3. CASE InsertFails(me) \/ CommitFails(me)
            <4>1. task'[me] = "failed"
                BY <1>1, <1>2, <2>1, <3>3 DEF InsertFails, CommitFails
            <4> QED BY <2>2, <4>1
        <3>4. CASE Commit(me)
            <4>1. /\ task[me] = "inserted" /\ task'[me] = "landed"
                  /\ rows' = rows /\ committed' = Len(rows)
                BY <1>1, <1>2, <2>1, <3>4 DEF Commit
            <4>2. Len(rows) > 0 /\ rows[Len(rows)] = Stamp(n) /\ Len(rows) \in Nat
                BY <1>1, <1>2, <2>1, <4>1
            <4>3. Len(rows) \in 1..committed'
                BY <4>1, <4>2
            <4> QED BY <2>2, <4>1, <4>2, <4>3
        <3> QED BY <1>6, <2>4, <3>1, <3>2, <3>3, <3>4 DEF WriteThread
    <2> QED BY <2>3, <2>4
<1>7. CASE Crash
    BY <1>7 DEF Crash
<1> QED BY <1>3, <1>4, <1>5, <1>6, <1>7, ReadsTouchNothing

\* save returns True only for a state that is then in the committed table.
LEMMA AckedStep == IInv /\ TypeOK' /\ [Next]_vars => AckedIsDurable'
<1> SUFFICES ASSUME IInv, TypeOK', [Next]_vars PROVE AckedIsDurable'
    OBVIOUS
<1> USE DEF tableVars, loopVars
<1>0. TypeOK /\ AwaitInv /\ AckedIsDurable
    BY DEF IInv
<1>1. committed <= committed' /\ \A i \in 1..committed : rows'[i] = rows[i]
    BY <1>0, CommittedStays
<1>2. 1..committed \subseteq 1..committed'
    BY <1>0, <1>1 DEF TypeOK
<1>3. CASE acked' = acked
    BY <1>0, <1>1, <1>2, <1>3 DEF AckedIsDurable
<1>4. ASSUME NEW n \in Node, ReturnTrue(n) PROVE AckedIsDurable'
    <2>1. acked' = acked \cup {Stamp(n)}
        BY <1>4 DEF ReturnTrue
    <2>2. \E i \in 1..committed : rows[i] = Stamp(n)
        BY <1>0, <1>4 DEF ReturnTrue, WriteDone, AwaitInv
    <2> QED BY <1>0, <1>1, <1>2, <2>1, <2>2 DEF AckedIsDurable
<1>5. ASSUME NEW n \in Node, Agent(n) \/ Raise(n) \/ Timeout(n) PROVE acked' = acked
    BY <1>5 DEF Agent, Mutate, Save, Raise, Timeout
<1>6. CASE Start \/ Crash
    BY <1>3, <1>6 DEF Start, Crash
<1>7. ASSUME NEW w \in Write, WriteThread(w) PROVE acked' = acked
    BY <1>7 DEF WriteThread, Acquire, Insert, InsertFails, Commit, CommitFails
<1> QED BY <1>3, <1>4, <1>5, <1>6, <1>7, ReadsTouchNothing DEF SaveEnds

LEMMA IInvStep == IInv /\ [Next]_vars => IInv'
<1> SUFFICES ASSUME IInv, [Next]_vars PROVE IInv'
    OBVIOUS
<1>1. TypeOK'
    BY TypeStep DEF IInv
<1>2. LockInv' /\ RowsBelowLive' /\ RowsInOrder'
    BY LockStep, BelowLiveStep, InOrderStep
<1>3. AwaitInv' /\ AckedIsDurable'
    BY <1>1, AwaitStep, AckedStep
<1> QED BY <1>1, <1>2, <1>3 DEF IInv

LEMMA Invariance == Spec => []IInv
<1> QED BY IInvInit, IInvStep, PTL DEF Spec

\* Every state that a save acknowledged is a committed row, in every reachable
\* state: after timeouts of earlier saves, failed commits and crashes.
THEOREM AckedDurable == Spec => []AckedIsDurable
<1>1. IInv => AckedIsDurable
    BY DEF IInv
<1> QED BY <1>1, Invariance, PTL

\* No read after an acknowledged save answers with anything older.
THEOREM AckedVisible == Spec => []AckedNeverHidden
<1>1. ASSUME IInv PROVE AckedNeverHidden
    <2> SUFFICES ASSUME NEW a \in acked, NEW table \in {rows, Durable}
                 PROVE  /\ Latest(table, a.node) # NoRow
                        /\ Latest(table, a.node).ver >= a.ver
                        /\ Latest(table, a.node).ckpt >= a.ckpt
        BY DEF AckedNeverHidden
    <2>1. TypeOK /\ RowsInOrder /\ AckedIsDurable
        BY <1>1 DEF IInv
    <2>2. PICK k \in 1..committed : rows[k] = a
        BY <2>1 DEF AckedIsDurable
    <2>3. /\ table \in Seq(Row) /\ k \in DOMAIN table /\ table[k] = a
          /\ \A i \in DOMAIN table : i \in DOMAIN rows /\ table[i] = rows[i]
        BY <2>1, <2>2, DurablePart DEF TypeOK
    <2>4. RowsOf(table, a.node) \in SUBSET DOMAIN table /\ k \in RowsOf(table, a.node)
        BY <2>3 DEF RowsOf
    <2>5. PICK m \in RowsOf(table, a.node) :
              Latest(table, a.node) = table[m] /\ k <= m
        BY <2>3, <2>4, NewestIsLast DEF Latest
    <2>6. k \in DOMAIN rows /\ m \in DOMAIN rows /\ k <= m
          /\ rows[k].node = rows[m].node /\ table[m] = rows[m]
        BY <2>2, <2>3, <2>4, <2>5 DEF RowsOf
    <2>7. rows[k].ver <= rows[m].ver /\ rows[k].ckpt <= rows[m].ckpt
        BY <2>1, <2>6 DEF RowsInOrder, Log!InOrder
    <2>8. rows[k] \in Row /\ rows[m] \in Row
        BY <2>1, <2>6 DEF TypeOK
    <2>9. /\ rows[k].ver \in Int /\ rows[m].ver \in Int
          /\ rows[k].ckpt \in Int /\ rows[m].ckpt \in Int
        BY <2>8 DEF Row, Version
    <2>10. Latest(table, a.node) = rows[m] /\ rows[m] # NoRow
        BY <2>5, <2>6, <2>8, SentinelAssumption
    <2> QED BY <2>2, <2>7, <2>9, <2>10
<1> QED BY <1>1, Invariance, PTL

-----------------------------------------------------------------------------
\* The engine and its store implement the durable log.

LEMMA PrefixInOrder ==
    ASSUME NEW s \in Seq(Row), NEW n \in 0..Len(s), Log!InOrder(s)
    PROVE  Log!InOrder(SubSeq(s, 1, n))
<1>1. /\ DOMAIN SubSeq(s, 1, n) = 1..n
      /\ \A i \in 1..n : i \in DOMAIN s /\ SubSeq(s, 1, n)[i] = s[i]
    BY PrefixProperties
<1> QED BY <1>1 DEF Log!InOrder

LEMMA LogInit == Init => Log!Init
<1> SUFFICES ASSUME Init PROVE Durable = << >> /\ acked = {}
    BY DEF Log!Init
<1>1. TypeOK
    BY TypeInit
<1>2. Durable \in Seq(Row) /\ Len(Durable) = 0
    BY <1>1, DurablePart DEF Init
<1> QED BY <1>2, EmptySeq DEF Init

LEMMA LogStep == IInv /\ IInv' /\ [Next]_vars => [Log!Next]_(Log!vars)
<1> SUFFICES ASSUME IInv, IInv', [Next]_vars PROVE [Log!Next]_(Log!vars)
    OBVIOUS
<1> USE DEF tableVars, loopVars
<1>0. TypeOK /\ AwaitInv /\ TypeOK' /\ RowsInOrder'
    BY DEF IInv
<1>1. /\ rows \in Seq(Row) /\ committed \in 0..Len(rows)
      /\ rows' \in Seq(Row) /\ committed' \in 0..Len(rows')
    BY <1>0 DEF TypeOK
<1>2. committed <= committed' /\ \A i \in 1..committed : rows'[i] = rows[i]
    BY <1>0, CommittedStays
<1>3. /\ Durable \in Seq(Row) /\ Len(Durable) = committed
      /\ \A i \in 1..committed : i \in DOMAIN rows /\ Durable[i] = rows[i]
    BY <1>0, DurablePart
<1>4. /\ Durable' \in Seq(Row) /\ Len(Durable') = committed'
      /\ \A i \in 1..committed' : i \in DOMAIN rows' /\ Durable'[i] = rows'[i]
    BY <1>1, PrefixProperties DEF Durable
<1>5. ASSUME committed' = committed PROVE Durable' = Durable
    BY <1>1, <1>2, <1>3, <1>4, <1>5, SeqEqual
<1>6. CASE committed' = committed /\ acked' = acked
    BY <1>5, <1>6 DEF Log!vars
<1>7. ASSUME NEW n \in Node, ReturnTrue(n) PROVE Log!Next
    <2>1. committed' = committed /\ acked' = acked \cup {Stamp(n)}
        BY <1>7 DEF ReturnTrue
    <2>2. PICK i \in 1..committed : rows[i] = Stamp(n)
        BY <1>0, <1>7 DEF ReturnTrue, WriteDone, AwaitInv
    <2>3. i \in DOMAIN Durable /\ Durable[i] = Stamp(n)
        BY <1>1, <1>3, <2>2
    <2> QED BY <1>5, <2>1, <2>3 DEF Log!Next, Log!Ack
<1>8. ASSUME NEW w \in Write, Commit(w), committed' # committed PROVE Log!Next
    <2>1. acked' = acked
        BY <1>8 DEF Commit
    <2>2. Len(Durable') > Len(Durable)
        BY <1>1, <1>2, <1>3, <1>4, <1>8
    <2>3. SubSeq(Durable', 1, Len(Durable)) = Durable
        <3>1. Len(Durable) \in 0..Len(Durable')
            BY <1>1, <1>3, <1>4, <2>2
        <3>2. /\ SubSeq(Durable', 1, Len(Durable)) \in Seq(Row)
              /\ Len(SubSeq(Durable', 1, Len(Durable))) = Len(Durable)
              /\ \A i \in 1..Len(Durable) : SubSeq(Durable', 1, Len(Durable))[i] = Durable'[i]
            BY <1>4, <3>1, PrefixProperties
        <3>3. \A i \in 1..Len(Durable) : Durable'[i] = Durable[i]
            BY <1>1, <1>2, <1>3, <1>4
        <3> QED BY <1>3, <3>2, <3>3, SeqEqual
    <2>4. Log!InOrder(Durable')
        BY <1>0, <1>1, PrefixInOrder DEF Durable, RowsInOrder
    <2> QED BY <1>4, <2>1, <2>2, <2>3, <2>4 DEF Log!Next, Log!Extend
<1>9. ASSUME NEW n \in Node, Agent(n) \/ Raise(n) \/ Timeout(n)
      PROVE  committed' = committed /\ acked' = acked
    BY <1>9 DEF Agent, Mutate, Save, Raise, Timeout
<1>10. ASSUME NEW w \in Write, WriteThread(w)
       PROVE  acked' = acked /\ (committed' = committed \/ Commit(w))
    BY <1>10 DEF WriteThread, Acquire, Insert, InsertFails, Commit, CommitFails
<1>11. CASE Start \/ Crash
    BY <1>6, <1>11 DEF Start, Crash
<1> QED BY <1>6, <1>7, <1>8, <1>9, <1>10, <1>11, ReadsTouchNothing DEF SaveEnds

\* Every behaviour of the engine over SQLite is a behaviour of the durable log.
THEOREM EngineImplementsDurableLog == Spec => ImplementsDurableLog
<1> QED BY LogInit, LogStep, Invariance, PTL DEF ImplementsDurableLog, Log!Spec, Spec
=============================================================================
