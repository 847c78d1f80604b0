--------------------------- MODULE RecoveryProofs ---------------------------
(***************************************************************************)
(* What RecoveryEngine promises, for any number of nodes, overlapping      *)
(* steps, missed saves, crashes and repeated recoveries: nothing that has  *)
(* a checkpoint is started afresh, and no effect happens twice.  For an    *)
(* agent that runs one step at a time and whose saves are in time, also:   *)
(* no step is forgotten, and the latest acknowledged checkpoint is what is *)
(* resumed from.                                                           *)
(***************************************************************************)
EXTENDS Recovery, SQLiteStoreProofs

Row == [node : Node, ckpt : Nat]

\* Blobs in the table, NoBlob if some row has none.
Recorded == {table[i].ckpt : i \in DOMAIN table}

Shape ==
    /\ saved \in [Node -> {"none", "pending", "landed"}]
    /\ ckpt \in [Node -> Nat]
    /\ table \in Seq(Row)
    /\ "pc" \in DOMAIN rec

\* A save whose write has landed can be acknowledged: its blob is in a row.
LandedIsRecorded == \A n \in Node : saved[n] = "landed" => ckpt[n] \in Recorded

AckedIsRecorded == acked \subseteq Recorded \ {NoBlob}

\* Nothing is recovered while its agent runs, so nothing is acknowledged later.
RecoveryComesAfter == rec.pc # "none" => agent = "down"

IInv == /\ Shape /\ LandedIsRecorded /\ AckedIsRecorded
        /\ RecoveryComesAfter /\ NeverForgetsCheckpoint

-----------------------------------------------------------------------------
\* A row that is added takes no blob away.
LEMMA RecordedGrows ==
    ASSUME Shape, NEW n \in Node, table' = Append(table, RowNow(n))
    PROVE  table' \in Seq(Row) /\ Recorded' = Recorded \cup {ckpt[n]}
<1>1. RowNow(n) \in Row /\ RowNow(n).ckpt = ckpt[n]
    BY DEF RowNow, Row, Shape
<1>2. table \in Seq(Row)
    BY DEF Shape
<1>3. /\ table' \in Seq(Row) /\ Len(table') = Len(table) + 1
      /\ \A i \in 1..Len(table) : table'[i] = table[i]
      /\ table'[Len(table) + 1] = RowNow(n)
    BY <1>1, <1>2
<1>4. DOMAIN table = 1..Len(table) /\ DOMAIN table' = 1..(Len(table) + 1) /\ Len(table) \in Nat
    BY <1>2, <1>3
<1>5. \A i \in DOMAIN table' : i \in DOMAIN table \/ i = Len(table) + 1
    BY <1>4
<1>6. DOMAIN table \subseteq DOMAIN table' /\ Len(table) + 1 \in DOMAIN table'
    BY <1>4
<1> QED BY <1>1, <1>3, <1>4, <1>5, <1>6 DEF Recorded

\* latest answers with nothing only if no row has a blob.
LEMMA NothingMeansNoBlob ==
    ASSUME table \in Seq(Row), LatestCheckpoint(table) = NoRow
    PROVE  Recorded \subseteq {NoBlob}
<1>1. Blobs(table) \in SUBSET DOMAIN table
    BY DEF Blobs
<1>2. \A i \in DOMAIN table : table[i] # NoRow
    <2>1. Row \subseteq [node : Nat, ckpt : Nat]
        BY BoundsAssumption DEF Row, Node
    <2> QED BY <2>1, SentinelAssumption
<1>3. Blobs(table) = {}
    BY <1>1, <1>2, NewestIsLast DEF LatestCheckpoint
<1> QED BY <1>3 DEF Blobs, Recorded

LEMMA InitHolds == Init => IInv
<1> SUFFICES ASSUME Init PROVE IInv
    OBVIOUS
<1>1. table = << >> /\ << >> \in Seq(Row) /\ acked = {}
    BY DEF Init
<1>2. Shape
    BY <1>1 DEF Init, Shape, NoRecovery, NoBlob
<1> QED BY <1>1, <1>2 DEF Init, IInv, LandedIsRecorded, AckedIsRecorded,
           RecoveryComesAfter, NeverForgetsCheckpoint, NoRecovery

\* A step of the agent that adds no row and acknowledges nothing.
LEMMA AgentStep ==
    ASSUME IInv, UNCHANGED <<table, agent, rec, acked>>,
           saved' \in [Node -> {"none", "pending", "landed"}], ckpt' \in [Node -> Nat],
           \A n \in Node : saved'[n] = "landed" => saved[n] = "landed" /\ ckpt'[n] = ckpt[n]
    PROVE  IInv'
<1>1. Recorded' = Recorded
    BY DEF Recorded
<1> QED BY <1>1 DEF IInv, Shape, LandedIsRecorded, AckedIsRecorded,
           RecoveryComesAfter, NeverForgetsCheckpoint

\* A step of the recovery that adds no row: only a fresh start is in question.
LEMMA RecoveryStep ==
    ASSUME IInv, UNCHANGED <<saved, ckpt, table, agent, acked>>, "pc" \in DOMAIN rec',
           rec'.pc # "none" => agent = "down", rec'.pc = "fresh" => acked = {}
    PROVE  IInv'
<1>1. Recorded' = Recorded
    BY DEF Recorded
<1> QED BY <1>1 DEF IInv, Shape, LandedIsRecorded, AckedIsRecorded,
           RecoveryComesAfter, NeverForgetsCheckpoint

LEMMA StepHolds == IInv /\ [Next]_vars => IInv'
<1> SUFFICES ASSUME IInv, [Next]_vars PROVE IInv'
    OBVIOUS
<1> USE DEF NoBlob
<1>0. Shape
    BY DEF IInv
<1>1. ASSUME NEW n \in Node, Start(n) PROVE IInv'
    BY <1>0, <1>1, AgentStep DEF Start, Enter, Shape
<1>2. ASSUME NEW n \in Node, Body(n) PROVE IInv'
    BY <1>0, <1>2, AgentStep DEF Body, Shape
<1>3. ASSUME NEW n \in Node, NEW withState \in BOOLEAN, End(n, withState) PROVE IInv'
    <2>1. saved' = [saved EXCEPT ![n] = "pending"] /\ UNCHANGED <<table, agent, rec, acked>>
        BY <1>3 DEF End, Enter
    <2>2. ckpt' \in [Node -> Nat] /\ \A m \in Node : m # n => ckpt'[m] = ckpt[m]
        BY <1>0, <1>3, BoundsAssumption DEF End, Shape, Node
    <2> QED BY <1>0, <2>1, <2>2, AgentStep DEF Shape
<1>4. ASSUME NEW n \in Node, Fail(n) PROVE IInv'
    BY <1>0, <1>4, AgentStep DEF Fail, Enter, Shape
<1>5. ASSUME NEW n \in Node, Land(n) PROVE IInv'
    <2>1. table' \in Seq(Row) /\ Recorded' = Recorded \cup {ckpt[n]}
        BY <1>0, <1>5, RecordedGrows DEF Land
    <2>2. /\ saved' = [saved EXCEPT ![n] = "landed"]
          /\ UNCHANGED <<ckpt, agent, rec, acked>>
        BY <1>5 DEF Land
    <2> QED BY <1>0, <2>1, <2>2 DEF IInv, Shape, LandedIsRecorded, AckedIsRecorded,
               RecoveryComesAfter, NeverForgetsCheckpoint
<1>6. ASSUME NEW n \in Node, SaveTrue(n) PROVE IInv'
    <2>1. /\ agent = "up" /\ saved[n] = "landed" /\ saved' = [saved EXCEPT ![n] = "none"]
          /\ acked' = acked \cup ({ckpt[n]} \ {NoBlob}) /\ UNCHANGED <<ckpt, table, agent, rec>>
        BY <1>6 DEF SaveTrue
    <2>2. Recorded' = Recorded /\ ckpt[n] \in Recorded
        BY <2>1 DEF Recorded, IInv, LandedIsRecorded
    <2>3. rec.pc = "none"
        BY <2>1 DEF IInv, RecoveryComesAfter
    <2> QED BY <1>0, <2>1, <2>2, <2>3 DEF IInv, Shape, LandedIsRecorded, AckedIsRecorded,
               RecoveryComesAfter, NeverForgetsCheckpoint
<1>7. ASSUME NEW n \in Node, Miss(n) PROVE IInv'
    BY <1>0, <1>7, AgentStep DEF Miss, Shape
<1>8. ASSUME NEW n \in Node, LandLate(n) PROVE IInv'
    <2>1. table' \in Seq(Row) /\ Recorded' = Recorded \cup {ckpt[n]}
        BY <1>0, <1>8, RecordedGrows DEF LandLate
    <2>2. UNCHANGED <<saved, ckpt, agent, rec, acked>>
        BY <1>8 DEF LandLate
    <2> QED BY <1>0, <2>1, <2>2 DEF IInv, Shape, LandedIsRecorded, AckedIsRecorded,
               RecoveryComesAfter, NeverForgetsCheckpoint
<1>9. ASSUME Stop PROVE IInv'
    <2>1. Recorded' = Recorded
        BY <1>9 DEF Stop, Recorded
    <2> QED BY <1>0, <1>9, <2>1 DEF Stop, IInv, Shape, LandedIsRecorded, AckedIsRecorded,
               RecoveryComesAfter, NeverForgetsCheckpoint
<1>10. ASSUME Crash PROVE IInv'
    <2>1. Recorded' = Recorded
        BY <1>10 DEF Crash, Recorded
    <2> QED BY <1>0, <1>10, <2>1 DEF Crash, NoRecovery, IInv, Shape, LandedIsRecorded,
               AckedIsRecorded, RecoveryComesAfter, NeverForgetsCheckpoint
<1>11. ASSUME PlanLatest PROVE IInv'
    <2>1. UNCHANGED <<saved, ckpt, table, agent, acked>> /\ agent = "down"
        BY <1>11 DEF PlanLatest, agentVars
    <2>2. rec' = Resume(LatestCheckpoint(table))
        BY <1>11 DEF PlanLatest
    <2>3. CASE LatestCheckpoint(table) = NoRow
        <3>1. Recorded \subseteq {NoBlob}
            BY <1>0, <2>3, NothingMeansNoBlob DEF Shape
        <3>2. acked = {}
            BY <3>1 DEF IInv, AckedIsRecorded
        <3>3. "pc" \in DOMAIN rec'
            BY <2>2, <2>3 DEF Resume, NoRecovery
        <3> QED BY <2>1, <3>2, <3>3, RecoveryStep
    <2>4. CASE LatestCheckpoint(table) # NoRow
        <3>1. "pc" \in DOMAIN rec' /\ rec'.pc = "latest"
            BY <2>2, <2>4 DEF Resume, From, NoRecovery
        <3> QED BY <2>1, <3>1, RecoveryStep
    <2> QED BY <2>3, <2>4
<1>12. ASSUME PlanList PROVE IInv'
    <2>1. /\ UNCHANGED <<saved, ckpt, table, agent, acked>>
          /\ "pc" \in DOMAIN rec' /\ rec'.pc = "replaying" /\ rec.pc = "latest"
        BY <1>0, <1>12 DEF PlanList, agentVars, Shape
    <2> QED BY <2>1, RecoveryStep DEF IInv, RecoveryComesAfter
<1>13. ASSUME ReplayNode PROVE IInv'
    <2>1. /\ UNCHANGED <<saved, ckpt, table, agent, acked>>
          /\ "pc" \in DOMAIN rec' /\ rec'.pc = rec.pc
        BY <1>0, <1>13 DEF ReplayNode, agentVars, Shape
    <2> QED BY <2>1, RecoveryStep DEF IInv, RecoveryComesAfter, NeverForgetsCheckpoint
<1>14. ASSUME ReplayDone PROVE IInv'
    <2>1. /\ UNCHANGED <<saved, ckpt, table, agent, acked>>
          /\ "pc" \in DOMAIN rec' /\ rec'.pc = "done" /\ rec.pc = "replaying"
        BY <1>0, <1>14 DEF ReplayDone, agentVars, Shape
    <2> QED BY <2>1, RecoveryStep DEF IInv, RecoveryComesAfter
<1>15. ASSUME HandlerRaises PROVE IInv'
    <2>1. UNCHANGED <<saved, ckpt, table, agent, acked>> /\ rec' = NoRecovery
        BY <1>15 DEF HandlerRaises, agentVars
    <2>2. "pc" \in DOMAIN rec' /\ rec'.pc = "none"
        BY <2>1 DEF NoRecovery
    <2> QED BY <2>1, <2>2, RecoveryStep
<1>16. ASSUME UNCHANGED vars PROVE IInv'
    BY <1>16 DEF vars, IInv, Shape, LandedIsRecorded, AckedIsRecorded, Recorded,
       RecoveryComesAfter, NeverForgetsCheckpoint
<1> QED BY <1>1, <1>2, <1>3, <1>4, <1>5, <1>6, <1>7, <1>8, <1>9, <1>10, <1>11, <1>12,
           <1>13, <1>14, <1>15, <1>16 DEF Next, Recover, Continue

\* Once a checkpoint was acknowledged, recovery never starts from scratch.
THEOREM CheckpointNeverForgotten == Spec => []NeverForgetsCheckpoint
<1>1. IInv => NeverForgetsCheckpoint
    BY DEF IInv
<1> QED BY InitHolds, StepHolds, <1>1, PTL DEF Spec
-----------------------------------------------------------------------------
\* A save is awaited at the start of a step or at its end, and what is replayed
\* next has a place in the plan.
SavesBelong == \A n \in Node : saved[n] # "none" => phase[n] \in {"starting", "ending", "failing"}

TInv == TypeOK /\ SavesBelong /\ rec.next # 0

Place == [node : Node, ckpt : 0..N]
Recovering == [pc : {"none", "latest", "replaying", "fresh", "done"}, ckpt : 0..N,
               from : 0..N, replay : Seq(Node), skipped : Seq(Node), next : Nat]

\* What is picked from a list are nodes of it of the kind asked for, and all of them.
LEMMA PickPicks ==
    ASSUME NEW R, \A r \in R : r.node \in Node, NEW list \in Seq(R), NEW kind \in BOOLEAN
    PROVE  /\ Pick(list, kind) \in Seq(Node)
           /\ \A k \in DOMAIN Pick(list, kind) :
                 /\ IsReplayed(Pick(list, kind)[k]) = kind
                 /\ \E i \in DOMAIN list : Pick(list, kind)[k] = list[i].node
           /\ \A i \in DOMAIN list : IsReplayed(list[i].node) = kind
                 => \E k \in DOMAIN Pick(list, kind) : Pick(list, kind)[k] = list[i].node
<1> DEFINE I == {i \in DOMAIN list : IsReplayed(list[i].node) = kind}
           chosen == SelectAt(list, I)
<1>1. I \in SUBSET DOMAIN list
    OBVIOUS
<1>2. /\ Cardinality(I) \in Nat /\ DOMAIN chosen = 1..Cardinality(I)
      /\ \A k \in 1..Cardinality(I) : chosen[k] = list[Ascending(I)[k]] /\ Ascending(I)[k] \in I
      /\ \A i \in I : \E k \in 1..Cardinality(I) : chosen[k] = list[i]
    BY <1>1, SelectAtSelects
<1>3. Pick(list, kind) = [k \in DOMAIN chosen |-> chosen[k].node]
    BY DEF Pick
<1> HIDE DEF chosen
<1>4. \A k \in DOMAIN chosen : \E i \in I : chosen[k] = list[i]
    BY <1>2
<1>5. \A i \in I : list[i].node \in Node /\ IsReplayed(list[i].node) = kind
    OBVIOUS
<1>6. /\ DOMAIN Pick(list, kind) = DOMAIN chosen
      /\ \A k \in DOMAIN chosen : Pick(list, kind)[k] = chosen[k].node
    BY <1>3
<1> HIDE DEF I
<1>7. \A k \in DOMAIN chosen : chosen[k].node \in Node
    BY <1>4, <1>5
<1>8. Pick(list, kind) \in Seq(Node)
    BY <1>2, <1>3, <1>7
<1>9. \A k \in DOMAIN Pick(list, kind) : /\ IsReplayed(Pick(list, kind)[k]) = kind
                                         /\ \E i \in I : Pick(list, kind)[k] = list[i].node
    BY <1>4, <1>5, <1>6
<1>10. \A i \in I : \E k \in DOMAIN Pick(list, kind) : Pick(list, kind)[k] = list[i].node
    BY <1>2, <1>6
<1> QED BY <1>8, <1>9, <1>10 DEF I

\* What follows a node in a list is listed behind it, and all of that follows it.
LEMMA WhatFollows ==
    ASSUME NEW R, NEW list \in Seq(R), NEW n,
           \A i, j \in DOMAIN list : list[i].node = list[j].node => i = j
    PROVE  /\ NodesAfter(list, n) \in Seq(R)
           /\ \A k \in DOMAIN NodesAfter(list, n) : \E p, i \in DOMAIN list :
                 list[p].node = n /\ p < i /\ NodesAfter(list, n)[k] = list[i]
           /\ \A p, i \in DOMAIN list : list[p].node = n /\ p < i
                 => \E k \in DOMAIN NodesAfter(list, n) : NodesAfter(list, n)[k] = list[i]
<1> DEFINE places == {i \in DOMAIN list : list[i].node = n}
           m == Min(places)
<1>0. Len(list) \in Nat /\ DOMAIN list = 1..Len(list)
    OBVIOUS
<1>1. CASE places = {}
    BY <1>1 DEF NodesAfter
<1>2. CASE places # {}
    <2>1. m \in places
        BY <1>0, <1>2, MinOfIndices
    <2>2. NodesAfter(list, n) = SubSeq(list, m + 1, Len(list))
        BY <1>2 DEF NodesAfter
    <2>3. m \in DOMAIN list /\ list[m].node = n
        BY <2>1
    <2> HIDE DEF m
    <2>4. /\ NodesAfter(list, n) \in Seq(R) /\ Len(NodesAfter(list, n)) = Len(list) - m
          /\ \A k \in 1..(Len(list) - m) : NodesAfter(list, n)[k] = list[m + k]
        BY <1>0, <2>2, <2>3
    <2>5. DOMAIN NodesAfter(list, n) = 1..(Len(list) - m)
        BY <2>4
    <2>6. \A k \in 1..(Len(list) - m) : m + k \in DOMAIN list /\ m < m + k
        BY <1>0, <2>3
    <2>7. ASSUME NEW p \in DOMAIN list, NEW i \in DOMAIN list, list[p].node = n, p < i
          PROVE  \E k \in DOMAIN NodesAfter(list, n) : NodesAfter(list, n)[k] = list[i]
        <3>1. p = m
            BY <2>3, <2>7
        <3>2. i - m \in 1..(Len(list) - m) /\ m + (i - m) = i
            BY <1>0, <2>3, <2>7, <3>1
        <3> QED BY <2>4, <2>5, <3>2
    <2> QED BY <2>3, <2>4, <2>5, <2>6, <2>7
<1> QED BY <1>1, <1>2

\* The plan made from a table: nodes of it other than the one resumed from, the
\* idempotent ones to be replayed and the others to be skipped.
LEMMA PlanFacts ==
    ASSUME table \in Seq(Place), NEW n, NEW kind \in BOOLEAN
    PROVE  LET plan == Pick(NodesAfter(ListByExecution(table), n), kind) IN
           /\ plan \in Seq(Node)
           /\ \A k \in DOMAIN plan :
                 /\ IsReplayed(plan[k]) = kind /\ plan[k] # n
                 /\ \E i \in DOMAIN table : table[i].node = plan[k]
<1> DEFINE list == ListByExecution(table)
           after == NodesAfter(list, n)
           plan == Pick(after, kind)
<1>1. /\ list \in Seq(Place)
      /\ \A i, j \in DOMAIN list : list[i].node = list[j].node => i = j
      /\ \A i \in DOMAIN list : \E j \in DOMAIN table : list[i] = table[j]
    BY ListFacts
<1> HIDE DEF list
<1>2. /\ after \in Seq(Place)
      /\ \A k \in DOMAIN after : \E p, i \in DOMAIN list :
            list[p].node = n /\ p < i /\ after[k] = list[i]
    BY <1>1, WhatFollows
<1>3. ASSUME NEW k \in DOMAIN after
      PROVE  \E j \in DOMAIN table : after[k] = table[j] /\ after[k].node # n
    <2>1. PICK p, i \in DOMAIN list : list[p].node = n /\ p < i /\ after[k] = list[i]
        BY <1>2
    <2>2. i # p
        BY <1>1, <2>1
    <2>3. list[i].node # n
        BY <1>1, <2>1, <2>2
    <2> QED BY <1>1, <2>1, <2>3
<1> HIDE DEF after
<1>4. \A r \in Place : r.node \in Node
    BY DEF Place
<1>5. /\ plan \in Seq(Node)
      /\ \A k \in DOMAIN plan : /\ IsReplayed(plan[k]) = kind
                                /\ \E i \in DOMAIN after : plan[k] = after[i].node
    BY <1>2, <1>4, PickPicks
<1> HIDE DEF plan
<1>6. ASSUME NEW k \in DOMAIN plan
      PROVE  plan[k] # n /\ \E i \in DOMAIN table : table[i].node = plan[k]
    <2>1. PICK i \in DOMAIN after : plan[k] = after[i].node
        BY <1>5
    <2> QED BY <1>3, <2>1
<1> QED BY <1>5, <1>6 DEF plan, after, list

LEMMA InitTyped == Init => TInv
<1> SUFFICES ASSUME Init PROVE TInv
    OBVIOUS
<1>1. 0 \in 0..N /\ {} \in SUBSET Node /\ << >> \in Seq(Node) /\ << >> \in Seq(Place)
    BY BoundsAssumption
<1>2. rec \in Recovering /\ rec.next # 0
    BY <1>1 DEF Init, NoRecovery, Recovering, NoBlob
<1>3. misses \in 0..MaxMisses /\ attempts \in 0..MaxAttempts
    BY BoundsAssumption DEF Init
<1> QED BY <1>1, <1>2, <1>3
        DEF Init, TInv, TypeOK, SavesBelong, Phase, NoBlob, Place, Recovering

\* A step of the agent or of a write.
LEMMA TypedAgentStep ==
    ASSUME TInv, UNCHANGED <<call, rec>>,
           phase' \in [Node -> Phase],
           saved' \in [Node -> {"none", "pending", "landed"}],
           late' \in [Node -> Nat], runs' \in [Node -> Nat],
           ckpt' \in [Node -> 0..N], blob' \in [Node -> SUBSET Node],
           table' \in Seq(Place), agent' \in {"up", "down"},
           misses' \in 0..MaxMisses, attempts' \in 0..MaxAttempts, acked' \subseteq Node,
           SavesBelong'
    PROVE  TInv'
BY DEF TInv, TypeOK, Place

\* A step of the recovery.
LEMMA TypedRecoveryStep ==
    ASSUME TInv, UNCHANGED agentVars, agent' \in {"up", "down"},
           attempts' \in 0..MaxAttempts, runs' \in [Node -> Nat],
           rec' \in Recovering, rec'.next # 0
    PROVE  TInv'
BY DEF TInv, TypeOK, SavesBelong, agentVars, Recovering

\* A save belongs to a step that starts or ends, and when it is over the step goes on.
LEMMA AfterSaveFacts ==
    /\ AfterSave("starting") = "running" /\ AfterSave("ending") = "ended"
    /\ AfterSave("failing") = "failed"
BY DEF AfterSave

LEMMA StepTyped == TInv /\ [Next]_vars => TInv'
<1> SUFFICES ASSUME TInv, [Next]_vars PROVE TInv'
    OBVIOUS
<1>0. /\ TypeOK /\ SavesBelong /\ N \in Nat
      /\ MaxMisses \in Nat /\ MaxAttempts \in Nat
    BY BoundsAssumption DEF TInv
<1>1. /\ phase \in [Node -> Phase] /\ saved \in [Node -> {"none", "pending", "landed"}]
      /\ late \in [Node -> Nat] /\ runs \in [Node -> Nat]
      /\ ckpt \in [Node -> 0..N] /\ blob \in [Node -> SUBSET Node]
      /\ table \in Seq(Place) /\ agent \in {"up", "down"} /\ rec \in Recovering
      /\ misses \in 0..MaxMisses /\ attempts \in 0..MaxAttempts /\ acked \subseteq Node
      /\ rec.next # 0
    BY <1>0 DEF TInv, TypeOK, Place, Recovering
<1>2. \A n \in Node : Append(table, RowNow(n)) \in Seq(Place)
    BY <1>1 DEF RowNow, Place
<1>3. \A n \in Node : Abandoned(n) \in Nat
    BY <1>1 DEF Abandoned
<1>4. NoRecovery \in Recovering /\ NoRecovery.next # 0
    BY <1>0 DEF NoRecovery, Recovering, NoBlob
<1>5. ASSUME NEW n \in Node, saved[n] # "none" PROVE AfterSave(phase[n]) \in Phase
    BY <1>0, <1>5, AfterSaveFacts DEF SavesBelong, Phase
<1>6. ASSUME NEW n \in Node, Start(n) PROVE TInv'
    BY <1>0, <1>1, <1>6, TypedAgentStep DEF Start, Enter, Phase, SavesBelong
<1>7. ASSUME NEW n \in Node, Body(n) PROVE TInv'
    BY <1>0, <1>1, <1>7, TypedAgentStep DEF Body, Phase, SavesBelong
<1>8. ASSUME NEW n \in Node, NEW withState \in BOOLEAN, End(n, withState) PROVE TInv'
    <2>1. ckpt' \in [Node -> 0..N] /\ blob' \in [Node -> SUBSET Node]
        <3>1. n \in 0..N /\ Finished \cup {n} \in SUBSET Node
            BY <1>0 DEF Node, Finished
        <3> QED BY <1>1, <1>8, <3>1 DEF End
    <2> QED BY <1>0, <1>1, <1>8, <2>1, TypedAgentStep DEF End, Enter, Phase, SavesBelong
<1>9. ASSUME NEW n \in Node, Fail(n) PROVE TInv'
    BY <1>0, <1>1, <1>9, TypedAgentStep DEF Fail, Enter, Phase, SavesBelong
<1>10. ASSUME NEW n \in Node, Land(n) PROVE TInv'
    BY <1>0, <1>1, <1>2, <1>10, TypedAgentStep DEF Land, SavesBelong
<1>11. ASSUME NEW n \in Node, SaveTrue(n) PROVE TInv'
    <2>1. acked' \subseteq Node
        <3>1. ckpt[n] \in 0..N
            BY <1>1
        <3>2. {ckpt[n]} \ {NoBlob} \subseteq Node
            BY <1>0, <3>1 DEF Node, NoBlob
        <3>3. acked' = acked \cup ({ckpt[n]} \ {NoBlob})
            BY <1>11 DEF SaveTrue
        <3> QED BY <1>1, <3>2, <3>3
    <2> QED BY <1>0, <1>1, <1>5, <1>11, <2>1, TypedAgentStep DEF SaveTrue, SavesBelong
<1>12. ASSUME NEW n \in Node, Miss(n) PROVE TInv'
    BY <1>0, <1>1, <1>3, <1>5, <1>12, TypedAgentStep DEF Miss, SavesBelong
<1>13. ASSUME NEW n \in Node, LandLate(n) PROVE TInv'
    BY <1>0, <1>1, <1>2, <1>13, TypedAgentStep DEF LandLate, SavesBelong
<1>14. ASSUME Stop PROVE TInv'
    BY <1>0, <1>1, <1>3, <1>14, TypedAgentStep DEF Stop, SavesBelong
<1>15. ASSUME Crash PROVE TInv'
    <2>1. attempts' \in 0..MaxAttempts
        BY <1>0, <1>1, <1>15 DEF Crash
    <2> QED BY <1>0, <1>1, <1>4, <1>15, <2>1 DEF Crash, TInv, TypeOK, SavesBelong, Place, Recovering
<1>16. ASSUME PlanLatest PROVE TInv'
    <2>1. LatestCheckpoint(table) \in Place \cup {NoRow}
        BY <1>1, QueriesReturnRows
    <2>2. rec' = Resume(LatestCheckpoint(table))
        BY <1>16 DEF PlanLatest
    <2>3. ASSUME NEW found \in Place PROVE From(found) \in Recovering /\ From(found).next # 0
        <3>1. found.ckpt \in 0..N /\ found.node \in 0..N
            BY <1>0 DEF Place, Node
        <3> QED BY <1>4, <3>1 DEF From, Recovering
    <2>4. /\ [NoRecovery EXCEPT !.pc = "fresh"] \in Recovering
          /\ [NoRecovery EXCEPT !.pc = "fresh"].next # 0
        BY <1>4 DEF NoRecovery, Recovering
    <2>5. rec' \in Recovering /\ rec'.next # 0
        BY <2>1, <2>2, <2>3, <2>4 DEF Resume
    <2> QED BY <1>1, <1>16, <2>5, TypedRecoveryStep DEF PlanLatest
<1>17. ASSUME PlanList PROVE TInv'
    <2>1. PICK list \in {ListByExecution(table)} :
              LET after == NodesAfter(list, rec.from) IN
              rec' = [rec EXCEPT !.pc = "replaying", !.replay = Pick(after, TRUE),
                                 !.skipped = Pick(after, FALSE)]
        BY <1>17 DEF PlanList
    <2>2. /\ Pick(NodesAfter(ListByExecution(table), rec.from), TRUE) \in Seq(Node)
          /\ Pick(NodesAfter(ListByExecution(table), rec.from), FALSE) \in Seq(Node)
        BY <1>1, PlanFacts
    <2>3. rec' \in Recovering /\ rec'.next # 0
        BY <1>1, <2>1, <2>2 DEF Recovering
    <2> QED BY <1>1, <1>17, <2>3, TypedRecoveryStep DEF PlanList
<1>18. ASSUME ReplayNode PROVE TInv'
    <2>0. /\ rec.next \in Nat /\ rec.next <= Len(rec.replay) /\ rec.replay \in Seq(Node)
          /\ rec' = [rec EXCEPT !.next = rec.next + 1]
          /\ runs' = [runs EXCEPT ![rec.replay[rec.next]] = @ + 1]
        BY <1>1, <1>18 DEF ReplayNode, Recovering
    <2>1. rec' \in Recovering /\ rec'.next # 0
        <3>1. rec.next + 1 \in Nat /\ rec.next + 1 # 0
            BY <2>0
        <3> QED BY <1>1, <2>0, <3>1 DEF Recovering
    <2>2. runs' \in [Node -> Nat]
        <3>1. PICK m \in Node : m = rec.replay[rec.next]
            BY <1>1, <2>0
        <3>2. runs' = [runs EXCEPT ![m] = @ + 1]
            BY <2>0, <3>1
        <3> QED BY <1>1, <3>2
    <2> QED BY <1>1, <1>18, <2>1, <2>2, TypedRecoveryStep DEF ReplayNode
<1>19. ASSUME ReplayDone PROVE TInv'
    <2>1. rec' \in Recovering /\ rec'.next # 0
        BY <1>1, <1>19 DEF ReplayDone, Recovering
    <2> QED BY <1>1, <1>19, <2>1, TypedRecoveryStep DEF ReplayDone
<1>20. ASSUME HandlerRaises PROVE TInv'
    <2>1. runs' \in [Node -> Nat] /\ attempts' \in 0..MaxAttempts
        BY <1>0, <1>1, <1>20 DEF HandlerRaises
    <2> QED BY <1>1, <1>4, <1>20, <2>1, TypedRecoveryStep DEF HandlerRaises
<1>21. ASSUME UNCHANGED vars PROVE TInv'
    BY <1>21 DEF vars, TInv, TypeOK, SavesBelong
<1> QED BY <1>6, <1>7, <1>8, <1>9, <1>10, <1>11, <1>12, <1>13, <1>14, <1>15, <1>16, <1>17,
           <1>18, <1>19, <1>20, <1>21 DEF Next, Recover, Continue

\* Every variable keeps its type.
THEOREM RecoveryTyped == Spec => []TypeOK
<1>1. TInv => TypeOK
    BY DEF TInv
<1> QED BY InitTyped, StepTyped, <1>1, PTL DEF Spec

-----------------------------------------------------------------------------
\* A step that is not replayed has run when its body has, and only then.
RunWithBody ==
    \A n \in Node : ~IsReplayed(n) =>
        /\ runs[n] <= 1
        /\ phase[n] \in {"new", "starting", "running"} => runs[n] = 0

PlanIsSafe == \A k \in DOMAIN rec.replay : IsReplayed(rec.replay[k])

EInv == RunWithBody /\ PlanIsSafe /\ ResumeNodeStaysOut

\* What may have effects is neither flagged safe nor taken for safe by its type.
LEMMA EffectsAreNotReplayed == TypeOK => \A n \in Node : MayHaveEffects(n) => ~IsReplayed(n)
<1> SUFFICES ASSUME TypeOK, NEW n \in Node, MayHaveEffects(n) PROVE ~IsReplayed(n)
    OBVIOUS
<1>1. call[n] \in Call
    BY StepAssumption DEF TypeOK
<1> DEFINE c == call[n]
<1>2. /\ c.type \in NodeType \cup {"unset"} /\ c.meta \in Flag
      /\ c.idempotent \in {"unset", "yes", "no"}
    BY <1>1 DEF Call
<1>3. IsReplayed(n) <=> IF MetaFlag(c) \in {"yes", "no"} THEN MetaFlag(c) = "yes"
                                                     ELSE Classify(c) # "TOOL"
    BY DEF IsReplayed, IsIdempotent, Started
<1>4. /\ c.idempotent # "yes"
      /\ \/ c.idempotent = "no"
         \/ c.meta = "no"
         \/ c.meta # "yes" /\ c.type = "TOOL"
         \/ c.meta # "yes" /\ c.type = "unset" /\ c.words \cap ToolHints[c.framework] # {}
    BY DEF MayHaveEffects
<1> HIDE DEF c
<1> QED BY <1>2, <1>3, <1>4 DEF MetaFlag, Classify

\* Steps that leave the plan alone, and run no body.
LEMMA EffectFreeStep ==
    ASSUME EInv, UNCHANGED <<call, rec, runs>>,
           \A n \in Node : phase'[n] \in {"new", "starting", "running"}
                              => phase[n] \in {"new", "starting", "running"}
    PROVE  EInv'
BY DEF EInv, RunWithBody, PlanIsSafe, ResumeNodeStaysOut, Planned, IsReplayed

LEMMA InitEffects == Init => EInv
<1> SUFFICES ASSUME Init PROVE EInv
    OBVIOUS
<1>1. RunWithBody /\ rec.replay = << >> /\ rec.pc = "none"
    BY DEF Init, NoRecovery, RunWithBody
<1> QED BY <1>1 DEF EInv, PlanIsSafe, ResumeNodeStaysOut, Planned

\* A recovery that is not there has no plan.
LEMMA NoPlan == rec' = NoRecovery => PlanIsSafe' /\ ResumeNodeStaysOut'
<1> SUFFICES ASSUME rec' = NoRecovery PROVE PlanIsSafe' /\ ResumeNodeStaysOut'
    OBVIOUS
<1>1. rec'.replay = << >> /\ rec'.pc = "none"
    BY DEF NoRecovery
<1> QED BY <1>1 DEF PlanIsSafe, ResumeNodeStaysOut, Planned

LEMMA StepEffects == TInv /\ EInv /\ [Next]_vars => EInv'
<1> SUFFICES ASSUME TInv, EInv, [Next]_vars PROVE EInv'
    OBVIOUS
<1>1. /\ phase \in [Node -> Phase] /\ runs \in [Node -> Nat] /\ rec \in Recovering
      /\ table \in Seq(Place) /\ rec.next # 0 /\ SavesBelong
    BY DEF TInv, TypeOK, Place, Recovering
<1>2. ASSUME NEW n \in Node, Start(n) PROVE EInv'
    BY <1>1, <1>2, EffectFreeStep DEF Start, Enter
<1>3. ASSUME NEW n \in Node, Body(n) PROVE EInv'
    <2>1. /\ phase[n] = "running" /\ phase' = [phase EXCEPT ![n] = "ran"]
          /\ runs' = [runs EXCEPT ![n] = @ + 1] /\ UNCHANGED <<call, rec>>
        BY <1>3 DEF Body
    <2>2. \A m \in Node : IsReplayed(m)' = IsReplayed(m)
        BY <2>1 DEF IsReplayed
    <2>3. RunWithBody'
        BY <1>1, <2>1, <2>2 DEF EInv, RunWithBody
    <2> QED BY <2>1, <2>3 DEF EInv, PlanIsSafe, ResumeNodeStaysOut, Planned, IsReplayed
<1>4. ASSUME NEW n \in Node, NEW withState \in BOOLEAN, End(n, withState) PROVE EInv'
    BY <1>1, <1>4, EffectFreeStep DEF End, Enter
<1>5. ASSUME NEW n \in Node, Fail(n) PROVE EInv'
    BY <1>1, <1>5, EffectFreeStep DEF Fail, Enter
<1>6. ASSUME NEW n \in Node, Land(n) PROVE EInv'
    BY <1>6, EffectFreeStep DEF Land
<1>7. ASSUME NEW n \in Node, SaveTrue(n) \/ Miss(n) PROVE EInv'
    <2>1. /\ phase' = [phase EXCEPT ![n] = AfterSave(phase[n])] /\ saved[n] # "none"
          /\ UNCHANGED <<call, rec, runs>>
        BY <1>7 DEF SaveTrue, Miss
    <2>2. phase[n] \in {"starting", "ending", "failing"}
        BY <1>1, <2>1 DEF SavesBelong
    <2> QED BY <1>1, <2>1, <2>2, AfterSaveFacts, EffectFreeStep
<1>8. ASSUME NEW n \in Node, LandLate(n) PROVE EInv'
    BY <1>8, EffectFreeStep DEF LandLate
<1>9. ASSUME Stop PROVE EInv'
    BY <1>9, EffectFreeStep DEF Stop
<1>10. ASSUME Crash PROVE EInv'
    BY <1>10, NoPlan DEF Crash, EInv, RunWithBody, IsReplayed
<1>11. ASSUME PlanLatest PROVE EInv'
    <2>1. rec' = Resume(LatestCheckpoint(table)) /\ UNCHANGED <<call, phase, runs>>
        BY <1>11 DEF PlanLatest, agentVars
    <2>2. rec'.pc \in {"fresh", "latest"} /\ rec'.replay = << >>
        BY <2>1 DEF Resume, From, NoRecovery
    <2> QED BY <2>1, <2>2
            DEF EInv, RunWithBody, PlanIsSafe, ResumeNodeStaysOut, Planned, IsReplayed
<1>12. ASSUME PlanList PROVE EInv'
    <2> DEFINE replay == Pick(NodesAfter(ListByExecution(table), rec.from), TRUE)
               skipped == Pick(NodesAfter(ListByExecution(table), rec.from), FALSE)
    <2>1. /\ rec' = [rec EXCEPT !.pc = "replaying", !.replay = replay, !.skipped = skipped]
          /\ UNCHANGED <<call, phase, runs>>
        BY <1>12 DEF PlanList, agentVars
    <2>2. /\ \A k \in DOMAIN replay : IsReplayed(replay[k]) /\ replay[k] # rec.from
          /\ \A k \in DOMAIN skipped : skipped[k] # rec.from
        BY <1>1, PlanFacts
    <2> HIDE DEF replay, skipped
    <2>3. rec'.replay = replay /\ rec'.skipped = skipped /\ rec'.from = rec.from
        BY <1>1, <2>1 DEF Recovering
    <2> QED BY <2>1, <2>2, <2>3
            DEF EInv, RunWithBody, PlanIsSafe, ResumeNodeStaysOut, Listed, IsReplayed
<1>13. ASSUME NEW m \in Node, m = rec.replay[rec.next], rec.next \in DOMAIN rec.replay,
              runs' = [runs EXCEPT ![m] = @ + 1], UNCHANGED agentVars
       PROVE  RunWithBody'
    <2>1. IsReplayed(m)
        BY <1>13 DEF EInv, PlanIsSafe
    <2>2. \A n \in Node : n # m => runs'[n] = runs[n]
        BY <1>1, <1>13
    <2>3. UNCHANGED <<call, phase>>
        BY <1>13 DEF agentVars
    <2> QED BY <2>1, <2>2, <2>3 DEF EInv, RunWithBody, IsReplayed
<1>14. rec.next \in Nat /\ rec.replay \in Seq(Node)
    BY <1>1 DEF Recovering
<1>15. ASSUME rec.next <= Len(rec.replay)
       PROVE  rec.next \in DOMAIN rec.replay /\ \E m \in Node : m = rec.replay[rec.next]
    BY <1>1, <1>14, <1>15
<1>16. ASSUME ReplayNode PROVE EInv'
    <2>1. /\ rec.next <= Len(rec.replay) /\ runs' = [runs EXCEPT ![rec.replay[rec.next]] = @ + 1]
          /\ rec' = [rec EXCEPT !.next = rec.next + 1] /\ UNCHANGED agentVars
        BY <1>16 DEF ReplayNode
    <2>2. PICK m \in Node : m = rec.replay[rec.next] /\ rec.next \in DOMAIN rec.replay
        BY <1>15, <2>1
    <2>3. RunWithBody'
        BY <1>13, <2>1, <2>2
    <2>4. /\ rec'.replay = rec.replay /\ rec'.skipped = rec.skipped
          /\ rec'.from = rec.from /\ rec'.pc = rec.pc /\ UNCHANGED call
        BY <1>1, <2>1 DEF Recovering, agentVars
    <2> QED BY <2>3, <2>4 DEF EInv, PlanIsSafe, ResumeNodeStaysOut, Planned, IsReplayed
<1>17. ASSUME ReplayDone PROVE EInv'
    <2>1. /\ rec'.replay = rec.replay /\ rec'.skipped = rec.skipped
          /\ rec'.from = rec.from /\ rec.pc = "replaying" /\ UNCHANGED <<call, phase, runs>>
        BY <1>1, <1>17 DEF ReplayDone, Recovering, agentVars
    <2> QED BY <2>1 DEF EInv, RunWithBody, PlanIsSafe, ResumeNodeStaysOut, Planned, IsReplayed
<1>18. ASSUME HandlerRaises PROVE EInv'
    <2>1. /\ rec.next <= Len(rec.replay) /\ rec' = NoRecovery /\ UNCHANGED agentVars
          /\ runs' \in {runs, [runs EXCEPT ![rec.replay[rec.next]] = @ + 1]}
        BY <1>18 DEF HandlerRaises
    <2>2. PICK m \in Node : m = rec.replay[rec.next] /\ rec.next \in DOMAIN rec.replay
        BY <1>15, <2>1
    <2>3. CASE runs' = runs
        BY <2>1, <2>3, NoPlan DEF EInv, RunWithBody, IsReplayed, agentVars
    <2>4. CASE runs' = [runs EXCEPT ![rec.replay[rec.next]] = @ + 1]
        BY <1>13, <2>1, <2>2, <2>4, NoPlan DEF EInv
    <2> QED BY <2>1, <2>3, <2>4
<1>19. ASSUME UNCHANGED vars PROVE EInv'
    BY <1>19 DEF vars, EInv, RunWithBody, PlanIsSafe, ResumeNodeStaysOut, Planned, IsReplayed
<1> QED BY <1>2, <1>3, <1>4, <1>5, <1>6, <1>7, <1>8, <1>9, <1>10, <1>11, <1>12,
           <1>16, <1>17, <1>18, <1>19 DEF Next, Recover, Continue

\* No step that may have effects runs a second time.
THEOREM EffectsHappenOnce == Spec => []NoEffectTwice
<1>1. TInv /\ EInv => NoEffectTwice
    BY EffectsAreNotReplayed DEF TInv, EInv, RunWithBody, NoEffectTwice
<1> QED BY InitTyped, StepTyped, InitEffects, StepEffects, <1>1, PTL DEF Spec

\* The node resumed from is in neither list.
THEOREM ResumeNodeIsNotRunAgain == Spec => []ResumeNodeStaysOut
<1>1. EInv => ResumeNodeStaysOut
    BY DEF EInv
<1> QED BY InitTyped, StepTyped, InitEffects, StepEffects, <1>1, PTL DEF Spec

\* The nodes of a list of rows.
LEMMA NodesOfRows ==
    ASSUME NEW list \in Seq(Place)
    PROVE  LET nodes == [i \in DOMAIN list |-> list[i].node] IN
           nodes \in Seq(Node) /\ Len(nodes) = Len(list)
<1>1. Len(list) \in Nat /\ DOMAIN list = 1..Len(list)
    OBVIOUS
<1>2. \A i \in DOMAIN list : list[i] \in Place
    OBVIOUS
<1>3. \A i \in DOMAIN list : list[i].node \in Node
    BY <1>2 DEF Place
<1> QED BY <1>1, <1>3

\* The end of a list.
LEMMA RestOfList ==
    ASSUME NEW list \in Seq(Place), NEW m \in 1..Len(list)
    PROVE  /\ SubSeq(list, m + 1, Len(list)) \in Seq(Place)
           /\ Len(SubSeq(list, m + 1, Len(list))) = Len(list) - m
           /\ \A k \in 1..(Len(list) - m) : SubSeq(list, m + 1, Len(list))[k] = list[m + k]
OBVIOUS

\* What follows a node in the list of a table still follows it, in the same places,
\* once another row has landed.
LEMMA FollowersKeepPlaces ==
    ASSUME NEW rows \in Seq(Place), NEW row \in Place, NEW n
    PROVE  IsPrefix(After(rows, n), After(Append(rows, row), n))
<1> DEFINE old == ListByExecution(rows)
           new == ListByExecution(Append(rows, row))
           was == {i \in DOMAIN old : old[i].node = n}
           is  == {i \in DOMAIN new : new[i].node = n}
           m == Min(was)
<1>0. Append(rows, row) \in Seq(Place)
    OBVIOUS
<1>1. /\ old \in Seq(Place) /\ new \in Seq(Place)
      /\ \A i, j \in DOMAIN new : new[i].node = new[j].node => i = j
    BY <1>0, ListFacts
<1>2. Len(old) <= Len(new) /\ \A k \in DOMAIN old : k \in DOMAIN new /\ new[k].node = old[k].node
    BY NodesKeepPlaces
<1>3. /\ \A r \in Place : r.node \in Node
      /\ After(rows, n) = [i \in DOMAIN NodesAfter(old, n) |-> NodesAfter(old, n)[i].node]
      /\ After(Append(rows, row), n) = [i \in DOMAIN NodesAfter(new, n) |-> NodesAfter(new, n)[i].node]
    BY DEF Place, After
<1> HIDE DEF old, new
<1>4. /\ Len(old) \in Nat /\ DOMAIN old = 1..Len(old)
      /\ Len(new) \in Nat /\ DOMAIN new = 1..Len(new)
    BY <1>1
<1>5. NodesAfter(new, n) \in Seq(Place)
    BY <1>1, WhatFollows
<1>6. CASE was = {}
    <2>1. NodesAfter(old, n) = << >>
        BY <1>6 DEF NodesAfter
    <2>2. After(rows, n) = << >> /\ After(Append(rows, row), n) \in Seq(Node)
        BY <1>3, <1>5, <2>1, NodesOfRows
    <2> QED BY <2>2 DEF IsPrefix
<1>7. CASE was # {}
    <2>1. m \in was
        BY <1>4, <1>7, MinOfIndices
    <2>2. m \in is /\ Min(is) \in is
        BY <1>2, <1>4, <2>1, MinOfIndices
    <2>3. Min(is) = m
        BY <1>1, <2>2
    <2>4. NodesAfter(old, n) = SubSeq(old, m + 1, Len(old)) /\ NodesAfter(new, n) = SubSeq(new, m + 1, Len(new))
        BY <1>7, <2>2, <2>3 DEF NodesAfter
    <2>5. m \in 1..Len(old)
        BY <1>4, <2>1
    <2> HIDE DEF m
    <2>6. /\ Len(NodesAfter(old, n)) = Len(old) - m /\ Len(NodesAfter(new, n)) = Len(new) - m
          /\ NodesAfter(old, n) \in Seq(Place)
          /\ \A k \in 1..(Len(old) - m) : NodesAfter(old, n)[k] = old[m + k]
          /\ \A k \in 1..(Len(new) - m) : NodesAfter(new, n)[k] = new[m + k]
        <3>1. m \in 1..Len(new)
            BY <1>2, <1>4, <2>5
        <3> QED BY <1>1, <2>4, <2>5, <3>1, RestOfList
    <2>7. /\ After(rows, n) \in Seq(Node) /\ After(Append(rows, row), n) \in Seq(Node)
          /\ Len(After(rows, n)) = Len(old) - m /\ Len(After(Append(rows, row), n)) = Len(new) - m
        BY <1>3, <1>5, <2>6, NodesOfRows
    <2>8. ASSUME NEW k \in 1..(Len(old) - m)
          PROVE  After(rows, n)[k] = After(Append(rows, row), n)[k]
        <3>1. k \in 1..(Len(new) - m) /\ m + k \in DOMAIN old
            BY <1>2, <1>4, <2>5
        <3>2. k \in DOMAIN NodesAfter(old, n) /\ k \in DOMAIN NodesAfter(new, n)
            BY <1>5, <2>6, <3>1
        <3> QED BY <1>2, <1>3, <2>6, <3>1, <3>2
    <2> QED BY <1>2, <1>4, <2>5, <2>7, <2>8 DEF IsPrefix
<1> QED BY <1>6, <1>7

\* A step adds one row to the table at most.
LEMMA TableGrows ==
    [Next]_vars => UNCHANGED table \/ \E m \in Node : table' = Append(table, RowNow(m))
BY DEF Next, Recover, Continue, Start, Body, Fail, End, Land, SaveTrue, Miss, LandLate, Stop, Crash,
   PlanLatest, PlanList, ReplayNode, ReplayDone, HandlerRaises, agentVars, vars

\* No row that lands between the two awaits of plan takes a node out of those that
\* followed the checkpoint node at the first, or changes the place of one.
THEOREM PlanKeepsItsNodes == Spec => PlanOnlyGrows
<1>1. ASSUME TInv, [Next]_vars, rec.pc = "latest", rec'.pc = "latest"
      PROVE  IsPrefix(After(table, rec.from), After(table', rec.from))
    <2>1. table \in Seq(Place) /\ \A m \in Node : RowNow(m) \in Place
        BY <1>1 DEF TInv, TypeOK, RowNow, Place
    <2>2. CASE UNCHANGED table
        <3>1. /\ ListByExecution(table) \in Seq(Place)
              /\ \A i, j \in DOMAIN ListByExecution(table) :
                    ListByExecution(table)[i].node = ListByExecution(table)[j].node => i = j
            BY <2>1, ListFacts
        <3>2. NodesAfter(ListByExecution(table), rec.from) \in Seq(Place)
            BY <3>1, WhatFollows
        <3>3. After(table, rec.from) \in Seq(Node)
            BY <3>2, NodesOfRows DEF After
        <3> QED BY <2>2, <3>3 DEF IsPrefix
    <2>3. CASE \E m \in Node : table' = Append(table, RowNow(m))
        BY <2>1, <2>3, FollowersKeepPlaces
    <2> QED BY <1>1, <2>2, <2>3, TableGrows
<1>2. TInv /\ [Next]_vars
      => [rec.pc = "latest" /\ rec'.pc = "latest" =>
             IsPrefix(After(table, rec.from), After(table', rec.from))]_vars
    BY <1>1
<1> QED BY InitTyped, StepTyped, <1>2, PTL DEF Spec, PlanOnlyGrows

-----------------------------------------------------------------------------
(* An agent that runs one step at a time, and whose saves all make it in time. *)

HasRow(n) == \E i \in DOMAIN table : table[i].node = n

\* Steps are taken in turn: those before one that was begun are over.
InTurn ==
    \A m, n \in Node : m < n /\ phase[n] # "new" => phase[m] \in {"ended", "failed"}

\* A step that has got over its first save has a row, and a write that is still
\* on its way is one of a step that starts or ends.
WritesBelong ==
    \A n \in Node :
        /\ phase[n] \in {"running", "ran", "ending", "ended", "failing", "failed"} => HasRow(n)
        /\ saved[n] = "landed" => HasRow(n)
        /\ phase[n] = "new" => ~HasRow(n)
        /\ late[n] > 0 => agent = "down" /\ phase[n] \in {"starting", "ending", "failing"}

\* The rows are in the order of the steps.
RowsInTurn == \A i, j \in DOMAIN table : i < j => table[i].node <= table[j].node

\* The blob of a step knows it and all before it, and rows hold no other blob.
BlobsKnowAll ==
    /\ \A n \in Node : ckpt[n] \in {NoBlob, n} /\ (ckpt[n] = n => blob[n] = 1..n)
    /\ \A i \in DOMAIN table : table[i].ckpt \in {NoBlob, ckpt[table[i].node]}

AInv == InTurn /\ WritesBelong /\ RowsInTurn /\ BlobsKnowAll

\* What recovery resumes from is the blob of a recorded step, and no other
\* acknowledged one is later.
ResumesWell ==
    rec.pc \in {"latest", "replaying", "done"} =>
        /\ rec.from \in Node /\ rec.ckpt = rec.from /\ ckpt[rec.from] = rec.from
        /\ HasRow(rec.from)
        /\ \A b \in acked : b <= rec.from

\* The plan has what lies ahead of it, and lacks no step that was executed.
PlanIsWhole ==
    Planned =>
        /\ \A n \in Listed(rec.replay) \cup Listed(rec.skipped) : HasRow(n) /\ rec.from < n
        /\ \A n \in Node : runs[n] > 0 /\ rec.from < n
              => n \in Listed(rec.replay) \cup Listed(rec.skipped)

RunHaveRows == \A n \in Node : runs[n] > 0 => HasRow(n)

RInv == ResumesWell /\ PlanIsWhole /\ RunHaveRows

LEMMA NodesAreNumbers ==
    ASSUME table \in Seq(Place)
    PROVE  \A i \in DOMAIN table : table[i] \in Place /\ table[i].node \in Node /\ table[i].node \in Int
<1>1. \A r \in Place : r.node \in Node
    BY DEF Place
<1>2. \A i \in DOMAIN table : table[i] \in Place
    OBVIOUS
<1>3. \A n \in Node : n \in Int
    BY DEF Node
<1> QED BY <1>1, <1>2, <1>3

\* A sorted table is listed in the order of the steps.
LEMMA ListedInTurn ==
    ASSUME table \in Seq(Place), RowsInTurn
    PROVE  \A k, l \in DOMAIN ListByExecution(table) :
              k < l => ListByExecution(table)[k].node < ListByExecution(table)[l].node
<1> DEFINE F == Firsts(table)
           list == ListByExecution(table)
<1> SUFFICES ASSUME NEW k \in DOMAIN list, NEW l \in DOMAIN list, k < l
             PROVE  list[k].node < list[l].node
    OBVIOUS
<1>1. /\ F \in SUBSET Int /\ IsFiniteSet(F) /\ DOMAIN list = 1..Cardinality(F)
      /\ \A i \in DOMAIN list : /\ Ascending(F)[i] \in F
                                /\ list[i].node = table[Ascending(F)[i]].node
      /\ \A i, j \in DOMAIN list : list[i].node = list[j].node => i = j
    BY ListFacts
<1>2. F \in SUBSET DOMAIN table
    BY FirstRows
<1> HIDE DEF F, list
<1>3. Ascending(F)[k] < Ascending(F)[l]
    BY <1>1, AscendingIsSorted
<1>4. table[Ascending(F)[k]].node <= table[Ascending(F)[l]].node
    BY <1>1, <1>2, <1>3 DEF RowsInTurn
<1>5. list[k].node <= list[l].node
    BY <1>1, <1>4
<1>6. k # l
    BY <1>1, AscendingIsSorted
<1>7. list[k].node # list[l].node
    BY <1>1, <1>6
<1>8. \A i \in DOMAIN table : table[i].node \in Int
    BY NodesAreNumbers
<1>9. list[k].node \in Int /\ list[l].node \in Int
    BY <1>1, <1>2, <1>8
<1> QED BY <1>5, <1>7, <1>9

\* Resumed from a recorded step, the plan has the recorded steps after it.
LEMMA PlanInTurn ==
    ASSUME table \in Seq(Place), RowsInTurn, NEW n \in Node, HasRow(n)
    PROVE  /\ \A kind \in BOOLEAN :
                 \A m \in Listed(Pick(NodesAfter(ListByExecution(table), n), kind)) :
                    HasRow(m) /\ n < m
           /\ \A m \in Node : HasRow(m) /\ n < m
                 => m \in Listed(Pick(NodesAfter(ListByExecution(table), n), IsReplayed(m)))
<1> DEFINE list == ListByExecution(table)
           after == NodesAfter(list, n)
<1>1. /\ list \in Seq(Place)
      /\ \A i, j \in DOMAIN list : list[i].node = list[j].node => i = j
      /\ \A i \in DOMAIN list : \E j \in DOMAIN table : list[i] = table[j]
      /\ \A i \in DOMAIN table : \E k \in DOMAIN list : list[k].node = table[i].node
    BY ListFacts
<1>2. \A k, l \in DOMAIN list : k < l => list[k].node < list[l].node
    BY ListedInTurn
<1> HIDE DEF list
<1>3. /\ after \in Seq(Place)
      /\ \A k \in DOMAIN after : \E p, i \in DOMAIN list :
            list[p].node = n /\ p < i /\ after[k] = list[i]
      /\ \A p, i \in DOMAIN list : list[p].node = n /\ p < i
            => \E k \in DOMAIN after : after[k] = list[i]
    BY <1>1, WhatFollows
<1> HIDE DEF after
<1>4. ASSUME NEW k \in DOMAIN after PROVE HasRow(after[k].node) /\ n < after[k].node
    <2>1. PICK p, i \in DOMAIN list : list[p].node = n /\ p < i /\ after[k] = list[i]
        BY <1>3
    <2>2. list[p].node < list[i].node
        BY <1>2, <2>1
    <2>3. PICK j \in DOMAIN table : list[i] = table[j]
        BY <1>1, <2>1
    <2>4. after[k].node = table[j].node
        BY <2>1, <2>3
    <2>5. n < after[k].node
        BY <2>1, <2>2
    <2> QED BY <2>4, <2>5 DEF HasRow
<1>5. \A r \in Place : r.node \in Node
    BY DEF Place
<1>6. ASSUME NEW kind \in BOOLEAN, NEW m \in Listed(Pick(after, kind))
      PROVE  HasRow(m) /\ n < m
    <2>1. PICK k \in DOMAIN Pick(after, kind) : Pick(after, kind)[k] = m
        BY DEF Listed
    <2>2. PICK i \in DOMAIN after : m = after[i].node
        BY <1>3, <1>5, <2>1, PickPicks
    <2> QED BY <1>4, <2>2
<1>7. ASSUME NEW m \in Node, HasRow(m), n < m
      PROVE  m \in Listed(Pick(after, IsReplayed(m)))
    <2>1. PICK p \in DOMAIN list : list[p].node = n
        BY <1>1 DEF HasRow
    <2>2. PICK i \in DOMAIN list : list[i].node = m
        BY <1>1, <1>7 DEF HasRow
    <2>3. p < i
        <3>1. n \in Int /\ m \in Int
            BY DEF Node
        <3>2. DOMAIN list \subseteq Int
            BY <1>1
        <3>3. p \in Int /\ i \in Int
            BY <3>2
        <3>4. p # i
            BY <1>7, <2>1, <2>2, <3>1
        <3>5. ~ (i < p)
            <4> SUFFICES ASSUME i < p PROVE FALSE
                OBVIOUS
            <4>1. list[i].node < list[p].node
                BY <1>2
            <4> QED BY <1>7, <2>1, <2>2, <3>1, <4>1
        <3> QED BY <3>3, <3>4, <3>5
    <2>4. PICK k \in DOMAIN after : after[k] = list[i]
        BY <1>3, <2>1, <2>3
    <2>5. IsReplayed(m) \in BOOLEAN
        BY DEF IsReplayed, IsIdempotent
    <2>6. k \in DOMAIN after /\ after[k].node = m
        BY <2>2, <2>4
    <2>7. \A j \in DOMAIN after : IsReplayed(after[j].node) = IsReplayed(m)
              => \E l \in DOMAIN Pick(after, IsReplayed(m)) :
                    Pick(after, IsReplayed(m))[l] = after[j].node
        <3>1. after \in Seq(Place)
            BY <1>3
        <3> QED BY <1>5, <2>5, <3>1, PickPicks
    <2>8. \E l \in DOMAIN Pick(after, IsReplayed(m)) : Pick(after, IsReplayed(m))[l] = m
        BY <2>6, <2>7
    <2> QED BY <2>8 DEF Listed
<1> QED BY <1>6, <1>7 DEF after, list

\* Appending the row of a step that has begun and is not over.
LEMMA RowAdded ==
    ASSUME TInv, AInv, NEW n \in Node, phase[n] \in {"starting", "ending", "failing"},
           table' = Append(table, RowNow(n)), UNCHANGED ckpt
    PROVE  /\ RowsInTurn'
           /\ \A m \in Node : HasRow(m)' <=> HasRow(m) \/ m = n
           /\ \A i \in DOMAIN table' : table'[i].ckpt \in {NoBlob, ckpt'[table'[i].node]}
<1>1. table \in Seq(Place) /\ Len(table) \in Nat /\ DOMAIN table = 1..Len(table)
    BY DEF TInv, TypeOK, Place
<1>2. /\ RowNow(n).node = n /\ RowNow(n).ckpt = ckpt[n] /\ ckpt[n] \in 0..N /\ RowNow(n) \in Place
    BY DEF RowNow, TInv, TypeOK, Place
<1>3. /\ DOMAIN table' = 1..(Len(table) + 1)
      /\ \A i \in 1..Len(table) : table'[i] = table[i]
      /\ table'[Len(table) + 1] = RowNow(n)
    BY <1>1, <1>2
<1>4. ASSUME NEW i \in DOMAIN table PROVE table[i].node <= n
    <2>1. PICK m \in Node : m = table[i].node
        BY <1>1, NodesAreNumbers
    <2>2. phase[m] # "new"
        BY <2>1 DEF AInv, WritesBelong, HasRow
    <2>3. ~(n < m)
        BY <2>2 DEF AInv, InTurn
    <2> QED BY <2>1, <2>3 DEF Node
<1>5. RowsInTurn'
    <2> SUFFICES ASSUME NEW i \in DOMAIN table', NEW j \in DOMAIN table', i < j
                 PROVE  table'[i].node <= table'[j].node
        BY DEF RowsInTurn
    <2>1. i \in DOMAIN table /\ (j \in DOMAIN table \/ j = Len(table) + 1)
        BY <1>1, <1>3
    <2> QED BY <1>1, <1>2, <1>3, <1>4, <2>1 DEF AInv, RowsInTurn
<1>6. \A m \in Node : HasRow(m)' <=> HasRow(m) \/ m = n
    BY <1>1, <1>2, <1>3 DEF HasRow
<1>7. \A i \in DOMAIN table' : table'[i].ckpt \in {NoBlob, ckpt'[table'[i].node]}
    BY <1>1, <1>2, <1>3 DEF AInv, BlobsKnowAll
<1> QED BY <1>5, <1>6, <1>7

LEMMA InitInTurn == Init => AInv /\ RInv
<1> SUFFICES ASSUME Init PROVE AInv /\ RInv
    OBVIOUS
<1>1. rec.pc = "none" /\ table = << >>
    BY DEF Init, NoRecovery
<1> QED BY <1>1 DEF Init, AInv, RInv, InTurn, WritesBelong, RowsInTurn, BlobsKnowAll, HasRow,
        NoBlob, Node, ResumesWell, PlanIsWhole, RunHaveRows, Planned

\* A step that goes on, and adds no row and no blob.
LEMMA GoesOn ==
    ASSUME TInv, AInv, NEW n \in Node, NEW p \in Phase \ {"new", "starting"},
           phase[n] \notin {"new", "ended", "failed"}, HasRow(n), late[n] = 0,
           phase' = [phase EXCEPT ![n] = p], UNCHANGED <<late, table, ckpt, blob, agent>>,
           \A m \in Node : saved'[m] = "landed" => saved[m] = "landed"
    PROVE  AInv'
<1>1. phase \in [Node -> Phase] /\ \A m \in Node : m \in Int
    BY DEF TInv, TypeOK, Node
<1>2. InTurn'
    BY <1>1 DEF AInv, InTurn
<1>3. \A m : HasRow(m)' = HasRow(m)
    BY DEF HasRow
<1>4. WritesBelong'
    BY <1>1, <1>3 DEF AInv, WritesBelong
<1> QED BY <1>2, <1>4 DEF AInv, RowsInTurn, BlobsKnowAll

\* No step of an agent that is up is overdue.
LEMMA NothingLate == TInv /\ AInv /\ agent = "up" => \A n \in Node : late[n] = 0
BY DEF TInv, TypeOK, AInv, WritesBelong

\* One step at a time: the one that starts finds the others over.
LEMMA StartsAlone ==
    ASSUME MaxActive = 1, TInv, NEW n \in Node, Start(n)
    PROVE  \A m \in Node : m < n => phase[m] \in {"ended", "failed"}
<1>1. IsFiniteSet(Node) /\ Active \subseteq Node
    BY BoundsAssumption, FS_Interval DEF Node, Active
<1>2. IsFiniteSet(Active) /\ Cardinality(Active) \in Nat
    BY <1>1, FS_Subset, FS_CardinalityType
<1>3. Cardinality(Active) < 1
    BY DEF Start
<1>4. Cardinality(Active) = 0
    BY <1>2, <1>3
<1>5. Active = {}
    BY <1>2, <1>4, FS_EmptySet
<1>6. \A m \in Node : m < n => phase[m] # "new" /\ phase[m] \in Phase
    BY DEF Start, TInv, TypeOK, Node
<1> QED BY <1>5, <1>6 DEF Active, Phase

LEMMA StepInTurn ==
    ASSUME MaxActive = 1, MaxMisses = 0, TInv, AInv, [Next]_vars PROVE AInv'
<1>1. /\ phase \in [Node -> Phase] /\ saved \in [Node -> {"none", "pending", "landed"}]
      /\ late \in [Node -> Nat] /\ ckpt \in [Node -> 0..N] /\ blob \in [Node -> SUBSET Node]
      /\ misses = 0 /\ SavesBelong /\ \A m \in Node : m \in Int
    BY DEF TInv, TypeOK, Node
<1>2. InTurn /\ WritesBelong /\ RowsInTurn /\ BlobsKnowAll
    BY DEF AInv
<1>3. ASSUME NEW n \in Node, Start(n) PROVE AInv'
    <2>1. /\ phase[n] = "new" /\ phase' = [phase EXCEPT ![n] = "starting"]
          /\ saved' = [saved EXCEPT ![n] = "pending"]
          /\ UNCHANGED <<late, table, ckpt, blob, agent>>
        BY <1>3 DEF Start, Enter
    <2>2. \A m : HasRow(m)' = HasRow(m)
        BY <2>1 DEF HasRow
    <2>3. InTurn'
        BY <1>1, <1>2, <1>3, <2>1, StartsAlone DEF InTurn
    <2>4. WritesBelong'
        BY <1>1, <1>2, <2>1, <2>2 DEF WritesBelong
    <2> QED BY <1>2, <2>1, <2>3, <2>4 DEF AInv, RowsInTurn, BlobsKnowAll
<1>4. ASSUME NEW n \in Node, Body(n) \/ Fail(n) PROVE AInv'
    <2>1. /\ phase[n] \in {"running", "ran"} /\ agent = "up"
          /\ \E p \in {"ran", "failing"} : phase' = [phase EXCEPT ![n] = p]
          /\ UNCHANGED <<late, table, ckpt, blob, agent>>
          /\ \A m \in Node : saved'[m] = "landed" => saved[m] = "landed"
        BY <1>1, <1>4 DEF Body, Fail, Enter
    <2>2. HasRow(n) /\ late[n] = 0
        BY <1>2, <2>1, NothingLate DEF WritesBelong
    <2> QED BY <2>1, <2>2, GoesOn DEF Phase
<1>5. ASSUME NEW n \in Node, NEW withState \in BOOLEAN, End(n, withState) PROVE AInv'
    <2>1. /\ phase[n] = "ran" /\ agent = "up" /\ phase' = [phase EXCEPT ![n] = "ending"]
          /\ saved' = [saved EXCEPT ![n] = "pending"]
          /\ UNCHANGED <<late, table, agent>>
        BY <1>5 DEF End, Enter
    <2>2. HasRow(n) /\ late[n] = 0
        BY <1>2, <2>1, NothingLate DEF WritesBelong
    <2>3. InTurn'
        BY <1>1, <1>2, <2>1 DEF InTurn
    <2>4. WritesBelong'
        BY <1>1, <1>2, <2>1, <2>2 DEF WritesBelong, HasRow
    <2>5. Finished \cup {n} = 1..n
        <3>1. \A m \in Node : m < n => phase[m] \in {"ended", "failed"}
            BY <1>2, <2>1 DEF InTurn
        <3>2. \A m \in Node : n < m => phase[m] = "new"
            BY <1>2, <2>1 DEF InTurn
        <3>3. \A m \in Node : m \in Finished <=> m < n
            BY <1>1, <2>1, <3>1, <3>2 DEF Finished
        <3>4. \A m \in 1..n : m \in Node /\ (m < n \/ m = n)
            BY BoundsAssumption DEF Node
        <3>5. n \in 1..n /\ \A m \in Node : m < n => m \in 1..n
            BY DEF Node
        <3>6. Finished \subseteq Node
            BY DEF Finished
        <3> QED BY <3>3, <3>4, <3>5, <3>6
    <2>6. BlobsKnowAll'
        <3>1. CASE withState
            <4>1. ckpt' = [ckpt EXCEPT ![n] = n] /\ blob' = [blob EXCEPT ![n] = 1..n]
                BY <1>5, <2>5, <3>1 DEF End
            <4>2. \A m \in Node : ckpt'[m] \in {NoBlob, m} /\ (ckpt'[m] = m => blob'[m] = 1..m)
                BY <1>1, <1>2, <4>1 DEF BlobsKnowAll
            <4>3. \A m \in Node : ckpt[m] \in {NoBlob, ckpt'[m]}
                BY <1>1, <1>2, <4>1 DEF BlobsKnowAll
            <4>4. \A i \in DOMAIN table : table[i].node \in Node
                BY NodesAreNumbers DEF TInv, TypeOK, Place
            <4> QED BY <1>2, <2>1, <4>2, <4>3, <4>4 DEF BlobsKnowAll
        <3>2. CASE ~withState
            BY <1>2, <1>5, <2>1, <3>2 DEF End, BlobsKnowAll
        <3> QED BY <3>1, <3>2
    <2> QED BY <1>2, <2>1, <2>3, <2>4, <2>6 DEF AInv, RowsInTurn
<1>6. ASSUME NEW n \in Node, Land(n) \/ LandLate(n) PROVE AInv'
    <2>1. /\ table' = Append(table, RowNow(n)) /\ UNCHANGED <<phase, ckpt, blob, agent>>
          /\ \A m \in Node : saved'[m] = "landed" => m = n \/ saved[m] = "landed"
          /\ \A m \in Node : late'[m] > 0 => late[m] > 0
        BY <1>1, <1>6 DEF Land, LandLate
    <2>2. phase[n] \in {"starting", "ending", "failing"}
        BY <1>1, <1>2, <1>6 DEF Land, LandLate, SavesBelong, WritesBelong
    <2>3. /\ RowsInTurn'
          /\ \A m \in Node : HasRow(m)' <=> HasRow(m) \/ m = n
          /\ \A i \in DOMAIN table' : table'[i].ckpt \in {NoBlob, ckpt'[table'[i].node]}
        BY <2>1, <2>2, RowAdded
    <2>4. WritesBelong'
        BY <1>2, <2>1, <2>2, <2>3 DEF WritesBelong
    <2> QED BY <1>2, <2>1, <2>3, <2>4 DEF AInv, InTurn, BlobsKnowAll
<1>7. ASSUME NEW n \in Node, SaveTrue(n) PROVE AInv'
    <2>1. /\ agent = "up" /\ saved[n] = "landed" /\ phase' = [phase EXCEPT ![n] = AfterSave(phase[n])]
          /\ saved' = [saved EXCEPT ![n] = "none"] /\ UNCHANGED <<late, table, ckpt, blob, agent>>
        BY <1>7 DEF SaveTrue
    <2>2. HasRow(n) /\ late[n] = 0 /\ phase[n] \in {"starting", "ending", "failing"}
        BY <1>1, <1>2, <2>1, NothingLate DEF WritesBelong, SavesBelong
    <2>3. AfterSave(phase[n]) \in Phase \ {"new", "starting"}
        BY <2>2, AfterSaveFacts DEF Phase
    <2>4. \A m \in Node : saved'[m] = "landed" => saved[m] = "landed"
        BY <1>1, <2>1
    <2> QED BY <2>1, <2>2, <2>3, <2>4, GoesOn
<1>8. ASSUME NEW n \in Node, Miss(n) PROVE AInv'
    BY <1>1, <1>8 DEF Miss
<1>9. ASSUME Stop PROVE AInv'
    <2>1. /\ agent' = "down" /\ UNCHANGED <<phase, table, ckpt, blob>>
          /\ late' = [n \in Node |-> Abandoned(n)] /\ saved' = [n \in Node |-> "none"]
        BY <1>9 DEF Stop
    <2>2. \A n \in Node : late'[n] > 0 => phase[n] \in {"starting", "ending", "failing"}
        BY <1>1, <1>2, <2>1 DEF Abandoned, SavesBelong, WritesBelong
    <2>3. WritesBelong'
        BY <1>2, <2>1, <2>2 DEF WritesBelong, HasRow
    <2> QED BY <1>2, <2>1, <2>3 DEF AInv, InTurn, RowsInTurn, BlobsKnowAll
<1>10. ASSUME Crash PROVE AInv'
    <2>1. /\ agent' = "down" /\ UNCHANGED <<phase, table, ckpt, blob>>
          /\ late' = [n \in Node |-> 0] /\ saved' = [n \in Node |-> "none"]
        BY <1>10 DEF Crash
    <2>2. WritesBelong'
        BY <1>2, <2>1 DEF WritesBelong, HasRow
    <2> QED BY <1>2, <2>1, <2>2 DEF AInv, InTurn, RowsInTurn, BlobsKnowAll
<1>11. ASSUME UNCHANGED <<agentVars, agent>> PROVE AInv'
    BY <1>11 DEF agentVars, AInv, InTurn, WritesBelong, HasRow, RowsInTurn, BlobsKnowAll
<1>12. ASSUME Recover \/ HandlerRaises \/ UNCHANGED vars PROVE AInv'
    BY <1>11, <1>12
       DEF Recover, Continue, PlanLatest, PlanList, ReplayNode, ReplayDone, HandlerRaises, vars, agentVars
<1> QED BY <1>3, <1>4, <1>5, <1>6, <1>7, <1>8, <1>9, <1>10, <1>12 DEF Next

\* No row is ever taken away.
LEMMA RowsStay ==
    ASSUME TInv, AInv, [Next]_vars, MaxActive = 1, MaxMisses = 0
    PROVE  \A n \in Node : HasRow(n) => HasRow(n)'
<1> SUFFICES ASSUME NEW n \in Node, HasRow(n) PROVE HasRow(n)'
    OBVIOUS
<1>1. CASE UNCHANGED table
    BY <1>1 DEF HasRow
<1>2. CASE \E m \in Node : table' = Append(table, RowNow(m))
    <2>1. table \in Seq(Place) /\ \A m \in Node : RowNow(m) \in Place
        BY DEF TInv, TypeOK, RowNow, Place
    <2>2. \A i \in DOMAIN table : i \in DOMAIN table' /\ table'[i] = table[i]
        BY <1>2, <2>1
    <2> QED BY <2>2 DEF HasRow
<1>3. UNCHANGED table \/ \E m \in Node : table' = Append(table, RowNow(m))
    BY TableGrows
<1> QED BY <1>1, <1>2, <1>3

\* A step of the agent leaves the recovery that is in progress as it is.
LEMMA UnrelatedStep ==
    ASSUME RInv, RecoveryComesAfter, \A n \in Node : HasRow(n) => HasRow(n)',
           UNCHANGED <<rec, runs>>,
           agent = "down" => UNCHANGED <<ckpt, acked>>,
           TInv
    PROVE  RInv'
<1>1. RunHaveRows'
    BY DEF RInv, RunHaveRows
<1>2. CASE rec.pc = "none"
    BY <1>1, <1>2 DEF RInv, ResumesWell, PlanIsWhole, Planned
<1>3. CASE agent = "down"
    <2>1. Listed(rec.replay) \cup Listed(rec.skipped) \subseteq Node
        BY DEF TInv, TypeOK, Listed
    <2>2. PlanIsWhole'
        BY <2>1 DEF RInv, PlanIsWhole, Planned
    <2>3. ResumesWell'
        BY <1>3 DEF RInv, ResumesWell
    <2> QED BY <1>1, <2>2, <2>3 DEF RInv
<1> QED BY <1>2, <1>3 DEF RecoveryComesAfter

\* latest finds the greatest blob of a sorted table.
LEMMA LatestIsGreatest ==
    ASSUME table \in Seq(Place), RowsInTurn, BlobsKnowAll, LatestCheckpoint(table) # NoRow
    PROVE  /\ LatestCheckpoint(table) \in Place
           /\ LatestCheckpoint(table).ckpt = LatestCheckpoint(table).node
           /\ ckpt[LatestCheckpoint(table).node] = LatestCheckpoint(table).node
           /\ HasRow(LatestCheckpoint(table).node)
           /\ \A b \in Recorded \ {NoBlob} : b <= LatestCheckpoint(table).node
<1>1. Blobs(table) \in SUBSET DOMAIN table
    BY DEF Blobs
<1>2. PICK m \in Blobs(table) :
          LatestCheckpoint(table) = table[m] /\ \A i \in Blobs(table) : i <= m
    BY <1>1, NewestIsLast DEF LatestCheckpoint
<1>3. ASSUME NEW i \in Blobs(table)
      PROVE  /\ i \in DOMAIN table /\ i \in Int
             /\ table[i].ckpt = table[i].node /\ ckpt[table[i].node] = table[i].node
    <2>1. i \in DOMAIN table /\ i \in Int /\ table[i].ckpt # NoBlob
        BY DEF Blobs
    <2>2. table[i].node \in Node
        BY <2>1, NodesAreNumbers
    <2> QED BY <2>1, <2>2 DEF BlobsKnowAll
<1>4. ASSUME NEW b \in Recorded \ {NoBlob} PROVE b <= table[m].node
    <2>1. PICK i \in Blobs(table) : b = table[i].ckpt
        BY DEF Recorded, Blobs
    <2>2. i < m \/ i = m
        BY <1>2, <1>3
    <2>3. table[i].node <= table[m].node
        <3>1. table[i].node \in Int
            BY <1>3, NodesAreNumbers
        <3> QED BY <1>3, <2>2, <3>1 DEF RowsInTurn
    <2> QED BY <1>3, <2>1, <2>3
<1>5. table[m] \in Place
    BY <1>3, NodesAreNumbers
<1> QED BY <1>2, <1>3, <1>4, <1>5 DEF HasRow

LEMMA StepResumes ==
    ASSUME MaxActive = 1, MaxMisses = 0, TInv, IInv, AInv, RInv, [Next]_vars
    PROVE  RInv'
<1>1. /\ phase \in [Node -> Phase] /\ runs \in [Node -> Nat] /\ rec \in Recovering
      /\ table \in Seq(Place) /\ rec.next # 0
    BY DEF TInv, TypeOK, Place, Recovering
<1>2. /\ RecoveryComesAfter /\ AckedIsRecorded /\ WritesBelong /\ RowsInTurn /\ BlobsKnowAll
      /\ \A n \in Node : HasRow(n) => HasRow(n)'
    BY RowsStay DEF IInv, AInv
<1>3. ASSUME NEW n \in Node, \/ Start(n) \/ Fail(n) \/ Land(n) \/ SaveTrue(n) \/ Miss(n)
                              \/ LandLate(n) \/ \E withState \in BOOLEAN : End(n, withState)
      PROVE  RInv'
    <2>1. UNCHANGED <<rec, runs>> /\ (agent = "down" => UNCHANGED <<ckpt, acked>>)
        BY <1>3 DEF Start, Fail, End, Land, SaveTrue, Miss, LandLate
    <2> QED BY <1>2, <2>1, UnrelatedStep
<1>4. ASSUME NEW n \in Node, Body(n) PROVE RInv'
    <2>1. /\ agent = "up" /\ phase[n] = "running" /\ runs' = [runs EXCEPT ![n] = @ + 1]
          /\ UNCHANGED <<table, rec>>
        BY <1>4 DEF Body
    <2>2. rec.pc = "none"
        BY <1>2, <2>1 DEF RecoveryComesAfter
    <2>3. HasRow(n)
        BY <1>2, <2>1 DEF WritesBelong
    <2>4. RunHaveRows'
        BY <1>1, <1>2, <2>1, <2>3 DEF RInv, RunHaveRows
    <2> QED BY <2>1, <2>2, <2>4 DEF RInv, ResumesWell, PlanIsWhole, Planned
<1>5. ASSUME Stop PROVE RInv'
    BY <1>2, <1>5, UnrelatedStep DEF Stop
<1>6. ASSUME rec' = NoRecovery, RunHaveRows' PROVE RInv'
    <2>1. rec'.pc = "none"
        BY <1>6 DEF NoRecovery
    <2> QED BY <1>6, <2>1 DEF RInv, ResumesWell, PlanIsWhole, Planned
<1>7. ASSUME Crash PROVE RInv'
    <2>1. RunHaveRows'
        BY <1>2, <1>7 DEF Crash, RInv, RunHaveRows
    <2> QED BY <1>6, <1>7, <2>1 DEF Crash
<1>8. ASSUME PlanLatest PROVE RInv'
    <2>1. /\ rec' = Resume(LatestCheckpoint(table)) /\ UNCHANGED <<table, runs, ckpt, acked>>
        BY <1>8 DEF PlanLatest, agentVars
    <2>2. RunHaveRows'
        BY <1>2, <2>1 DEF RInv, RunHaveRows
    <2>3. CASE LatestCheckpoint(table) = NoRow
        <3>1. rec'.pc = "fresh"
            BY <2>1, <2>3 DEF Resume, NoRecovery
        <3> QED BY <2>2, <3>1 DEF RInv, ResumesWell, PlanIsWhole, Planned
    <2>4. CASE LatestCheckpoint(table) # NoRow
        <3> DEFINE found == LatestCheckpoint(table)
        <3>1. rec' = From(found)
            BY <2>1, <2>4 DEF Resume
        <3>2. /\ found \in Place /\ found.ckpt = found.node /\ ckpt[found.node] = found.node
              /\ HasRow(found.node) /\ \A b \in Recorded \ {NoBlob} : b <= found.node
            BY <1>1, <1>2, <2>4, LatestIsGreatest
        <3> HIDE DEF found
        <3>3. rec'.pc = "latest" /\ rec'.ckpt = found.ckpt /\ rec'.from = found.node
            BY <3>1 DEF From, NoRecovery
        <3>4. found.node \in Node
            BY <3>2 DEF Place
        <3>5. \A b \in acked : b <= found.node
            BY <1>2, <3>2 DEF AckedIsRecorded
        <3> QED BY <1>2, <2>1, <2>2, <3>2, <3>3, <3>4, <3>5
                DEF RInv, ResumesWell, PlanIsWhole, Planned
    <2> QED BY <2>3, <2>4
<1>9. ASSUME PlanList PROVE RInv'
    <2> DEFINE plan(kind) == Pick(NodesAfter(ListByExecution(table), rec.from), kind)
               replay == plan(TRUE)
               skipped == plan(FALSE)
    <2>1. /\ rec.pc = "latest" /\ UNCHANGED <<table, runs, ckpt, acked>>
          /\ rec' = [rec EXCEPT !.pc = "replaying", !.replay = replay, !.skipped = skipped]
        BY <1>9 DEF PlanList, agentVars
    <2>2. /\ rec.from \in Node /\ rec.ckpt = rec.from /\ ckpt[rec.from] = rec.from
          /\ HasRow(rec.from) /\ \A b \in acked : b <= rec.from
        BY <2>1 DEF RInv, ResumesWell
    <2>3. /\ \A kind \in BOOLEAN : \A m \in Listed(plan(kind)) : HasRow(m) /\ rec.from < m
          /\ \A m \in Node : HasRow(m) /\ rec.from < m => m \in Listed(plan(IsReplayed(m)))
        BY <1>1, <1>2, <2>2, PlanInTurn
    <2> HIDE DEF plan
    <2>4. \A m \in Listed(replay) \cup Listed(skipped) : HasRow(m) /\ rec.from < m
        BY <2>3
    <2>5. ASSUME NEW m \in Node, runs[m] > 0, rec.from < m
          PROVE  m \in Listed(replay) \cup Listed(skipped)
        <3>1. m \in Listed(plan(IsReplayed(m)))
            BY <2>3, <2>5 DEF RInv, RunHaveRows
        <3>2. IsReplayed(m) = TRUE \/ IsReplayed(m) = FALSE
            BY DEF IsReplayed, IsIdempotent
        <3> QED BY <3>1, <3>2
    <2> HIDE DEF replay, skipped
    <2>6. /\ rec'.pc = "replaying" /\ rec'.replay = replay /\ rec'.skipped = skipped
          /\ rec'.from = rec.from /\ rec'.ckpt = rec.ckpt
        BY <1>1, <2>1 DEF Recovering
    <2>7. PlanIsWhole'
        BY <1>2, <2>1, <2>4, <2>5, <2>6 DEF PlanIsWhole, HasRow, Listed
    <2>8. ResumesWell'
        BY <1>2, <2>1, <2>2, <2>6 DEF ResumesWell
    <2>9. RunHaveRows'
        BY <1>2, <2>1 DEF RInv, RunHaveRows
    <2> QED BY <2>7, <2>8, <2>9 DEF RInv
<1>10. rec.next \in Nat /\ rec.replay \in Seq(Node)
    BY <1>1 DEF Recovering
<1>11. ASSUME rec.pc = "replaying", rec.next <= Len(rec.replay), UNCHANGED table,
              runs' = [runs EXCEPT ![rec.replay[rec.next]] = @ + 1]
       PROVE  /\ RunHaveRows'
              /\ \A n \in Node : runs'[n] > 0 /\ rec.from < n
                    => n \in Listed(rec.replay) \cup Listed(rec.skipped)
    <2>1. PICK m \in Node : m = rec.replay[rec.next] /\ rec.next \in DOMAIN rec.replay
        BY <1>1, <1>10, <1>11
    <2>2. m \in Listed(rec.replay)
        BY <2>1 DEF Listed
    <2>3. HasRow(m)
        BY <1>11, <2>2 DEF RInv, PlanIsWhole, Planned
    <2>4. \A n \in Node : n # m => runs'[n] = runs[n]
        BY <1>1, <1>11, <2>1
    <2>5. RunHaveRows'
        BY <1>2, <2>3, <2>4 DEF RInv, RunHaveRows
    <2> QED BY <1>11, <2>2, <2>4, <2>5 DEF RInv, PlanIsWhole, Planned
<1>12. ASSUME ReplayNode PROVE RInv'
    <2>1. /\ rec.pc = "replaying" /\ rec.next <= Len(rec.replay)
          /\ runs' = [runs EXCEPT ![rec.replay[rec.next]] = @ + 1]
          /\ rec' = [rec EXCEPT !.next = rec.next + 1] /\ UNCHANGED <<table, ckpt, acked>>
        BY <1>12 DEF ReplayNode, agentVars
    <2>2. /\ rec'.pc = rec.pc /\ rec'.replay = rec.replay /\ rec'.skipped = rec.skipped
          /\ rec'.from = rec.from /\ rec'.ckpt = rec.ckpt
        BY <1>1, <2>1 DEF Recovering
    <2>3. PlanIsWhole'
        BY <1>11, <2>1, <2>2 DEF RInv, PlanIsWhole, Planned, HasRow
    <2>4. ResumesWell'
        BY <1>2, <2>1, <2>2 DEF RInv, ResumesWell
    <2> QED BY <1>11, <2>1, <2>3, <2>4 DEF RInv
<1>13. ASSUME ReplayDone PROVE RInv'
    <2>1. /\ rec.pc = "replaying" /\ rec'.pc = "done" /\ UNCHANGED <<table, ckpt, acked, runs>>
          /\ rec'.replay = rec.replay /\ rec'.skipped = rec.skipped
          /\ rec'.from = rec.from /\ rec'.ckpt = rec.ckpt
        BY <1>1, <1>13 DEF ReplayDone, Recovering, agentVars
    <2>2. PlanIsWhole'
        BY <2>1 DEF RInv, PlanIsWhole, Planned, HasRow
    <2> QED BY <1>2, <2>1, <2>2 DEF RInv, ResumesWell, RunHaveRows, HasRow
<1>14. ASSUME HandlerRaises PROVE RInv'
    <2>1. /\ rec.pc = "replaying" /\ rec.next <= Len(rec.replay) /\ rec' = NoRecovery
          /\ runs' \in {runs, [runs EXCEPT ![rec.replay[rec.next]] = @ + 1]}
          /\ UNCHANGED table
        BY <1>14 DEF HandlerRaises, agentVars
    <2>2. CASE UNCHANGED runs
        BY <1>2, <1>6, <2>1, <2>2 DEF RInv, RunHaveRows
    <2>3. CASE runs' = [runs EXCEPT ![rec.replay[rec.next]] = @ + 1]
        BY <1>6, <1>11, <2>1, <2>3
    <2> QED BY <2>1, <2>2, <2>3
<1>15. ASSUME UNCHANGED vars PROVE RInv'
    BY <1>2, <1>15, UnrelatedStep DEF vars
<1> QED BY <1>3, <1>4, <1>5, <1>7, <1>8, <1>9, <1>12, <1>13, <1>14, <1>15 DEF Next, Recover, Continue

\* What is resumed from knows every step up to it, and the plan has the rest.
LEMMA InTurnForgetsNothing ==
    ASSUME TInv, IInv, AInv, RInv PROVE NothingForgotten /\ ResumesFromLatestAcked
<1>1. rec.pc \in {"latest", "replaying", "done"} => blob[rec.ckpt] = 1..rec.from /\ rec.from \in Node
    BY DEF AInv, BlobsKnowAll, RInv, ResumesWell
<1>2. NothingForgotten
    <2> SUFFICES ASSUME Planned
                 PROVE  LET known == blob[rec.ckpt]
                            tail  == Listed(rec.replay) \cup Listed(rec.skipped)
                        IN  /\ {n \in Node : runs[n] > 0} \subseteq known \cup tail
                            /\ known \cap tail = {}
        BY DEF NothingForgotten
    <2>1. blob[rec.ckpt] = 1..rec.from /\ rec.from \in Node
        BY <1>1 DEF Planned
    <2>2. /\ \A n \in Listed(rec.replay) \cup Listed(rec.skipped) : rec.from < n
          /\ \A n \in Node : runs[n] > 0 /\ rec.from < n
                => n \in Listed(rec.replay) \cup Listed(rec.skipped)
        BY DEF RInv, PlanIsWhole
    <2>3. \A n \in Node : n \in 1..rec.from \/ rec.from < n
        BY <2>1 DEF Node
    <2>4. \A n \in 1..rec.from : ~ (rec.from < n)
        BY <2>1 DEF Node
    <2> QED BY <2>1, <2>2, <2>3, <2>4
<1>3. ResumesFromLatestAcked
    <2> SUFFICES ASSUME rec.pc \in {"latest", "replaying", "done"}, NEW b \in acked
                 PROVE  blob[b] \subseteq blob[rec.ckpt]
        BY DEF ResumesFromLatestAcked
    <2>1. b \in Node /\ b <= rec.from
        BY DEF TInv, TypeOK, RInv, ResumesWell
    <2>2. ckpt[b] = b
        <3>1. b # NoBlob
            BY DEF IInv, AckedIsRecorded
        <3>2. PICK i \in DOMAIN table : b = table[i].ckpt
            BY DEF IInv, AckedIsRecorded, Recorded
        <3>3. table[i].node \in Node
            BY NodesAreNumbers DEF TInv, TypeOK, Place
        <3> QED BY <3>1, <3>2, <3>3 DEF AInv, BlobsKnowAll
    <2>3. blob[b] = 1..b
        BY <2>1, <2>2 DEF AInv, BlobsKnowAll
    <2> QED BY <1>1, <2>1, <2>3 DEF Node
<1> QED BY <1>2, <1>3

\* For an agent that runs one step at a time and misses no save, every step that
\* was executed is in the blob resumed from or in the plan, and in one of them only.
THEOREM NoStepIsForgotten ==
    ASSUME MaxActive = 1, MaxMisses = 0 PROVE Spec => []NothingForgotten
<1>1. TInv /\ IInv /\ AInv /\ RInv => NothingForgotten
    BY InTurnForgetsNothing
<1>2. TInv /\ IInv /\ AInv /\ RInv /\ [Next]_vars => AInv' /\ RInv'
    BY StepInTurn, StepResumes
<1> QED BY InitTyped, StepTyped, InitHolds, StepHolds, InitInTurn, <1>1, <1>2, PTL DEF Spec

\* For such an agent the blob resumed from knows all that an acknowledged one knows.
THEOREM LatestAckedIsResumed ==
    ASSUME MaxActive = 1, MaxMisses = 0 PROVE Spec => []ResumesFromLatestAcked
<1>1. TInv /\ IInv /\ AInv /\ RInv => ResumesFromLatestAcked
    BY InTurnForgetsNothing
<1>2. TInv /\ IInv /\ AInv /\ RInv /\ [Next]_vars => AInv' /\ RInv'
    BY StepInTurn, StepResumes
<1> QED BY InitTyped, StepTyped, InitHolds, StepHolds, InitInTurn, <1>1, <1>2, PTL DEF Spec
=============================================================================
