------------------------------ MODULE Recovery ------------------------------
(***************************************************************************)
(* recovery.py RecoveryEngine, and the executions it recovers: an agent    *)
(* that records its steps through adapters/_base.py BaseAdapter, stops or  *)
(* crashes, and is recovered from the table by plan and replay.            *)
(*                                                                         *)
(* CheckpointEngine and SQLiteStore appear as what CheckpointEngine.tla    *)
(* shows of them: the write of a save lands as a row with the node's       *)
(* current blob, in time, or after the save has given up on it, or never.  *)
(* Nodes are numbered in creation order, and the blob node n makes at its  *)
(* end has number n; a row is [node, ckpt].                                *)
(***************************************************************************)
EXTENDS SQLiteStore, SequencesExt, Adapters

CONSTANTS
    N,              \* bound: nodes of the execution
    Step,           \* the calls of on_node_start an agent makes
    MaxActive,      \* how many steps the agent runs at a time
    MaxMisses,      \* bound: saves that overrun their budget
    MaxAttempts     \* bound: crashes, and handlers that raise

ASSUME BoundsAssumption ==
    N \in Nat /\ MaxActive \in Nat \ {0} /\ MaxMisses \in Nat /\ MaxAttempts \in Nat
ASSUME StepAssumption == Step \subseteq Call
ASSUME SentinelAssumption == NoRow \notin [node : Nat, ckpt : Nat]

Node == 1..N

VARIABLES
    call,           \* how on_node_start is called for each node
    phase,          \* how far the agent is with each step
    saved,          \* the write of the save a step awaits
    late,           \* writes whose save has given up, and that still run
    ckpt,           \* blob of each node object
    blob,           \* the steps whose outcome blob n holds
    table,          \* the nodes table
    agent,          \* "up", or "down" once it stopped or crashed
    runs,           \* how many times the body of each step was executed
    rec,            \* the recovery in progress
    misses, attempts,
    acked           \* history: blobs whose save returned True

agentVars == <<call, phase, saved, late, ckpt, blob, table, misses, acked>>
vars == <<call, phase, saved, late, ckpt, blob, table, agent, runs, rec,
          misses, attempts, acked>>

\* Type and flag are set at the start and are the same in all rows of a node.
IsReplayed(n) == IsIdempotent(Started(call[n]))

Active == {n \in Node : phase[n] \in {"starting", "running", "ran", "ending", "failing"}}
Finished == {n \in Node : phase[n] \in {"ending", "ended", "failing", "failed"}}

AfterSave(p) == [starting |-> "running", ending |-> "ended", failing |-> "failed"][p]

NoRecovery == [pc |-> "none", ckpt |-> NoBlob, from |-> 0,
               replay |-> << >>, skipped |-> << >>, next |-> 1]

Init ==
    /\ call \in [Node -> Step]
    /\ phase = [n \in Node |-> "new"]
    /\ saved = [n \in Node |-> "none"]
    /\ late = [n \in Node |-> 0]
    /\ ckpt = [n \in Node |-> NoBlob]
    /\ blob = [n \in Node |-> {}]
    /\ table = << >>
    /\ agent = "up"
    /\ runs = [n \in Node |-> 0]
    /\ rec = NoRecovery
    /\ misses = 0 /\ attempts = 0
    /\ acked = {}

-----------------------------------------------------------------------------
Enter(n, p) ==
    /\ phase' = [phase EXCEPT ![n] = p]
    /\ saved' = [saved EXCEPT ![n] = "pending"]

\* on_node_start, up to its await of save
Start(n) ==
    /\ agent = "up" /\ phase[n] = "new"
    /\ \A m \in 1..(n - 1) : phase[m] # "new"
    /\ Cardinality(Active) < MaxActive
    /\ Enter(n, "starting")
    /\ UNCHANGED <<call, late, ckpt, blob, table, agent, runs, rec, misses, attempts, acked>>

\* The step itself, with the side effects it has.
Body(n) ==
    /\ agent = "up" /\ phase[n] = "running"
    /\ phase' = [phase EXCEPT ![n] = "ran"]
    /\ runs' = [runs EXCEPT ![n] = @ + 1]
    /\ UNCHANGED <<call, saved, late, ckpt, blob, table, agent, rec, misses, attempts, acked>>

\* on_node_end: the agent's state, if given, knows every step finished so far.
End(n, withState) ==
    /\ agent = "up" /\ phase[n] = "ran"
    /\ Enter(n, "ending")
    /\ IF withState
       THEN /\ ckpt' = [ckpt EXCEPT ![n] = n]
            /\ blob' = [blob EXCEPT ![n] = Finished \cup {n}]
       ELSE UNCHANGED <<ckpt, blob>>
    /\ UNCHANGED <<call, late, table, agent, runs, rec, misses, attempts, acked>>

\* on_node_error: the body raised, before or after its effects
Fail(n) ==
    /\ agent = "up" /\ phase[n] \in {"running", "ran"}
    /\ Enter(n, "failing")
    /\ UNCHANGED <<call, late, ckpt, blob, table, agent, runs, rec, misses, attempts, acked>>

RowNow(n) == [node |-> n, ckpt |-> ckpt[n]]

\* The write of the awaited save is committed.
Land(n) ==
    /\ saved[n] = "pending"
    /\ table' = Append(table, RowNow(n))
    /\ saved' = [saved EXCEPT ![n] = "landed"]
    /\ UNCHANGED <<call, phase, late, ckpt, blob, agent, runs, rec, misses, attempts, acked>>

\* save returns True
SaveTrue(n) ==
    /\ agent = "up" /\ saved[n] = "landed"
    /\ phase' = [phase EXCEPT ![n] = AfterSave(@)]
    /\ saved' = [saved EXCEPT ![n] = "none"]
    /\ acked' = acked \cup ({ckpt[n]} \ {NoBlob})
    /\ UNCHANGED <<call, late, ckpt, blob, table, agent, runs, rec, misses, attempts>>

\* Plausible bug: the count goes the wrong way.
AbandonedLess(n) == late[n] - (IF saved[n] = "pending" THEN 1 ELSE 0)

Abandoned(n) == late[n] + (IF saved[n] = "pending" THEN 1 ELSE 0)

\* save returns False: the adapter goes on as if it had not.
Miss(n) ==
    /\ agent = "up" /\ saved[n] # "none" /\ misses < MaxMisses
    /\ misses' = misses + 1
    /\ phase' = [phase EXCEPT ![n] = AfterSave(@)]
    /\ late' = [late EXCEPT ![n] = Abandoned(n)]
    /\ saved' = [saved EXCEPT ![n] = "none"]
    /\ UNCHANGED <<call, ckpt, blob, table, agent, runs, rec, attempts, acked>>

\* A write that nobody waits for any more lands all the same.
LandLate(n) ==
    /\ late[n] > 0
    /\ table' = Append(table, RowNow(n))
    /\ late' = [late EXCEPT ![n] = @ - 1]
    /\ UNCHANGED <<call, phase, saved, ckpt, blob, agent, runs, rec, misses, attempts, acked>>

\* The agent's task ends by an exception; the process and its threads go on.
Stop ==
    /\ agent = "up"
    /\ agent' = "down"
    /\ late' = [n \in Node |-> Abandoned(n)]
    /\ saved' = [n \in Node |-> "none"]
    /\ UNCHANGED <<call, phase, ckpt, blob, table, runs, rec, misses, attempts, acked>>

\* The process dies, the agent's or the one that recovers it.
Crash ==
    /\ attempts < MaxAttempts /\ rec.pc \notin {"fresh", "done"}
    /\ attempts' = attempts + 1
    /\ agent' = "down"
    /\ late' = [n \in Node |-> 0]
    /\ saved' = [n \in Node |-> "none"]
    /\ rec' = NoRecovery
    /\ UNCHANGED <<call, phase, ckpt, blob, table, runs, misses, acked>>

-----------------------------------------------------------------------------
From(found) ==
    [NoRecovery EXCEPT !.pc = "latest", !.ckpt = found.ckpt, !.from = found.node]

Resume(found) == IF found = NoRow THEN [NoRecovery EXCEPT !.pc = "fresh"] ELSE From(found)

\* plan, first await: latest reads the table, never the hot tier.
PlanLatest ==
    /\ agent = "down" /\ rec.pc = "none"
    /\ rec' = Resume(LatestCheckpoint(table))
    /\ UNCHANGED <<agentVars, agent, runs, attempts>>

\* Plausible bugs: nodes[index:] and nodes[index + 2:].
NodesFrom(list, n) ==
    LET places == {i \in DOMAIN list : list[i].node = n} IN
    IF places = {} THEN << >> ELSE SubSeq(list, Min(places), Len(list))
NodesTooFar(list, n) ==
    LET places == {i \in DOMAIN list : list[i].node = n} IN
    IF places = {} THEN << >> ELSE SubSeq(list, Min(places) + 2, Len(list))

\* _nodes_after: what is listed behind the node, nothing if it is not listed.
NodesAfter(list, n) ==
    LET places == {i \in DOMAIN list : list[i].node = n} IN
    IF places = {} THEN << >> ELSE SubSeq(list, Min(places) + 1, Len(list))

\* The nodes of a list that are idempotent, or those that are not.
Pick(list, idempotent) ==
    LET chosen == SelectAt(list, {i \in DOMAIN list : IsReplayed(list[i].node) = idempotent})
    IN  [i \in DOMAIN chosen |-> chosen[i].node]

\* plan, second await: what follows the checkpoint node is replayed or skipped.
PlanList ==
    /\ rec.pc = "latest"
    /\ \E list \in {ListByExecution(table)} : LET after == NodesAfter(list, rec.from) IN
       rec' = [rec EXCEPT !.pc = "replaying",
                           !.replay = Pick(after, TRUE),
                           !.skipped = Pick(after, FALSE)]
    /\ UNCHANGED <<agentVars, agent, runs, attempts>>

\* replay: the handler runs the body of the next replay node again.
ReplayNode ==
    /\ rec.pc = "replaying" /\ rec.next <= Len(rec.replay)
    /\ runs' = [runs EXCEPT ![rec.replay[rec.next]] = @ + 1]
    /\ rec' = [rec EXCEPT !.next = @ + 1]
    /\ UNCHANGED <<agentVars, agent, attempts>>

\* The handler raises, after its effects or before them, and replay with it;
\* the caller may recover again, from the start.
HandlerRaises ==
    /\ rec.pc = "replaying" /\ rec.next <= Len(rec.replay) /\ attempts < MaxAttempts
    /\ attempts' = attempts + 1
    /\ runs' \in {runs, [runs EXCEPT ![rec.replay[rec.next]] = @ + 1]}
    /\ rec' = NoRecovery
    /\ UNCHANGED <<agentVars, agent>>

\* Plausible bug: the loop leaves the last node out.
ReplayDoneEarly ==
    /\ rec.pc = "replaying" /\ rec.next >= Len(rec.replay)
    /\ rec' = [rec EXCEPT !.pc = "done"]
    /\ UNCHANGED <<agentVars, agent, runs, attempts>>

ReplayDone ==
    /\ rec.pc = "replaying" /\ rec.next > Len(rec.replay)
    /\ rec' = [rec EXCEPT !.pc = "done"]
    /\ UNCHANGED <<agentVars, agent, runs, attempts>>

\* A recovery that has begun goes on.
Continue == PlanList \/ ReplayNode \/ ReplayDone

Recover == PlanLatest \/ Continue

Next ==
    \/ \E n \in Node : \/ Start(n) \/ Body(n) \/ Fail(n)
                       \/ \E withState \in BOOLEAN : End(n, withState)
                       \/ Land(n) \/ SaveTrue(n) \/ Miss(n) \/ LandLate(n)
    \/ Stop
    \/ Crash
    \/ Recover
    \/ HandlerRaises

Spec == Init /\ [][Next]_vars

\* The caller's event loop runs a recovery that has begun to its end, unless the
\* process dies.  Nobody has to begin one, or another after a handler raised.
FairSpec == Spec /\ WF_vars(Continue)

-----------------------------------------------------------------------------
Phase == {"new", "starting", "running", "ran", "ending", "ended", "failing", "failed"}

TypeOK ==
    /\ call \in [Node -> Step] /\ phase \in [Node -> Phase]
    /\ saved \in [Node -> {"none", "pending", "landed"}]
    /\ late \in [Node -> Nat] /\ runs \in [Node -> Nat]
    /\ ckpt \in [Node -> 0..N] /\ blob \in [Node -> SUBSET Node]
    /\ table \in Seq([node : Node, ckpt : 0..N])
    /\ agent \in {"up", "down"}
    /\ rec \in [pc : {"none", "latest", "replaying", "fresh", "done"}, ckpt : 0..N,
                from : 0..N, replay : Seq(Node), skipped : Seq(Node), next : Nat]
    /\ misses \in 0..MaxMisses /\ attempts \in 0..MaxAttempts
    /\ acked \subseteq Node

Planned == rec.pc \in {"replaying", "done"}
Listed(q) == {q[i] : i \in DOMAIN q}

\* A step that its caller called unsafe, or that looks like a tool and that
\* nobody called safe.
MayHaveEffects(n) ==
    LET c == call[n] IN
    /\ c.idempotent # "yes"
    /\ \/ c.idempotent = "no"
       \/ c.meta = "no"
       \/ c.meta # "yes" /\ c.type = "TOOL"
       \/ c.meta # "yes" /\ c.type = "unset" /\ c.words \cap ToolHints[c.framework] # {}

\* The critical constraint: recovery never runs such a node a second time,
\* however many crashes, missed saves, late rows and repeated recoveries.
NoEffectTwice == \A n \in Node : MayHaveEffects(n) => runs[n] <= 1

After(rows, n) ==
    LET after == NodesAfter(ListByExecution(rows), n) IN [i \in DOMAIN after |-> after[i].node]

\* The node resumed from is not run again: its blob already holds its outcome.
ResumeNodeStaysOut ==
    Planned => rec.from \notin Listed(rec.replay) \cup Listed(rec.skipped)

\* Writes that nobody waits for land between the two awaits of plan: of the nodes
\* that followed the checkpoint node at the first, none is lost to the second or
\* changes its place, whichever nodes they write again, that one included.
PlanOnlyGrows ==
    [][rec.pc = "latest" /\ rec'.pc = "latest" =>
          IsPrefix(After(table, rec.from), After(table', rec.from))]_vars

\* Once a checkpoint was acknowledged, recovery never starts from scratch,
\* whatever rows without a blob were recorded after it.
NeverForgetsCheckpoint == rec.pc = "fresh" => acked = {}

\* For an agent that runs one step at a time and whose saves all make it in
\* time: every step that was executed is in the blob resumed from, or is in one
\* of the two lists, and none of them is in both.
NothingForgotten ==
    Planned =>
        LET known == blob[rec.ckpt]
            tail  == Listed(rec.replay) \cup Listed(rec.skipped)
        IN  /\ {n \in Node : runs[n] > 0} \subseteq known \cup tail
            /\ known \cap tail = {}

\* Recovery resumes from a blob that knows all that any acknowledged one knows.
ResumesFromLatestAcked ==
    rec.pc \in {"latest", "replaying", "done"} =>
        \A b \in acked : blob[b] \subseteq blob[rec.ckpt]

\* A recovery that has found a checkpoint ends: it returns, and by then every node
\* of its replay list has been run, or its process died or its handler raised.
RecoveryEnds ==
    rec.pc \in {"latest", "replaying"} ~>
        \/ rec.pc = "none"
        \/ rec.pc = "done" /\ \A n \in Listed(rec.replay) : runs[n] > 0

-----------------------------------------------------------------------------
\* What the documentation says and the code does not do.

\* "their side effects already happened": a skipped node has been executed.
SkippedHaveRun == Planned => \A n \in Listed(rec.skipped) : runs[n] > 0
=============================================================================
