------------------------------- MODULE Replay -------------------------------
(***************************************************************************)
(* replay.py ReplaySession, on an SQLite table that agents still write to, *)
(* for its three callers: a program with a handler that really executes    *)
(* nodes, the replay command of cli.py and the button of studio/app.py,    *)
(* whose handlers return the recorded output.                              *)
(*                                                                         *)
(* The agents share an event loop and a store.  A node object is written   *)
(* to the table as the thread of its save reads it, attribute by           *)
(* attribute, in time, late or never (CheckpointEngine.tla); meanwhile the *)
(* event loop may change it.  A behaviour has one session, with or without *)
(* a page of the Studio; the agents go on during its awaits.               *)
(***************************************************************************)
EXTENDS PostgresStore

CONSTANTS
    Plans,          \* what may be recorded: for each node [exec, type, output,
                    \* blob, whole]
    MaxRows,        \* bound: rows of the table
    None            \* argument that is not given, or no session

ASSUME BoundsAssumption == MaxRows \in Nat
ASSUME PlansAssumption ==
    \A p \in Plans : \A n \in DOMAIN p :
        n \in Nat /\ p[n].type \in NodeType /\ p[n].output \in Value
        /\ p[n].blob \in BOOLEAN /\ p[n].whole \in BOOLEAN
ASSUME SentinelAssumption == None \notin Nat /\ None # "studio"

Mode == {"FULL", "FROM_NODE", "MOCK_TOOLS", "COUNTERFACTUAL"}

VARIABLES
    plan,           \* what the agents of this behaviour do
    live,           \* the node objects of the agents
    stage,          \* how far the adapter is with each node
    writer,         \* the thread that holds the store's lock
    table,          \* the nodes table
    told,           \* history: nodes that were written after their end
    page,           \* the page of the Studio
    session,        \* arguments and progress of the session
    results,        \* its list of ReplayResult
    counters        \* its metrics

agentVars == <<plan, live, stage, writer, table, told>>
sessionVars == <<session, results, counters>>
vars == <<plan, live, stage, writer, table, told, page, session, results, counters>>

Node == DOMAIN plan
Exec == {plan[n].exec : n \in Node}

NewNode(n) == [node |-> n, exec |-> plan[n].exec, type |-> plan[n].type,
               status |-> "PENDING", input |-> "json", output |-> "none",
               flag |-> "unset", ckpt |-> NoBlob]

NoWriter == [pc |-> "idle", node |-> None, final |-> FALSE]

\* before: the executions of the page that was clicked on, or chosen from
NoPage == [pc |-> "none", execs |-> << >>, exec |-> None, nodes |-> << >>,
           clicked |-> None, before |-> << >>]

\* History: shown, the nodes of the page that was clicked on; ended, what of the
\* execution was told when the session began.
NoSession == [pc |-> "none", caller |-> None, exec |-> None, mode |-> "FULL", from |-> None,
              cf |-> None, nodes |-> << >>, shown |-> << >>, ended |-> {}]

Init ==
    /\ plan \in Plans
    /\ live = [n \in Node |-> NewNode(n)]
    /\ stage = [n \in Node |-> "new"]
    /\ writer = NoWriter
    /\ table = << >>
    /\ told = {}
    /\ page = NoPage
    /\ session = NoSession
    /\ results = << >>
    /\ counters = [executed |-> 0, mocked |-> 0, sessions |-> 0]

-----------------------------------------------------------------------------
\* The event loop is at another place than inside on_node_end, which has no await
\* before its call of save.
LoopFree == \A n \in Node : stage[n] \notin {"status", "output"}

\* An adapter changes its node.
Change(n, from, to, node) ==
    /\ stage[n] = from
    /\ stage' = [stage EXCEPT ![n] = to]
    /\ live' = [live EXCEPT ![n] = node]
    /\ UNCHANGED <<plan, writer, table, told, page, sessionVars>>

\* on_node_start
Start(n) ==
    LoopFree /\ ~plan[n].whole
    /\ Change(n, "new", "started", [live[n] EXCEPT !.status = "RUNNING"])

\* on_node_end: the status, the output, and then save, which sets the blob.
SetStatus(n) == LoopFree /\ Change(n, "started", "status", [live[n] EXCEPT !.status = "SUCCESS"])

SetOutput(n) == Change(n, "status", "output", [live[n] EXCEPT !.output = plan[n].output])

Blob(n) == IF plan[n].blob THEN n ELSE NoBlob

HandOver(n) == Change(n, "output", "over", [live[n] EXCEPT !.ckpt = Blob(n)])

\* on_node_error, for a step that raised, or for the save of one whose output
\* JSON cannot hold.
Error(n) ==
    /\ LoopFree
    /\ stage[n] = "started" \/ (live[n].status = "SUCCESS" /\ ~HasJson(live[n]))
    /\ Change(n, stage[n], "over", [live[n] EXCEPT !.status = "FAILED"])

\* What _row_to_node makes of the row of a node object.
RowOf(node) == FromDict(ToDict(node), node.ckpt)

\* The row of a node that a program made whole and saved once, without an adapter.
Record(n) ==
    /\ stage[n] = "new" /\ plan[n].whole /\ Len(table) < MaxRows
    /\ \E status \in {"SUCCESS", "FAILED"} :
           LET node == [live[n] EXCEPT !.status = status, !.output = plan[n].output,
                                       !.ckpt = Blob(n)]
           IN  /\ HasJson(node)
               /\ live' = [live EXCEPT ![n] = node]
               /\ table' = Append(table, RowOf(node))
    /\ stage' = [stage EXCEPT ![n] = "whole"]
    /\ told' = told \cup {n}
    /\ UNCHANGED <<plan, writer, page, sessionVars>>

\* How many writes of a node its adapter has asked for.
Asked(n) == CASE stage[n] \in {"new", "whole"} -> 0
              [] stage[n] = "over"            -> 2
              [] OTHER                        -> 1

\* _write_sync under the lock: to_dict reads the attributes in their order, up to
\* the status,
Serialize(n) ==
    /\ writer = NoWriter
    /\ Cardinality(RowsOf(table, n)) < Asked(n) /\ Len(table) < MaxRows
    /\ writer' = [pc |-> "output", node |-> live[n], final |-> stage[n] = "over"]
    /\ UNCHANGED <<plan, live, stage, table, told, page, sessionVars>>

\* and the output; to_json raises before the insert if it must.
ReadOutput ==
    /\ writer.pc = "output"
    /\ LET node == [writer.node EXCEPT !.output = live[writer.node.node].output] IN
       writer' = IF HasJson(node) THEN [writer EXCEPT !.pc = "insert", !.node = node]
                                  ELSE NoWriter
    /\ UNCHANGED <<plan, live, stage, table, told, page, sessionVars>>

\* The blob is read last; the insert is committed.
Insert ==
    /\ writer.pc = "insert"
    /\ LET n == writer.node.node IN
       /\ table' = Append(table, RowOf([writer.node EXCEPT !.ckpt = live[n].ckpt]))
       /\ told' = IF writer.final THEN told \cup {n} ELSE told
    /\ writer' = NoWriter
    /\ UNCHANGED <<plan, live, stage, page, sessionVars>>

-----------------------------------------------------------------------------
RowsIn(rows, e) == SelectAt(rows, {i \in DOMAIN rows : rows[i].exec = e})

\* list_by_execution
Listed(rows, e) == ListByExecution(RowsIn(rows, e))

NodesOf(list) == [i \in DOMAIN list |-> list[i].node]

\* Plausible bug: ORDER BY MAX(seq).
LastIn(rows, e) == Max({i \in DOMAIN rows : rows[i].exec = e})
FirstIn(rows, e) == Min({i \in DOMAIN rows : rows[i].exec = e})

\* _list_executions: GROUP BY execution_id ORDER BY MIN(seq)
ListExecutions(rows) ==
    LET execs == {rows[i].exec : i \in DOMAIN rows}
    IN  InOrder(execs, {p \in execs \X execs : FirstIn(rows, p[1]) < FirstIn(rows, p[2])})

\* run, up to its await of the list: the argument the mode needs must be there,
\* any other is ignored.
Begin(caller, e, mode, from, cf) ==
    /\ session.pc = "none"
    /\ session' = [NoSession EXCEPT
           !.pc = IF (mode = "FROM_NODE" /\ from = None) \/ (mode = "COUNTERFACTUAL" /\ cf = None)
                  THEN "refused" ELSE "listing",
           !.caller = caller, !.exec = e, !.mode = mode,
           !.from = IF mode = "FROM_NODE" THEN from ELSE None,
           !.cf = IF mode = "COUNTERFACTUAL" THEN cf ELSE None,
           !.shown = page.nodes, !.ended = {n \in told : plan[n].exec = e}]
    /\ UNCHANGED <<agentVars, results, counters>>

Run == /\ page = NoPage /\ UNCHANGED page
       /\ \E e \in Exec, mode \in Mode, from \in Node \cup {None}, cf \in Node \cup {None} :
              Begin("program", e, mode, from, cf)

\* cmd_replay has no argument for a counterfactual.
Command == /\ page = NoPage /\ UNCHANGED page
           /\ \E e \in Exec, mode \in Mode, from \in Node \cup {None} :
                  Begin("cli", e, mode, from, None)

ReplayFrom(e, n) == Begin("studio", e, "FROM_NODE", n, None)

\* main, up to its await of load_nodes.  The select box keeps what was wanted of it
\* while its options stay the same, and begins anew if they do not.
Rerun(wanted, clicked) ==
    /\ session.pc = "none"
    /\ LET execs == ListExecutions(table) IN
       /\ execs # << >>
       /\ page' = [page EXCEPT !.pc = "loading", !.execs = execs,
                               !.exec = IF execs = page.execs THEN wanted ELSE Head(execs),
                               !.clicked = clicked, !.before = page.execs]
    /\ UNCHANGED <<agentVars, sessionVars>>

Open == page.pc = "none" /\ Rerun(None, None)

Choose == page.pc = "shown" /\ \E e \in ToSet(page.execs) : Rerun(e, None)

\* A click runs main again, too, before anything is replayed.
Click == page.pc = "shown" /\ \E n \in ToSet(page.nodes) : Rerun(page.exec, n)

\* Plausible bug: the click is remembered, and acted upon whatever is listed now.
RenderAnyhow ==
    /\ page.pc = "loading"
    /\ LET nodes == NodesOf(Listed(table, page.exec)) IN
       /\ page' = [page EXCEPT !.pc = "shown", !.nodes = nodes, !.clicked = None, !.before = << >>]
       /\ IF page.clicked # None THEN ReplayFrom(page.exec, page.clicked)
                                 ELSE UNCHANGED <<agentVars, sessionVars>>

\* The rest of main: the nodes, each with its button, and the replay below the
\* button that was clicked, if it is there again.
Render ==
    /\ page.pc = "loading"
    /\ LET nodes == NodesOf(Listed(table, page.exec)) IN
       /\ page' = [page EXCEPT !.pc = "shown", !.nodes = nodes, !.clicked = None, !.before = << >>]
       /\ IF page.clicked \in ToSet(nodes) THEN ReplayFrom(page.exec, page.clicked)
                                           ELSE UNCHANGED <<agentVars, sessionVars>>

\* _select: FROM_NODE takes the list from that node on.
SelectNodes(list, mode, from) ==
    IF mode = "FROM_NODE"
    THEN SubSeq(list, Min({i \in DOMAIN list : list[i].node = from}), Len(list))
    ELSE list

\* _select raises KeyError if the node is not listed.
ListNodes ==
    /\ session.pc = "listing"
    /\ LET list == Listed(table, session.exec) IN
       session' = IF session.mode = "FROM_NODE" /\ session.from \notin ToSet(NodesOf(list))
                  THEN [session EXCEPT !.pc = "refused"]
                  ELSE [session EXCEPT !.pc = "running",
                            !.nodes = SelectNodes(list, session.mode, session.from)]
    /\ UNCHANGED <<agentVars, page, results, counters>>

-----------------------------------------------------------------------------
Todo == session.pc = "running" /\ Len(results) < Len(session.nodes)
Current == session.nodes[Len(results) + 1]

Mocks(node) == session.mode = "MOCK_TOOLS" /\ node.type = "TOOL"

\* Plausible bug: every node after the given one gets the input too.
ProbesFrom(node) ==
    session.mode = "COUNTERFACTUAL" /\ \E i \in DOMAIN session.nodes :
        session.nodes[i].node = session.cf /\ i <= Len(results) + 1

Probes(node) == session.mode = "COUNTERFACTUAL" /\ node.node = session.cf

NewInput == "changed"

\* What the handler gets: the node, or a copy without blob and with another input.
Handed(node) ==
    IF Probes(node) THEN [FromDict(ToDict(node), NoBlob) EXCEPT !.input = NewInput] ELSE node

Result(node, output, mocked) == [node |-> node, output |-> output, mocked |-> mocked]

Mock ==
    /\ Todo /\ Mocks(Current)
    /\ results' = Append(results, Result(Current, Current.output, TRUE))
    /\ counters' = [counters EXCEPT !.mocked = @ + 1]
    /\ UNCHANGED <<agentVars, page, session>>

\* The handler of cli.py and of the Studio only looks the output up.
Reconstruct ==
    /\ Todo /\ ~Mocks(Current) /\ session.caller \in {"cli", "studio"}
    /\ results' = Append(results, Result(Handed(Current), Current.output, FALSE))
    /\ counters' = [counters EXCEPT !.executed = @ + 1]
    /\ UNCHANGED <<agentVars, page, session>>

\* A program's handler executes the node; its output is its own.
Execute ==
    /\ Todo /\ ~Mocks(Current) /\ session.caller = "program"
    /\ results' = Append(results, Result(Handed(Current), "json", FALSE))
    /\ counters' = [counters EXCEPT !.executed = @ + 1]
    /\ UNCHANGED <<agentVars, page, session>>

\* Plausible bug: the node is counted before its handler is awaited.
RaiseCounted ==
    /\ Todo /\ ~Mocks(Current) /\ session.caller = "program"
    /\ session' = [session EXCEPT !.pc = "raised"]
    /\ counters' = [counters EXCEPT !.executed = @ + 1]
    /\ UNCHANGED <<agentVars, page, results>>

\* It may raise, and there are no results at all.
Raise ==
    /\ Todo /\ ~Mocks(Current) /\ session.caller = "program"
    /\ session' = [session EXCEPT !.pc = "raised"]
    /\ UNCHANGED <<agentVars, page, results, counters>>

Finish ==
    /\ session.pc = "running" /\ ~Todo
    /\ session' = [session EXCEPT !.pc = "returned"]
    /\ counters' = [counters EXCEPT !.sessions = @ + 1]
    /\ UNCHANGED <<agentVars, page, results>>

Next ==
    \/ \E n \in Node : \/ Start(n) \/ SetStatus(n) \/ SetOutput(n) \/ HandOver(n)
                       \/ Error(n) \/ Record(n) \/ Serialize(n)
    \/ ReadOutput \/ Insert
    \/ Open \/ Choose \/ Click \/ Render
    \/ Run \/ Command
    \/ ListNodes \/ Mock \/ Reconstruct \/ Execute \/ Raise \/ Finish

Spec == Init /\ [][Next]_vars

-----------------------------------------------------------------------------
Recorded == [node : Node, exec : Exec, type : NodeType, status : Status, input : Json,
             output : Json, flag : Flag, ckpt : Nat]

TypeOK ==
    /\ plan \in Plans
    /\ \A n \in Node : live[n] \in [node : {n}, exec : {plan[n].exec}, type : NodeType,
           status : Status, input : Value, output : Value, flag : Flag, ckpt : {NoBlob, n}]
    /\ stage \in [Node -> {"new", "started", "status", "output", "over", "whole"}]
    /\ writer.pc \in {"idle", "output", "insert"} /\ writer.final \in BOOLEAN
    /\ table \in Seq(Recorded)
    /\ told \subseteq Node
    /\ page.pc \in {"none", "loading", "shown"}
    /\ page.execs \in Seq(Exec) /\ page.before \in Seq(Exec) /\ page.exec \in Exec \cup {None}
    /\ page.nodes \in Seq(Node) /\ page.clicked \in Node \cup {None}
    /\ session.pc \in {"none", "listing", "running", "returned", "raised", "refused"}
    /\ session.nodes \in Seq(Recorded) /\ session.shown \in Seq(Node)
    /\ session.ended \subseteq Node
    /\ Len(results) <= Len(session.nodes)
    /\ counters \in [executed : Nat, mocked : Nat, sessions : {0, 1}]

\* What is listed keeps its place, whatever rows come later: executions and nodes
\* are only ever added at the end.  Pages, plans and --from rely on it.
ListsOnlyGrow ==
    [][table' # table =>
         /\ IsPrefix(ListExecutions(table), ListExecutions(table'))
         /\ \A e \in Exec : IsPrefix(NodesOf(Listed(table, e)), NodesOf(Listed(table', e)))]_vars

\* A click is lost only if an execution has appeared since the page was made, and
\* never on the page of the first one, to which the select box falls back.
ClicksAreServed ==
    [][page.pc = "loading" /\ page.clicked # None /\ page'.pc = "shown" /\ UNCHANGED session =>
          /\ Len(page.execs) > Len(page.before)
          /\ plan[page.clicked].exec # Head(page.before)]_vars

\* A click that is not lost is carried out: whatever rows came since the page was
\* made, replay finds the node, and what it replays begins with the nodes that
\* page showed from there on, in its order.
ClickedIsFound ==
    session.caller = "studio" =>
        /\ session.pc # "refused"
        /\ session.pc \in {"running", "returned"} =>
               LET i == Min({k \in DOMAIN session.shown : session.shown[k] = session.from})
               IN  IsPrefix(SubSeq(session.shown, i, Len(session.shown)), NodesOf(session.nodes))

\* Where the recorded output is the result, it is what the step returned, as JSON
\* reads it, or nothing, and nothing only if no write after the step's end had been
\* committed when the session began: a row that a late thread read while
\* on_node_end was at work never stands for the step's end.
OutputsAreRecorded ==
    \A i \in DOMAIN results :
        LET r == results[i]
            n == r.node.node
        IN  r.mocked \/ session.caller # "program" =>
                \/ r.output = JsonForm(live[n].output)
                \/ r.output = "none" /\ n \notin session.ended

\* A session that returns has a result for each node it selected, in their
\* order; a counterfactual changed the input of the one node asked for, or, if
\* that is not listed, of none, and every other mode of none.
OneInputChanged ==
    session.pc = "returned" =>
        /\ [i \in DOMAIN results |-> results[i].node.node] = NodesOf(session.nodes)
        /\ {i \in DOMAIN results : results[i].node.input # session.nodes[i].input}
              = {i \in DOMAIN results : session.mode = "COUNTERFACTUAL"
                                           /\ results[i].node.node = session.cf}

\* The metrics agree with the results, after a handler that raised too.
CountersMatch ==
    /\ counters.executed = Cardinality({i \in DOMAIN results : ~results[i].mocked})
    /\ counters.mocked = Cardinality({i \in DOMAIN results : results[i].mocked})
    /\ counters.sessions = 1 <=> session.pc = "returned"

\* "The two backends can be swapped transparently": Postgres lists every
\* execution as SQLite does.
PostgresListsAlike == \A e \in Exec : ListBySeq(RowsIn(table, e)) = Listed(table, e)

-----------------------------------------------------------------------------
\* What the documentation says and the code does not do.

\* The same of the latest checkpoint, "the one with the highest global seq".
PostgresLatestAlike ==
    \A e \in Exec :
        LatestDistinct(RowsIn(table, e)) = LatestCheckpoint(RowsIn(table, e))
=============================================================================
