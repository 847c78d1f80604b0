---------------------------- MODULE ReplayProofs ----------------------------
(***************************************************************************)
(* What a replay session is given and what it returns, for any agents, any *)
(* table and any interleaving of their writes with the session.            *)
(***************************************************************************)
EXTENDS Replay, SQLiteStoreProofs

\* A prefix, element by element.
LEMMA PrefixElements ==
    ASSUME NEW S, NEW s \in Seq(S), NEW t \in Seq(S)
    PROVE  IsPrefix(s, t) <=> /\ Len(s) <= Len(t)
                              /\ \A k \in 1..Len(s) : s[k] = t[k]
BY DEF IsPrefix

\* Rows are added at the end of the rows of their execution.
LEMMA RowsInGrows ==
    ASSUME NEW R, NEW rows \in Seq(R), NEW row \in R, NEW e
    PROVE  /\ RowsIn(rows, e) \in Seq(R)
           /\ RowsIn(Append(rows, row), e)
                 = IF row.exec = e THEN Append(RowsIn(rows, e), row) ELSE RowsIn(rows, e)
<1> DEFINE I == {i \in DOMAIN rows : rows[i].exec = e}
           more == Append(rows, row)
           J == {i \in DOMAIN more : more[i].exec = e}
<1>1. /\ Len(rows) \in Nat /\ DOMAIN rows = 1..Len(rows) /\ DOMAIN more = 1..(Len(rows) + 1)
      /\ \A i \in DOMAIN rows : i \in DOMAIN more /\ more[i] = rows[i]
      /\ more[Len(rows) + 1] = row
    OBVIOUS
<1>2. \A i \in DOMAIN more : i \in DOMAIN rows \/ i = Len(rows) + 1
    BY <1>1
<1>3. I \in SUBSET DOMAIN rows /\ Len(rows) + 1 \in DOMAIN more /\ Len(rows) + 1 \notin DOMAIN rows
    BY <1>1
<1>4. RowsIn(rows, e) = SelectAt(rows, I) /\ RowsIn(more, e) = SelectAt(more, J)
    BY DEF RowsIn
<1>5. SelectAt(rows, I) \in Seq(R)
    BY <1>3, SelectAtSelects
<1>6. /\ SelectAt(more, I) = SelectAt(rows, I)
      /\ SelectAt(more, I \cup {Len(rows) + 1}) = Append(SelectAt(rows, I), row)
    <2> HIDE DEF I, J
    <2> QED BY <1>3, SelectAtGrows
<1>7. ASSUME row.exec = e PROVE J = I \cup {Len(rows) + 1}
    BY <1>1, <1>2, <1>3, <1>7
<1>8. ASSUME row.exec # e PROVE J = I
    BY <1>1, <1>2, <1>3, <1>8
<1>9. RowsIn(more, e) = IF row.exec = e THEN Append(RowsIn(rows, e), row) ELSE RowsIn(rows, e)
    <2> HIDE DEF I, J, more
    <2> QED BY <1>4, <1>6, <1>7, <1>8
<1> QED BY <1>4, <1>5, <1>9

\* The rows of an execution are rows of the table, and all that are its own.
LEMMA RowsInFacts ==
    ASSUME NEW R, NEW rows \in Seq(R), NEW e
    PROVE  /\ \A k \in DOMAIN RowsIn(rows, e) : \E i \in DOMAIN rows :
                 RowsIn(rows, e)[k] = rows[i] /\ rows[i].exec = e
           /\ \A i \in DOMAIN rows : rows[i].exec = e =>
                 \E k \in DOMAIN RowsIn(rows, e) : RowsIn(rows, e)[k] = rows[i]
<1> DEFINE I == {i \in DOMAIN rows : rows[i].exec = e}
<1>1. I \in SUBSET DOMAIN rows /\ RowsIn(rows, e) = SelectAt(rows, I)
    BY DEF RowsIn
<1>2. /\ DOMAIN SelectAt(rows, I) = 1..Cardinality(I)
      /\ \A k \in 1..Cardinality(I) :
            SelectAt(rows, I)[k] = rows[Ascending(I)[k]] /\ Ascending(I)[k] \in I
      /\ \A i \in I : \E k \in 1..Cardinality(I) : SelectAt(rows, I)[k] = rows[i]
    BY <1>1, SelectAtSelects
<1>3. \A i \in I : i \in DOMAIN rows /\ rows[i].exec = e
    OBVIOUS
<1>4. \A i \in DOMAIN rows : rows[i].exec = e => i \in I
    OBVIOUS
<1> HIDE DEF I
<1>5. \A k \in DOMAIN RowsIn(rows, e) : \E i \in DOMAIN rows :
          RowsIn(rows, e)[k] = rows[i] /\ rows[i].exec = e
    BY <1>1, <1>2, <1>3
<1>6. \A i \in DOMAIN rows : rows[i].exec = e =>
          \E k \in DOMAIN RowsIn(rows, e) : RowsIn(rows, e)[k] = rows[i]
    BY <1>1, <1>2, <1>4
<1> QED BY <1>5, <1>6

\* The list of an execution, as NodesOf shows it, only ever grows at its end.
LEMMA ListGrows ==
    ASSUME NEW N, NEW R, \A r \in R : r.node \in N, NEW rows \in Seq(R), NEW row \in R, NEW e
    PROVE  /\ NodesOf(Listed(rows, e)) \in Seq(N)
           /\ NodesOf(Listed(Append(rows, row), e)) \in Seq(N)
           /\ IsPrefix(NodesOf(Listed(rows, e)), NodesOf(Listed(Append(rows, row), e)))
<1> DEFINE old == Listed(rows, e)
           new == Listed(Append(rows, row), e)
<1>1. \A l \in Seq(R) : NodesOf(l) \in Seq(N) /\ Len(NodesOf(l)) = Len(l)
                        /\ \A k \in DOMAIN l : NodesOf(l)[k] = l[k].node
    BY DEF NodesOf
<1>2. Append(rows, row) \in Seq(R)
    OBVIOUS
<1>3. \A s \in Seq(R) : RowsIn(s, e) \in Seq(R)
    BY RowsInGrows
<1>4. old \in Seq(R) /\ new \in Seq(R)
    BY <1>2, <1>3, ListFacts DEF Listed
<1>5. Len(old) <= Len(new) /\ \A k \in DOMAIN old : k \in DOMAIN new /\ new[k].node = old[k].node
    <2>1. CASE row.exec = e
        <3>1. new = ListByExecution(Append(RowsIn(rows, e), row))
            BY <2>1, RowsInGrows DEF Listed
        <3>2. RowsIn(rows, e) \in Seq(R)
            BY <1>3
        <3> QED BY <3>1, <3>2, NodesKeepPlaces DEF Listed
    <2>2. CASE row.exec # e
        <3>1. new = old
            BY <2>2, RowsInGrows DEF Listed
        <3> QED BY <1>4, <3>1
    <2> QED BY <2>1, <2>2
<1> HIDE DEF old, new
<1>6. NodesOf(old) \in Seq(N) /\ NodesOf(new) \in Seq(N) /\ Len(NodesOf(old)) <= Len(NodesOf(new))
    BY <1>1, <1>4, <1>5
<1>7. \A k \in 1..Len(NodesOf(old)) : NodesOf(old)[k] = NodesOf(new)[k]
    BY <1>1, <1>4, <1>5
<1>8. IsPrefix(NodesOf(old), NodesOf(new))
    BY <1>6, <1>7, PrefixElements
<1> QED BY <1>6, <1>8 DEF old, new

-----------------------------------------------------------------------------
(* The invariants: what agents and writes do, what a session is given, and *)
(* what the page and its button have to do with each other.                *)

Live(n) == [node : {n}, exec : {plan[n].exec}, type : {plan[n].type}, status : Status,
            input : {"json"}, output : {"none", plan[n].output}, flag : {"unset"},
            ckpt : {NoBlob, n}]

Row == {r \in Recorded : r.exec = plan[r.node].exec /\ r.type = plan[r.node].type}

\* Row r has the output that its step left, or none, of the node objects nodes.
Told(r, nodes) == r.output = JsonForm(nodes[r.node].output)
Fits(r, nodes) == r.output = "none" \/ Told(r, nodes)

\* A step leaves its output before its end is saved.
LiveInv ==
    /\ plan \in Plans
    /\ live = [n \in Node |-> live[n]] /\ \A n \in Node : live[n] \in Live(n)
    /\ stage \in [Node -> {"new", "started", "status", "output", "over", "whole"}]
    /\ \A n \in Node : stage[n] \in {"new", "started", "status"} => live[n].output = "none"
    /\ \A n \in Node : stage[n] = "whole" => HasJson(live[n])
    /\ \A n \in told : stage[n] \in {"over", "whole"}

\* From the first row that was written after a step's end, its rows tell its output.
TableInv ==
    /\ table \in Seq(Row) /\ told \subseteq Node
    /\ \A i \in DOMAIN table : Fits(table[i], live)
    /\ \A n \in told : \E i \in DOMAIN table :
          /\ table[i].node = n
          /\ \A j \in DOMAIN table : table[j].node = n /\ i <= j => Told(table[j], live)

\* Once a step's end was written, nothing that was read before is written any more.
WriterOf(n) ==
    /\ writer \in [pc : {"output", "insert"}, node : Live(n), final : BOOLEAN]
    /\ stage[n] \in {"started", "status", "output", "over"}
    /\ writer.final => stage[n] = "over"
    /\ n \in told => writer.final
    /\ writer.pc = "insert" =>
          /\ HasJson(writer.node)
          /\ writer.node.output \in {"none", live[n].output}
          /\ writer.final => writer.node.output = live[n].output

WriterInv == writer = NoWriter \/ \E n \in Node : WriterOf(n)

AgentInv == LiveInv /\ TableInv /\ WriterInv

-----------------------------------------------------------------------------
\* What JSON keeps of a node whose values it can hold.
LEMMA RowOfNode ==
    ASSUME LiveInv, NEW n \in Node, NEW node \in Live(n), HasJson(node)
    PROVE  /\ RowOf(node) \in Row /\ RowOf(node).node = n
           /\ RowOf(node).output = JsonForm(node.output)
<1> DEFINE d == ToDict(node)
<1>1. /\ n \in Nat /\ plan[n].type \in NodeType /\ plan[n].output \in Value /\ plan[n].exec \in Exec
    BY PlansAssumption DEF LiveInv, Node, Exec
<1>2. node \in [node : {n}, exec : {plan[n].exec}, type : {plan[n].type}, status : Status,
             input : {"json"}, output : {"none", plan[n].output}, flag : {"unset"},
             ckpt : {NoBlob, n}]
    BY DEF Live
<1>3. node.output # "opaque" /\ node.output \in Value
    BY <1>1, <1>2 DEF HasJson, Value
<1>4. JsonForm(node.output) \in Json /\ JsonForm(node.input) \in Json
    BY <1>2, <1>3 DEF JsonForm, Value, Json
<1> DEFINE Kept == [node : {n}, exec : {plan[n].exec}, type : {plan[n].type}, status : Status,
                    input : Json, output : Json, flag : Flag, ckpt : Nat]
<1>5. d = [node EXCEPT !.input = JsonForm(node.input), !.output = JsonForm(node.output),
                       !.ckpt = NoBlob]
    BY DEF ToDict
<1>6. node.ckpt \in Nat /\ NoBlob \in Nat /\ node.flag \in Flag
    BY <1>1, <1>2 DEF Flag, NoBlob
<1> HIDE DEF d
<1>7. d \in Kept /\ d.output = JsonForm(node.output)
    BY <1>2, <1>4, <1>5, <1>6
<1>8. RowOf(node) = [d EXCEPT !.ckpt = node.ckpt]
    BY DEF RowOf, FromDict, d
<1>9. RowOf(node) \in Kept /\ RowOf(node).output = JsonForm(node.output)
    BY <1>6, <1>7, <1>8
<1> HIDE DEF Kept
<1>10. \A r \in Kept : r \in Row /\ r.node = n
    BY <1>1 DEF Kept, Row, Recorded
<1> QED BY <1>9, <1>10

LEMMA InitAgents == Init => AgentInv
<1> SUFFICES ASSUME Init PROVE AgentInv
    OBVIOUS
<1>1. /\ plan \in Plans /\ live = [n \in Node |-> NewNode(n)] /\ table = << >>
      /\ stage = [n \in Node |-> "new"] /\ told = {} /\ writer = NoWriter
    BY DEF Init
<1>2. live = [n \in Node |-> live[n]]
    BY <1>1
<1>3. \A n \in Node : live[n] \in Live(n) /\ live[n].output = "none"
    BY <1>1 DEF NewNode, Live, Status
<1> QED BY <1>1, <1>2, <1>3 DEF AgentInv, LiveInv, TableInv, WriterInv

\* What is told stays told if outputs are only ever set once, and not when told.
OutputsStay ==
    \A n \in Node : live'[n].output = live[n].output \/ (live[n].output = "none" /\ n \notin told)

LEMMA ToldStays ==
    ASSUME OutputsStay
    PROVE  /\ \A r : r.node \in Node /\ Fits(r, live) => Fits(r, live')
           /\ \A r : r.node \in Node /\ r.node \in told /\ Told(r, live) => Told(r, live')
BY DEF OutputsStay, Fits, Told, JsonForm

\* A further row of a told node must tell its output, and one that makes its node
\* told does.
LEMMA TableKeeps ==
    ASSUME LiveInv, TableInv, UNCHANGED plan, OutputsStay, NEW row \in Row,
           table' = Append(table, row), Fits(row, live'),
           row.node \in told' => Told(row, live'), told' \in {told, told \cup {row.node}}
    PROVE  TableInv'
<1>1. /\ table \in Seq(Row) /\ Len(table) \in Nat /\ DOMAIN table = 1..Len(table)
      /\ table' \in Seq(Row) /\ DOMAIN table' = 1..(Len(table) + 1)
      /\ \A i \in DOMAIN table : i \in DOMAIN table' /\ table'[i] = table[i] /\ table[i] \in Row
      /\ table'[Len(table) + 1] = row
    BY DEF TableInv
<1>2. /\ \A r : r.node \in Node /\ Fits(r, live) => Fits(r, live')
      /\ \A r : r.node \in Node /\ r.node \in told /\ Told(r, live) => Told(r, live')
    BY ToldStays
<1>3. Row' = Row /\ Node' = Node /\ \A r \in Row : r.node \in Node
    BY DEF Row, Recorded, Exec, Node
<1>4. told \subseteq Node /\ told' \subseteq Node
    BY <1>3 DEF TableInv
<1>5. \A i \in DOMAIN table' : Fits(table'[i], live')
    <2> SUFFICES ASSUME NEW i \in DOMAIN table' PROVE Fits(table'[i], live')
        OBVIOUS
    <2>1. CASE i \in DOMAIN table
        BY <1>1, <1>2, <1>3, <2>1 DEF TableInv
    <2>2. CASE i = Len(table) + 1
        BY <1>1, <2>2
    <2> QED BY <1>1, <2>1, <2>2
<1>6. ASSUME NEW n \in told'
      PROVE  \E i \in DOMAIN table' :
                /\ table'[i].node = n
                /\ \A j \in DOMAIN table' : table'[j].node = n /\ i <= j => Told(table'[j], live')
    <2>1. CASE n \in told
        <3>1. PICK i \in DOMAIN table :
                /\ table[i].node = n
                /\ \A j \in DOMAIN table : table[j].node = n /\ i <= j => Told(table[j], live)
            BY <2>1 DEF TableInv
        <3>2. i \in DOMAIN table' /\ table'[i].node = n
            BY <1>1, <3>1
        <3>3. ASSUME NEW j \in DOMAIN table', table'[j].node = n, i <= j
              PROVE  Told(table'[j], live')
            <4>1. CASE j \in DOMAIN table
                <5>1. Told(table[j], live) /\ table[j].node = n /\ table'[j] = table[j]
                    BY <1>1, <3>1, <3>3, <4>1
                <5>2. table[j].node \in Node /\ table[j].node \in told
                    BY <1>4, <2>1, <5>1
                <5> QED BY <1>2, <5>1, <5>2
            <4>2. CASE j = Len(table) + 1
                BY <1>1, <1>6, <3>3, <4>2
            <4> QED BY <1>1, <4>1, <4>2
        <3> QED BY <3>1, <3>2, <3>3
    <2>2. CASE n \notin told
        <3>1. n = row.node
            BY <1>6, <2>2
        <3>2. Len(table) + 1 \in DOMAIN table' /\ table'[Len(table) + 1].node = n
            BY <1>1, <3>1
        <3>3. \A j \in DOMAIN table' : Len(table) + 1 <= j => j = Len(table) + 1
            BY <1>1
        <3>4. Told(table'[Len(table) + 1], live')
            BY <1>1, <1>6, <3>1
        <3> QED BY <3>2, <3>3, <3>4
    <2> QED BY <2>1, <2>2
<1> QED BY <1>1, <1>3, <1>4, <1>5, <1>6 DEF TableInv

LEMMA NoRowKeeps ==
    ASSUME TableInv, UNCHANGED <<plan, table, told>>, OutputsStay
    PROVE  TableInv'
<1>1. /\ \A r : r.node \in Node /\ Fits(r, live) => Fits(r, live')
      /\ \A r : r.node \in Node /\ r.node \in told /\ Told(r, live) => Told(r, live')
    BY ToldStays
<1>2. Row' = Row /\ Node' = Node /\ \A i \in DOMAIN table : table[i].node \in Node
    BY DEF TableInv, Row, Recorded, Exec, Node
<1>3. \A i \in DOMAIN table : Fits(table[i], live')
    BY <1>1, <1>2 DEF TableInv
<1>4. ASSUME NEW n \in told
      PROVE  \E i \in DOMAIN table :
                /\ table[i].node = n
                /\ \A j \in DOMAIN table : table[j].node = n /\ i <= j => Told(table[j], live')
    <2>1. PICK i \in DOMAIN table :
                /\ table[i].node = n
                /\ \A j \in DOMAIN table : table[j].node = n /\ i <= j => Told(table[j], live)
        BY DEF TableInv
    <2>2. ASSUME NEW j \in DOMAIN table, table[j].node = n, i <= j PROVE Told(table[j], live')
        BY <1>1, <1>2, <2>1, <2>2
    <2> QED BY <2>1, <2>2
<1> QED BY <1>2, <1>3, <1>4 DEF TableInv

\* What an adapter does with one of its nodes: it sets the output once, after the
\* status, and no more once the end is handed over.
LEMMA ChangeKeeps ==
    ASSUME AgentInv, NEW n \in Node, NEW from \in {"new", "started", "status", "output", "over"},
           NEW to \in {"started", "status", "output", "over"}, NEW node \in Live(n),
           Change(n, from, to, node), from = "over" => to = "over",
           \/ node.output = live[n].output
           \/ live[n].output = "none" /\ from = "status",
           to \in {"started", "status"} => node.output = "none"
    PROVE  AgentInv' /\ OutputsStay
<1>1. /\ live' = [live EXCEPT ![n] = node] /\ stage' = [stage EXCEPT ![n] = to] /\ stage[n] = from
      /\ UNCHANGED <<plan, writer, table, told>>
    BY DEF Change
<1>2. /\ live' = [m \in Node |-> live'[m]]
      /\ \A m \in Node : /\ live'[m] = IF m = n THEN node ELSE live[m]
                         /\ stage'[m] = IF m = n THEN to ELSE stage[m]
      /\ stage' \in [Node -> {"new", "started", "status", "output", "over", "whole"}]
    BY <1>1 DEF AgentInv, LiveInv
<1>3. Node' = Node /\ \A m : Live(m)' = Live(m)
    BY <1>1 DEF Live, Node
<1>4. n \in told => from = "over"
    BY <1>1 DEF AgentInv, LiveInv
<1>5. OutputsStay
    BY <1>2, <1>4 DEF OutputsStay
<1>6. LiveInv'
    BY <1>1, <1>2, <1>3, <1>4 DEF AgentInv, LiveInv
<1>7. TableInv'
    BY <1>1, <1>5, NoRowKeeps DEF AgentInv
<1>8. ASSUME NEW m \in Node, WriterOf(m) PROVE WriterOf(m)'
    <2>1. writer' \in [pc : {"output", "insert"}, node : Live(m)', final : BOOLEAN]
        BY <1>1, <1>3, <1>8 DEF WriterOf
    <2>2. CASE m # n
        BY <1>1, <1>2, <1>8, <2>1, <2>2 DEF WriterOf
    <2>3. CASE m = n
        <3>1. writer.final => from = "over" /\ live'[m].output = live[m].output
            BY <1>1, <1>2, <1>8, <2>3 DEF WriterOf
        <3>2. live'[m].output = live[m].output \/ live[m].output = "none"
            BY <1>2, <2>3
        <3> QED BY <1>1, <1>2, <1>8, <2>1, <2>3, <3>1, <3>2 DEF WriterOf
    <2> QED BY <2>2, <2>3
<1>9. WriterInv'
    BY <1>1, <1>3, <1>8 DEF AgentInv, WriterInv
<1> QED BY <1>5, <1>6, <1>7, <1>9 DEF AgentInv

\* What an adapter does is such a change.
LEMMA AdapterChanges ==
    ASSUME AgentInv, NEW n \in Node,
           Start(n) \/ SetStatus(n) \/ SetOutput(n) \/ HandOver(n) \/ Error(n)
    PROVE  AgentInv' /\ OutputsStay /\ UNCHANGED <<plan, table, told>>
<1>0. /\ live[n] \in Live(n) /\ plan[n].output \in Value
      /\ stage[n] \in {"new", "started", "status", "output", "over", "whole"}
      /\ stage[n] \in {"new", "started", "status"} => live[n].output = "none"
    BY PlansAssumption DEF AgentInv, LiveInv, Node
<1>1. CASE Start(n)
    <2> DEFINE node == [live[n] EXCEPT !.status = "RUNNING"]
    <2>1. node \in Live(n) /\ node.output = live[n].output
        BY <1>0 DEF Live, Status
    <2>2. Change(n, "new", "started", node) /\ stage[n] = "new"
        BY <1>1 DEF Start, Change
    <2> HIDE DEF node
    <2>3. UNCHANGED <<plan, table, told>>
        BY <2>2 DEF Change
    <2> QED BY <1>0, <2>1, <2>2, <2>3, ChangeKeeps
<1>2. CASE SetStatus(n)
    <2> DEFINE node == [live[n] EXCEPT !.status = "SUCCESS"]
    <2>1. node \in Live(n) /\ node.output = live[n].output
        BY <1>0 DEF Live, Status
    <2>2. Change(n, "started", "status", node) /\ stage[n] = "started"
        BY <1>2 DEF SetStatus, Change
    <2> HIDE DEF node
    <2>3. UNCHANGED <<plan, table, told>>
        BY <2>2 DEF Change
    <2> QED BY <1>0, <2>1, <2>2, <2>3, ChangeKeeps
<1>3. CASE SetOutput(n)
    <2> DEFINE node == [live[n] EXCEPT !.output = plan[n].output]
    <2>1. node \in Live(n)
        BY <1>0 DEF Live
    <2>2. Change(n, "status", "output", node) /\ stage[n] = "status"
        BY <1>3 DEF SetOutput, Change
    <2> HIDE DEF node
    <2>3. UNCHANGED <<plan, table, told>>
        BY <2>2 DEF Change
    <2> QED BY <1>0, <2>1, <2>2, <2>3, ChangeKeeps
<1>4. CASE HandOver(n)
    <2> DEFINE node == [live[n] EXCEPT !.ckpt = Blob(n)]
    <2>1. node \in Live(n) /\ node.output = live[n].output
        BY <1>0 DEF Live, Blob
    <2>2. Change(n, "output", "over", node)
        BY <1>4 DEF HandOver
    <2> HIDE DEF node
    <2>3. UNCHANGED <<plan, table, told>>
        BY <2>2 DEF Change
    <2> QED BY <2>1, <2>2, <2>3, ChangeKeeps
<1>5. CASE Error(n)
    <2> DEFINE node == [live[n] EXCEPT !.status = "FAILED"]
    <2>1. node \in Live(n) /\ node.output = live[n].output
        BY <1>0 DEF Live, Status
    <2>2. Change(n, stage[n], "over", node)
        BY <1>5 DEF Error
    <2>3. stage[n] \in {"started", "over"}
        <3>1. stage[n] \notin {"status", "output"} /\ (stage[n] = "started" \/ ~HasJson(live[n]))
            BY <1>5 DEF Error, LoopFree
        <3>2. stage[n] \notin {"new", "whole"}
            BY <1>0, <3>1 DEF AgentInv, LiveInv, HasJson, Live
        <3> QED BY <1>0, <3>1, <3>2
    <2> HIDE DEF node
    <2>4. UNCHANGED <<plan, table, told>>
        BY <2>2 DEF Change
    <2> QED BY <2>1, <2>2, <2>3, <2>4, ChangeKeeps
<1> QED BY <1>1, <1>2, <1>3, <1>4, <1>5

\* A node made whole is written at once, and tells its output.
LEMMA RecordKeeps ==
    ASSUME AgentInv, NEW n \in Node, Record(n)
    PROVE  /\ AgentInv' /\ OutputsStay /\ UNCHANGED plan /\ told \subseteq told'
           /\ \E row \in Row : table' = Append(table, row)
<1>1. PICK status \in {"SUCCESS", "FAILED"} :
          LET node == [live[n] EXCEPT !.status = status, !.output = plan[n].output,
                                      !.ckpt = Blob(n)]
          IN  /\ HasJson(node)
              /\ live' = [live EXCEPT ![n] = node]
              /\ table' = Append(table, RowOf(node))
    BY DEF Record
<1> DEFINE node == [live[n] EXCEPT !.status = status, !.output = plan[n].output, !.ckpt = Blob(n)]
<1>2. /\ HasJson(node) /\ live' = [live EXCEPT ![n] = node] /\ table' = Append(table, RowOf(node))
      /\ stage[n] = "new" /\ stage' = [stage EXCEPT ![n] = "whole"]
      /\ told' = told \cup {n} /\ UNCHANGED <<plan, writer>>
    BY <1>1 DEF Record
<1>3. live[n] \in Live(n) /\ live[n].output = "none" /\ n \notin told
    BY <1>2 DEF AgentInv, LiveInv
<1>4. node \in Live(n)
    BY <1>3 DEF Live, Status, Blob
<1> HIDE DEF node
<1>5. /\ live' = [m \in Node |-> live'[m]]
      /\ \A m \in Node : /\ live'[m] = IF m = n THEN node ELSE live[m]
                         /\ stage'[m] = IF m = n THEN "whole" ELSE stage[m]
      /\ stage' \in [Node -> {"new", "started", "status", "output", "over", "whole"}]
    BY <1>2 DEF AgentInv, LiveInv
<1>6. Node' = Node /\ \A m : Live(m)' = Live(m)
    BY <1>2 DEF Live, Node
<1>7. OutputsStay
    BY <1>3, <1>5 DEF OutputsStay
<1>8. /\ RowOf(node) \in Row /\ RowOf(node).node = n
      /\ RowOf(node).output = JsonForm(node.output)
    BY <1>2, <1>4, RowOfNode DEF AgentInv
<1>9. Told(RowOf(node), live') /\ Fits(RowOf(node), live')
    BY <1>5, <1>8 DEF Told, Fits
<1>10. TableInv'
    BY <1>2, <1>7, <1>8, <1>9, TableKeeps DEF AgentInv
<1>11. LiveInv'
    BY <1>2, <1>4, <1>5, <1>6 DEF AgentInv, LiveInv
<1>12. ASSUME NEW m \in Node, WriterOf(m) PROVE WriterOf(m)'
    <2>1. m # n
        BY <1>2, <1>12 DEF WriterOf
    <2> QED BY <1>2, <1>5, <1>6, <1>12, <2>1 DEF WriterOf
<1>13. WriterInv'
    BY <1>2, <1>6, <1>12 DEF AgentInv, WriterInv
<1> QED BY <1>2, <1>7, <1>8, <1>10, <1>11, <1>13 DEF AgentInv

\* The thread reads a node up to its status,
LEMMA SerializeKeeps ==
    ASSUME AgentInv, NEW n \in Node, Serialize(n)
    PROVE  AgentInv' /\ OutputsStay /\ UNCHANGED <<plan, table, told>>
<1>1. /\ writer' = [pc |-> "output", node |-> live[n], final |-> stage[n] = "over"]
      /\ Cardinality(RowsOf(table, n)) < Asked(n) /\ UNCHANGED <<plan, live, stage, table, told>>
    BY DEF Serialize
<1>2. live[n] \in Live(n) /\ stage[n] \in {"new", "started", "status", "output", "over", "whole"}
      /\ (n \in told => stage[n] \in {"over", "whole"})
    BY DEF AgentInv, LiveInv
<1>3. stage[n] \notin {"new", "whole"}
    <2>1. IsFiniteSet(RowsOf(table, n))
        <3>1. DOMAIN table = 1..Len(table) /\ Len(table) \in Int
            BY DEF AgentInv, TableInv
        <3>2. RowsOf(table, n) \subseteq 1..Len(table)
            BY <3>1 DEF RowsOf
        <3> QED BY <3>1, <3>2, FS_Interval, FS_Subset
    <2>2. Cardinality(RowsOf(table, n)) \in Nat
        BY <2>1, FS_CardinalityType
    <2>3. Asked(n) # 0
        BY <1>1, <2>2
    <2> QED BY <2>3 DEF Asked
<1>4. Node' = Node /\ \A m : Live(m)' = Live(m)
    BY <1>1 DEF Live, Node
<1>5. WriterOf(n)'
    BY <1>1, <1>2, <1>3, <1>4 DEF WriterOf
<1>6. WriterInv'
    BY <1>4, <1>5 DEF WriterInv
<1>7. OutputsStay
    BY <1>1 DEF OutputsStay
<1>8. TableInv'
    BY <1>1, <1>7, NoRowKeeps DEF AgentInv
<1>9. LiveInv'
    BY <1>1, <1>4 DEF AgentInv, LiveInv
<1> QED BY <1>1, <1>6, <1>7, <1>8, <1>9 DEF AgentInv

\* then its output, which may have been set since,
LEMMA ReadOutputKeeps ==
    ASSUME AgentInv, ReadOutput
    PROVE  AgentInv' /\ OutputsStay /\ UNCHANGED <<plan, table, told>>
<1>1. /\ writer.pc = "output" /\ UNCHANGED <<plan, live, stage, table, told>>
      /\ LET node == [writer.node EXCEPT !.output = live[writer.node.node].output] IN
         writer' = IF HasJson(node) THEN [writer EXCEPT !.pc = "insert", !.node = node]
                                    ELSE NoWriter
    BY DEF ReadOutput
<1>2. PICK n \in Node : WriterOf(n)
    <2>1. writer # NoWriter
        BY <1>1 DEF NoWriter
    <2> QED BY <2>1 DEF AgentInv, WriterInv
<1> DEFINE node == [writer.node EXCEPT !.output = live[n].output]
<1>3. /\ writer \in [pc : {"output", "insert"}, node : Live(n), final : BOOLEAN]
      /\ writer.node \in Live(n) /\ writer.node.node = n
    BY <1>2 DEF WriterOf, Live
<1>4. node \in Live(n) /\ node.output = live[n].output
    <2>1. live[n] \in Live(n)
        BY DEF AgentInv, LiveInv
    <2> QED BY <1>3, <2>1 DEF Live
<1>5. writer' = IF HasJson(node) THEN [writer EXCEPT !.pc = "insert", !.node = node] ELSE NoWriter
    BY <1>1, <1>3
<1> HIDE DEF node
<1>6. Node' = Node /\ \A m : Live(m)' = Live(m)
    BY <1>1 DEF Live, Node
<1>7. WriterInv'
    <2>1. CASE ~HasJson(node)
        BY <1>5, <2>1 DEF WriterInv, NoWriter
    <2>2. CASE HasJson(node)
        <3>1. /\ writer' \in [pc : {"output", "insert"}, node : Live(n), final : BOOLEAN]
              /\ writer'.node = node /\ writer'.final = writer.final /\ writer'.pc = "insert"
            BY <1>3, <1>4, <1>5, <2>2
        <3>2. WriterOf(n)'
            BY <1>1, <1>2, <1>4, <1>6, <2>2, <3>1 DEF WriterOf
        <3> QED BY <1>6, <3>2 DEF WriterInv
    <2> QED BY <2>1, <2>2
<1>8. OutputsStay
    BY <1>1 DEF OutputsStay
<1>9. TableInv'
    BY <1>1, <1>8, NoRowKeeps DEF AgentInv
<1>10. LiveInv'
    BY <1>1, <1>6 DEF AgentInv, LiveInv
<1> QED BY <1>1, <1>7, <1>8, <1>9, <1>10 DEF AgentInv

\* and what it inserts tells the output if its node is told.
LEMMA InsertKeeps ==
    ASSUME AgentInv, Insert
    PROVE  /\ AgentInv' /\ OutputsStay /\ UNCHANGED plan /\ told \subseteq told'
           /\ \E row \in Row : table' = Append(table, row)
<1>1. /\ writer.pc = "insert" /\ writer' = NoWriter /\ UNCHANGED <<plan, live, stage>>
      /\ LET n == writer.node.node IN
         /\ table' = Append(table, RowOf([writer.node EXCEPT !.ckpt = live[n].ckpt]))
         /\ told' = IF writer.final THEN told \cup {n} ELSE told
    BY DEF Insert
<1>2. PICK n \in Node : WriterOf(n)
    <2>1. writer # NoWriter
        BY <1>1 DEF NoWriter
    <2> QED BY <2>1 DEF AgentInv, WriterInv
<1> DEFINE node == [writer.node EXCEPT !.ckpt = live[n].ckpt]
           row == RowOf(node)
<1>3. writer.node \in Live(n) /\ writer.node.node = n
    BY <1>2 DEF WriterOf, Live
<1>4. /\ node \in Live(n) /\ node.output = writer.node.output /\ node.input = writer.node.input
    <2>1. live[n] \in Live(n)
        BY DEF AgentInv, LiveInv
    <2> QED BY <1>3, <2>1 DEF Live
<1>5. HasJson(node)
    <2>1. HasJson(writer.node)
        BY <1>1, <1>2 DEF WriterOf
    <2> QED BY <1>4, <2>1 DEF HasJson
<1>6. /\ table' = Append(table, row) /\ told' = IF writer.final THEN told \cup {n} ELSE told
    BY <1>1, <1>3
<1> HIDE DEF node
<1>7. row \in Row /\ row.node = n /\ row.output = JsonForm(writer.node.output)
    BY <1>4, <1>5, RowOfNode DEF AgentInv
<1> HIDE DEF row
<1>8. OutputsStay
    BY <1>1 DEF OutputsStay
<1>9. /\ writer.node.output \in {"none", live[n].output}
      /\ writer.final => writer.node.output = live[n].output /\ stage[n] = "over"
      /\ n \in told => writer.final
    BY <1>1, <1>2 DEF WriterOf
<1>10. Fits(row, live') /\ (n \in told' => Told(row, live'))
    <2>1. n \in told' => writer.final
        BY <1>6, <1>9
    <2> QED BY <1>1, <1>7, <1>9, <2>1 DEF Fits, Told, JsonForm
<1>11. TableInv'
    BY <1>1, <1>6, <1>7, <1>8, <1>10, TableKeeps DEF AgentInv
<1>12. Node' = Node /\ \A m : Live(m)' = Live(m)
    BY <1>1 DEF Live, Node
<1>13. LiveInv'
    BY <1>1, <1>6, <1>9, <1>12 DEF AgentInv, LiveInv
<1>14. WriterInv'
    BY <1>1 DEF WriterInv, NoWriter
<1> QED BY <1>1, <1>6, <1>7, <1>8, <1>11, <1>13, <1>14 DEF AgentInv

\* Any step: the invariant stays, what is told stays told, and the table only grows.
LEMMA AgentStep ==
    ASSUME AgentInv, [Next]_vars
    PROVE  /\ AgentInv' /\ UNCHANGED plan /\ told \subseteq told'
           /\ \A r : r.node \in Node /\ Fits(r, live) => Fits(r, live')
           /\ \A r : r.node \in Node /\ r.node \in told /\ Told(r, live) => Told(r, live')
           /\ table' = table \/ \E row \in Row : table' = Append(table, row)
<1>1. ASSUME NEW n \in Node, Start(n) \/ SetStatus(n) \/ SetOutput(n) \/ HandOver(n) \/ Error(n)
      PROVE  AgentInv' /\ OutputsStay /\ UNCHANGED <<plan, table, told>>
    BY <1>1, AdapterChanges
<1>2. ASSUME NEW n \in Node, Record(n)
      PROVE  /\ AgentInv' /\ OutputsStay /\ UNCHANGED plan /\ told \subseteq told'
             /\ \E row \in Row : table' = Append(table, row)
    BY <1>2, RecordKeeps
<1>3. ASSUME NEW n \in Node, Serialize(n)
      PROVE  AgentInv' /\ OutputsStay /\ UNCHANGED <<plan, table, told>>
    BY <1>3, SerializeKeeps
<1>4. CASE ReadOutput
    BY <1>4, ReadOutputKeeps, ToldStays
<1>5. CASE Insert
    BY <1>5, InsertKeeps, ToldStays
<1>6. ASSUME UNCHANGED agentVars PROVE AgentInv'
    BY <1>6 DEF agentVars, AgentInv, LiveInv, TableInv, WriterInv, WriterOf, Live, Row, Recorded,
                Exec, Node, Fits, Told
<1>7. ASSUME \/ Open \/ Choose \/ Click \/ Render \/ Run \/ Command \/ ListNodes \/ Mock
             \/ Reconstruct \/ Execute \/ Raise \/ Finish \/ UNCHANGED vars
      PROVE  UNCHANGED agentVars
    BY <1>7 DEF Open, Choose, Click, Rerun, Render, Run, Command, ReplayFrom, Begin, ListNodes,
                Mock, Reconstruct, Execute, Raise, Finish, vars, agentVars
<1>8. CASE UNCHANGED agentVars
    BY <1>6, <1>8 DEF agentVars
<1> QED BY <1>1, <1>2, <1>3, <1>4, <1>5, <1>7, <1>8, ToldStays DEF Next

-----------------------------------------------------------------------------
SessionType ==
    [pc : {"none", "listing", "running", "returned", "raised", "refused"},
     caller : {None, "program", "cli", "studio"}, exec : Exec \cup {None}, mode : Mode,
     from : Node \cup {None}, cf : Node \cup {None}, nodes : Seq(Row), shown : Seq(Node),
     ended : SUBSET Node]

Handable == [node : Node, exec : Exec, type : NodeType, status : Status,
             input : Json \cup {NewInput}, output : Json, flag : Flag, ckpt : Nat]

\* Nothing is listed before a session runs.
NothingYet == session.pc \in {"none", "listing", "refused"} => session.nodes = << >>

\* What was told when a session began is listed with its output.
SessionIsTold ==
    /\ session.ended \subseteq told
    /\ \A i \in DOMAIN session.nodes :
           /\ Fits(session.nodes[i], live)
           /\ session.nodes[i].node \in session.ended => Told(session.nodes[i], live)

\* A result is one of the node in its place in the selection.
ResultIsOf(r, node) ==
    /\ r.node.node = node.node
    /\ r.node.input # node.input <=> session.mode = "COUNTERFACTUAL" /\ node.node = session.cf
    /\ r.mocked \/ session.caller # "program" => r.output = node.output

ResultsInv ==
    /\ results \in Seq([node : Handable, output : Json, mocked : BOOLEAN])
    /\ Len(results) <= Len(session.nodes)
    /\ \A i \in DOMAIN results : ResultIsOf(results[i], session.nodes[i])
    /\ session.pc = "returned" => Len(results) = Len(session.nodes)

SessionInv == session \in SessionType /\ NothingYet /\ SessionIsTold /\ ResultsInv

CountersInv ==
    /\ counters \in [executed : Nat, mocked : Nat, sessions : {0, 1}]
    /\ CountersMatch

\* The list of an execution has rows of its own, one of each node, and that of a
\* node which is told tells its output.
LEMMA ListedFacts ==
    ASSUME AgentInv, NEW e
    PROVE  /\ Listed(table, e) \in Seq(Row)
           /\ \A k \in DOMAIN Listed(table, e) : Listed(table, e)[k].exec = e
           /\ \A k, l \in DOMAIN Listed(table, e) :
                 Listed(table, e)[k].node = Listed(table, e)[l].node => k = l
           /\ \A k \in DOMAIN Listed(table, e) :
                 /\ Fits(Listed(table, e)[k], live)
                 /\ Listed(table, e)[k].node \in told => Told(Listed(table, e)[k], live)
<1> DEFINE rows == RowsIn(table, e)
           list == Listed(table, e)
           I == {i \in DOMAIN table : table[i].exec = e}
<1>1. table \in Seq(Row) /\ I \in SUBSET DOMAIN table
    BY DEF AgentInv, TableInv
<1>2. rows \in Seq(Row)
    <2>1. rows = SelectAt(table, I)
        BY DEF RowsIn
    <2> HIDE DEF I, rows
    <2> QED BY <1>1, <2>1, SelectAtSelects
<1>3. \A k \in DOMAIN rows : rows[k].exec = e /\ \E i \in DOMAIN table : rows[k] = table[i]
    BY <1>1, RowsInFacts
<1>4. list = ListByExecution(rows)
    BY DEF Listed
<1> HIDE DEF rows, list
<1>5. /\ list \in Seq(Row)
      /\ \A k \in DOMAIN list : /\ list[k] = Latest(rows, list[k].node)
                                /\ \E i \in DOMAIN rows : list[k] = rows[i]
      /\ \A k, l \in DOMAIN list : list[k].node = list[l].node => k = l
    BY <1>2, <1>4, ListFacts
<1>6. \A k \in DOMAIN list : list[k].exec = e /\ Fits(list[k], live)
    BY <1>3, <1>5 DEF AgentInv, TableInv
<1>7. ASSUME NEW k \in DOMAIN list, list[k].node \in told
      PROVE  Told(list[k], live)
    <2>0. PICK i \in DOMAIN table :
              /\ table[i].node = list[k].node
              /\ \A j \in DOMAIN table :
                    table[j].node = list[k].node /\ i <= j => Told(table[j], live)
        BY <1>7 DEF AgentInv, TableInv
    <2>1. /\ I \in SUBSET Int /\ IsFiniteSet(I) /\ DOMAIN rows = 1..Cardinality(I)
          /\ \A m \in DOMAIN rows : rows[m] = table[Ascending(I)[m]] /\ Ascending(I)[m] \in I
        <3> HIDE DEF I
        <3>1. rows = SelectAt(table, I)
            BY DEF rows, RowsIn, I
        <3> QED BY <1>1, <3>1, SelectAtSelects
    <2>2. i \in I
        <3>1. table[i] \in Row /\ list[k] \in Row
            BY <1>1, <1>5
        <3> QED BY <1>6, <2>0, <3>1 DEF Row
    <2> HIDE DEF I
    <2>3. PICK p \in DOMAIN rows : Ascending(I)[p] = i
        <3>1. \E p \in 1..Cardinality(I) : Ascending(I)[p] = i
            BY <2>1, <2>2, AscendingIsSorted
        <3> QED BY <2>1, <3>1
    <2>4. p \in RowsOf(rows, list[k].node) /\ RowsOf(rows, list[k].node) \in SUBSET DOMAIN rows
        BY <2>0, <2>1, <2>3 DEF RowsOf
    <2>5. PICK m \in RowsOf(rows, list[k].node) : list[k] = rows[m] /\ p <= m
        BY <1>2, <1>5, <2>4, NewestIsLast DEF Latest
    <2>6. m \in DOMAIN rows /\ list[k] = table[Ascending(I)[m]]
          /\ Ascending(I)[m] \in DOMAIN table
        BY <1>1, <2>1, <2>4, <2>5 DEF I
    <2>7. i <= Ascending(I)[m]
        <3>1. p < m \/ p = m
            BY <2>1, <2>5, <2>6
        <3>2. p < m => Ascending(I)[p] < Ascending(I)[m]
            BY <2>1, <2>6, AscendingIsSorted
        <3>3. i \in Int /\ Ascending(I)[m] \in Int
            BY <2>1, <2>2, <2>6
        <3> QED BY <2>3, <3>1, <3>2, <3>3
    <2> QED BY <2>0, <2>6, <2>7
<1> QED BY <1>5, <1>6, <1>7 DEF list

\* Whatever a session selects are rows of its list.
LEMMA SelectionFacts ==
    ASSUME NEW R, NEW list \in Seq(R), NEW mode \in Mode, NEW n,
           mode = "FROM_NODE" => \E i \in DOMAIN list : list[i].node = n
    PROVE  /\ SelectNodes(list, mode, n) \in Seq(R)
           /\ \A k \in DOMAIN SelectNodes(list, mode, n) : \E i \in DOMAIN list :
                 SelectNodes(list, mode, n)[k] = list[i]
           /\ mode = "FROM_NODE" => \E m \in DOMAIN list :
                 /\ list[m].node = n
                 /\ Len(SelectNodes(list, mode, n)) = Len(list) - m + 1
                 /\ \A k \in 1..(Len(list) - m + 1) :
                       SelectNodes(list, mode, n)[k] = list[m + k - 1]
<1>1. CASE mode # "FROM_NODE"
    BY <1>1 DEF SelectNodes
<1>2. CASE mode = "FROM_NODE"
    <2> DEFINE places == {i \in DOMAIN list : list[i].node = n}
               m == Min(places)
    <2>1. Len(list) \in Nat /\ DOMAIN list = 1..Len(list) /\ places # {}
        BY <1>2
    <2>2. m \in places
        BY <2>1, MinOfIndices
    <2>3. SelectNodes(list, mode, n) = SubSeq(list, m, Len(list))
        BY <1>2 DEF SelectNodes
    <2>4. m \in DOMAIN list /\ list[m].node = n
        BY <2>2
    <2> HIDE DEF m
    <2>5. /\ SelectNodes(list, mode, n) \in Seq(R)
          /\ Len(SelectNodes(list, mode, n)) = Len(list) - m + 1
          /\ \A k \in 1..(Len(list) - m + 1) : SelectNodes(list, mode, n)[k] = list[m + k - 1]
        BY <2>1, <2>3, <2>4
    <2>6. DOMAIN SelectNodes(list, mode, n) = 1..(Len(list) - m + 1)
        BY <2>5
    <2>7. \A k \in 1..(Len(list) - m + 1) : m + k - 1 \in DOMAIN list
        BY <2>1, <2>4
    <2> QED BY <2>4, <2>5, <2>6, <2>7
<1> QED BY <1>1, <1>2

-----------------------------------------------------------------------------
LEMMA InitSession == Init => SessionInv
<1> SUFFICES ASSUME Init PROVE SessionInv
    OBVIOUS
<1>1. session = NoSession /\ results = << >> /\ told = {}
    BY DEF Init
<1>2. session \in SessionType
    BY <1>1 DEF SessionType, NoSession, Mode
<1>3. session.nodes = << >> /\ session.ended = {} /\ session.pc = "none"
    BY <1>1 DEF NoSession
<1>4. SessionIsTold
    BY <1>3 DEF SessionIsTold
<1>5. ResultsInv
    BY <1>1, <1>3 DEF ResultsInv
<1> QED BY <1>1, <1>2, <1>3, <1>4, <1>5 DEF SessionInv, NothingYet

\* What agents do meanwhile takes nothing from a session.
LEMMA MeanwhileKeeps ==
    ASSUME AgentInv, SessionInv, [Next]_vars, UNCHANGED sessionVars
    PROVE  SessionInv'
<1>1. /\ UNCHANGED plan /\ told \subseteq told'
      /\ \A r : r.node \in Node /\ Fits(r, live) => Fits(r, live')
      /\ \A r : r.node \in Node /\ r.node \in told /\ Told(r, live) => Told(r, live')
    BY AgentStep
<1>2. UNCHANGED <<session, results>>
    BY DEF sessionVars
<1>3. /\ Node' = Node /\ Exec' = Exec /\ Row' = Row /\ Recorded' = Recorded
      /\ Handable' = Handable /\ SessionType' = SessionType
    BY <1>1 DEF Node, Exec, Row, Recorded, Handable, SessionType
<1>4. \A i \in DOMAIN session.nodes : session.nodes[i].node \in Node
    BY DEF SessionInv, SessionType, Row, Recorded
<1>5. SessionIsTold'
    <2>1. session.ended \subseteq told'
        BY <1>1 DEF SessionInv, SessionIsTold
    <2>2. ASSUME NEW i \in DOMAIN session.nodes
          PROVE  /\ Fits(session.nodes[i], live')
                 /\ session.nodes[i].node \in session.ended => Told(session.nodes[i], live')
        <3> DEFINE r == session.nodes[i]
        <3>1. r.node \in Node /\ Fits(r, live)
              /\ (r.node \in session.ended => r.node \in told /\ Told(r, live))
            BY <1>4 DEF SessionInv, SessionIsTold
        <3> HIDE DEF r
        <3>2. Fits(r, live') /\ (r.node \in session.ended => Told(r, live'))
            BY <1>1, <3>1
        <3> QED BY <3>2 DEF r
    <2> QED BY <1>2, <2>1, <2>2 DEF SessionIsTold
<1>6. NothingYet'
    BY <1>2 DEF SessionInv, NothingYet
<1>7. ResultsInv'
    BY <1>2, <1>3 DEF SessionInv, ResultsInv, ResultIsOf
<1> QED BY <1>2, <1>3, <1>5, <1>6, <1>7 DEF SessionInv

\* What a session begins with.
LEMMA BeginKeeps ==
    ASSUME AgentInv, SessionInv, page.nodes \in Seq(Node),
           NEW caller \in {"program", "cli", "studio"}, NEW e \in Exec,
           NEW mode \in Mode, NEW from \in Node \cup {None}, NEW cf \in Node \cup {None},
           Begin(caller, e, mode, from, cf)
    PROVE  /\ SessionInv' /\ session.pc = "none"
           /\ UNCHANGED <<agentVars, results, counters>>
           /\ session'.pc \in {"refused", "listing"} /\ session'.caller = caller
           /\ session'.mode = mode /\ session'.exec = e /\ session'.shown = page.nodes
           /\ mode = "FROM_NODE" /\ from # None =>
                 session'.pc = "listing" /\ session'.from = from
<1> DEFINE over == {n \in told : plan[n].exec = e}
           p == IF (mode = "FROM_NODE" /\ from = None) \/ (mode = "COUNTERFACTUAL" /\ cf = None)
                THEN "refused" ELSE "listing"
           f == IF mode = "FROM_NODE" THEN from ELSE None
           c == IF mode = "COUNTERFACTUAL" THEN cf ELSE None
<1>1. /\ session.pc = "none" /\ UNCHANGED <<agentVars, results, counters>>
      /\ session' = [NoSession EXCEPT !.pc = p, !.caller = caller, !.exec = e, !.mode = mode,
                         !.from = f, !.cf = c, !.shown = page.nodes, !.ended = over]
    BY DEF Begin
<1>2. session.nodes = << >>
    BY <1>1 DEF SessionInv, NothingYet
<1>3. results = << >>
    <2>1. Len(results) <= 0 /\ results \in Seq([node : Handable, output : Json, mocked : BOOLEAN])
        BY <1>2 DEF SessionInv, ResultsInv
    <2> QED BY <2>1
<1>4. over \subseteq Node /\ over \subseteq told
    BY DEF AgentInv, TableInv
<1>5. /\ session' \in SessionType /\ session'.pc \in {"refused", "listing"}
      /\ session'.nodes = << >> /\ session'.ended = over /\ session'.caller = caller
      /\ session'.mode = mode /\ session'.exec = e /\ session'.shown = page.nodes
      /\ mode = "FROM_NODE" /\ from # None => session'.pc = "listing" /\ session'.from = from
    <2>0. mode = "FROM_NODE" /\ from # None => p = "listing" /\ f = from
        OBVIOUS
    <2>1. p \in {"refused", "listing"} /\ f \in Node \cup {None} /\ c \in Node \cup {None}
        OBVIOUS
    <2> HIDE DEF p, f, c, over
    <2>2. << >> \in Seq(Row)
        OBVIOUS
    <2>3. session' = [pc |-> p, caller |-> caller, exec |-> e, mode |-> mode, from |-> f,
                      cf |-> c, nodes |-> << >>, shown |-> page.nodes, ended |-> over]
        BY <1>1 DEF NoSession
    <2> QED BY <1>4, <2>0, <2>1, <2>2, <2>3 DEF SessionType
<1> HIDE DEF over
<1>6. SessionType' = SessionType /\ UNCHANGED told
    BY <1>1 DEF agentVars, SessionType, Exec, Node, Row, Recorded
<1>7. SessionIsTold'
    BY <1>4, <1>5, <1>6 DEF SessionIsTold
<1>8. ResultsInv'
    BY <1>1, <1>3, <1>5 DEF ResultsInv
<1>9. SessionInv'
    BY <1>5, <1>6, <1>7, <1>8 DEF SessionInv, NothingYet
<1> QED BY <1>1, <1>5, <1>9

\* Whoever begins a session passes arguments of these types, and the page the node
\* that was clicked.
LEMMA BeginsWell ==
    ASSUME AgentInv, page.exec \in Exec \cup {None}, page.pc # "none" => page.exec \in Exec,
           page.clicked \in Node \cup {None},
           Run \/ Command \/ (Render /\ ~UNCHANGED sessionVars)
    PROVE  \E caller \in {"program", "cli", "studio"}, e \in Exec, mode \in Mode,
              from \in Node \cup {None}, cf \in Node \cup {None} :
                 /\ Begin(caller, e, mode, from, cf)
                 /\ caller = "studio" =>
                        /\ Render /\ mode = "FROM_NODE" /\ e = page.exec /\ from = page.clicked
                        /\ page.clicked \in ToSet(NodesOf(Listed(table, page.exec)))
<1>1. CASE Run
    BY <1>1 DEF Run
<1>2. CASE Command
    BY <1>2 DEF Command
<1>3. CASE Render /\ ~UNCHANGED sessionVars
    <2>1. /\ page.clicked \in ToSet(NodesOf(Listed(table, page.exec)))
          /\ Begin("studio", page.exec, "FROM_NODE", page.clicked, None)
          /\ page.pc = "loading"
        BY <1>3 DEF Render, ReplayFrom
    <2>2. page.exec \in Exec /\ "FROM_NODE" \in Mode
        BY <2>1 DEF Mode
    <2> QED BY <1>3, <2>1, <2>2
<1> QED BY <1>1, <1>2, <1>3

\* What is listed is what the session was given, told where it was known to be over.
LEMMA ListNodesKeeps ==
    ASSUME AgentInv, SessionInv, ListNodes
    PROVE  SessionInv'
<1> DEFINE list == Listed(table, session.exec)
           chosen == SelectNodes(list, session.mode, session.from)
<1>1. /\ session.pc = "listing" /\ UNCHANGED <<plan, live, told, results>>
      /\ session' = IF session.mode = "FROM_NODE" /\ session.from \notin ToSet(NodesOf(list))
                    THEN [session EXCEPT !.pc = "refused"]
                    ELSE [session EXCEPT !.pc = "running", !.nodes = chosen]
    BY DEF ListNodes, agentVars
<1>2. session.nodes = << >> /\ session \in SessionType /\ session.ended \subseteq told
    BY <1>1 DEF SessionInv, NothingYet, SessionIsTold
<1>3. results = << >>
    <2>1. Len(results) <= 0 /\ results \in Seq([node : Handable, output : Json, mocked : BOOLEAN])
        BY <1>2 DEF SessionInv, ResultsInv
    <2> QED BY <2>1
<1>4. SessionType' = SessionType
    BY <1>1 DEF SessionType, Exec, Node, Row, Recorded
<1>5. /\ list \in Seq(Row)
      /\ \A k \in DOMAIN list : /\ Fits(list[k], live)
                                /\ list[k].node \in told => Told(list[k], live)
    BY ListedFacts
<1> HIDE DEF list
<1>6. CASE session.mode = "FROM_NODE" /\ session.from \notin ToSet(NodesOf(list))
    <2>1. /\ session' \in SessionType /\ session'.pc = "refused" /\ session'.nodes = << >>
          /\ session'.ended = session.ended
        BY <1>1, <1>2, <1>6 DEF SessionType
    <2>2. SessionIsTold'
        BY <1>1, <1>2, <2>1 DEF SessionIsTold
    <2>3. ResultsInv'
        BY <1>1, <1>3, <2>1 DEF ResultsInv
    <2> QED BY <1>4, <2>1, <2>2, <2>3 DEF SessionInv, NothingYet
<1>7. CASE session.mode = "FROM_NODE" => session.from \in ToSet(NodesOf(list))
    <2>1. session.mode = "FROM_NODE" => \E i \in DOMAIN list : list[i].node = session.from
        BY <1>7 DEF ToSet, NodesOf
    <2>2. /\ chosen \in Seq(Row)
          /\ \A k \in DOMAIN chosen : \E i \in DOMAIN list : chosen[k] = list[i]
        <3>1. session.mode \in Mode
            BY <1>2 DEF SessionType
        <3> QED BY <1>5, <2>1, <3>1, SelectionFacts
    <2> HIDE DEF chosen
    <2>3. /\ session' \in SessionType /\ session'.pc = "running" /\ session'.nodes = chosen
          /\ session'.ended = session.ended
        BY <1>1, <1>2, <1>7, <2>2 DEF SessionType
    <2>4. \A k \in DOMAIN chosen :
              /\ Fits(chosen[k], live)
              /\ chosen[k].node \in session.ended => Told(chosen[k], live)
        BY <1>2, <1>5, <2>2
    <2>5. SessionIsTold'
        BY <1>1, <1>2, <2>3, <2>4 DEF SessionIsTold
    <2>6. ResultsInv'
        <3>1. Len(chosen) \in Nat
            BY <2>2
        <3> QED BY <1>1, <1>3, <2>3, <3>1 DEF ResultsInv
    <2> QED BY <1>4, <2>3, <2>5, <2>6 DEF SessionInv, NothingYet
<1> QED BY <1>6, <1>7

\* A further result, of the node whose turn it is.
LEMMA ResultKeeps ==
    ASSUME AgentInv, SessionInv, Todo, NEW r \in [node : Handable, output : Json, mocked : BOOLEAN],
           results' = Append(results, r), ResultIsOf(r, Current), UNCHANGED <<agentVars, session>>
    PROVE  SessionInv'
<1>1. UNCHANGED <<plan, live, told, session>>
    BY DEF agentVars
<1>2. /\ results \in Seq([node : Handable, output : Json, mocked : BOOLEAN])
      /\ session.nodes \in Seq(Row) /\ Len(results) < Len(session.nodes)
      /\ session.pc = "running" /\ session \in SessionType
    BY DEF SessionInv, ResultsInv, SessionType, Todo
<1>3. /\ SessionType' = SessionType /\ Handable' = Handable
      /\ \A x : \A y : ResultIsOf(x, y)' = ResultIsOf(x, y)
    BY <1>1 DEF SessionType, Exec, Node, Row, Recorded, Handable, ResultIsOf
<1>4. ResultsInv'
    <2>1. /\ results' \in Seq([node : Handable, output : Json, mocked : BOOLEAN])
          /\ Len(results') = Len(results) + 1
          /\ \A i \in DOMAIN results' : \/ i = Len(results) + 1 /\ results'[i] = r
                                        \/ i \in DOMAIN results /\ results'[i] = results[i]
        BY <1>2
    <2>2. \A i \in DOMAIN results' : ResultIsOf(results'[i], session.nodes[i])
        BY <2>1 DEF SessionInv, ResultsInv, Current
    <2>3. Len(results') <= Len(session.nodes)
        BY <1>2, <2>1
    <2> QED BY <1>1, <1>2, <1>3, <2>1, <2>2, <2>3 DEF ResultsInv
<1>5. SessionIsTold'
    BY <1>1 DEF SessionInv, SessionIsTold
<1> QED BY <1>1, <1>2, <1>3, <1>4, <1>5 DEF SessionInv, NothingYet

\* The handler gets the node itself, but for the input it may be asked to change.
LEMMA HandedFacts ==
    ASSUME NEW node \in Row
    PROVE  /\ Handed(node) \in Handable /\ Handed(node).node = node.node
           /\ Handed(node).input # node.input <=> Probes(node)
<1>1. /\ node \in Recorded /\ node \in Handable /\ node.input \in Json /\ node.output \in Json
    BY DEF Row, Recorded, Handable
<1>2. node.input # NewInput
    BY <1>1 DEF Json, NewInput
<1>3. CASE ~Probes(node)
    BY <1>1, <1>3 DEF Handed
<1>4. CASE Probes(node)
    <2> DEFINE copy == FromDict(ToDict(node), NoBlob)
    <2>1. JsonForm(node.input) \in Json /\ JsonForm(node.output) \in Json /\ NoBlob \in Nat
        BY <1>1 DEF JsonForm, Json, NoBlob
    <2>2. copy \in Handable /\ copy.node = node.node
        BY <1>1, <2>1 DEF FromDict, ToDict, Handable, Recorded
    <2>3. Handed(node) = [copy EXCEPT !.input = NewInput]
        BY <1>4 DEF Handed
    <2> HIDE DEF copy
    <2>4. Handed(node) \in Handable /\ Handed(node).node = node.node /\ Handed(node).input = NewInput
        BY <2>2, <2>3 DEF Handable
    <2> QED BY <1>2, <1>4, <2>4
<1> QED BY <1>3, <1>4

\* Each way to a result keeps the invariant.
LEMMA AnyResultKeeps ==
    ASSUME AgentInv, SessionInv, Mock \/ Reconstruct \/ Execute
    PROVE  /\ SessionInv' /\ Todo /\ UNCHANGED <<agentVars, page, session>>
           /\ \E r \in [node : Handable, output : Json, mocked : BOOLEAN] :
                 /\ results' = Append(results, r)
                 /\ counters' = IF r.mocked THEN [counters EXCEPT !.mocked = @ + 1]
                                            ELSE [counters EXCEPT !.executed = @ + 1]
<1>1. Todo /\ UNCHANGED <<agentVars, page, session>>
    BY DEF Mock, Reconstruct, Execute
<1>2. Current \in Row
    <2>1. session.nodes \in Seq(Row) /\ Len(results) < Len(session.nodes) /\ Len(results) \in Nat
        BY <1>1 DEF SessionInv, ResultsInv, SessionType, Todo
    <2> QED BY <2>1 DEF Current
<1>3. /\ Current \in Handable /\ Current.output \in Json
      /\ Handed(Current) \in Handable /\ Handed(Current).node = Current.node
      /\ Handed(Current).input # Current.input <=> Probes(Current)
    BY <1>2, HandedFacts DEF Row, Recorded, Handable
<1> DEFINE Results == [node : Handable, output : Json, mocked : BOOLEAN]
<1>4. CASE Mock
    <2> DEFINE r == Result(Current, Current.output, TRUE)
    <2>1. r \in Results /\ r.mocked = TRUE /\ ResultIsOf(r, Current)
        BY <1>3, <1>4 DEF Result, ResultIsOf, Mock, Mocks
    <2>2. results' = Append(results, r) /\ counters' = [counters EXCEPT !.mocked = @ + 1]
        BY <1>4 DEF Mock
    <2> HIDE DEF r
    <2> QED BY <1>1, <2>1, <2>2, ResultKeeps
<1>5. CASE Reconstruct
    <2> DEFINE r == Result(Handed(Current), Current.output, FALSE)
    <2>1. r \in Results /\ r.mocked = FALSE /\ ResultIsOf(r, Current)
        BY <1>3 DEF Result, ResultIsOf, Probes
    <2>2. results' = Append(results, r) /\ counters' = [counters EXCEPT !.executed = @ + 1]
        BY <1>5 DEF Reconstruct
    <2> HIDE DEF r
    <2> QED BY <1>1, <2>1, <2>2, ResultKeeps
<1>6. CASE Execute
    <2> DEFINE r == Result(Handed(Current), "json", FALSE)
    <2>1. r \in Results /\ r.mocked = FALSE /\ ResultIsOf(r, Current)
        BY <1>3, <1>6 DEF Result, ResultIsOf, Probes, Json, Execute
    <2>2. results' = Append(results, r) /\ counters' = [counters EXCEPT !.executed = @ + 1]
        BY <1>6 DEF Execute
    <2> HIDE DEF r
    <2> QED BY <1>1, <2>1, <2>2, ResultKeeps
<1> QED BY <1>4, <1>5, <1>6

\* Whether its handler raises or all are done, what the session has stays.
LEMMA LeavingKeeps ==
    ASSUME AgentInv, SessionInv, Raise \/ Finish
    PROVE  SessionInv'
<1>1. /\ UNCHANGED <<plan, live, told, results>> /\ session.pc = "running"
      /\ \/ session' = [session EXCEPT !.pc = "raised"]
         \/ session' = [session EXCEPT !.pc = "returned"] /\ ~Todo
    BY DEF Raise, Finish, agentVars, Todo
<1>2. /\ session \in SessionType /\ Len(results) <= Len(session.nodes)
      /\ results \in Seq([node : Handable, output : Json, mocked : BOOLEAN])
      /\ session.nodes \in Seq(Row)
    BY DEF SessionInv, ResultsInv, SessionType
<1>3. /\ session' \in SessionType /\ session'.pc \in {"raised", "returned"}
      /\ session'.nodes = session.nodes /\ session'.ended = session.ended
      /\ session'.mode = session.mode /\ session'.cf = session.cf
      /\ session'.caller = session.caller
    BY <1>1, <1>2 DEF SessionType
<1>4. session'.pc = "returned" => Len(results) = Len(session.nodes)
    <2>1. Len(results) \in Nat /\ Len(session.nodes) \in Nat
        BY <1>2
    <2>2. session'.pc = "returned" => ~Todo
        BY <1>1, <1>2 DEF SessionType
    <2> QED BY <1>1, <1>2, <2>1, <2>2 DEF Todo
<1>5. /\ SessionType' = SessionType /\ Handable' = Handable
      /\ \A x : \A y : ResultIsOf(x, y)' = ResultIsOf(x, y)
    BY <1>1, <1>3 DEF SessionType, Exec, Node, Row, Recorded, Handable, ResultIsOf
<1>6. ResultsInv'
    BY <1>1, <1>3, <1>4, <1>5 DEF SessionInv, ResultsInv
<1>7. SessionIsTold'
    BY <1>1, <1>3 DEF SessionInv, SessionIsTold
<1> QED BY <1>3, <1>5, <1>6, <1>7 DEF SessionInv, NothingYet

-----------------------------------------------------------------------------
\* A click waits for the rest of main: its node was shown below the execution that
\* was chosen then, and is looked for there unless the list of executions changed.
ClickPending ==
    LET e == plan[page.clicked].exec IN
    /\ page.pc = "loading"
    /\ page.clicked \in ToSet(page.nodes)
    /\ IsPrefix(page.nodes, NodesOf(Listed(table, e)))
    /\ page.before # << >>
    /\ page.exec = IF page.execs = page.before THEN e ELSE Head(page.execs)

\* What the page shows is how lists begin.
PageInv ==
    /\ page \in [pc : {"none", "loading", "shown"}, execs : Seq(Exec), exec : Exec \cup {None},
                 nodes : Seq(Node), clicked : Node \cup {None}, before : Seq(Exec)]
    /\ page.pc = "none" => page.execs = << >>
    /\ page.pc # "none" => page.exec \in ToSet(page.execs)
    /\ IsPrefix(page.execs, ListExecutions(table))
    /\ page.pc = "loading" => IsPrefix(page.before, page.execs)
    /\ page.pc = "shown" => IsPrefix(page.nodes, NodesOf(Listed(table, page.exec)))
    /\ page.clicked # None => ClickPending

\* And so does the page of the node that is replayed.
StudioInv ==
    /\ session.pc = "none" => session.caller = None
    /\ session.caller = "studio" =>
           /\ session.mode = "FROM_NODE" /\ session.from \in ToSet(session.shown)
           /\ IsPrefix(session.shown, NodesOf(Listed(table, session.exec)))
    /\ ClickedIsFound

LEMMA PageFacts ==
    ASSUME PageInv
    PROVE  /\ page.nodes \in Seq(Node) /\ page.execs \in Seq(Exec) /\ page.before \in Seq(Exec)
           /\ page.exec \in Exec \cup {None} /\ (page.pc # "none" => page.exec \in Exec)
           /\ page.clicked \in Node \cup {None}
BY DEF PageInv, ToSet

\* Any step.
LEMMA SessionStep ==
    ASSUME AgentInv, SessionInv, PageInv, [Next]_vars
    PROVE  SessionInv'
<1>1. CASE Run \/ Command \/ (Render /\ ~UNCHANGED sessionVars)
    BY <1>1, PageFacts, BeginsWell, BeginKeeps
<1>2. CASE Mock \/ Reconstruct \/ Execute
    BY <1>2, AnyResultKeeps
<1>3. CASE Raise \/ Finish
    BY <1>3, LeavingKeeps
<1>4. CASE ListNodes
    BY <1>4, ListNodesKeeps
<1>5. ASSUME \/ \E n \in Node : \/ Start(n) \/ SetStatus(n) \/ SetOutput(n) \/ HandOver(n)
                                \/ Error(n) \/ Record(n) \/ Serialize(n)
             \/ ReadOutput \/ Insert \/ Open \/ Choose \/ Click \/ UNCHANGED vars
      PROVE  UNCHANGED sessionVars
    BY <1>5 DEF Start, SetStatus, SetOutput, HandOver, Error, Record, Serialize, Change,
                ReadOutput, Insert, Open, Choose, Click, Rerun, vars, sessionVars
<1>6. CASE UNCHANGED sessionVars
    BY <1>6, MeanwhileKeeps
<1> QED BY <1>1, <1>2, <1>3, <1>4, <1>5, <1>6 DEF Next

-----------------------------------------------------------------------------
(* The executions of a table, as _list_executions lists them.              *)

ExecsOf(rows) == {rows[i].exec : i \in DOMAIN rows}
Before(rows) == {p \in ExecsOf(rows) \X ExecsOf(rows) : FirstIn(rows, p[1]) < FirstIn(rows, p[2])}

\* Each execution has a first row, and no two have the same.
LEMMA FirstRowIn ==
    ASSUME NEW R, NEW rows \in Seq(R), NEW e \in ExecsOf(rows)
    PROVE  /\ FirstIn(rows, e) \in DOMAIN rows /\ rows[FirstIn(rows, e)].exec = e
           /\ \A i \in DOMAIN rows : rows[i].exec = e => FirstIn(rows, e) <= i
<1> DEFINE I == {i \in DOMAIN rows : rows[i].exec = e}
<1>1. Len(rows) \in Nat /\ I \in SUBSET (1..Len(rows)) /\ I # {}
    BY DEF ExecsOf
<1>2. FirstIn(rows, e) = Min(I)
    BY DEF FirstIn
<1>3. Min(I) \in I /\ \A i \in I : Min(I) <= i
    <2> HIDE DEF I
    <2> QED BY <1>1, MinOfIndices
<1> QED BY <1>2, <1>3

LEMMA ExecutionsInOrder ==
    ASSUME NEW R, NEW rows \in Seq(R)
    PROVE  /\ IsFiniteSet(ExecsOf(rows)) /\ Orders(Before(rows), ExecsOf(rows))
           /\ ListExecutions(rows) = InOrder(ExecsOf(rows), Before(rows))
<1>1. ListExecutions(rows) = InOrder(ExecsOf(rows), Before(rows))
    BY DEF ListExecutions, ExecsOf, Before
<1>2. \A e \in ExecsOf(rows) : FirstIn(rows, e) \in DOMAIN rows /\ rows[FirstIn(rows, e)].exec = e
    BY FirstRowIn
<1>3. IsFiniteSet(ExecsOf(rows))
    <2> DEFINE f == [i \in DOMAIN rows |-> rows[i].exec]
    <2>1. f \in Surjection(DOMAIN rows, ExecsOf(rows))
        BY DEF ExecsOf, Surjection
    <2>2. IsFiniteSet(DOMAIN rows)
        <3>1. DOMAIN rows = 1..Len(rows) /\ Len(rows) \in Int
            OBVIOUS
        <3> QED BY <3>1, FS_Interval
    <2> QED BY <2>1, <2>2, FS_Surjection
<1>4. \A x, y \in ExecsOf(rows) :
          <<x, y>> \in Before(rows) <=> FirstIn(rows, x) < FirstIn(rows, y)
    BY DEF Before
<1>5. \A x \in ExecsOf(rows) : FirstIn(rows, x) \in Int
    BY <1>2
<1>6. \A x, y \in ExecsOf(rows) : x # y => FirstIn(rows, x) # FirstIn(rows, y)
    BY <1>2
<1>7. Orders(Before(rows), ExecsOf(rows))
    BY <1>4, <1>5, <1>6 DEF Orders
<1> QED BY <1>1, <1>3, <1>7

\* A row that is added changes the place of no execution.
LEMMA ExecutionsKeepPlaces ==
    ASSUME NEW E, NEW R, \A r \in R : r.exec \in E, NEW rows \in Seq(R), NEW row \in R
    PROVE  /\ ListExecutions(rows) \in Seq(E) /\ ListExecutions(Append(rows, row)) \in Seq(E)
           /\ IsPrefix(ListExecutions(rows), ListExecutions(Append(rows, row)))
<1> DEFINE more == Append(rows, row)
           S == ExecsOf(rows)
           T == ExecsOf(more)
<1>1. /\ Len(rows) \in Nat /\ DOMAIN rows = 1..Len(rows)
      /\ more \in Seq(R) /\ DOMAIN more = 1..(Len(rows) + 1)
      /\ \A i \in DOMAIN rows : i \in DOMAIN more /\ more[i] = rows[i]
      /\ \A i \in DOMAIN rows : rows[i] \in R
      /\ \A i \in DOMAIN more : more[i] \in R
    OBVIOUS
<1> HIDE DEF more
<1>2. /\ IsFiniteSet(S) /\ Orders(Before(rows), S)
      /\ ListExecutions(rows) = InOrder(S, Before(rows))
      /\ IsFiniteSet(T) /\ Orders(Before(more), T)
      /\ ListExecutions(more) = InOrder(T, Before(more))
    BY <1>1, ExecutionsInOrder
<1>3. S \subseteq T /\ S \subseteq E /\ T \subseteq E
    BY <1>1 DEF ExecsOf
<1>4. \A e \in S : /\ FirstIn(rows, e) \in DOMAIN rows /\ rows[FirstIn(rows, e)].exec = e
                   /\ \A i \in DOMAIN rows : rows[i].exec = e => FirstIn(rows, e) <= i
    BY FirstRowIn
<1>5. \A e \in T : /\ FirstIn(more, e) \in DOMAIN more /\ more[FirstIn(more, e)].exec = e
                   /\ \A i \in DOMAIN more : more[i].exec = e => FirstIn(more, e) <= i
    BY <1>1, FirstRowIn
<1>6. ASSUME NEW e \in S PROVE FirstIn(more, e) = FirstIn(rows, e) /\ FirstIn(more, e) <= Len(rows)
    <2>1. FirstIn(more, e) <= FirstIn(rows, e)
        BY <1>1, <1>3, <1>4, <1>5
    <2>2. FirstIn(more, e) \in DOMAIN rows
        BY <1>1, <1>3, <1>4, <1>5, <2>1
    <2>3. FirstIn(rows, e) <= FirstIn(more, e)
        BY <1>1, <1>3, <1>4, <1>5, <2>2
    <2> QED BY <1>1, <1>4, <2>1, <2>2, <2>3
<1>7. ASSUME NEW e \in T \ S PROVE FirstIn(more, e) = Len(rows) + 1
    <2>1. FirstIn(more, e) \in DOMAIN more /\ more[FirstIn(more, e)].exec = e
        BY <1>5
    <2>2. FirstIn(more, e) \notin DOMAIN rows
        BY <1>1, <2>1 DEF ExecsOf
    <2> QED BY <1>1, <2>1, <2>2
<1>8. /\ \A x, y \in S : <<x, y>> \in Before(rows) <=> FirstIn(rows, x) < FirstIn(rows, y)
      /\ \A x, y \in T : <<x, y>> \in Before(more) <=> FirstIn(more, x) < FirstIn(more, y)
    BY DEF Before
<1>9. Prolongs(T, Before(more), S, Before(rows))
    <2>1. \A x, y \in S : <<x, y>> \in Before(rows) <=> <<x, y>> \in Before(more)
        BY <1>3, <1>6, <1>8
    <2>2. \A x \in S : \A y \in T \ S : <<x, y>> \in Before(more)
        <3> SUFFICES ASSUME NEW x \in S, NEW y \in T \ S PROVE <<x, y>> \in Before(more)
            OBVIOUS
        <3>1. FirstIn(more, x) < FirstIn(more, y)
            BY <1>1, <1>4, <1>6, <1>7
        <3> QED BY <1>3, <1>8, <3>1
    <2> QED BY <1>2, <1>3, <2>1, <2>2 DEF Prolongs
<1> HIDE DEF S, T
<1>10. /\ InOrder(S, Before(rows)) \in Seq(S) /\ InOrder(T, Before(more)) \in Seq(T)
       /\ Len(InOrder(S, Before(rows))) = Cardinality(S)
       /\ Len(InOrder(T, Before(more))) = Cardinality(T)
    BY <1>2, InOrderIsSorted
<1>11. /\ Cardinality(S) <= Cardinality(T)
       /\ \A k \in 1..Cardinality(S) : InOrder(S, Before(rows))[k] = InOrder(T, Before(more))[k]
    BY <1>2, <1>9, InOrderGrows
<1>12. ListExecutions(rows) \in Seq(E) /\ ListExecutions(more) \in Seq(E)
    BY <1>2, <1>3, <1>10
<1>13. IsPrefix(ListExecutions(rows), ListExecutions(more))
    BY <1>2, <1>10, <1>11, <1>12, PrefixElements
<1> QED BY <1>12, <1>13 DEF more

-----------------------------------------------------------------------------
LEMMA InitPage == Init => PageInv /\ StudioInv /\ CountersInv
<1> SUFFICES ASSUME Init PROVE PageInv /\ StudioInv /\ CountersInv
    OBVIOUS
<1>1. /\ page = NoPage /\ session = NoSession /\ results = << >> /\ table = << >>
      /\ counters = [executed |-> 0, mocked |-> 0, sessions |-> 0]
    BY DEF Init
<1>2. session.pc = "none" /\ session.caller = None /\ session.caller # "studio"
    BY <1>1, SentinelAssumption DEF NoSession
<1>3. StudioInv
    BY <1>2 DEF StudioInv, ClickedIsFound
<1>4. PageInv
    <2>1. IsPrefix(<< >>, ListExecutions(table))
        BY DEF IsPrefix
    <2> QED BY <1>1, <2>1 DEF PageInv, NoPage
<1>5. CountersInv
    <2>1. {i \in DOMAIN results : results[i].mocked} = {}
          /\ {i \in DOMAIN results : ~results[i].mocked} = {}
        BY <1>1
    <2> QED BY <1>1, <1>2, <2>1, FS_EmptySet DEF CountersInv, CountersMatch
<1> QED BY <1>3, <1>4, <1>5

MockedIn(rs) == Cardinality({i \in DOMAIN rs : rs[i].mocked})
HandledIn(rs) == Cardinality({i \in DOMAIN rs : ~rs[i].mocked})

\* One more result is one more of its kind.
LEMMA OneMoreResult ==
    ASSUME NEW S, \A s \in S : s.mocked \in BOOLEAN, NEW rs \in Seq(S), NEW r \in S
    PROVE  /\ MockedIn(rs) \in Nat /\ HandledIn(rs) \in Nat
           /\ MockedIn(Append(rs, r)) = IF r.mocked THEN MockedIn(rs) + 1 ELSE MockedIn(rs)
           /\ HandledIn(Append(rs, r)) = IF r.mocked THEN HandledIn(rs) ELSE HandledIn(rs) + 1
<1> DEFINE new == Append(rs, r)
           n == Len(rs)
           M == {i \in DOMAIN rs : rs[i].mocked}
           D == {i \in DOMAIN rs : ~rs[i].mocked}
           M2 == {i \in DOMAIN new : new[i].mocked}
           D2 == {i \in DOMAIN new : ~new[i].mocked}
<1>1. /\ n \in Nat /\ DOMAIN rs = 1..n /\ n + 1 \notin 1..n
      /\ DOMAIN new = (1..n) \cup {n + 1}
      /\ \A i \in 1..n : new[i] = rs[i]
      /\ new[n + 1] = r
    OBVIOUS
<1> HIDE DEF new, n
<1>2. IsFiniteSet(1..n)
    BY <1>1, FS_Interval
<1>3. M \subseteq 1..n /\ D \subseteq 1..n
    BY <1>1
<1>4. IsFiniteSet(M) /\ IsFiniteSet(D) /\ n + 1 \notin M /\ n + 1 \notin D
    BY <1>1, <1>2, <1>3, FS_Subset
<1>5. /\ M2 = IF r.mocked THEN M \cup {n + 1} ELSE M
      /\ D2 = IF r.mocked THEN D ELSE D \cup {n + 1}
    BY <1>1
<1> HIDE DEF M, D, M2, D2
<1>6. /\ Cardinality(M) \in Nat /\ Cardinality(D) \in Nat
      /\ Cardinality(M \cup {n + 1}) = Cardinality(M) + 1
      /\ Cardinality(D \cup {n + 1}) = Cardinality(D) + 1
    BY <1>4, FS_AddElement, FS_CardinalityType
<1>7. /\ Cardinality(M2) = IF r.mocked THEN Cardinality(M) + 1 ELSE Cardinality(M)
      /\ Cardinality(D2) = IF r.mocked THEN Cardinality(D) ELSE Cardinality(D) + 1
    BY <1>5, <1>6
<1> QED BY <1>6, <1>7 DEF M, D, M2, D2, new, MockedIn, HandledIn

LEMMA CountersStep ==
    ASSUME AgentInv, SessionInv, PageInv, CountersInv, [Next]_vars
    PROVE  CountersInv'
<1>0. /\ counters \in [executed : Nat, mocked : Nat, sessions : {0, 1}]
      /\ counters.executed = Cardinality({i \in DOMAIN results : ~results[i].mocked})
      /\ counters.mocked = Cardinality({i \in DOMAIN results : results[i].mocked})
      /\ counters.sessions = 1 <=> session.pc = "returned"
      /\ session \in SessionType
    BY DEF CountersInv, CountersMatch, SessionInv
<1>1. CASE Mock \/ Reconstruct \/ Execute
    <2> DEFINE S == [node : Handable, output : Json, mocked : BOOLEAN]
    <2>1. PICK r \in S :
              /\ results' = Append(results, r)
              /\ counters' = IF r.mocked THEN [counters EXCEPT !.mocked = @ + 1]
                                         ELSE [counters EXCEPT !.executed = @ + 1]
        BY <1>1, AnyResultKeeps
    <2>2. Todo /\ UNCHANGED session
        BY <1>1, AnyResultKeeps
    <2>3. results \in Seq(S) /\ \A s \in S : s.mocked \in BOOLEAN
        BY DEF SessionInv, ResultsInv
    <2> HIDE DEF S
    <2>4. /\ MockedIn(results') = IF r.mocked THEN MockedIn(results) + 1 ELSE MockedIn(results)
          /\ HandledIn(results') = IF r.mocked THEN HandledIn(results)
                                               ELSE HandledIn(results) + 1
        BY <2>1, <2>3, OneMoreResult
    <2>5. /\ counters' \in [executed : Nat, mocked : Nat, sessions : {0, 1}]
          /\ counters'.mocked = IF r.mocked THEN counters.mocked + 1 ELSE counters.mocked
          /\ counters'.executed = IF r.mocked THEN counters.executed ELSE counters.executed + 1
          /\ counters'.sessions = counters.sessions
        BY <1>0, <2>1
    <2>6. /\ counters'.executed = Cardinality({i \in DOMAIN results' : ~results'[i].mocked})
          /\ counters'.mocked = Cardinality({i \in DOMAIN results' : results'[i].mocked})
        BY <1>0, <2>4, <2>5 DEF MockedIn, HandledIn
    <2> QED BY <1>0, <2>2, <2>5, <2>6 DEF CountersInv, CountersMatch
<1>2. CASE Finish
    <2>1. session.pc = "running" /\ session'.pc = "returned" /\ UNCHANGED results
          /\ counters' = [counters EXCEPT !.sessions = @ + 1]
        BY <1>0, <1>2 DEF Finish, SessionType
    <2>2. counters.sessions = 0
        BY <1>0, <2>1
    <2>3. /\ counters' \in [executed : Nat, mocked : Nat, sessions : {0, 1}]
          /\ counters'.executed = counters.executed /\ counters'.mocked = counters.mocked
          /\ counters'.sessions = 1
        BY <1>0, <2>1, <2>2
    <2> QED BY <1>0, <2>1, <2>3 DEF CountersInv, CountersMatch
<1>3. CASE ListNodes \/ Raise
    <2>1. UNCHANGED <<results, counters>> /\ session.pc # "returned" /\ session'.pc # "returned"
        BY <1>0, <1>3 DEF ListNodes, Raise, Todo, SessionType
    <2> QED BY <1>0, <2>1 DEF CountersInv, CountersMatch
<1>4. CASE Run \/ Command \/ (Render /\ ~UNCHANGED sessionVars)
    <2>1. UNCHANGED <<results, counters>> /\ session.pc # "returned" /\ session'.pc # "returned"
        BY <1>4, PageFacts, BeginsWell, BeginKeeps
    <2> QED BY <1>0, <2>1 DEF CountersInv, CountersMatch
<1>5. ASSUME \/ \E n \in Node : \/ Start(n) \/ SetStatus(n) \/ SetOutput(n) \/ HandOver(n)
                                \/ Error(n) \/ Record(n) \/ Serialize(n)
             \/ ReadOutput \/ Insert \/ Open \/ Choose \/ Click \/ UNCHANGED vars
      PROVE  UNCHANGED sessionVars
    BY <1>5 DEF Start, SetStatus, SetOutput, HandOver, Error, Record, Serialize, Change,
                ReadOutput, Insert, Open, Choose, Click, Rerun, vars, sessionVars
<1>6. CASE UNCHANGED sessionVars
    BY <1>6 DEF sessionVars, CountersInv, CountersMatch
<1> QED BY <1>1, <1>2, <1>3, <1>4, <1>5, <1>6 DEF Next


-----------------------------------------------------------------------------
LEMMA PrefixOfPrefix ==
    ASSUME NEW S, NEW s \in Seq(S), NEW t \in Seq(S), NEW u \in Seq(S),
           IsPrefix(s, t), IsPrefix(t, u)
    PROVE  IsPrefix(s, u)
<1>1. /\ Len(s) \in Nat /\ Len(t) \in Nat /\ Len(u) \in Nat
      /\ Len(s) <= Len(t) /\ \A k \in 1..Len(s) : s[k] = t[k]
      /\ Len(t) <= Len(u) /\ \A k \in 1..Len(t) : t[k] = u[k]
    BY PrefixElements
<1>2. Len(s) <= Len(u) /\ \A k \in 1..Len(s) : s[k] = u[k]
    BY <1>1
<1> QED BY <1>2, PrefixElements

LEMMA ExecutionsListed ==
    ASSUME AgentInv
    PROVE  ListExecutions(table) \in Seq(Exec)
<1>1. table \in Seq(Row)
    BY DEF AgentInv, TableInv
<1>2. /\ IsFiniteSet(ExecsOf(table)) /\ Orders(Before(table), ExecsOf(table))
      /\ ListExecutions(table) = InOrder(ExecsOf(table), Before(table))
    BY <1>1, ExecutionsInOrder
<1>3. ListExecutions(table) \in Seq(ExecsOf(table))
    BY <1>2, InOrderIsSorted
<1>4. ExecsOf(table) \subseteq Exec
    BY <1>1 DEF ExecsOf, Row, Recorded
<1> QED BY <1>3, <1>4

\* The nodes listed of an execution are its own.
LEMMA NodesListed ==
    ASSUME AgentInv, NEW e
    PROVE  /\ NodesOf(Listed(table, e)) \in Seq(Node)
           /\ \A n \in ToSet(NodesOf(Listed(table, e))) : n \in Node /\ plan[n].exec = e
<1> DEFINE list == Listed(table, e)
<1>1. list \in Seq(Row) /\ \A k \in DOMAIN list : list[k].exec = e
    BY ListedFacts
<1> HIDE DEF list
<1>2. \A k \in DOMAIN list : list[k].node \in Node /\ plan[list[k].node].exec = e
    BY <1>1 DEF Row, Recorded
<1>3. /\ NodesOf(list) \in Seq(Node)
      /\ \A n \in ToSet(NodesOf(list)) : n \in Node /\ plan[n].exec = e
    BY <1>1, <1>2 DEF NodesOf, ToSet
<1> QED BY <1>3 DEF list

\* What a list began with, it goes on to begin with.
LEMMA ListsStay ==
    ASSUME AgentInv, [Next]_vars
    PROVE  /\ \A e : \A s \in Seq(Node) :
                 IsPrefix(s, NodesOf(Listed(table, e))) => IsPrefix(s, NodesOf(Listed(table', e)))
           /\ \A s \in Seq(Exec) :
                 IsPrefix(s, ListExecutions(table)) => IsPrefix(s, ListExecutions(table'))
<1>1. table \in Seq(Row) /\ \A r \in Row : r.node \in Node /\ r.exec \in Exec
    BY DEF AgentInv, TableInv, Row, Recorded
<1>2. CASE table' = table
    BY <1>2
<1>3. CASE table' # table
    <2>1. PICK row \in Row : table' = Append(table, row)
        BY <1>3, AgentStep
    <2>2. ASSUME NEW e, NEW s \in Seq(Node), IsPrefix(s, NodesOf(Listed(table, e)))
          PROVE  IsPrefix(s, NodesOf(Listed(table', e)))
        <3> DEFINE old == NodesOf(Listed(table, e))
                   new == NodesOf(Listed(table', e))
        <3>1. old \in Seq(Node) /\ new \in Seq(Node) /\ IsPrefix(old, new)
            BY <1>1, <2>1, ListGrows
        <3>2. IsPrefix(s, old)
            BY <2>2
        <3> HIDE DEF old, new
        <3>3. IsPrefix(s, new)
            BY <3>1, <3>2, PrefixOfPrefix
        <3> QED BY <3>3 DEF new
    <2>3. ASSUME NEW s \in Seq(Exec), IsPrefix(s, ListExecutions(table))
          PROVE  IsPrefix(s, ListExecutions(table'))
        <3> DEFINE old == ListExecutions(table)
                   new == ListExecutions(table')
        <3>1. old \in Seq(Exec) /\ new \in Seq(Exec) /\ IsPrefix(old, new)
            BY <1>1, <2>1, ExecutionsKeepPlaces
        <3>2. IsPrefix(s, old)
            BY <2>3
        <3> HIDE DEF old, new
        <3>3. IsPrefix(s, new)
            BY <3>1, <3>2, PrefixOfPrefix
        <3> QED BY <3>3 DEF new
    <2> QED BY <2>2, <2>3
<1> QED BY <1>2, <1>3

LEMMA WholeIsPrefix == ASSUME NEW S, NEW s \in Seq(S) PROVE IsPrefix(s, s)
<1>1. Len(s) <= Len(s)
    OBVIOUS
<1> QED BY <1>1, PrefixElements

\* main runs again, up to its await: nothing is lost of the page as it was.
LEMMA RerunKeeps ==
    ASSUME AgentInv, PageInv, NEW wanted \in Exec \cup {None}, NEW clicked \in Node \cup {None},
           Rerun(wanted, clicked),
           \/ page.pc = "none" /\ clicked = None
           \/ /\ page.pc = "shown" /\ wanted \in ToSet(page.execs)
              /\ clicked # None => clicked \in ToSet(page.nodes) /\ wanted = page.exec
    PROVE  PageInv'
<1> DEFINE execs == ListExecutions(table)
           exec == IF execs = page.execs THEN wanted ELSE Head(execs)
<1>1. /\ UNCHANGED <<plan, table>> /\ execs # << >>
      /\ page' = [page EXCEPT !.pc = "loading", !.execs = execs, !.exec = exec,
                              !.clicked = clicked, !.before = page.execs]
    BY DEF Rerun, agentVars
<1>2. execs \in Seq(Exec) /\ execs # << >>
    BY <1>1, ExecutionsListed
<1> HIDE DEF execs
<1>3. Head(execs) \in Exec /\ Head(execs) \in ToSet(execs)
    <2>1. 1 \in DOMAIN execs /\ Head(execs) = execs[1]
        BY <1>2
    <2> QED BY <1>2, <2>1 DEF ToSet
<1>4. exec \in Exec \cup {None} /\ exec \in ToSet(execs)
    <2>1. CASE execs = page.execs
        BY <1>2, <2>1 DEF PageInv
    <2>2. CASE execs # page.execs
        BY <1>3, <2>2
    <2> QED BY <2>1, <2>2
<1>5. exec = IF execs = page.execs THEN wanted ELSE Head(execs)
    OBVIOUS
<1> HIDE DEF exec
<1>6. page \in [pc : {"none", "loading", "shown"}, execs : Seq(Exec), exec : Exec \cup {None},
                nodes : Seq(Node), clicked : Node \cup {None}, before : Seq(Exec)]
    BY DEF PageInv
<1>7. /\ page'.pc = "loading" /\ page'.execs = execs /\ page'.exec = exec
      /\ page'.clicked = clicked /\ page'.before = page.execs /\ page'.nodes = page.nodes
    BY <1>1, <1>6
<1>8. page' \in [pc : {"none", "loading", "shown"}, execs : Seq(Exec), exec : Exec \cup {None},
                 nodes : Seq(Node), clicked : Node \cup {None}, before : Seq(Exec)]
    BY <1>1, <1>2, <1>4, <1>6
<1>9. IsPrefix(execs, ListExecutions(table)) /\ IsPrefix(page.execs, execs)
    BY <1>2, WholeIsPrefix DEF PageInv, execs
<1>10. ASSUME clicked # None PROVE ClickPending'
    <2>1. page.pc = "shown" /\ clicked \in ToSet(page.nodes) /\ wanted = page.exec
          /\ wanted \in ToSet(page.execs)
        BY <1>10, SentinelAssumption
    <2>2. IsPrefix(page.nodes, NodesOf(Listed(table, page.exec)))
        BY <2>1 DEF PageInv
    <2>3. plan[clicked].exec = page.exec
        <3> DEFINE list == NodesOf(Listed(table, page.exec))
        <3>1. list \in Seq(Node) /\ \A n \in ToSet(list) : plan[n].exec = page.exec
            BY NodesListed
        <3>2. page.nodes \in Seq(Node) /\ IsPrefix(page.nodes, list)
            BY <1>6, <2>2
        <3> HIDE DEF list
        <3>3. /\ Len(page.nodes) \in Nat /\ Len(list) \in Nat /\ Len(page.nodes) <= Len(list)
              /\ \A k \in 1..Len(page.nodes) : page.nodes[k] = list[k]
            BY <3>1, <3>2, PrefixElements
        <3>4. PICK k \in 1..Len(page.nodes) : clicked = page.nodes[k]
            BY <2>1, <3>2 DEF ToSet
        <3>5. k \in DOMAIN list /\ clicked = list[k]
            BY <3>1, <3>3, <3>4
        <3>6. clicked \in ToSet(list)
            BY <3>5 DEF ToSet
        <3> QED BY <3>1, <3>6
    <2>4. page.execs # << >>
        BY <1>6, <2>1 DEF ToSet
    <2> QED BY <1>1, <1>5, <1>7, <2>1, <2>2, <2>3, <2>4 DEF ClickPending
<1>11. Node' = Node /\ Exec' = Exec
    BY <1>1 DEF Node, Exec
<1>12. IsPrefix(page'.execs, ListExecutions(table')) /\ IsPrefix(page'.before, page'.execs)
    BY <1>1, <1>7, <1>9
<1>13. page'.pc = "loading" /\ page'.exec \in ToSet(page'.execs) /\ page'.clicked = clicked
    BY <1>4, <1>7
<1> QED BY <1>8, <1>10, <1>11, <1>12, <1>13 DEF PageInv

LEMMA RenderKeeps ==
    ASSUME AgentInv, PageInv, Render
    PROVE  PageInv'
<1> DEFINE nodes == NodesOf(Listed(table, page.exec))
<1>1. /\ page.pc = "loading" /\ UNCHANGED <<plan, table>>
      /\ page' = [page EXCEPT !.pc = "shown", !.nodes = nodes, !.clicked = None, !.before = << >>]
    BY DEF Render, ReplayFrom, Begin, agentVars
<1>2. nodes \in Seq(Node)
    BY NodesListed
<1>3. IsPrefix(nodes, nodes)
    BY <1>2, WholeIsPrefix
<1> HIDE DEF nodes
<1>4. page \in [pc : {"none", "loading", "shown"}, execs : Seq(Exec), exec : Exec \cup {None},
                nodes : Seq(Node), clicked : Node \cup {None}, before : Seq(Exec)]
    BY DEF PageInv
<1>5. /\ page'.pc = "shown" /\ page'.execs = page.execs /\ page'.exec = page.exec
      /\ page'.clicked = None /\ page'.nodes = nodes
    BY <1>1, <1>4
<1>6. page' \in [pc : {"none", "loading", "shown"}, execs : Seq(Exec), exec : Exec \cup {None},
                 nodes : Seq(Node), clicked : Node \cup {None}, before : Seq(Exec)]'
    <2>1. << >> \in Seq(Exec)
        OBVIOUS
    <2>2. Node' = Node /\ Exec' = Exec
        BY <1>1 DEF Node, Exec
    <2> QED BY <1>1, <1>2, <1>4, <2>1, <2>2
<1>7. /\ page.exec \in ToSet(page.execs) /\ IsPrefix(page.execs, ListExecutions(table))
    BY <1>1 DEF PageInv
<1>8. IsPrefix(page'.nodes, NodesOf(Listed(table', page'.exec)))
    BY <1>1, <1>3, <1>5 DEF nodes
<1> QED BY <1>1, <1>5, <1>6, <1>7, <1>8 DEF PageInv

LEMMA PageStep ==
    ASSUME AgentInv, PageInv, [Next]_vars
    PROVE  PageInv'
<1>0. page \in [pc : {"none", "loading", "shown"}, execs : Seq(Exec), exec : Exec \cup {None},
                nodes : Seq(Node), clicked : Node \cup {None}, before : Seq(Exec)]
    BY DEF PageInv
<1>1. CASE Open
    BY <1>1, RerunKeeps DEF Open
<1>2. CASE Choose
    <2>1. PICK e \in ToSet(page.execs) : Rerun(e, None)
        BY <1>2 DEF Choose
    <2>2. e \in Exec /\ page.pc = "shown"
        BY <1>0, <1>2 DEF ToSet, Choose
    <2> QED BY <2>1, <2>2, RerunKeeps
<1>3. CASE Click
    <2>1. PICK n \in ToSet(page.nodes) : Rerun(page.exec, n)
        BY <1>3 DEF Click
    <2>2. n \in Node /\ page.pc = "shown" /\ page.exec \in Exec \cup {None}
        BY <1>0, <1>3 DEF ToSet, Click
    <2>3. page.exec \in ToSet(page.execs)
        BY <2>2 DEF PageInv
    <2> QED BY <2>1, <2>2, <2>3, RerunKeeps
<1>4. CASE Render
    BY <1>4, RenderKeeps
<1>5. ASSUME UNCHANGED page PROVE PageInv'
    <2>1. UNCHANGED plan
        BY AgentStep
    <2>2. Node' = Node /\ Exec' = Exec
        BY <2>1 DEF Node, Exec
    <2>3. IsPrefix(page.execs, ListExecutions(table'))
        BY <1>0, ListsStay DEF PageInv
    <2>4. page.pc = "shown" => IsPrefix(page.nodes, NodesOf(Listed(table', page.exec)))
        BY <1>0, ListsStay DEF PageInv
    <2>5. ASSUME page.clicked # None PROVE ClickPending'
        <3> DEFINE e == plan[page.clicked].exec
        <3>1. ClickPending /\ IsPrefix(page.nodes, NodesOf(Listed(table, e)))
            BY <2>5 DEF PageInv, ClickPending
        <3> HIDE DEF e
        <3>2. IsPrefix(page.nodes, NodesOf(Listed(table', e)))
            BY <1>0, <3>1, ListsStay
        <3> QED BY <1>5, <2>1, <3>1, <3>2 DEF ClickPending, e
    <2> QED BY <1>5, <2>2, <2>3, <2>4, <2>5 DEF PageInv
<1>6. ASSUME \/ \E n \in Node : \/ Start(n) \/ SetStatus(n) \/ SetOutput(n) \/ HandOver(n)
                                \/ Error(n) \/ Record(n) \/ Serialize(n)
             \/ ReadOutput \/ Insert \/ Run \/ Command \/ ListNodes \/ Mock \/ Reconstruct
             \/ Execute \/ Raise \/ Finish \/ UNCHANGED vars
      PROVE  UNCHANGED page
    BY <1>6 DEF Start, SetStatus, SetOutput, HandOver, Error, Record, Serialize, Change,
                ReadOutput, Insert, Run, Command, ListNodes, Mock, Reconstruct, Execute, Raise,
                Finish, vars
<1> QED BY <1>1, <1>2, <1>3, <1>4, <1>5, <1>6 DEF Next

\* Whatever is listed of the execution of a clicked node has that node.
LEMMA ClickStays ==
    ASSUME AgentInv, PageInv, page.clicked # None, page.exec = plan[page.clicked].exec
    PROVE  page.clicked \in ToSet(NodesOf(Listed(table, page.exec)))
<1> DEFINE list == NodesOf(Listed(table, page.exec))
<1>1. /\ page.clicked \in ToSet(page.nodes) /\ IsPrefix(page.nodes, list)
      /\ page.nodes \in Seq(Node)
    BY DEF PageInv, ClickPending
<1>2. list \in Seq(Node)
    BY NodesListed
<1> HIDE DEF list
<1>3. /\ Len(page.nodes) \in Nat /\ Len(list) \in Nat /\ Len(page.nodes) <= Len(list)
      /\ \A k \in 1..Len(page.nodes) : page.nodes[k] = list[k]
    BY <1>1, <1>2, PrefixElements
<1>4. PICK k \in 1..Len(page.nodes) : page.clicked = page.nodes[k]
    BY <1>1 DEF ToSet
<1>5. k \in DOMAIN list /\ page.clicked = list[k]
    BY <1>2, <1>3, <1>4
<1>6. page.clicked \in ToSet(list)
    BY <1>5 DEF ToSet
<1> QED BY <1>6 DEF list

\* The node clicked is found where the page shows it.
LEMMA ClickFinds ==
    ASSUME AgentInv, SessionInv, StudioInv, session.caller = "studio", ListNodes
    PROVE  /\ session'.pc = "running"
           /\ LET i == Min({k \in DOMAIN session.shown : session.shown[k] = session.from})
              IN  IsPrefix(SubSeq(session.shown, i, Len(session.shown)), NodesOf(session'.nodes))
<1> DEFINE e == session.exec
           shown == session.shown
           list == Listed(table, e)
           places == {k \in DOMAIN shown : shown[k] = session.from}
           i == Min(places)
           rest == SubSeq(shown, i, Len(shown))
           chosen == SelectNodes(list, "FROM_NODE", session.from)
<1>0. session \in SessionType /\ session.mode = "FROM_NODE"
      /\ session.from \in ToSet(shown) /\ IsPrefix(shown, NodesOf(list))
    BY DEF StudioInv, SessionInv
<1>1. shown \in Seq(Node) /\ Len(shown) \in Nat /\ DOMAIN shown = 1..Len(shown)
    BY <1>0 DEF SessionType
<1> HIDE DEF shown
<1>2. places # {} /\ places \in SUBSET (1..Len(shown))
    BY <1>0, <1>1 DEF ToSet
<1>3. /\ list \in Seq(Row)
      /\ \A k, l \in DOMAIN list : list[k].node = list[l].node => k = l
    BY ListedFacts
<1>5. i \in places
    <2> HIDE DEF places
    <2> QED BY <1>1, <1>2, MinOfIndices
<1>6. i \in 1..Len(shown) /\ shown[i] = session.from
    BY <1>2, <1>5
<1> HIDE DEF list, i, places
<1>7. /\ NodesOf(list) \in Seq(Node) /\ Len(NodesOf(list)) = Len(list) /\ Len(list) \in Nat
      /\ DOMAIN list = 1..Len(list)
      /\ \A k \in DOMAIN list : NodesOf(list)[k] = list[k].node
    BY <1>3 DEF NodesOf, Row, Recorded
<1>8. Len(shown) <= Len(list) /\ \A k \in 1..Len(shown) : shown[k] = list[k].node
    BY <1>0, <1>1, <1>7, PrefixElements
<1>9. i \in DOMAIN list /\ list[i].node = session.from
    BY <1>1, <1>6, <1>7, <1>8
<1>10. PICK m \in DOMAIN list :
          /\ list[m].node = session.from
          /\ chosen \in Seq(Row)
          /\ Len(chosen) = Len(list) - m + 1
          /\ \A k \in 1..(Len(list) - m + 1) : chosen[k] = list[m + k - 1]
    BY <1>3, <1>9, SelectionFacts DEF Mode
<1>11. m = i
    BY <1>3, <1>9, <1>10
<1>12. session'.pc = "running" /\ session'.nodes = chosen
    <2>1. session.from \in ToSet(NodesOf(list))
        BY <1>7, <1>9 DEF ToSet, NodesOf
    <2>2. session' = [session EXCEPT !.pc = "running", !.nodes = chosen]
        BY <1>0, <2>1 DEF ListNodes, list
    <2> QED BY <1>0, <2>2 DEF SessionType
<1> HIDE DEF chosen
<1>13. /\ rest \in Seq(Node) /\ Len(rest) = Len(shown) - i + 1
       /\ \A k \in 1..(Len(shown) - i + 1) : rest[k] = shown[i + k - 1]
    BY <1>1, <1>6
<1> HIDE DEF rest
<1>14. /\ NodesOf(chosen) \in Seq(Node) /\ Len(NodesOf(chosen)) = Len(list) - i + 1
       /\ \A k \in 1..(Len(list) - i + 1) : NodesOf(chosen)[k] = list[i + k - 1].node
    <2>1. chosen \in Seq(Row) /\ \A r \in Row : r.node \in Node
        BY <1>10 DEF Row, Recorded
    <2>2. /\ NodesOf(chosen) \in Seq(Node) /\ Len(NodesOf(chosen)) = Len(chosen)
          /\ \A k \in 1..Len(chosen) : NodesOf(chosen)[k] = chosen[k].node
        BY <2>1 DEF NodesOf
    <2>3. Len(chosen) = Len(list) - i + 1
          /\ \A k \in 1..(Len(list) - i + 1) : chosen[k] = list[i + k - 1]
        BY <1>10, <1>11
    <2> QED BY <2>2, <2>3
<1>15. Len(rest) <= Len(NodesOf(chosen))
    BY <1>1, <1>6, <1>7, <1>8, <1>13, <1>14
<1>16. \A k \in 1..Len(rest) : rest[k] = NodesOf(chosen)[k]
    <2> SUFFICES ASSUME NEW k \in 1..Len(rest) PROVE rest[k] = NodesOf(chosen)[k]
        OBVIOUS
    <2>1. /\ k \in 1..(Len(shown) - i + 1) /\ k \in 1..(Len(list) - i + 1)
          /\ i + k - 1 \in 1..Len(shown)
        BY <1>1, <1>6, <1>7, <1>8, <1>13
    <2> QED BY <1>8, <1>13, <1>14, <2>1
<1>17. IsPrefix(rest, NodesOf(chosen))
    BY <1>13, <1>14, <1>15, <1>16, PrefixElements
<1> QED BY <1>12, <1>17 DEF rest, i, places, shown

LEMMA StudioStep ==
    ASSUME AgentInv, SessionInv, PageInv, StudioInv, [Next]_vars
    PROVE  StudioInv'
<1>0. session \in SessionType /\ (session.pc = "none" => session.caller = None)
    BY DEF StudioInv, SessionInv
<1>1. ASSUME session.caller = "studio"
      PROVE  /\ session.mode = "FROM_NODE" /\ session.from \in ToSet(session.shown)
             /\ IsPrefix(session.shown, NodesOf(Listed(table', session.exec)))
    <2>1. /\ session.mode = "FROM_NODE" /\ session.from \in ToSet(session.shown)
          /\ IsPrefix(session.shown, NodesOf(Listed(table, session.exec)))
          /\ session.shown \in Seq(Node)
        BY <1>0, <1>1 DEF StudioInv, SessionType
    <2> QED BY <2>1, ListsStay
<1>2. CASE UNCHANGED session
    <2>1. ClickedIsFound'
        BY <1>2 DEF StudioInv, ClickedIsFound
    <2> QED BY <1>0, <1>1, <1>2, <2>1 DEF StudioInv
<1>3. CASE Run \/ Command \/ (Render /\ ~UNCHANGED sessionVars)
    <2>1. PICK caller \in {"program", "cli", "studio"}, e \in Exec, mode \in Mode,
               from \in Node \cup {None}, cf \in Node \cup {None} :
                 /\ Begin(caller, e, mode, from, cf)
                 /\ caller = "studio" =>
                        /\ Render /\ mode = "FROM_NODE" /\ e = page.exec /\ from = page.clicked
                        /\ page.clicked \in ToSet(NodesOf(Listed(table, page.exec)))
        BY <1>3, PageFacts, BeginsWell
    <2>2. /\ UNCHANGED table /\ session'.pc \in {"refused", "listing"}
          /\ session'.caller = caller /\ session'.mode = mode /\ session'.exec = e
          /\ session'.shown = page.nodes
          /\ mode = "FROM_NODE" /\ from # None => session'.pc = "listing" /\ session'.from = from
        BY <2>1, PageFacts, BeginKeeps DEF agentVars
    <2>3. ASSUME caller = "studio"
          PROVE  /\ session'.pc = "listing" /\ session'.mode = "FROM_NODE"
                 /\ session'.from \in ToSet(session'.shown)
                 /\ IsPrefix(session'.shown, NodesOf(Listed(table', session'.exec)))
        <3>1. page.clicked \in Node /\ plan[page.clicked].exec = page.exec
            BY <2>1, <2>3, NodesListed
        <3>2. page.clicked # None
            BY <3>1, SentinelAssumption, PlansAssumption DEF AgentInv, LiveInv, Node
        <3>3. ClickPending
            BY <3>2 DEF PageInv
        <3>4. /\ page.clicked \in ToSet(page.nodes)
              /\ IsPrefix(page.nodes, NodesOf(Listed(table, page.exec)))
            BY <3>1, <3>3 DEF ClickPending
        <3> QED BY <2>1, <2>2, <2>3, <3>2, <3>4
    <2> QED BY <2>2, <2>3 DEF StudioInv, ClickedIsFound
<1>4. CASE ListNodes
    <2>1. /\ session.pc = "listing" /\ session'.pc # "none"
          /\ session'.caller = session.caller /\ session'.mode = session.mode
          /\ session'.from = session.from /\ session'.exec = session.exec
          /\ session'.shown = session.shown
        BY <1>0, <1>4 DEF ListNodes, SessionType
    <2>2. session'.caller = "studio" =>
              /\ session'.pc = "running"
              /\ LET i == Min({k \in DOMAIN session.shown : session.shown[k] = session.from})
                 IN  IsPrefix(SubSeq(session.shown, i, Len(session.shown)),
                              NodesOf(session'.nodes))
        BY <1>4, <2>1, ClickFinds
    <2> QED BY <1>0, <1>1, <2>1, <2>2 DEF StudioInv, ClickedIsFound
<1>5. CASE Raise \/ Finish
    <2>1. /\ session.pc = "running" /\ session'.pc \in {"raised", "returned"}
          /\ session'.caller = session.caller /\ session'.mode = session.mode
          /\ session'.from = session.from /\ session'.exec = session.exec
          /\ session'.nodes = session.nodes /\ session'.shown = session.shown
        BY <1>0, <1>5 DEF Raise, Finish, Todo, SessionType
    <2> QED BY <1>0, <1>1, <2>1 DEF StudioInv, ClickedIsFound
<1>6. ASSUME \/ \E n \in Node : \/ Start(n) \/ SetStatus(n) \/ SetOutput(n) \/ HandOver(n)
                                \/ Error(n) \/ Record(n) \/ Serialize(n)
             \/ ReadOutput \/ Insert \/ Open \/ Choose \/ Click \/ Mock \/ Reconstruct
             \/ Execute \/ (Render /\ UNCHANGED sessionVars) \/ UNCHANGED vars
      PROVE  UNCHANGED session
    BY <1>6 DEF Start, SetStatus, SetOutput, HandOver, Error, Record, Serialize, Change,
                ReadOutput, Insert, Open, Choose, Click, Rerun, Mock, Reconstruct, Execute,
                vars, sessionVars
<1> QED BY <1>2, <1>3, <1>4, <1>5, <1>6 DEF Next

-----------------------------------------------------------------------------
Inv == AgentInv /\ SessionInv /\ CountersInv /\ PageInv /\ StudioInv

LEMMA InvHolds == Spec => []Inv
<1>1. Init => Inv
    BY InitAgents, InitSession, InitPage DEF Inv
<1>2. Inv /\ [Next]_vars => Inv'
    <2> SUFFICES ASSUME Inv, [Next]_vars PROVE Inv'
        OBVIOUS
    <2>1. AgentInv /\ SessionInv /\ CountersInv /\ PageInv /\ StudioInv
        BY DEF Inv
    <2>2. AgentInv'
        BY <2>1, AgentStep
    <2>3. SessionInv'
        BY <2>1, SessionStep
    <2>4. CountersInv'
        BY <2>1, CountersStep
    <2>5. PageInv'
        BY <2>1, PageStep
    <2>6. StudioInv'
        BY <2>1, StudioStep
    <2> QED BY <2>2, <2>3, <2>4, <2>5, <2>6 DEF Inv
<1> QED BY <1>1, <1>2, PTL DEF Spec

LEMMA InvImpliesTypeOK == Inv => TypeOK
<1> SUFFICES ASSUME Inv PROVE TypeOK
    OBVIOUS
<1>1. AgentInv /\ LiveInv /\ TableInv /\ WriterInv /\ SessionInv /\ CountersInv /\ PageInv
    BY DEF Inv, AgentInv
<1>2. \A n \in Node : live[n] \in [node : {n}, exec : {plan[n].exec}, type : NodeType,
          status : Status, input : Value, output : Value, flag : Flag, ckpt : {NoBlob, n}]
    <2> SUFFICES ASSUME NEW n \in Node
                 PROVE  live[n] \in [node : {n}, exec : {plan[n].exec}, type : NodeType,
                          status : Status, input : Value, output : Value, flag : Flag,
                          ckpt : {NoBlob, n}]
        OBVIOUS
    <2>1. live[n] \in Live(n) /\ plan[n].type \in NodeType /\ plan[n].output \in Value
        BY <1>1, PlansAssumption DEF LiveInv, Node
    <2> QED BY <2>1 DEF Live, Value, Flag
<1>3. Row \subseteq Recorded
    BY DEF Row
<1>4. /\ plan \in Plans /\ table \in Seq(Recorded) /\ told \subseteq Node
      /\ stage \in [Node -> {"new", "started", "status", "output", "over", "whole"}]
    BY <1>1, <1>3 DEF LiveInv, TableInv
<1>5. writer.pc \in {"idle", "output", "insert"} /\ writer.final \in BOOLEAN
    <2>1. CASE writer = NoWriter
        BY <2>1 DEF NoWriter
    <2>2. CASE writer # NoWriter
        <3>1. PICK n \in Node : WriterOf(n)
            BY <1>1, <2>2 DEF WriterInv
        <3>2. writer \in [pc : {"output", "insert"}, node : Live(n), final : BOOLEAN]
            BY <3>1 DEF WriterOf
        <3> QED BY <3>2
    <2> QED BY <2>1, <2>2
<1>6. /\ page.pc \in {"none", "loading", "shown"}
      /\ page.execs \in Seq(Exec) /\ page.before \in Seq(Exec) /\ page.exec \in Exec \cup {None}
      /\ page.nodes \in Seq(Node) /\ page.clicked \in Node \cup {None}
    BY <1>1 DEF PageInv
<1>7. /\ session.pc \in {"none", "listing", "running", "returned", "raised", "refused"}
      /\ session.nodes \in Seq(Recorded) /\ session.shown \in Seq(Node)
      /\ session.ended \subseteq Node /\ Len(results) <= Len(session.nodes)
    BY <1>1, <1>3 DEF SessionInv, SessionType, ResultsInv
<1> QED BY <1>1, <1>2, <1>4, <1>5, <1>6, <1>7 DEF TypeOK, CountersInv

\* Every variable stays within its type: a row has only what JSON holds, a
\* selection only rows of the table, and no more results than nodes.
THEOREM ReplayTyped == Spec => []TypeOK
BY InvHolds, InvImpliesTypeOK, PTL

\* A result that comes from the log is the output of its step, as JSON reads it, or
\* nothing, and nothing only of a step whose end no write had brought into the log
\* when the session began: not even a row that a late thread read while on_node_end
\* was at work stands for the end, however many writes land after that.
THEOREM RecordedOutputs == Spec => []OutputsAreRecorded
<1>1. Inv => OutputsAreRecorded
    <2> SUFFICES ASSUME Inv, NEW i \in DOMAIN results,
                        results[i].mocked \/ session.caller # "program"
                 PROVE  \/ results[i].output = JsonForm(live[results[i].node.node].output)
                        \/ /\ results[i].output = "none"
                           /\ results[i].node.node \notin session.ended
        BY DEF OutputsAreRecorded
    <2>1. ResultsInv /\ SessionIsTold /\ session.nodes \in Seq(Row)
        BY DEF Inv, SessionInv, SessionType
    <2>2. ResultIsOf(results[i], session.nodes[i]) /\ i \in DOMAIN session.nodes
        <3>1. Len(results) <= Len(session.nodes) /\ DOMAIN results = 1..Len(results)
              /\ DOMAIN session.nodes = 1..Len(session.nodes) /\ Len(results) \in Nat
              /\ Len(session.nodes) \in Nat
            BY <2>1 DEF ResultsInv
        <3> QED BY <2>1, <3>1 DEF ResultsInv
    <2>3. results[i].node.node = session.nodes[i].node /\ results[i].output = session.nodes[i].output
        BY <2>2 DEF ResultIsOf
    <2> QED BY <2>1, <2>2, <2>3 DEF SessionIsTold, Fits, Told
<1> QED BY <1>1, InvHolds, PTL

\* A session that returns has one result for each node it selected, in order, and
\* none but the node of a counterfactual was handed another input.
THEOREM ResultsAreInOrder == Spec => []OneInputChanged
<1>1. Inv => OneInputChanged
    <2> SUFFICES ASSUME Inv, session.pc = "returned"
                 PROVE  /\ [i \in DOMAIN results |-> results[i].node.node] = NodesOf(session.nodes)
                        /\ {i \in DOMAIN results :
                                results[i].node.input # session.nodes[i].input}
                              = {i \in DOMAIN results :
                                    session.mode = "COUNTERFACTUAL"
                                        /\ results[i].node.node = session.cf}
        BY DEF OneInputChanged
    <2>1. ResultsInv /\ session.nodes \in Seq(Row)
        BY DEF Inv, SessionInv, SessionType
    <2>2. DOMAIN results = DOMAIN session.nodes
        BY <2>1 DEF ResultsInv
    <2>3. \A i \in DOMAIN results :
              /\ results[i].node.node = session.nodes[i].node
              /\ results[i].node.input # session.nodes[i].input
                    <=> session.mode = "COUNTERFACTUAL" /\ session.nodes[i].node = session.cf
        BY <2>1 DEF ResultsInv, ResultIsOf
    <2>4. [i \in DOMAIN results |-> results[i].node.node] = NodesOf(session.nodes)
        BY <2>2, <2>3 DEF NodesOf
    <2>5. {i \in DOMAIN results : results[i].node.input # session.nodes[i].input}
            = {i \in DOMAIN results : session.mode = "COUNTERFACTUAL"
                                        /\ results[i].node.node = session.cf}
        BY <2>3
    <2> QED BY <2>4, <2>5
<1> QED BY <1>1, InvHolds, PTL

\* The metrics count exactly the results there are, after a handler that raised too.
THEOREM CountersAgree == Spec => []CountersMatch
<1>1. Inv => CountersMatch
    BY DEF Inv, CountersInv
<1> QED BY <1>1, InvHolds, PTL

\* A click that is carried out finds its node, whatever rows have come since the page
\* was made, and what is replayed begins with the nodes it shows from there on.
THEOREM ClickIsFound == Spec => []ClickedIsFound
<1>1. Inv => ClickedIsFound
    BY DEF Inv, StudioInv
<1> QED BY <1>1, InvHolds, PTL

\* A click is lost only if an execution has appeared since the page was made, and never
\* on the page of the first one: the nodes below an execution keep their buttons.
THEOREM ClicksServed == Spec => ClicksAreServed
<1> DEFINE Lost == /\ page.pc = "loading" /\ page.clicked # None /\ page'.pc = "shown"
                   /\ UNCHANGED session
           Explained == /\ Len(page.execs) > Len(page.before)
                        /\ plan[page.clicked].exec # Head(page.before)
           Accounted == page.pc = "loading" /\ page.clicked # None /\ page'.pc = "shown"
                        /\ UNCHANGED session =>
                       /\ Len(page.execs) > Len(page.before)
                       /\ plan[page.clicked].exec # Head(page.before)
<1>1. Inv /\ [Next]_vars => Accounted
    <2> SUFFICES ASSUME AgentInv, SessionInv, PageInv, StudioInv, [Next]_vars, Lost
                 PROVE  Explained
        BY DEF Inv
    <2>1. Render /\ page.clicked \notin ToSet(NodesOf(Listed(table, page.exec)))
        <3>1. Open \/ Choose \/ Click => page.pc # "loading"
            BY DEF Open, Choose, Click
        <3>2. ASSUME \/ \E n \in Node : \/ Start(n) \/ SetStatus(n) \/ SetOutput(n)
                                         \/ HandOver(n) \/ Error(n) \/ Record(n)
                                         \/ Serialize(n)
                     \/ ReadOutput \/ Insert \/ Run \/ Command \/ ListNodes \/ Mock
                     \/ Reconstruct \/ Execute \/ Raise \/ Finish \/ UNCHANGED vars
              PROVE  UNCHANGED page
            BY <3>2 DEF Start, SetStatus, SetOutput, HandOver, Error, Record, Serialize,
                        Change, ReadOutput, Insert, Run, Command, ListNodes, Mock, Reconstruct,
                        Execute, Raise, Finish, vars
        <3>3. Render
            BY <3>1, <3>2 DEF Next
        <3>4. ~ReplayFrom(page.exec, page.clicked)
            <4> SUFFICES ASSUME ReplayFrom(page.exec, page.clicked) PROVE FALSE
                OBVIOUS
            <4>1. session.pc = "none" /\ session' = session
                BY DEF ReplayFrom, Begin
            <4>2. session'.pc \in {"refused", "listing"}
                <5>1. page.exec \in Exec /\ page.clicked \in Node \cup {None}
                    BY PageFacts
                <5>2. Begin("studio", page.exec, "FROM_NODE", page.clicked, None)
                    BY DEF ReplayFrom
                <5> QED BY <5>1, <5>2, PageFacts, BeginKeeps DEF Mode
            <4> QED BY <4>1, <4>2
        <3> QED BY <3>3, <3>4 DEF Render
    <2>2. page.exec # plan[page.clicked].exec
        BY <2>1, ClickStays
    <2>3. /\ ClickPending /\ IsPrefix(page.before, page.execs)
          /\ page.before \in Seq(Exec) /\ page.execs \in Seq(Exec)
        BY DEF PageInv
    <2>4. page.execs # page.before /\ page.exec = Head(page.execs) /\ page.before # << >>
        BY <2>2, <2>3 DEF ClickPending
    <2>5. /\ Len(page.before) \in Nat /\ Len(page.execs) \in Nat
          /\ Len(page.before) <= Len(page.execs)
          /\ \A k \in 1..Len(page.before) : page.before[k] = page.execs[k]
        BY <2>3, PrefixElements
    <2>6. Len(page.execs) > Len(page.before)
        <3>1. ASSUME Len(page.execs) = Len(page.before) PROVE page.execs = page.before
            BY <2>3, <2>5, <3>1
        <3> QED BY <2>4, <2>5, <3>1
    <2>7. Head(page.before) = Head(page.execs)
        BY <2>3, <2>4, <2>5
    <2> QED BY <2>2, <2>4, <2>6, <2>7
<1>2. Accounted => [Accounted]_vars
    OBVIOUS
<1> HIDE DEF Accounted
<1>3. Spec => [][Accounted]_vars
    BY <1>1, <1>2, InvHolds, PTL DEF Spec
<1> QED BY <1>3 DEF ClicksAreServed, Accounted

\* Whatever is written, executions and the nodes of each keep their places in the
\* lists: there is never anything new but at the end.
THEOREM ListsGrow == Spec => ListsOnlyGrow
<1> DEFINE Grow == table' # table =>
               /\ IsPrefix(ListExecutions(table), ListExecutions(table'))
               /\ \A e \in Exec : IsPrefix(NodesOf(Listed(table, e)), NodesOf(Listed(table', e)))
<1>1. Inv /\ [Next]_vars => Grow
    <2> SUFFICES ASSUME AgentInv, [Next]_vars, table' # table PROVE Grow
        BY DEF Inv
    <2>1. PICK row \in Row : table' = Append(table, row)
        BY AgentStep
    <2>2. table \in Seq(Row) /\ \A r \in Row : r.node \in Node /\ r.exec \in Exec
        BY DEF AgentInv, TableInv, Row, Recorded
    <2>3. IsPrefix(ListExecutions(table), ListExecutions(table'))
        BY <2>1, <2>2, ExecutionsKeepPlaces
    <2>4. \A e \in Exec : IsPrefix(NodesOf(Listed(table, e)), NodesOf(Listed(table', e)))
        BY <2>1, <2>2, ListGrows
    <2> QED BY <2>3, <2>4
<1>2. Grow => [Grow]_vars
    OBVIOUS
<1> HIDE DEF Grow
<1>3. Spec => [][Grow]_vars
    BY <1>1, <1>2, InvHolds, PTL DEF Spec
<1> QED BY <1>3 DEF ListsOnlyGrow, Grow

-----------------------------------------------------------------------------
(* Postgres: the rows that DISTINCT ON takes are the last of their nodes,  *)
(* and the window function gives each the place of the first.              *)

LastOf(rows, i) == Max(RowsOf(rows, rows[i].node))
Lasts(rows) == {i \in DOMAIN rows : i = LastOf(rows, i)}

LEMMA LastRows ==
    ASSUME NEW R, NEW rows \in Seq(R), NEW i \in DOMAIN rows
    PROVE  /\ LastOf(rows, i) \in DOMAIN rows /\ rows[LastOf(rows, i)].node = rows[i].node
           /\ LastOf(rows, LastOf(rows, i)) = LastOf(rows, i)
           /\ FirstSeq(rows, i) \in Firsts(rows) /\ rows[FirstSeq(rows, i)].node = rows[i].node
           /\ \A j \in DOMAIN rows : rows[j].node = rows[i].node =>
                 LastOf(rows, j) = LastOf(rows, i) /\ FirstSeq(rows, j) = FirstSeq(rows, i)
<1> DEFINE S == RowsOf(rows, rows[i].node)
<1>1. Len(rows) \in Nat /\ S \in SUBSET (1..Len(rows)) /\ S # {} /\ DOMAIN rows = 1..Len(rows)
    BY DEF RowsOf
<1>2. \A j \in DOMAIN rows : rows[j].node = rows[i].node =>
          LastOf(rows, j) = LastOf(rows, i) /\ FirstSeq(rows, j) = FirstSeq(rows, i)
    BY DEF LastOf, FirstSeq
<1>3. \A j \in S : j \in DOMAIN rows /\ rows[j].node = rows[i].node
    BY DEF RowsOf
<1>4. LastOf(rows, i) = Max(S) /\ FirstSeq(rows, i) = Min(S)
    BY DEF LastOf, FirstSeq
<1>5. \A j \in DOMAIN rows : rows[j].node = rows[i].node => j \in S
    BY DEF RowsOf
<1> HIDE DEF S
<1>6. Max(S) \in S /\ Min(S) \in S /\ \A j \in S : Min(S) <= j
    BY <1>1, MaxOfIndices, MinOfIndices
<1>7. Min(S) \in Firsts(rows)
    BY <1>3, <1>5, <1>6, FirstRowsAre
<1> QED BY <1>2, <1>3, <1>4, <1>6, <1>7

LEMMA DistinctTakesLasts ==
    ASSUME NEW R, NEW rows \in Seq(R), \A r \in R : r.node \in Int
    PROVE  ToSet(DistinctOnId(rows, DOMAIN rows)) = Lasts(rows)
<1> DEFINE ids == Ids(rows, DOMAIN rows)
           seq == Ascending(ids)
           D == DistinctOnId(rows, DOMAIN rows)
<1>1. ids \in SUBSET Int /\ \A n \in ids : \E i \in DOMAIN rows : rows[i].node = n
    BY DEF Ids
<1>2. IsFiniteSet(ids)
    <2> DEFINE f == [i \in DOMAIN rows |-> rows[i].node]
    <2>1. f \in Surjection(DOMAIN rows, ids)
        BY DEF Ids, Surjection
    <2>2. IsFiniteSet(DOMAIN rows)
        <3>1. DOMAIN rows = 1..Len(rows) /\ Len(rows) \in Int
            OBVIOUS
        <3> QED BY <3>1, FS_Interval
    <2> QED BY <2>1, <2>2, FS_Surjection
<1>3. \A i \in DOMAIN rows : rows[i].node \in ids
    BY DEF Ids
<1>4. D = [k \in DOMAIN seq |-> Max(RowsOf(rows, seq[k]))]
    <2>1. \A n : RowsOf(rows, n) \cap DOMAIN rows = RowsOf(rows, n)
        BY DEF RowsOf
    <2> QED BY <2>1 DEF DistinctOnId
<1> HIDE DEF ids
<1>5. /\ DOMAIN seq = 1..Cardinality(ids)
      /\ \A k \in 1..Cardinality(ids) : seq[k] \in ids
      /\ \A n \in ids : \E k \in 1..Cardinality(ids) : seq[k] = n
    BY <1>1, <1>2, AscendingIsSorted
<1> HIDE DEF seq, D
<1>6. ASSUME NEW k \in DOMAIN D PROVE D[k] \in Lasts(rows)
    <2>1. PICK i \in DOMAIN rows : rows[i].node = seq[k]
        BY <1>1, <1>4, <1>5
    <2>2. D[k] = LastOf(rows, i)
        BY <1>4, <2>1 DEF LastOf
    <2> QED BY <2>2, LastRows DEF Lasts
<1>7. ASSUME NEW i \in Lasts(rows) PROVE \E k \in DOMAIN D : D[k] = i
    <2>1. i \in DOMAIN rows /\ i = Max(RowsOf(rows, rows[i].node))
        BY DEF Lasts, LastOf
    <2>2. PICK k \in DOMAIN seq : seq[k] = rows[i].node
        BY <1>3, <1>5, <2>1
    <2> QED BY <1>4, <2>1, <2>2
<1>8. ToSet(D) = Lasts(rows)
    BY <1>6, <1>7 DEF ToSet
<1> QED BY <1>8 DEF D

\* For any rows at all, the two backends list the same.
LEMMA BackendsListAlike ==
    ASSUME NEW R, NEW rows \in Seq(R), \A r \in R : r.node \in Int
    PROVE  ListBySeq(rows) = ListByExecution(rows)
<1> DEFINE S == Firsts(rows)
           T == Lasts(rows)
           Q == {p \in T \X T : FirstSeq(rows, p[1]) < FirstSeq(rows, p[2])}
           f == [i \in S |-> LastOf(rows, i)]
           chosen == InOrder(T, Q)
<1>1. ListBySeq(rows) = [k \in DOMAIN chosen |-> rows[chosen[k]]]
    <2> DEFINE last == ToSet(DistinctOnId(rows, DOMAIN rows))
               before == {p \in last \X last : FirstSeq(rows, p[1]) < FirstSeq(rows, p[2])}
    <2>1. ListBySeq(rows) = [k \in DOMAIN InOrder(last, before) |-> rows[InOrder(last, before)[k]]]
        BY DEF ListBySeq
    <2>2. last = T
        BY DistinctTakesLasts
    <2> HIDE DEF last, T
    <2>3. before = Q
        BY <2>2
    <2> HIDE DEF before, Q
    <2> QED BY <2>1, <2>2, <2>3
<1>2. /\ S \in SUBSET Int /\ IsFiniteSet(S) /\ S \in SUBSET DOMAIN rows
      /\ DOMAIN ListByExecution(rows) = 1..Cardinality(S)
      /\ ListByExecution(rows) \in Seq(R)
      /\ \A k \in DOMAIN ListByExecution(rows) :
            /\ Ascending(S)[k] \in S
            /\ ListByExecution(rows)[k].node = rows[Ascending(S)[k]].node
            /\ ListByExecution(rows)[k] = Latest(rows, ListByExecution(rows)[k].node)
    BY ListFacts, FirstRows
<1>3. \A i \in S : /\ LastOf(rows, i) \in T /\ rows[LastOf(rows, i)].node = rows[i].node
                   /\ FirstSeq(rows, LastOf(rows, i)) = i
    <2> SUFFICES ASSUME NEW i \in S
                 PROVE  /\ LastOf(rows, i) \in T /\ rows[LastOf(rows, i)].node = rows[i].node
                        /\ FirstSeq(rows, LastOf(rows, i)) = i
        OBVIOUS
    <2>1. i \in DOMAIN rows
        BY <1>2
    <2>2. /\ LastOf(rows, i) \in T /\ rows[LastOf(rows, i)].node = rows[i].node
          /\ FirstSeq(rows, LastOf(rows, i)) = FirstSeq(rows, i)
        BY <2>1, LastRows DEF Lasts
    <2>3. FirstSeq(rows, i) = i
        BY <2>1 DEF Firsts, FirstSeq
    <2> QED BY <2>2, <2>3
<1>4. \A t \in T : FirstSeq(rows, t) \in S /\ LastOf(rows, FirstSeq(rows, t)) = t
    <2> SUFFICES ASSUME NEW t \in T
                 PROVE  FirstSeq(rows, t) \in S /\ LastOf(rows, FirstSeq(rows, t)) = t
        OBVIOUS
    <2>1. t \in DOMAIN rows /\ t = LastOf(rows, t)
        BY DEF Lasts
    <2>2. FirstSeq(rows, t) \in S /\ rows[FirstSeq(rows, t)].node = rows[t].node
        BY <2>1, LastRows
    <2>3. LastOf(rows, FirstSeq(rows, t)) = LastOf(rows, t)
        BY <1>2, <2>1, <2>2, LastRows
    <2> QED BY <2>1, <2>2, <2>3
<1>5. \A x, y \in T : <<x, y>> \in Q <=> FirstSeq(rows, x) < FirstSeq(rows, y)
    OBVIOUS
<1> HIDE DEF S, T, Q
<1>6. Orders(Q, T)
    <2>1. \A x, y \in T : x # y => FirstSeq(rows, x) # FirstSeq(rows, y)
        BY <1>4
    <2>2. \A x \in T : FirstSeq(rows, x) \in Int
        BY <1>2, <1>4
    <2> QED BY <1>5, <2>1, <2>2 DEF Orders
<1>7. f \in Bijection(S, T)
    <2>1. f \in [S -> T]
        BY <1>3
    <2>2. \A x, y \in S : f[x] = f[y] => x = y
        BY <1>3
    <2>3. \A t \in T : \E x \in S : f[x] = t
        BY <1>4
    <2> HIDE DEF f
    <2> QED BY <2>1, <2>2, <2>3 DEF Bijection, Injection, Surjection, IsInjective
<1>8. \A x, y \in S : <<x, y>> \in Less(S) <=> <<f[x], f[y]>> \in Q
    BY <1>3, <1>5 DEF Less
<1>9. Orders(Less(S), S) /\ Ascending(S) = InOrder(S, Less(S))
    BY <1>2, LessOrders, AscendingIsInOrder
<1>10. \A i \in S : f[i] = LastOf(rows, i)
    OBVIOUS
<1> HIDE DEF f
<1>11. /\ IsFiniteSet(T) /\ Cardinality(T) = Cardinality(S)
       /\ \A k \in 1..Cardinality(S) : chosen[k] = f[Ascending(S)[k]]
    <2>1. IsFiniteSet(S) /\ Orders(Less(S), S)
        BY <1>2, <1>9
    <2> HIDE DEF chosen
    <2>2. /\ IsFiniteSet(T) /\ Cardinality(T) = Cardinality(S)
          /\ \A k \in 1..Cardinality(S) : InOrder(T, Q)[k] = f[InOrder(S, Less(S))[k]]
        BY <1>6, <1>7, <1>8, <2>1, InOrderCorresponds
    <2> QED BY <1>9, <2>2 DEF chosen
<1>12. DOMAIN chosen = 1..Cardinality(S)
    BY <1>6, <1>11, InOrderIsSorted
<1> HIDE DEF chosen
<1>13. ASSUME NEW k \in 1..Cardinality(S) PROVE ListByExecution(rows)[k] = rows[chosen[k]]
    <2>1. Ascending(S)[k] \in S /\ chosen[k] = LastOf(rows, Ascending(S)[k])
        BY <1>2, <1>10, <1>11
    <2>2. ListByExecution(rows)[k] = Latest(rows, rows[Ascending(S)[k]].node)
        BY <1>2
    <2>3. RowsOf(rows, rows[Ascending(S)[k]].node) # {}
        BY <1>2, <2>1 DEF RowsOf
    <2> QED BY <2>1, <2>2, <2>3 DEF Latest, Newest, LastOf
<1> QED BY <1>1, <1>2, <1>12, <1>13

\* Swapping the backend changes no listing: Postgres lists every execution as
\* SQLite does, whatever rows have been written.
THEOREM PostgresListsLikeSQLite == Spec => []PostgresListsAlike
<1>1. Inv => PostgresListsAlike
    <2> SUFFICES ASSUME AgentInv, NEW e \in Exec
                 PROVE  ListBySeq(RowsIn(table, e)) = Listed(table, e)
        BY DEF Inv, PostgresListsAlike
    <2>1. table \in Seq(Row) /\ \A r \in Row : r.node \in Int
        BY PlansAssumption DEF AgentInv, LiveInv, TableInv, Row, Recorded, Node
    <2>2. RowsIn(table, e) \in Seq(Row)
        <3> DEFINE I == {i \in DOMAIN table : table[i].exec = e}
        <3>1. RowsIn(table, e) = SelectAt(table, I) /\ I \in SUBSET DOMAIN table
            BY DEF RowsIn
        <3> HIDE DEF I
        <3> QED BY <2>1, <3>1, SelectAtSelects
    <2> QED BY <2>1, <2>2, BackendsListAlike DEF Listed
<1> QED BY <1>1, InvHolds, PTL
=============================================================================
