----------------------------- MODULE RedisStore -----------------------------
(***************************************************************************)
(* stores/redis.py RedisStore under CheckpointEngine.save and latest, for  *)
(* nodes of adapters and for those of showcase/langgraph_redis_saver.py.   *)
(*                                                                         *)
(* A write is a pipeline without a transaction: its commands reach the     *)
(* server in order, but those of other connections come in between, one    *)
(* may fail while the rest is carried out, and of a pipeline that lost its *)
(* connection a prefix is carried out.  Data, blob and index of a node are *)
(* separate keys, each with its own time to live.                          *)
(*                                                                         *)
(* Nodes are numbered in the order of their ids.  The states of a node are *)
(* numbered; a blob holds the number of the state it was made in.  The     *)
(* clock is that of time.time() and of the server; it may stand still.     *)
(***************************************************************************)
EXTENDS Compression, SequencesExt, Ordering

CONSTANTS
    Node,           \* nodes of one execution
    Saver,          \* those that a LangGraph saver puts: saved once, with state
    TTLs,           \* times to live a store may be set to; 0 stands for None
    MaxVersion,     \* bound: states of a node
    MaxNow,         \* bound: clock
    MaxTroubles     \* bound: saves over budget, commands that fail, connections
                    \* that break, restarts of the process

ASSUME NodeAssumption == Node \subseteq Nat \ {0} /\ Saver \subseteq Node
ASSUME BoundsAssumption ==
    /\ TTLs \subseteq Nat /\ MaxVersion \in Nat \ {0} /\ MaxNow \in Nat \ {0}
    /\ MaxTroubles \in Nat

Write == Node \X (1..MaxVersion)        \* the save of node w[1] in its state w[2]

VARIABLES
    ttl, codec,     \* settings of the store and of the engine
    now,            \* the clock
    live,           \* node objects: state, checkpoint
    saving,         \* whether a node's save is awaited
    pipe,           \* the commands of each write still to be carried out
    failed,         \* awaited writes of which a command failed
    data, blob,     \* the keys lai:n: and lai:c:, [val, dies]
    index,          \* scores of the sorted set lai:e:, 0 for no member
    reader,         \* a call of read, list_by_execution or latest
    troubles,
    spoiled,        \* history: nodes with a write that did not end well
    acked           \* history: states whose save returned True

settings == <<ttl, codec>>
keys == <<data, blob, index>>
engineVars == <<live, saving, pipe, failed, spoiled, acked>>
vars == <<ttl, codec, now, live, saving, pipe, failed, data, blob, index, reader,
          troubles, spoiled, acked>>

Bytes(v) == <<v>>               \* of a JSON text, or of an agent's state
NoBytes == << >>                \* checkpoint is None, or the key is not there:
                                \* Compress never yields an empty string
NoKey == [val |-> NoBytes, dies |-> 0]

Number(bytes) == IF bytes = NoBytes THEN 0 ELSE Head(bytes)

\* What load, latest and the saver make of a checkpoint.
Decoded(ckpt) == IF ckpt = NoBytes THEN NoBytes ELSE Decompress(codec, ckpt)

Idle == [pc |-> "idle", call |-> "none", ids |-> << >>, got |-> << >>, due |-> {}]

Init ==
    /\ ttl \in TTLs /\ codec \in Codec
    /\ now = 1
    /\ live = [n \in Node |-> [ver |-> 0, ckpt |-> NoBytes]]
    /\ saving = [n \in Node |-> "idle"]
    /\ pipe = [w \in Write |-> << >>]
    /\ failed = {}
    /\ data = [n \in Node |-> NoKey] /\ blob = [n \in Node |-> NoKey]
    /\ index = [n \in Node |-> 0]
    /\ reader = Idle
    /\ troubles = 0
    /\ spoiled = {} /\ acked = {}

-----------------------------------------------------------------------------
Command(op, key, val) == [op |-> op, key |-> key, val |-> val]
Zadd == <<Command("zadd", "index", Bytes(now))>>

\* Plausible bug: expire without `if self._ttl'.
SetAndExpire(key, val) == <<Command("set", key, val), Command("expire", key, NoBytes)>>

\* pipe.set, and pipe.expire if the store has a time to live
Set(key, val) ==
    <<Command("set", key, val)>>
        \o (IF ttl = 0 THEN << >> ELSE <<Command("expire", key, NoBytes)>>)

\* Plausible bugs: the blob is sent first; only the save that made it sends it.
BlobFirst(node) ==
    (IF node.ckpt = NoBytes THEN << >> ELSE Set("blob", node.ckpt))
        \o Set("data", Bytes(node.ver)) \o Zadd
BlobOnce(node) ==
    Set("data", Bytes(node.ver))
        \o (IF Decoded(node.ckpt) = Bytes(node.ver) THEN Set("blob", node.ckpt) ELSE << >>)
        \o Zadd

\* write, up to execute(): the node and the time are those of the call, not those
\* of the commands.
Pipeline(node) ==
    Set("data", Bytes(node.ver))
        \o (IF node.ckpt = NoBytes THEN << >> ELSE Set("blob", node.ckpt))
        \o Zadd

Awaited(w) == saving[w[1]] = "awaiting" /\ live[w[1]].ver = w[2]

\* save of a node's next state; the state given to it becomes the checkpoint.
Save(n, withState) ==
    LET ver  == live[n].ver + 1
        node == [ver |-> ver, ckpt |-> IF withState THEN Compress(codec, Bytes(ver))
                                                    ELSE live[n].ckpt]
    IN  /\ saving[n] = "idle" /\ ver <= MaxVersion
        /\ live' = [live EXCEPT ![n] = node]
        /\ pipe' = [pipe EXCEPT ![<<n, ver>>] = Pipeline(node)]
        /\ saving' = [saving EXCEPT ![n] = "awaiting"]
        /\ UNCHANGED <<settings, now, failed, keys, reader, troubles, spoiled, acked>>

AdapterSave(n) == n \notin Saver /\ \E withState \in BOOLEAN : Save(n, withState)

\* aput: a new node for every checkpoint; it ignores what save returns.
Aput(n) == n \in Saver /\ live[n].ver = 0 /\ Save(n, TRUE)

After(key, c) ==
    IF c.op = "set" THEN [val |-> c.val, dies |-> 0]
    ELSE IF key = NoKey THEN NoKey ELSE [key EXCEPT !.dies = now + ttl]

\* The server carries out the next command of a pipeline; ZADD NX keeps the score
\* of a member.
Execute(w) ==
    /\ pipe[w] # << >>
    /\ pipe' = [pipe EXCEPT ![w] = Tail(@)]
    /\ LET c == Head(pipe[w])
           n == w[1]
       IN  /\ data' = IF c.key = "data" THEN [data EXCEPT ![n] = After(@, c)] ELSE data
           /\ blob' = IF c.key = "blob" THEN [blob EXCEPT ![n] = After(@, c)] ELSE blob
           /\ index' = IF c.key = "index" /\ index[n] = 0
                       THEN [index EXCEPT ![n] = Number(c.val)] ELSE index
    /\ UNCHANGED <<settings, now, live, saving, failed, reader, troubles, spoiled, acked>>

\* A command is refused, or the connection breaks and the rest is lost.
Fault(w) ==
    /\ pipe[w] # << >> /\ Awaited(w) /\ troubles < MaxTroubles
    /\ troubles' = troubles + 1
    /\ pipe' \in {[pipe EXCEPT ![w] = Tail(@)], [pipe EXCEPT ![w] = << >>]}
    /\ failed' = failed \cup {w}
    /\ spoiled' = spoiled \cup {w[1]}
    /\ UNCHANGED <<settings, now, live, saving, keys, reader, acked>>

ReturnTrue(n) ==
    LET w == <<n, live[n].ver>> IN
    /\ saving[n] = "awaiting" /\ pipe[w] = << >> /\ w \notin failed
    /\ saving' = [saving EXCEPT ![n] = "idle"]
    /\ acked' = acked \cup {[node |-> n, ver |-> live[n].ver,
                              ckpt |-> Number(Decoded(live[n].ckpt))]}
    /\ UNCHANGED <<settings, now, live, pipe, failed, keys, reader, troubles, spoiled>>

\* execute() raises the first error, after all replies; save lets it through.
Raise(n) ==
    LET w == <<n, live[n].ver>> IN
    /\ saving[n] = "awaiting" /\ pipe[w] = << >> /\ w \in failed
    /\ saving' = [saving EXCEPT ![n] = "idle"]
    /\ failed' = failed \ {w}
    /\ UNCHANGED <<settings, now, live, pipe, keys, reader, troubles, spoiled, acked>>

\* save gives up; the server may have the commands, and carry them out any time.
Miss(n) ==
    /\ saving[n] = "awaiting" /\ troubles < MaxTroubles
    /\ troubles' = troubles + 1
    /\ saving' = [saving EXCEPT ![n] = "idle"]
    /\ failed' = failed \ {<<n, live[n].ver>>}
    /\ spoiled' = spoiled \cup {n}
    /\ UNCHANGED <<settings, now, live, pipe, keys, reader, acked>>

\* What the server does not have of a pipeline that nobody awaits is lost.
Cut(w) ==
    /\ pipe[w] # << >> /\ ~Awaited(w)
    /\ pipe' = [pipe EXCEPT ![w] = << >>]
    /\ UNCHANGED <<settings, now, live, saving, failed, keys, reader, troubles,
                   spoiled, acked>>

\* A new process, which does not have the node objects of the old one.
Restart ==
    /\ troubles < MaxTroubles
    /\ troubles' = troubles + 1
    /\ codec' \in Codec
    /\ spoiled' = spoiled \cup {n \in Node : saving[n] = "awaiting"}
    /\ saving' = [n \in Node |-> IF live[n].ver = 0 THEN "idle" ELSE "gone"]
    /\ failed' = {}
    /\ reader' = Idle
    /\ UNCHANGED <<ttl, now, live, pipe, keys, acked>>

Expired(key) == IF key.dies # 0 /\ key.dies <= now + 1 THEN NoKey ELSE key

\* Time goes by and keys expire; the index never does.
Tick ==
    /\ now < MaxNow
    /\ now' = now + 1
    /\ data' = [n \in Node |-> Expired(data[n])]
    /\ blob' = [n \in Node |-> Expired(blob[n])]
    /\ UNCHANGED <<settings, engineVars, index, reader, troubles>>

-----------------------------------------------------------------------------
(* The calls that read.  Each command is a step, the first one with the    *)
(* call itself; the answer is in got.                                      *)

Entry(n, ver, ckpt) == [node |-> n, ver |-> ver, ckpt |-> ckpt]
Found(n) == IF data[n] = NoKey THEN << >>
            ELSE <<Entry(n, Number(data[n].val), blob[n].val)>>

\* The members of the index: by score, and by id where scores are equal.
Members == {n \in Node : index[n] # 0}
Before ==
    {p \in Members \X Members :
        index[p[1]] < index[p[2]] \/ (index[p[1]] = index[p[2]] /\ p[1] < p[2])}
ByScore == InOrder(Members, Before)

\* Plausible bug: zrange.
OldestFirst == ByScore

\* zrevrange
NewestFirst == Reverse(ByScore)

Reads(r) == /\ reader' = r
            /\ UNCHANGED <<settings, now, engineVars, keys, troubles>>

Ask(call, ids, got, pc) ==
    /\ reader = Idle
    /\ Reads([pc |-> pc, call |-> call, ids |-> ids, got |-> got, due |-> acked])

\* read: one MGET
Read(n) == Ask("read", <<n>>, Found(n), "done")

List == Ask("list", ByScore, << >>, IF ByScore = << >> THEN "done" ELSE "data")

ListData ==
    /\ reader.pc = "data"
    /\ Reads([reader EXCEPT !.pc = "blobs",
              !.got = [i \in DOMAIN reader.ids |->
                          Entry(reader.ids[i], Number(data[reader.ids[i]].val), NoBytes)]])

\* Plausible bug: a node without blob is left out too.
WithBlob(r) == r.ver # 0 /\ r.ckpt # NoBytes

\* raw is None: continue
Kept(r) == r.ver # 0

ListBlobs ==
    /\ reader.pc = "blobs"
    /\ LET pairs == [i \in DOMAIN reader.got |->
                        [reader.got[i] EXCEPT !.ckpt = blob[reader.ids[i]].val]]
       IN  Reads([reader EXCEPT !.pc = "done",
                               !.got = SelectAt(pairs, {i \in DOMAIN pairs : Kept(pairs[i])})])

NextId(ids) == IF ids = << >> THEN "done" ELSE "blob"

\* latest, which is also aget_tuple: the nodes from the newest, until one has a blob.
Latest == Ask("latest", NewestFirst, << >>, NextId(NewestFirst))

Skip == Reads([reader EXCEPT !.pc = NextId(Tail(reader.ids)), !.ids = Tail(@), !.got = << >>])

LatestBlob ==
    /\ reader.pc = "blob"
    /\ LET n == Head(reader.ids) IN
       IF blob[n] = NoKey THEN Skip
       ELSE Reads([reader EXCEPT !.pc = "value", !.got = <<Entry(n, 0, blob[n].val)>>])

LatestData ==
    /\ reader.pc = "value"
    /\ LET n == Head(reader.ids) IN
       IF data[n] = NoKey THEN Skip
       ELSE Reads([reader EXCEPT !.pc = "done", !.got[1].ver = Number(data[n].val)])

-----------------------------------------------------------------------------
Next ==
    \/ \E n \in Node : \/ AdapterSave(n) \/ Aput(n) \/ ReturnTrue(n) \/ Raise(n) \/ Miss(n)
                       \/ Read(n)
    \/ \E w \in Write : Execute(w) \/ Fault(w) \/ Cut(w)
    \/ List \/ ListData \/ ListBlobs \/ Latest \/ LatestBlob \/ LatestData
    \/ Tick \/ Restart

Spec == Init /\ [][Next]_vars

-----------------------------------------------------------------------------
Answers == Seq([node : Node, ver : 0..MaxVersion, ckpt : Seq(Nat)])

TypeOK ==
    /\ ttl \in TTLs /\ codec \in Codec /\ now \in 1..MaxNow
    /\ live \in [Node -> [ver : 0..MaxVersion, ckpt : Seq(Nat)]]
    /\ saving \in [Node -> {"idle", "awaiting", "gone"}]
    /\ \A w \in Write : Len(pipe[w]) <= 5
    /\ \A w \in failed : Awaited(w)
    /\ \A key \in {data[n] : n \in Node} \cup {blob[n] : n \in Node} :
          /\ key.val \in Seq(Nat) /\ key.dies \in Nat
          /\ key.dies # 0 => ttl # 0 /\ now < key.dies
    /\ index \in [Node -> 0..MaxNow]
    /\ reader.pc \in {"idle", "data", "blobs", "blob", "value", "done"}
    /\ reader.ids \in Seq(Node) /\ reader.got \in Answers
    /\ troubles \in 0..MaxTroubles
    /\ spoiled \subseteq Node
    /\ acked \subseteq [node : Node, ver : 1..MaxVersion, ckpt : 0..MaxVersion]

Done(call) == reader.pc = "done" /\ reader.call = call
AckedCheckpoints == {a \in reader.due : a.ckpt # 0}

\* Without a time to live, a read or a list that begins after a save returned True
\* shows that node, and as it was saved or newer, unless a write of the node was
\* given up or failed: each command may be carried out long after its save.
AckedReadBack ==
    ttl = 0 /\ (Done("read") \/ Done("list")) =>
        \A a \in reader.due : a.node \in ToSet(reader.ids) \/ reader.call = "list" =>
            \E i \in DOMAIN reader.got :
                /\ reader.got[i].node = a.node
                /\ a.node \notin spoiled =>
                       /\ reader.got[i].ver >= a.ver
                       /\ Number(Decoded(reader.got[i].ckpt)) >= a.ckpt

\* Without a time to live, latest answers if any checkpoint was acknowledged
\* before, and with a node that was first seen no earlier than any of those,
\* whatever was given up, failed or ran late.  It is the node seen last that
\* counts, not the checkpoint made last (MCRedisLatest).
LatestIsLastSeen ==
    ttl = 0 /\ Done("latest") =>
        \A a \in AckedCheckpoints :
            /\ reader.got # << >>
            /\ LET n == reader.got[1].node IN
               \/ index[n] > index[a.node]
               \/ index[n] = index[a.node] /\ n >= a.node

\* The state that latest and the saver hand out is one that was saved, whichever
\* codec the process that saved it had; and, unless a write of that node was given
\* up or failed, the data beside it are not older than the state.
LatestIsWhole ==
    Done("latest") /\ reader.got # << >> =>
        LET r == reader.got[1]
            v == Number(Decoded(r.ckpt))
        IN  /\ Decoded(r.ckpt) \in {Bytes(k) : k \in 1..live[r.node].ver}
            /\ r.node \notin spoiled => v <= r.ver

\* With a time to live, a node never outlives its own checkpoint: every save renews
\* both, in this order.
BlobOutlivesData ==
    \A n \in Node \ spoiled :
        /\ data[n] # NoKey /\ live[n].ckpt # NoBytes
        /\ \A v \in 1..MaxVersion : pipe[<<n, v>>] = << >>
        => blob[n] # NoKey
=============================================================================
