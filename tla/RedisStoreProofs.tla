-------------------------- MODULE RedisStoreProofs --------------------------
(***************************************************************************)
(* What RedisStore promises of the nodes it is given, for any numbers of   *)
(* nodes, states and failures: whatever is left of every pipeline, the     *)
(* keys of a node hold together, and every call that reads them sees it.   *)
(***************************************************************************)
EXTENDS RedisStore, OrderingProofs

Cmd == [op : {"set", "expire", "zadd"}, key : {"data", "blob", "index"}, val : Seq(Nat)]

\* The place of a command in a pipeline.
Place(c) == IF c.key = "data" THEN (IF c.op = "set" THEN 1 ELSE 2)
            ELSE IF c.key = "blob" THEN (IF c.op = "set" THEN 3 ELSE 4)
            ELSE 5

\* The places of the commands that are still to be carried out.
Left(p) == {Place(c) : c \in ToSet(p)}

Rising(p) == \A i, j \in DOMAIN p : i < j => Place(p[i]) < Place(p[j])

\* A checkpoint made in one of the states up to v, and the state it was made in.
IsBlob(b, v) == \E c \in Codec, k \in 1..v : b = Compress(c, Bytes(k))
State(b) == IF b = NoBytes THEN 0 ELSE Number(Decompress(CodecNone, b))

-----------------------------------------------------------------------------
(* The parts of the invariant, of one node: its object, its keys, what is  *)
(* left of a pipeline, the clock and the time to live of the store.        *)

\* What a pipeline may send for a save in state v.
Sent(v, c, node, time, life) ==
    \/ c = Command("set", "data", Bytes(v))
    \/ life # 0 /\ c = Command("expire", "data", NoBytes)
    \/ /\ c = Command("set", "blob", c.val) /\ IsBlob(c.val, v)
       /\ v = node.ver => c.val = node.ckpt
    \/ life # 0 /\ c = Command("expire", "blob", NoBytes)
    \/ \E t \in 1..time : c = Command("zadd", "index", Bytes(t))

\* Commands go in their order, and none of the rest is missing.
PipeOf(v, p, node, time, life) ==
    /\ p \in Seq(Cmd) /\ Len(p) <= 5 /\ Rising(p)
    /\ \A c \in ToSet(p) : Sent(v, c, node, time, life)
    /\ p # << >> => 5 \in Left(p) /\ v <= node.ver
    /\ life # 0 => (1 \in Left(p) => 2 \in Left(p)) /\ (3 \in Left(p) => 4 \in Left(p))
    /\ v = node.ver /\ node.ckpt # NoBytes /\ (1 \in Left(p) \/ 2 \in Left(p)) => 3 \in Left(p)

Lives(key, time, life) ==
    key.dies # 0 => life # 0 /\ time < key.dies /\ key.dies <= time + life

\* Keys hold what the node once was.
KeysOf(node, d, b, time, life) ==
    /\ Lives(d, time, life) /\ Lives(b, time, life)
    /\ d = NoKey \/ \E v \in 1..node.ver : d.val = Bytes(v)
    /\ b = NoKey \/ IsBlob(b.val, node.ver)

\* What has been carried out, the keys of a node show, if no write of it was given
\* up or failed.
CleanOf(left, node, d, b, life) ==
    /\ 1 \notin left => d = NoKey \/ d.val = Bytes(node.ver)
    /\ 1 \notin left /\ 2 \notin left /\ life # 0 => d = NoKey \/ d.dies # 0
    /\ node.ckpt # NoBytes /\ 3 \notin left =>
           /\ b = NoKey \/ b.val = node.ckpt
           /\ 4 \in left => b # NoKey /\ b.dies = 0
           /\ 4 \notin left /\ d # NoKey =>
                  b # NoKey /\ (life # 0 => b.dies >= d.dies)
    /\ d # NoKey /\ b # NoKey => State(b.val) <= Number(d.val)

\* Without a time to live, nothing but a failure keeps it from being there.
ThereOf(left, node, d, b, score) ==
    /\ 1 \notin left => d # NoKey
    /\ 3 \notin left /\ node.ckpt # NoBytes => b # NoKey
    /\ 5 \notin left => score # 0

\* An acknowledged state is still there, or a later one.
AckedOf(a, node, d, b, score, clean, life) ==
    /\ a.ver <= node.ver /\ a.ckpt <= State(node.ckpt)
    /\ life = 0 =>
           /\ d # NoKey /\ score # 0 /\ (a.ckpt # 0 => b # NoKey)
           /\ clean => Number(d.val) >= a.ver /\ State(b.val) >= a.ckpt

-----------------------------------------------------------------------------
SettingsInv ==
    /\ ttl \in TTLs /\ codec \in Codec /\ now \in 1..MaxNow /\ troubles \in 0..MaxTroubles
    /\ spoiled \subseteq Node

OwnersInv ==
    /\ live \in [Node -> [ver : 0..MaxVersion, ckpt : Seq(Nat)]]
    /\ saving \in [Node -> {"idle", "awaiting", "gone"}]
    /\ \A n \in Node : /\ live[n].ckpt = NoBytes \/ IsBlob(live[n].ckpt, live[n].ver)
                       /\ saving[n] = "awaiting" => live[n].ver # 0
    /\ failed \subseteq Write /\ \A w \in failed : Awaited(w) /\ w[1] \in spoiled

PipesInv ==
    /\ pipe = [w \in Write |-> pipe[w]]
    /\ \A w \in Write : PipeOf(w[2], pipe[w], live[w[1]], now, ttl)

KeysInv ==
    /\ data \in [Node -> [val : Seq(Nat), dies : Nat]]
    /\ blob \in [Node -> [val : Seq(Nat), dies : Nat]]
    /\ index \in [Node -> 0..MaxNow] /\ (\A n \in Node : index[n] <= now) /\ IsFiniteSet(Members)
    /\ \A n \in Node : KeysOf(live[n], data[n], blob[n], now, ttl)

\* What is left of the save that a node awaits.
Pending(n) == IF saving[n] = "awaiting" THEN Left(pipe[<<n, live[n].ver>>]) ELSE {}

Quiet(n) == \A v \in 1..MaxVersion :
                pipe[<<n, v>>] # << >> => saving[n] = "awaiting" /\ v = live[n].ver

CleanInv == \A n \in Node \ spoiled :
                Quiet(n) /\ CleanOf(Pending(n), live[n], data[n], blob[n], ttl)

ThereInv ==
    ttl = 0 => \A n \in Node : saving[n] = "awaiting" /\ <<n, live[n].ver>> \notin failed
                                  => ThereOf(Pending(n), live[n], data[n], blob[n], index[n])

AckedInv ==
    /\ acked \subseteq [node : Node, ver : 1..MaxVersion, ckpt : 0..MaxVersion]
    /\ \A a \in acked : LET n == a.node IN
           AckedOf(a, live[n], data[n], blob[n], index[n], n \notin spoiled, ttl)

StoreInv == SettingsInv /\ OwnersInv /\ PipesInv /\ KeysInv /\ CleanInv /\ ThereInv /\ AckedInv

ReaderTyped ==
    /\ reader \in [pc : {"idle", "data", "blobs", "blob", "value", "done"},
                   call : {"none", "read", "list", "latest"},
                   ids : Seq(Node), got : Answers, due : SUBSET acked]
    /\ reader.pc \in {"data", "blobs"} => reader.call = "list"
    /\ reader.pc \in {"blob", "value"} => reader.call = "latest" /\ reader.ids # << >>

ListInv ==
    /\ reader.pc = "data" /\ ttl = 0 =>
          \A a \in reader.due : \E i \in DOMAIN reader.ids : reader.ids[i] = a.node
    /\ reader.pc = "blobs" =>
          /\ DOMAIN reader.got = DOMAIN reader.ids
          /\ \A i \in DOMAIN reader.got : reader.got[i].node = reader.ids[i]
          /\ ttl = 0 => \A a \in reader.due : \E i \in DOMAIN reader.got :
                /\ reader.got[i].node = a.node /\ reader.got[i].ver # 0
                /\ a.node \notin spoiled => reader.got[i].ver >= a.ver

LatestInv ==
    /\ reader.pc \in {"blob", "value"} =>
          /\ \A i \in DOMAIN reader.ids : reader.ids[i] \in Members
          /\ \A i, j \in DOMAIN reader.ids : i < j => <<reader.ids[j], reader.ids[i]>> \in Before
          /\ ttl = 0 => \A a \in AckedCheckpoints : \E i \in DOMAIN reader.ids : reader.ids[i] = a.node
    /\ reader.pc = "value" =>
          LET n == reader.ids[1] IN
          /\ Len(reader.got) = 1 /\ reader.got[1].node = n
          /\ IsBlob(reader.got[1].ckpt, live[n].ver)
          /\ n \notin spoiled /\ data[n] # NoKey =>
                 State(reader.got[1].ckpt) <= Number(data[n].val)
    /\ Done("latest") /\ reader.got # << >> =>
          LET r == reader.got[1] IN
          /\ r.node \in Members /\ IsBlob(r.ckpt, live[r.node].ver)
          /\ r.node \notin spoiled => State(r.ckpt) <= r.ver

ReaderInv == ReaderTyped /\ ListInv /\ LatestInv /\ AckedReadBack /\ LatestIsLastSeen

Inv == StoreInv /\ ReaderInv

-----------------------------------------------------------------------------
(* Bytes, blobs and pipelines. *)

LEMMA Sentinels ==
    /\ \A v \in Nat : Bytes(v) \in Seq(Nat) /\ Bytes(v) # NoBytes /\ Number(Bytes(v)) = v
    /\ Number(NoBytes) = 0 /\ State(NoBytes) = 0 /\ NoBytes \in Seq(Nat) /\ Decoded(NoBytes) = NoBytes
    /\ \A key : key = NoKey => key.val = NoBytes /\ key.dies = 0
    /\ NoKey \in [val : Seq(Nat), dies : Nat]
BY DEF Bytes, NoBytes, Number, NoKey, Decoded, State

\* The first byte says which codec wrote a blob, not the process that reads it.
LEMMA DecodedIs == \A b : State(b) = Number(Decoded(b))
<1> SUFFICES ASSUME NEW b PROVE State(b) = Number(Decoded(b))
    OBVIOUS
<1>1. Decompress(codec, b) = Decompress(CodecNone, b)
    BY DEF Decompress
<1> QED BY <1>1, Sentinels DEF Decoded, State

LEMMA Prepend ==
    ASSUME NEW S, NEW a \in S, NEW d \in Seq(S)
    PROVE  /\ <<a>> \o d \in Seq(S) /\ <<a>> \o d # << >>
           /\ Head(<<a>> \o d) = a /\ Tail(<<a>> \o d) = d
<1>1. <<a>> \in Seq(S) /\ Len(<<a>>) = 1 /\ <<a>>[1] = a
    OBVIOUS
<1> DEFINE s == <<a>> \o d
<1>2. /\ s \in Seq(S) /\ Len(s) = Len(d) + 1 /\ Len(d) \in Nat
      /\ s[1] = a /\ \A i \in 1..Len(d) : s[i + 1] = d[i]
    BY <1>1
<1> HIDE DEF s
<1>3. s # << >> /\ Head(s) = a
    BY <1>2
<1>4. Tail(s) \in Seq(S) /\ Len(Tail(s)) = Len(d) /\ \A i \in 1..Len(d) : Tail(s)[i] = d[i]
    BY <1>2, <1>3
<1>5. Tail(s) = d
    BY <1>4
<1> QED BY <1>2, <1>3, <1>5 DEF s

\* What one codec wrote, the other reads.
LEMMA RoundTrip ==
    ASSUME NEW c \in Codec, NEW k \in Nat
    PROVE  /\ Compress(c, Bytes(k)) \in Seq(Nat) /\ Compress(c, Bytes(k)) # NoBytes
           /\ Decoded(Compress(c, Bytes(k))) = Bytes(k) /\ State(Compress(c, Bytes(k))) = k
<1> DEFINE b == Compress(c, Bytes(k))
<1> HIDE DEF b
<1>1. Bytes(k) \in Seq(Nat)
    BY Sentinels
<1>2. ASSUME c = CodecNone PROVE b \in Seq(Nat) /\ b # << >> /\ Decoded(b) = Bytes(k)
    <2>1. b = <<0>> \o Bytes(k)
        BY <1>2 DEF b, Compress, CodecNone, CodecZlib
    <2>2. b \in Seq(Nat) /\ b # << >> /\ Head(b) = 0 /\ Tail(b) = Bytes(k)
        BY <1>1, <2>1, Prepend, 0 \in Nat
    <2>3. Decompress(codec, b) = Tail(b)
        BY <2>2 DEF Decompress, CodecNone, CodecZlib
    <2> QED BY <2>2, <2>3 DEF Decoded, NoBytes
<1>3. ASSUME c = CodecZlib PROVE b \in Seq(Nat) /\ b # << >> /\ Decoded(b) = Bytes(k)
    <2> DEFINE d == <<120>> \o Bytes(k)
    <2>1. b = <<1>> \o d
        BY <1>3 DEF b, Compress, CodecNone, CodecZlib, Deflate
    <2>2. d \in Seq(Nat) /\ d # << >> /\ Head(d) = 120 /\ Tail(d) = Bytes(k)
        BY <1>1, Prepend, 120 \in Nat
    <2> HIDE DEF d
    <2>3. b \in Seq(Nat) /\ b # << >> /\ Head(b) = 1 /\ Tail(b) = d
        BY <2>1, <2>2, Prepend, 1 \in Nat
    <2>4. Decompress(codec, b) = Inflate(d)
        <3>1. Head(b) # CodecNone /\ Head(b) = CodecZlib
            BY <2>3 DEF CodecNone, CodecZlib
        <3>2. Decompress(codec, b) = Inflate(Tail(b))
            BY <2>3, <3>1 DEF Decompress
        <3> QED BY <2>3, <3>2
    <2>5. Decoded(b) = Bytes(k)
        BY <2>2, <2>3, <2>4 DEF Decoded, NoBytes, Inflate
    <2> QED BY <2>3, <2>5
<1>4. b \in Seq(Nat) /\ b # << >> /\ Decoded(b) = Bytes(k)
    BY <1>2, <1>3 DEF Codec
<1> QED BY <1>4, Sentinels, DecodedIs DEF b, NoBytes

LEMMA BlobFacts ==
    ASSUME NEW v \in Nat, NEW b, IsBlob(b, v)
    PROVE  /\ b \in Seq(Nat) /\ b # NoBytes
           /\ \E k \in 1..v : Decoded(b) = Bytes(k)
           /\ State(b) \in 1..v
           /\ \A u \in Nat : v <= u => IsBlob(b, u)
<1>1. PICK c \in Codec, k \in 1..v : b = Compress(c, Bytes(k))
    BY DEF IsBlob
<1>2. k \in Nat
    OBVIOUS
<1>3. ASSUME NEW u \in Nat, v <= u PROVE IsBlob(b, u)
    <2>1. k \in 1..u
        BY <1>3
    <2> QED BY <1>1, <2>1 DEF IsBlob
<1> QED BY <1>1, <1>2, <1>3, RoundTrip

\* The next command and what is left behind it.
LEMMA NextCommand ==
    ASSUME NEW p \in Seq(Cmd), p # << >>, Rising(p)
    PROVE  /\ Head(p) \in Cmd /\ Head(p) \in ToSet(p) /\ Place(Head(p)) \in Left(p)
           /\ Tail(p) \in Seq(Cmd) /\ Len(Tail(p)) = Len(p) - 1 /\ Rising(Tail(p))
           /\ ToSet(Tail(p)) \subseteq ToSet(p)
           /\ Left(p) \subseteq 1..5
           /\ Left(Tail(p)) = Left(p) \ {Place(Head(p))}
           /\ \A k \in Left(Tail(p)) : Place(Head(p)) < k
<1>1. /\ Len(p) \in Nat /\ Len(p) # 0 /\ DOMAIN p = 1..Len(p) /\ \A i \in DOMAIN p : p[i] \in Cmd
    OBVIOUS
<1>2. /\ Head(p) = p[1] /\ 1 \in DOMAIN p /\ Head(p) \in Cmd
      /\ Tail(p) \in Seq(Cmd) /\ Len(Tail(p)) = Len(p) - 1 /\ DOMAIN Tail(p) = 1..(Len(p) - 1)
      /\ \A i \in DOMAIN Tail(p) : i + 1 \in DOMAIN p /\ Tail(p)[i] = p[i + 1]
    BY <1>1
<1>3. \A c : Place(c) \in 1..5
    BY DEF Place
<1>4. \A i \in DOMAIN p : i = 1 \/ (i - 1 \in DOMAIN Tail(p) /\ p[i] = Tail(p)[i - 1] /\ 1 < i)
    BY <1>1, <1>2
<1>5. \A i \in DOMAIN Tail(p) : Place(Head(p)) < Place(Tail(p)[i])
    <2> TAKE i \in DOMAIN Tail(p)
    <2>1. i + 1 \in DOMAIN p /\ 1 < i + 1 /\ 1 \in DOMAIN p
        BY <1>2
    <2> QED BY <1>2, <2>1 DEF Rising
<1>6. ToSet(p) = {Head(p)} \cup ToSet(Tail(p))
    <2>1. ToSet(Tail(p)) \subseteq ToSet(p)
        BY <1>2 DEF ToSet
    <2>2. ASSUME NEW i \in DOMAIN p PROVE p[i] \in {Head(p)} \cup ToSet(Tail(p))
        BY <1>2, <1>4 DEF ToSet
    <2>3. ToSet(p) \subseteq {Head(p)} \cup ToSet(Tail(p))
        BY <2>2 DEF ToSet
    <2> QED BY <1>2, <2>1, <2>3 DEF ToSet
<1>7. \A k \in Left(Tail(p)) : Place(Head(p)) < k
    BY <1>5 DEF Left, ToSet
<1>8. Left(p) \subseteq 1..5
    BY <1>3 DEF Left
<1>9. Place(Head(p)) \notin Left(Tail(p))
    BY <1>3, <1>7
<1>10. Left(p) = {Place(Head(p))} \cup Left(Tail(p))
    BY <1>6 DEF Left
<1>11. Rising(Tail(p))
    <2> SUFFICES ASSUME NEW i \in DOMAIN Tail(p), NEW j \in DOMAIN Tail(p), i < j
                 PROVE  Place(Tail(p)[i]) < Place(Tail(p)[j])
        BY DEF Rising
    <2>1. i + 1 \in DOMAIN p /\ j + 1 \in DOMAIN p /\ i + 1 < j + 1
        BY <1>2
    <2> QED BY <1>2, <2>1 DEF Rising
<1> QED BY <1>2, <1>6, <1>7, <1>8, <1>9, <1>10, <1>11

LEMMA NothingLeft ==
    ASSUME NEW p \in Seq(Cmd) PROVE p = << >> <=> Left(p) = {}
<1>1. p # << >> => 1 \in DOMAIN p
    OBVIOUS
<1>2. p = << >> => DOMAIN p = {}
    OBVIOUS
<1> QED BY <1>1, <1>2 DEF Left, ToSet

LEMMA OneCommand ==
    ASSUME NEW c \in Cmd
    PROVE  /\ <<c>> \in Seq(Cmd) /\ Len(<<c>>) = 1 /\ Rising(<<c>>)
           /\ ToSet(<<c>>) = {c} /\ Left(<<c>>) = {Place(c)}
<1>1. <<c>> \in Seq(Cmd) /\ Len(<<c>>) = 1 /\ DOMAIN <<c>> = {1} /\ <<c>>[1] = c
    OBVIOUS
<1>2. ToSet(<<c>>) = {c}
    BY <1>1 DEF ToSet
<1> QED BY <1>1, <1>2 DEF Rising, Left

LEMMA Joined ==
    ASSUME NEW p \in Seq(Cmd), NEW q \in Seq(Cmd), Rising(p), Rising(q),
           \A i \in Left(p), j \in Left(q) : i < j
    PROVE  /\ p \o q \in Seq(Cmd) /\ Len(p \o q) = Len(p) + Len(q) /\ Rising(p \o q)
           /\ ToSet(p \o q) = ToSet(p) \cup ToSet(q) /\ Left(p \o q) = Left(p) \cup Left(q)
<1> DEFINE s == p \o q
<1>1. /\ Len(p) \in Nat /\ Len(q) \in Nat /\ DOMAIN p = 1..Len(p) /\ DOMAIN q = 1..Len(q)
      /\ s \in Seq(Cmd) /\ Len(s) = Len(p) + Len(q) /\ DOMAIN s = 1..(Len(p) + Len(q))
    OBVIOUS
<1>2. /\ \A i \in DOMAIN p : i \in DOMAIN s /\ s[i] = p[i]
      /\ \A i \in DOMAIN q : i + Len(p) \in DOMAIN s /\ s[i + Len(p)] = q[i]
    BY <1>1
<1> HIDE DEF s
<1>3. \A i \in DOMAIN s :
         i \in DOMAIN p \/ (i - Len(p) \in DOMAIN q /\ s[i] = q[i - Len(p)] /\ Len(p) < i)
    <2> TAKE i \in DOMAIN s
    <2>1. i \in DOMAIN p \/ (i - Len(p) \in DOMAIN q /\ Len(p) < i)
        BY <1>1
    <2>2. i = (i - Len(p)) + Len(p)
        BY <1>1
    <2> QED BY <1>2, <2>1, <2>2
<1>4. ToSet(s) = ToSet(p) \cup ToSet(q)
    BY <1>2, <1>3 DEF ToSet
<1>5. Left(s) = Left(p) \cup Left(q)
    BY <1>4 DEF Left
<1>6. Rising(s)
    <2> SUFFICES ASSUME NEW i \in DOMAIN s, NEW j \in DOMAIN s, i < j
                 PROVE  Place(s[i]) < Place(s[j])
        BY DEF Rising
    <2>1. CASE j \in DOMAIN p
        <3>1. i \in DOMAIN p
            BY <1>1, <2>1
        <3> QED BY <1>2, <2>1, <3>1 DEF Rising
    <2>2. CASE i \in DOMAIN p /\ j \notin DOMAIN p
        <3>1. Place(s[i]) \in Left(p) /\ Place(s[j]) \in Left(q)
            BY <1>2, <1>3, <2>2 DEF Left, ToSet
        <3> QED BY <3>1
    <2>3. CASE i \notin DOMAIN p /\ j \notin DOMAIN p
        <3>1. i - Len(p) \in DOMAIN q /\ j - Len(p) \in DOMAIN q /\ i - Len(p) < j - Len(p)
            BY <1>1, <1>3, <2>3
        <3> QED BY <1>3, <2>3, <3>1 DEF Rising
    <2> QED BY <2>1, <2>2, <2>3
<1> QED BY <1>1, <1>4, <1>5, <1>6 DEF s

LEMMA SetCommands ==
    ASSUME NEW key \in {"data", "blob"}, NEW val \in Seq(Nat), ttl \in Nat
    PROVE  /\ Set(key, val) \in Seq(Cmd) /\ Rising(Set(key, val)) /\ Len(Set(key, val)) <= 2
           /\ Left(Set(key, val)) = {Place(Command("set", key, val))}
                 \cup (IF ttl = 0 THEN {} ELSE {Place(Command("expire", key, NoBytes))})
           /\ \A c \in ToSet(Set(key, val)) :
                 \/ c = Command("set", key, val)
                 \/ ttl # 0 /\ c = Command("expire", key, NoBytes)
<1> DEFINE one == Command("set", key, val)
           two == Command("expire", key, NoBytes)
<1>1. one \in Cmd /\ two \in Cmd
    BY Sentinels DEF Command, Cmd
<1>2. Place(one) \in Int /\ Place(two) \in Int /\ Place(one) < Place(two)
    BY DEF Place, Command
<1> HIDE DEF one, two
<1>3. CASE ttl = 0
    <2>1. Set(key, val) = <<one>> \o << >>
        BY <1>3 DEF Set, one
    <2>2. <<one>> \o << >> = <<one>>
        BY <1>1
    <2> QED BY <1>1, <1>3, <2>1, <2>2, OneCommand DEF one
<1>4. CASE ttl # 0
    <2>1. Set(key, val) = <<one>> \o <<two>>
        BY <1>4 DEF Set, one, two
    <2>2. \A i \in Left(<<one>>), j \in Left(<<two>>) : i < j
        BY <1>1, <1>2, OneCommand
    <2>3. /\ <<one>> \o <<two>> \in Seq(Cmd) /\ Rising(<<one>> \o <<two>>) /\ Len(<<one>> \o <<two>>) = 2
          /\ ToSet(<<one>> \o <<two>>) = {one, two} /\ Left(<<one>> \o <<two>>) = {Place(one), Place(two)}
        <3>1. /\ <<one>> \in Seq(Cmd) /\ Len(<<one>>) = 1 /\ Rising(<<one>>)
              /\ ToSet(<<one>>) = {one} /\ Left(<<one>>) = {Place(one)}
            BY <1>1, OneCommand
        <3>2. /\ <<two>> \in Seq(Cmd) /\ Len(<<two>>) = 1 /\ Rising(<<two>>)
              /\ ToSet(<<two>>) = {two} /\ Left(<<two>>) = {Place(two)}
            BY <1>1, OneCommand
        <3> DEFINE p == <<one>>
                   q == <<two>>
        <3> HIDE DEF p, q
        <3>3. /\ p \o q \in Seq(Cmd) /\ Rising(p \o q) /\ Len(p \o q) = Len(p) + Len(q)
              /\ ToSet(p \o q) = ToSet(p) \cup ToSet(q) /\ Left(p \o q) = Left(p) \cup Left(q)
            BY <2>2, <3>1, <3>2, Joined DEF p, q
        <3> QED BY <3>1, <3>2, <3>3 DEF p, q
    <2> QED BY <1>4, <2>1, <2>3 DEF one, two
<1> QED BY <1>3, <1>4

\* The pipeline of a save.
LEMMA NewPipeline ==
    ASSUME NEW node, node.ver \in Nat, node.ckpt \in Seq(Nat), ttl \in Nat, now \in Nat
    PROVE  /\ Pipeline(node) \in Seq(Cmd) /\ Rising(Pipeline(node)) /\ Len(Pipeline(node)) <= 5
           /\ Left(Pipeline(node)) = {1, 5} \cup (IF ttl = 0 THEN {} ELSE {2})
                 \cup (IF node.ckpt = NoBytes THEN {} ELSE {3} \cup (IF ttl = 0 THEN {} ELSE {4}))
           /\ \A c \in ToSet(Pipeline(node)) :
                 \/ c = Command("set", "data", Bytes(node.ver))
                 \/ ttl # 0 /\ c = Command("expire", "data", NoBytes)
                 \/ node.ckpt # NoBytes /\ c = Command("set", "blob", node.ckpt)
                 \/ ttl # 0 /\ c = Command("expire", "blob", NoBytes)
                 \/ c = Command("zadd", "index", Bytes(now))
<1> DEFINE d == Set("data", Bytes(node.ver))
           b == IF node.ckpt = NoBytes THEN << >> ELSE Set("blob", node.ckpt)
           z == Command("zadd", "index", Bytes(now))
<1>1. z \in Cmd /\ Place(z) = 5 /\ Bytes(node.ver) \in Seq(Nat)
    BY Sentinels DEF Command, Cmd, Place
<1>2. /\ d \in Seq(Cmd) /\ Rising(d) /\ Len(d) <= 2 /\ Left(d) = {1} \cup (IF ttl = 0 THEN {} ELSE {2})
      /\ \A c \in ToSet(d) : \/ c = Command("set", "data", Bytes(node.ver))
                             \/ ttl # 0 /\ c = Command("expire", "data", NoBytes)
    <2>1. Place(Command("set", "data", Bytes(node.ver))) = 1 /\ Place(Command("expire", "data", NoBytes)) = 2
        BY DEF Place, Command
    <2> QED BY <1>1, <2>1, SetCommands
<1>3. /\ b \in Seq(Cmd) /\ Rising(b) /\ Len(b) <= 2
      /\ Left(b) = IF node.ckpt = NoBytes THEN {} ELSE {3} \cup (IF ttl = 0 THEN {} ELSE {4})
      /\ \A c \in ToSet(b) : \/ node.ckpt # NoBytes /\ c = Command("set", "blob", node.ckpt)
                             \/ ttl # 0 /\ c = Command("expire", "blob", NoBytes)
    <2>1. CASE node.ckpt = NoBytes
        <3>1. << >> \in Seq(Cmd) /\ Len(<< >>) = 0 /\ DOMAIN << >> = {}
            OBVIOUS
        <3>2. ToSet(<< >>) = {} /\ Left(<< >>) = {} /\ Rising(<< >>)
            BY <3>1 DEF ToSet, Left, Rising
        <3>3. b = << >>
            BY <2>1
        <3> HIDE DEF b
        <3> QED BY <2>1, <3>1, <3>2, <3>3
    <2>2. CASE node.ckpt # NoBytes
        <3>1. Place(Command("set", "blob", node.ckpt)) = 3 /\ Place(Command("expire", "blob", NoBytes)) = 4
            BY DEF Place, Command
        <3>2. b = Set("blob", node.ckpt)
            BY <2>2
        <3> HIDE DEF b
        <3> QED BY <2>2, <3>1, <3>2, SetCommands
    <2> QED BY <2>1, <2>2
<1>4. Pipeline(node) = d \o b \o <<z>>
    BY DEF Pipeline, Zadd
<1> HIDE DEF d, b, z
<1>5. /\ <<z>> \in Seq(Cmd) /\ Rising(<<z>>) /\ Len(<<z>>) = 1 /\ ToSet(<<z>>) = {z} /\ Left(<<z>>) = {5}
    BY <1>1, OneCommand
<1>6. \A i \in Left(d), j \in Left(b) : i < j
    BY <1>2, <1>3
<1>7. /\ d \o b \in Seq(Cmd) /\ Rising(d \o b) /\ Len(d \o b) = Len(d) + Len(b)
      /\ ToSet(d \o b) = ToSet(d) \cup ToSet(b) /\ Left(d \o b) = Left(d) \cup Left(b)
    BY <1>2, <1>3, <1>6, Joined
<1>8. \A i \in Left(d \o b), j \in Left(<<z>>) : i < j
    BY <1>2, <1>3, <1>5, <1>7
<1> DEFINE q == d \o b
<1>9. /\ q \o <<z>> \in Seq(Cmd) /\ Rising(q \o <<z>>) /\ Len(q \o <<z>>) = Len(q) + 1
      /\ ToSet(q \o <<z>>) = ToSet(q) \cup {z} /\ Left(q \o <<z>>) = Left(q) \cup {5}
    <2> HIDE DEF q
    <2>1. q \in Seq(Cmd) /\ Rising(q) /\ \A i \in Left(q), j \in Left(<<z>>) : i < j
        BY <1>7, <1>8 DEF q
    <2> QED BY <1>5, <2>1, Joined
<1>10. Len(d) \in Nat /\ Len(b) \in Nat
    BY <1>2, <1>3
<1>11. Len(Pipeline(node)) <= 5
    BY <1>2, <1>3, <1>4, <1>7, <1>9, <1>10
<1>12. Left(Pipeline(node)) = {1, 5} \cup (IF ttl = 0 THEN {} ELSE {2})
                 \cup (IF node.ckpt = NoBytes THEN {} ELSE {3} \cup (IF ttl = 0 THEN {} ELSE {4}))
    BY <1>2, <1>3, <1>4, <1>7, <1>9
<1>13. \A c \in ToSet(Pipeline(node)) : c \in ToSet(d) \/ c \in ToSet(b) \/ c = z
    BY <1>4, <1>7, <1>9
<1>14. \A c \in ToSet(Pipeline(node)) :
                 \/ c = Command("set", "data", Bytes(node.ver))
                 \/ ttl # 0 /\ c = Command("expire", "data", NoBytes)
                 \/ node.ckpt # NoBytes /\ c = Command("set", "blob", node.ckpt)
                 \/ ttl # 0 /\ c = Command("expire", "blob", NoBytes)
                 \/ c = Command("zadd", "index", Bytes(now))
    BY <1>2, <1>3, <1>13 DEF z
<1> QED BY <1>4, <1>9, <1>11, <1>12, <1>14

-----------------------------------------------------------------------------
(* The parts of the invariant, whatever happens. *)

LEMMA NoCommands ==
    ASSUME NEW v, NEW node, NEW time, NEW life PROVE PipeOf(v, << >>, node, time, life)
<1>1. << >> \in Seq(Cmd) /\ Len(<< >>) = 0 /\ DOMAIN << >> = {}
    OBVIOUS
<1>2. ToSet(<< >>) = {} /\ Left(<< >>) = {} /\ Rising(<< >>)
    BY <1>1 DEF ToSet, Left, Rising
<1> QED BY <1>1, <1>2 DEF PipeOf

LEMMA OneCommandLess ==
    ASSUME NEW v, NEW p, NEW node, NEW time, NEW life, PipeOf(v, p, node, time, life), p # << >>
    PROVE  PipeOf(v, Tail(p), node, time, life)
<1>1. p \in Seq(Cmd) /\ Len(p) <= 5 /\ Rising(p)
    BY DEF PipeOf
<1>2. /\ Tail(p) \in Seq(Cmd) /\ Len(Tail(p)) = Len(p) - 1 /\ Rising(Tail(p))
      /\ ToSet(Tail(p)) \subseteq ToSet(p) /\ Left(p) \subseteq 1..5 /\ Place(Head(p)) \in Left(p)
      /\ Left(Tail(p)) = Left(p) \ {Place(Head(p))}
      /\ \A k \in Left(Tail(p)) : Place(Head(p)) < k
    BY <1>1, NextCommand
<1>3. Len(Tail(p)) <= 5
    BY <1>1, <1>2
<1>4. ASSUME Tail(p) # << >> PROVE 5 \in Left(Tail(p))
    <2>1. PICK k \in Left(Tail(p)) : Place(Head(p)) < k
        BY <1>2, <1>4, NothingLeft
    <2>2. Place(Head(p)) # 5
        BY <1>2, <2>1
    <2> QED BY <1>2, <2>2 DEF PipeOf
<1>5. \A j, k \in 1..5 : j < k /\ k \in Left(Tail(p)) /\ j \in Left(Tail(p)) => Place(Head(p)) # k
    BY <1>2
<1>6. \A j \in Left(Tail(p)), k \in Left(p) : j < k => k \in Left(Tail(p))
    BY <1>2
<1>7. life # 0 => (1 \in Left(Tail(p)) => 2 \in Left(Tail(p))) /\ (3 \in Left(Tail(p)) => 4 \in Left(Tail(p)))
    BY <1>2, <1>6 DEF PipeOf
<1>8. v = node.ver /\ node.ckpt # NoBytes /\ (1 \in Left(Tail(p)) \/ 2 \in Left(Tail(p)))
          => 3 \in Left(Tail(p))
    BY <1>2, <1>6 DEF PipeOf
<1> QED BY <1>2, <1>3, <1>4, <1>7, <1>8 DEF PipeOf

\* Time goes by, and the owner of the node goes on to later states.
LEMMA PipeStays ==
    ASSUME NEW v \in Nat, NEW p, NEW node, NEW time \in Nat, NEW life, PipeOf(v, p, node, time, life),
           NEW later, node.ver \in Nat, later.ver \in Nat, node.ver <= later.ver,
           node = later \/ v # later.ver,
           NEW soon \in Nat, time <= soon
    PROVE  PipeOf(v, p, later, soon, life)
<1>1. ASSUME NEW c \in ToSet(p) PROVE Sent(v, c, later, soon, life)
    <2>1. Sent(v, c, node, time, life)
        BY DEF PipeOf
    <2>2. \A t \in 1..time : t \in 1..soon
        OBVIOUS
    <2> QED BY <2>1, <2>2 DEF Sent
<1>2. p # << >> => v <= later.ver
    BY DEF PipeOf
<1>3. v = later.ver => node = later
    OBVIOUS
<1> QED BY <1>1, <1>2, <1>3 DEF PipeOf

Key == [val : Seq(Nat), dies : Nat]

LEMMA KeyFacts ==
    ASSUME NEW node, node.ver \in Nat, NEW d \in Key, NEW b \in Key, NEW time, NEW life,
           KeysOf(node, d, b, time, life)
    PROVE  /\ d # NoKey <=> d.val # NoBytes
           /\ d # NoKey => Number(d.val) \in 1..node.ver
           /\ b # NoKey <=> b.val # NoBytes
           /\ b # NoKey => State(b.val) \in 1..node.ver
           /\ Number(d.val) \in 0..node.ver /\ State(b.val) \in 0..node.ver
<1>1. ASSUME d # NoKey PROVE d.val # NoBytes /\ Number(d.val) \in 1..node.ver
    <2>1. PICK v \in 1..node.ver : d.val = Bytes(v)
        BY <1>1 DEF KeysOf
    <2>2. v \in Nat
        OBVIOUS
    <2> QED BY <2>1, <2>2, Sentinels
<1>2. ASSUME b # NoKey PROVE b.val # NoBytes /\ State(b.val) \in 1..node.ver
    BY <1>2, BlobFacts DEF KeysOf, NoBytes
<1>3. d = NoKey => d.val = NoBytes /\ Number(d.val) = 0
    BY Sentinels
<1>4. b = NoKey => b.val = NoBytes /\ State(b.val) = 0
    BY Sentinels
<1> QED BY <1>1, <1>2, <1>3, <1>4

LEMMA KeySet ==
    ASSUME NEW u \in Seq(Nat), u # NoBytes
    PROVE  LET key == [val |-> u, dies |-> 0] IN
           key \in Key /\ key # NoKey /\ key.val = u /\ key.dies = 0
<1>1. [val |-> u, dies |-> 0] # NoKey
    BY Sentinels
<1> QED BY <1>1 DEF Key

LEMMA KeyExpires ==
    ASSUME NEW key \in Key, NEW soon \in Nat, soon # 0,
           NEW key2, key2 = IF key = NoKey THEN NoKey ELSE [key EXCEPT !.dies = soon]
    PROVE  /\ key2 \in Key /\ (key2 = NoKey <=> key = NoKey) /\ key2.val = key.val
           /\ key # NoKey => key2.dies = soon
           /\ key = NoKey => key2.dies = 0
<1>1. CASE key = NoKey
    BY <1>1, Sentinels
<1>2. CASE key # NoKey
    <2>1. key2 = [key EXCEPT !.dies = soon]
        BY <1>2
    <2>2. key2 \in Key /\ key2.val = key.val /\ key2.dies = soon
        BY <2>1 DEF Key
    <2>3. key2 # NoKey
        BY <2>2, Sentinels
    <2> QED BY <1>2, <2>2, <2>3
<1> QED BY <1>1, <1>2

\* What a command does to the keys of its node.
LEMMA Carried ==
    ASSUME ttl \in Nat, now \in Nat, NEW node, node.ver \in Nat,
           NEW v \in 1..node.ver, NEW c \in Cmd, Sent(v, c, node, now, ttl),
           NEW d \in Key, NEW b \in Key, KeysOf(node, d, b, now, ttl),
           NEW d2, d2 = IF c.key = "data" THEN After(d, c) ELSE d,
           NEW b2, b2 = IF c.key = "blob" THEN After(b, c) ELSE b
    PROVE  /\ d2 \in Key /\ b2 \in Key
           /\ Place(c) = 1 => d2 # NoKey /\ d2.val = Bytes(v) /\ d2.dies = 0
           /\ Place(c) = 2 => (d2 = NoKey <=> d = NoKey) /\ d2.val = d.val
                                 /\ (d # NoKey => d2.dies = now + ttl)
           /\ Place(c) \notin {1, 2} => d2 = d
           /\ Place(c) = 3 => /\ b2 # NoKey /\ b2.val = c.val /\ b2.dies = 0
                              /\ IsBlob(c.val, v) /\ (v = node.ver => c.val = node.ckpt)
           /\ Place(c) = 4 => (b2 = NoKey <=> b = NoKey) /\ b2.val = b.val
                                 /\ (b # NoKey => b2.dies = now + ttl)
           /\ Place(c) \notin {3, 4} => b2 = b
           /\ Place(c) \in {2, 4} => ttl # 0
           /\ Place(c) = 5 <=> c.key = "index"
           /\ Place(c) = 5 => Number(c.val) \in 1..now
           /\ KeysOf(node, d2, b2, now, ttl)
<1>1. /\ now + ttl \in Nat /\ v \in Nat /\ (ttl # 0 => now + ttl # 0 /\ now < now + ttl)
      /\ Bytes(v) \in Seq(Nat) /\ Bytes(v) # NoBytes
    BY Sentinels
<1>2. CASE c = Command("set", "data", Bytes(v))
    <2>1. c.key = "data" /\ c.op = "set" /\ c.val = Bytes(v) /\ Place(c) = 1
        BY <1>2 DEF Command, Place
    <2>2. d2 = [val |-> Bytes(v), dies |-> 0] /\ b2 = b
        BY <2>1 DEF After
    <2>3. d2 \in Key /\ d2 # NoKey /\ d2.val = Bytes(v) /\ d2.dies = 0
        BY <1>1, <2>2, KeySet
    <2>4. KeysOf(node, d2, b2, now, ttl)
        BY <2>2, <2>3 DEF KeysOf, Lives
    <2> QED BY <2>1, <2>2, <2>3, <2>4
<1>3. CASE ttl # 0 /\ c = Command("expire", "data", NoBytes)
    <2>1. c.key = "data" /\ c.op = "expire" /\ Place(c) = 2
        BY <1>3 DEF Command, Place
    <2>2. d2 = (IF d = NoKey THEN NoKey ELSE [d EXCEPT !.dies = now + ttl]) /\ b2 = b
        BY <2>1 DEF After
    <2>3. d2 \in Key /\ (d2 = NoKey <=> d = NoKey) /\ d2.val = d.val /\ (d # NoKey => d2.dies = now + ttl)
        <3>1. now + ttl \in Nat /\ now + ttl # 0
            BY <1>1, <1>3
        <3> QED BY <2>2, <3>1, KeyExpires
    <2>4. Lives(d2, now, ttl)
        <3>1. d2.dies = 0 \/ d2.dies = now + ttl
            BY <2>3, Sentinels
        <3> QED BY <1>1, <1>3, <3>1 DEF Lives
    <2>5. KeysOf(node, d2, b2, now, ttl)
        BY <2>2, <2>3, <2>4 DEF KeysOf
    <2> QED BY <1>3, <2>1, <2>2, <2>3, <2>5
<1>4. CASE /\ c = Command("set", "blob", c.val) /\ IsBlob(c.val, v)
           /\ v = node.ver => c.val = node.ckpt
    <2>1. c.key = "blob" /\ c.op = "set" /\ Place(c) = 3 /\ c.val \in Seq(Nat)
        BY <1>4 DEF Command, Place, Cmd
    <2>2. b2 = [val |-> c.val, dies |-> 0] /\ d2 = d
        BY <2>1 DEF After
    <2>3. b2 \in Key /\ b2 # NoKey /\ b2.val = c.val /\ b2.dies = 0
        BY <1>1, <1>4, <2>1, <2>2, BlobFacts, KeySet
    <2>4. IsBlob(b2.val, node.ver)
        BY <1>1, <1>4, <2>3, BlobFacts
    <2>5. KeysOf(node, d2, b2, now, ttl)
        BY <2>2, <2>3, <2>4 DEF KeysOf, Lives
    <2> QED BY <1>4, <2>1, <2>2, <2>3, <2>5
<1>5. CASE ttl # 0 /\ c = Command("expire", "blob", NoBytes)
    <2>1. c.key = "blob" /\ c.op = "expire" /\ Place(c) = 4
        BY <1>5 DEF Command, Place
    <2>2. b2 = (IF b = NoKey THEN NoKey ELSE [b EXCEPT !.dies = now + ttl]) /\ d2 = d
        BY <2>1 DEF After
    <2>3. b2 \in Key /\ (b2 = NoKey <=> b = NoKey) /\ b2.val = b.val /\ (b # NoKey => b2.dies = now + ttl)
        <3>1. now + ttl \in Nat /\ now + ttl # 0
            BY <1>1, <1>5
        <3> QED BY <2>2, <3>1, KeyExpires
    <2>4. Lives(b2, now, ttl)
        <3>1. b2.dies = 0 \/ b2.dies = now + ttl
            BY <2>3, Sentinels
        <3> QED BY <1>1, <1>5, <3>1 DEF Lives
    <2>5. KeysOf(node, d2, b2, now, ttl)
        BY <2>2, <2>3, <2>4 DEF KeysOf
    <2> QED BY <1>5, <2>1, <2>2, <2>3, <2>5
<1>6. CASE \E t \in 1..now : c = Command("zadd", "index", Bytes(t))
    <2>1. PICK t \in 1..now : c = Command("zadd", "index", Bytes(t))
        BY <1>6
    <2>2. c.key = "index" /\ c.val = Bytes(t) /\ Place(c) = 5 /\ t \in Nat
        BY <2>1 DEF Command, Place
    <2>3. d2 = d /\ b2 = b /\ Number(c.val) = t
        BY <2>2, Sentinels
    <2> QED BY <2>2, <2>3
<1> QED BY <1>2, <1>3, <1>4, <1>5, <1>6 DEF Sent

\* A command that is carried out leaves a clean node clean.
LEMMA CleanCarried ==
    ASSUME ttl \in Nat, now \in Nat, NEW node, node.ver \in Nat \ {0},
           NEW c \in Cmd, Sent(node.ver, c, node, now, ttl),
           NEW d \in Key, NEW b \in Key, KeysOf(node, d, b, now, ttl),
           NEW d2, d2 = IF c.key = "data" THEN After(d, c) ELSE d,
           NEW b2, b2 = IF c.key = "blob" THEN After(b, c) ELSE b,
           NEW left \in SUBSET (1..5), NEW p \in left, p = Place(c),
           \A k \in left \ {p} : p < k,
           ttl # 0 => (1 \in left => 2 \in left) /\ (3 \in left => 4 \in left),
           node.ckpt # NoBytes /\ (1 \in left \/ 2 \in left) => 3 \in left,
           CleanOf(left, node, d, b, ttl)
    PROVE  CleanOf(left \ {p}, node, d2, b2, ttl)
<1> DEFINE left2 == left \ {p}
<1>1. /\ d2 \in Key /\ b2 \in Key
      /\ p = 1 => d2 # NoKey /\ d2.val = Bytes(node.ver) /\ d2.dies = 0
      /\ p = 2 => (d2 = NoKey <=> d = NoKey) /\ d2.val = d.val /\ (d # NoKey => d2.dies = now + ttl)
      /\ p \notin {1, 2} => d2 = d
      /\ p = 3 => b2 # NoKey /\ b2.val = c.val /\ b2.dies = 0 /\ c.val = node.ckpt
      /\ p = 4 => (b2 = NoKey <=> b = NoKey) /\ b2.val = b.val /\ (b # NoKey => b2.dies = now + ttl)
      /\ p \notin {3, 4} => b2 = b
      /\ p \in {2, 4} => ttl # 0
      /\ KeysOf(node, d2, b2, now, ttl)
    <2>1. node.ver \in 1..node.ver
        OBVIOUS
    <2> QED BY <2>1, Carried
<1>2. p \in 1..5 /\ \A k \in 1..5 : k <= p => k \notin left2
    OBVIOUS
<1>3. /\ d2 # NoKey => Number(d2.val) \in 1..node.ver
      /\ b2 # NoKey => State(b2.val) \in 1..node.ver
      /\ Number(Bytes(node.ver)) = node.ver /\ d.dies \in Nat /\ b.dies \in Nat
      /\ d2.dies \in Nat /\ b2.dies \in Nat
    BY <1>1, KeyFacts, Sentinels DEF Key
<1>4. d.dies <= now + ttl
    BY <1>3 DEF KeysOf, Lives
<1>5. 1 \notin left2 => d2 = NoKey \/ d2.val = Bytes(node.ver)
    <2>1. CASE p = 1
        BY <1>1, <2>1
    <2>2. CASE p # 1
        BY <1>1, <2>2 DEF CleanOf
    <2> QED BY <2>1, <2>2
<1>6. 1 \notin left2 /\ 2 \notin left2 /\ ttl # 0 => d2 = NoKey \/ d2.dies # 0
    <2> SUFFICES ASSUME 1 \notin left2, 2 \notin left2, ttl # 0, d2 # NoKey PROVE d2.dies # 0
        OBVIOUS
    <2>1. p # 1
        <3>1. p = 1 => 2 \in left2
            OBVIOUS
        <3> QED BY <3>1
    <2>2. CASE p = 2
        BY <1>1, <2>2
    <2>3. CASE p # 2
        <3>1. 1 \notin left /\ 2 \notin left /\ d2 = d
            BY <1>1, <2>1, <2>3
        <3> QED BY <3>1 DEF CleanOf
    <2> QED BY <2>2, <2>3
<1>7. ASSUME node.ckpt # NoBytes, 3 \notin left2
      PROVE  /\ b2 = NoKey \/ b2.val = node.ckpt
             /\ 4 \in left2 => b2 # NoKey /\ b2.dies = 0
             /\ 4 \notin left2 /\ d2 # NoKey => b2 # NoKey /\ (ttl # 0 => b2.dies >= d2.dies)
    <2>1. CASE p = 3
        <3>1. ttl # 0 => 4 \in left2
            BY <2>1
        <3> QED BY <1>1, <2>1, <3>1
    <2>2. CASE p = 4
        <3>1. 1 \notin left /\ 2 \notin left /\ 3 \notin left /\ 4 \in left /\ d2 = d
            BY <1>1, <1>2, <2>2
        <3>2. b # NoKey /\ b.val = node.ckpt
            BY <1>7, <3>1 DEF CleanOf
        <3>3. d2.dies <= now + ttl /\ now + ttl \in Nat
            BY <1>4, <3>1
        <3>4. b2 # NoKey /\ b2.val = node.ckpt /\ b2.dies = now + ttl
            BY <1>1, <2>2, <3>2
        <3> QED BY <2>2, <3>3, <3>4
    <2>3. CASE p = 5
        <3>1. 3 \notin left /\ 4 \notin left /\ d2 = d /\ b2 = b
            BY <1>1, <1>2, <2>3
        <3> QED BY <1>2, <1>7, <2>3, <3>1 DEF CleanOf
    <2>4. CASE p \in {1, 2}
        BY <1>7, <2>4
    <2> QED BY <1>2, <2>1, <2>2, <2>3, <2>4
<1>8. d2 # NoKey /\ b2 # NoKey => State(b2.val) <= Number(d2.val)
    <2> SUFFICES ASSUME d2 # NoKey, b2 # NoKey PROVE State(b2.val) <= Number(d2.val)
        OBVIOUS
    <2>1. CASE p = 1
        BY <1>1, <1>3, <2>1
    <2>2. CASE p = 3
        <3>1. 1 \notin left /\ d2 = d
            BY <1>1, <1>2, <2>2
        <3>2. d2.val = Bytes(node.ver)
            BY <3>1 DEF CleanOf
        <3> QED BY <1>3, <3>2
    <2>3. CASE p \notin {1, 3}
        <3>1. d # NoKey /\ b # NoKey /\ d2.val = d.val /\ b2.val = b.val
            BY <1>1, <1>2, <2>3
        <3> QED BY <3>1 DEF CleanOf
    <2> QED BY <2>1, <2>2, <2>3
<1> HIDE DEF left2
<1>9. CleanOf(left2, node, d2, b2, ttl)
    BY <1>5, <1>6, <1>7, <1>8 DEF CleanOf
<1> QED BY <1>9 DEF left2

\* A command of any save changes no key to something older than what was acknowledged.
LEMMA AckedCarried ==
    ASSUME ttl \in Nat, now \in Nat, NEW node, node.ver \in Nat, NEW v \in 1..node.ver,
           NEW c \in Cmd, Sent(v, c, node, now, ttl),
           NEW d \in Key, NEW b \in Key, KeysOf(node, d, b, now, ttl),
           NEW d2, d2 = IF c.key = "data" THEN After(d, c) ELSE d,
           NEW b2, b2 = IF c.key = "blob" THEN After(b, c) ELSE b,
           NEW score, NEW score2, score2 = IF c.key = "index" /\ score = 0 THEN Number(c.val) ELSE score,
           NEW a, a.ver \in Nat, a.ckpt \in Nat,
           NEW clean \in BOOLEAN, clean => v = node.ver,
           AckedOf(a, node, d, b, score, clean, ttl)
    PROVE  AckedOf(a, node, d2, b2, score2, clean, ttl)
<1> DEFINE p == Place(c)
<1>1. /\ d2 \in Key /\ b2 \in Key
      /\ p = 1 => d2 # NoKey /\ d2.val = Bytes(v)
      /\ p = 2 => (d2 = NoKey <=> d = NoKey) /\ d2.val = d.val
      /\ p \notin {1, 2} => d2 = d
      /\ p = 3 => b2 # NoKey /\ b2.val = c.val /\ (v = node.ver => c.val = node.ckpt)
      /\ p = 4 => (b2 = NoKey <=> b = NoKey) /\ b2.val = b.val
      /\ p \notin {3, 4} => b2 = b
    BY Carried
<1>2. Number(Bytes(v)) = v /\ v \in Nat
    BY Sentinels
<1> HIDE DEF p
<1>3. score # 0 => score2 # 0
    OBVIOUS
<1>4. d # NoKey => d2 # NoKey
    BY <1>1
<1>5. b # NoKey => b2 # NoKey
    BY <1>1
<1>6. ASSUME clean, Number(d.val) >= a.ver, a.ver <= node.ver
      PROVE  Number(d2.val) >= a.ver
    BY <1>1, <1>2, <1>6
<1>7. ASSUME clean, State(b.val) >= a.ckpt, State(node.ckpt) >= a.ckpt
      PROVE  State(b2.val) >= a.ckpt
    <2>1. CASE p = 3
        BY <1>1, <1>7, <2>1
    <2>2. CASE p # 3
        <3>1. b2.val = b.val
            BY <1>1, <2>2
        <3> QED BY <1>7, <3>1
    <2> QED BY <2>1, <2>2
<1> QED BY <1>3, <1>4, <1>5, <1>6, <1>7 DEF AckedOf

LEMMA ExpiredFacts ==
    ASSUME ttl \in Nat, now \in Nat, NEW key \in Key, Lives(key, now, ttl)
    PROVE  /\ Expired(key) \in {key, NoKey} /\ Expired(key) \in Key
           /\ Lives(Expired(key), now + 1, ttl)
           /\ ttl = 0 => Expired(key) = key
           /\ Expired(key) = key \/ (key.dies # 0 /\ key.dies <= now + 1)
           /\ Expired(key) # NoKey /\ key.dies # 0 => now + 1 < key.dies
<1>1. key.dies \in Nat /\ NoKey \in Key /\ NoKey.dies = 0
    BY Sentinels DEF Key
<1>2. CASE key.dies # 0 /\ key.dies <= now + 1
    <2>1. Expired(key) = NoKey
        BY <1>2 DEF Expired
    <2> QED BY <1>1, <1>2, <2>1 DEF Lives
<1>3. CASE ~ (key.dies # 0 /\ key.dies <= now + 1)
    <2>1. Expired(key) = key
        BY <1>3 DEF Expired
    <2> QED BY <1>1, <1>3, <2>1 DEF Lives
<1> QED BY <1>2, <1>3

\* Of the keys of a clean node, the blob is not the first one to expire.
LEMMA CleanTicks ==
    ASSUME ttl \in Nat, now \in Nat, NEW node, node.ver \in Nat,
           NEW d \in Key, NEW b \in Key, KeysOf(node, d, b, now, ttl), NEW left,
           node.ckpt # NoBytes /\ (1 \in left \/ 2 \in left) => 3 \in left
    PROVE  /\ KeysOf(node, Expired(d), Expired(b), now + 1, ttl)
           /\ CleanOf(left, node, d, b, ttl) => CleanOf(left, node, Expired(d), Expired(b), ttl)
<1> DEFINE d2 == Expired(d)
           b2 == Expired(b)
<1>1. Lives(d, now, ttl) /\ Lives(b, now, ttl)
    BY DEF KeysOf
<1>2. /\ d2 \in {d, NoKey} /\ Lives(d2, now + 1, ttl) /\ (ttl = 0 => d2 = d)
      /\ d2 # NoKey /\ d.dies # 0 => now + 1 < d.dies
    BY <1>1, ExpiredFacts
<1>3. /\ b2 \in {b, NoKey} /\ Lives(b2, now + 1, ttl) /\ (ttl = 0 => b2 = b)
      /\ b2 = b \/ (b.dies # 0 /\ b.dies <= now + 1)
    BY <1>1, ExpiredFacts
<1> HIDE DEF d2, b2
<1>4. KeysOf(node, d2, b2, now + 1, ttl)
    BY <1>2, <1>3 DEF KeysOf
<1>5. ASSUME CleanOf(left, node, d, b, ttl) PROVE CleanOf(left, node, d2, b2, ttl)
    <2>1. ASSUME node.ckpt # NoBytes, 3 \notin left
          PROVE  /\ b2 = NoKey \/ b2.val = node.ckpt
                 /\ 4 \in left => b2 # NoKey /\ b2.dies = 0
                 /\ 4 \notin left /\ d2 # NoKey => b2 # NoKey /\ (ttl # 0 => b2.dies >= d2.dies)
        <3>1. b2 = NoKey \/ b2.val = node.ckpt
            BY <1>3, <1>5, <2>1 DEF CleanOf
        <3>2. 4 \in left => b2 # NoKey /\ b2.dies = 0
            BY <1>3, <1>5, <2>1 DEF CleanOf
        <3>3. ASSUME 4 \notin left, d2 # NoKey PROVE b2 # NoKey /\ (ttl # 0 => b2.dies >= d2.dies)
            <4>1. d2 = d /\ d # NoKey
                BY <1>2, <3>3
            <4>2. b # NoKey /\ (ttl # 0 => b.dies >= d.dies /\ d.dies # 0)
                BY <1>5, <2>1, <3>3, <4>1 DEF CleanOf
            <4>3. d.dies \in Nat /\ b.dies \in Nat
                BY DEF Key
            <4>4. b2 = b
                BY <1>2, <1>3, <3>3, <4>2, <4>3
            <4> QED BY <4>1, <4>2, <4>4
        <3> QED BY <3>1, <3>2, <3>3
    <2>2. 1 \notin left => d2 = NoKey \/ d2.val = Bytes(node.ver)
        BY <1>2, <1>5 DEF CleanOf
    <2>3. 1 \notin left /\ 2 \notin left /\ ttl # 0 => d2 = NoKey \/ d2.dies # 0
        BY <1>2, <1>5 DEF CleanOf
    <2>4. d2 # NoKey /\ b2 # NoKey => State(b2.val) <= Number(d2.val)
        BY <1>2, <1>3, <1>5 DEF CleanOf
    <2> QED BY <2>1, <2>2, <2>3, <2>4 DEF CleanOf
<1> QED BY <1>4, <1>5 DEF d2, b2

LEMMA KeysStay ==
    ASSUME NEW node, node.ver \in Nat, NEW later, later.ver \in Nat, node.ver <= later.ver,
           NEW d, NEW b, NEW time, NEW life, KeysOf(node, d, b, time, life)
    PROVE  KeysOf(later, d, b, time, life)
<1>1. \A v \in 1..node.ver : v \in 1..later.ver
    OBVIOUS
<1>2. b = NoKey \/ IsBlob(b.val, later.ver)
    BY BlobFacts DEF KeysOf
<1> QED BY <1>1, <1>2 DEF KeysOf

-----------------------------------------------------------------------------
(* The steps of the store. *)

LEMMA StoreTypes ==
    ASSUME StoreInv
    PROVE  /\ ttl \in Nat /\ now \in Nat /\ now # 0 /\ now + 1 \in Nat
           /\ \A n \in Node : /\ live[n] \in [ver : 0..MaxVersion, ckpt : Seq(Nat)]
                              /\ live[n].ver \in 0..MaxVersion /\ live[n].ver \in Nat
                              /\ live[n].ckpt \in Seq(Nat)
                              /\ data[n] \in Key /\ blob[n] \in Key
           /\ \A w \in Write : w[1] \in Node /\ w[2] \in 1..MaxVersion /\ w[2] \in Nat /\ w = <<w[1], w[2]>>
           /\ \A n \in Node, v \in 1..MaxVersion :
                 <<n, v>> \in Write /\ <<n, v>>[1] = n /\ <<n, v>>[2] = v
<1>1. ttl \in Nat /\ now \in Nat /\ now # 0 /\ now + 1 \in Nat
    BY BoundsAssumption DEF StoreInv, SettingsInv
<1>2. ASSUME NEW n \in Node
      PROVE  /\ live[n] \in [ver : 0..MaxVersion, ckpt : Seq(Nat)]
             /\ live[n].ver \in 0..MaxVersion /\ live[n].ver \in Nat
             /\ live[n].ckpt \in Seq(Nat)
    BY DEF StoreInv, OwnersInv
<1>3. \A n \in Node : data[n] \in Key /\ blob[n] \in Key
    BY DEF StoreInv, KeysInv, Key
<1>4. \A w \in Write : w[1] \in Node /\ w[2] \in 1..MaxVersion /\ w[2] \in Nat /\ w = <<w[1], w[2]>>
    BY DEF Write
<1>5. \A n \in Node, v \in 1..MaxVersion :
          <<n, v>> \in Write /\ <<n, v>>[1] = n /\ <<n, v>>[2] = v
    BY DEF Write
<1> QED BY <1>1, <1>2, <1>3, <1>4, <1>5

\* What a node awaits is the save of its present state.
LEMMA PendingFacts ==
    ASSUME StoreInv, NEW n \in Node
    PROVE  /\ Pending(n) \in SUBSET (1..5)
           /\ ttl # 0 => (1 \in Pending(n) => 2 \in Pending(n)) /\ (3 \in Pending(n) => 4 \in Pending(n))
           /\ live[n].ckpt # NoBytes /\ (1 \in Pending(n) \/ 2 \in Pending(n)) => 3 \in Pending(n)
           /\ saving[n] = "awaiting" =>
                 /\ live[n].ver \in 1..MaxVersion /\ <<n, live[n].ver>> \in Write
                 /\ PipeOf(live[n].ver, pipe[<<n, live[n].ver>>], live[n], now, ttl)
<1>1. CASE saving[n] # "awaiting"
    BY <1>1 DEF Pending
<1>2. CASE saving[n] = "awaiting"
    <2>1. live[n].ver \in 1..MaxVersion
        BY <1>2, StoreTypes DEF StoreInv, OwnersInv
    <2> DEFINE w == <<n, live[n].ver>>
    <2>2. w \in Write /\ w[1] = n /\ w[2] = live[n].ver
        BY <2>1, StoreTypes
    <2>3. PipeOf(live[n].ver, pipe[w], live[n], now, ttl)
        BY <2>2 DEF StoreInv, PipesInv
    <2>4. Pending(n) = Left(pipe[w])
        BY <1>2 DEF Pending
    <2> HIDE DEF w
    <2>5. Left(pipe[w]) \in SUBSET (1..5)
        BY DEF Left, Place
    <2> QED BY <2>1, <2>2, <2>3, <2>4, <2>5 DEF PipeOf, w
<1> QED BY <1>1, <1>2

LEMMA StateOf ==
    ASSUME NEW b, NEW v \in Nat, b = NoBytes \/ IsBlob(b, v) PROVE State(b) \in 0..v
<1>1. CASE b = NoBytes
    BY <1>1, Sentinels
<1>2. CASE IsBlob(b, v)
    BY <1>2, BlobFacts
<1> QED BY <1>1, <1>2

LEMMA StateFacts ==
    ASSUME StoreInv, NEW n \in Node PROVE State(live[n].ckpt) \in 0..live[n].ver
BY StoreTypes, StateOf DEF StoreInv, OwnersInv

LEMMA SaveKeeps ==
    ASSUME StoreInv, NEW n \in Node, NEW withState \in BOOLEAN, Save(n, withState)
    PROVE  StoreInv'
<1> DEFINE ver == live[n].ver + 1
           node == [ver |-> ver, ckpt |-> IF withState THEN Compress(codec, Bytes(ver)) ELSE live[n].ckpt]
           w == <<n, ver>>
<1>1. /\ saving[n] = "idle" /\ ver <= MaxVersion
      /\ live' = [live EXCEPT ![n] = node]
      /\ pipe' = [pipe EXCEPT ![w] = Pipeline(node)]
      /\ saving' = [saving EXCEPT ![n] = "awaiting"]
      /\ UNCHANGED <<ttl, codec, now, failed, data, blob, index, troubles, spoiled, acked>>
    BY DEF Save, settings, keys
<1>2. ver \in 1..MaxVersion /\ ver \in Nat /\ live[n].ver \in Nat /\ live[n].ver < ver
    BY <1>1, StoreTypes
<1>3. /\ node.ver = ver /\ node.ckpt \in Seq(Nat)
      /\ node.ckpt = NoBytes \/ IsBlob(node.ckpt, ver)
      /\ State(live[n].ckpt) <= State(node.ckpt)
    <2>1. CASE withState
        <3>1. node.ckpt = Compress(codec, Bytes(ver)) /\ codec \in Codec /\ ver \in 1..ver
            BY <1>2, <2>1 DEF StoreInv, SettingsInv
        <3>2. State(live[n].ckpt) <= ver
            BY <1>2, StateFacts
        <3> QED BY <1>2, <3>1, <3>2, RoundTrip DEF IsBlob
    <2>2. CASE ~withState
        <3>1. node.ckpt = live[n].ckpt
            BY <2>2
        <3>2. live[n].ckpt = NoBytes \/ (IsBlob(live[n].ckpt, ver) /\ State(live[n].ckpt) \in Nat)
            BY <1>2, BlobFacts DEF StoreInv, OwnersInv
        <3> QED BY <3>1, <3>2, Sentinels, StoreTypes
    <2> QED BY <2>1, <2>2
<1> HIDE DEF node
<1>4. /\ w \in Write /\ ttl \in Nat /\ now \in Nat /\ now \in 1..now
      /\ Pipeline(node) \in Seq(Cmd) /\ Rising(Pipeline(node)) /\ Len(Pipeline(node)) <= 5
      /\ Left(Pipeline(node)) = {1, 5} \cup (IF ttl = 0 THEN {} ELSE {2})
                 \cup (IF node.ckpt = NoBytes THEN {} ELSE {3} \cup (IF ttl = 0 THEN {} ELSE {4}))
      /\ \A c \in ToSet(Pipeline(node)) :
                 \/ c = Command("set", "data", Bytes(ver))
                 \/ ttl # 0 /\ c = Command("expire", "data", NoBytes)
                 \/ node.ckpt # NoBytes /\ c = Command("set", "blob", node.ckpt)
                 \/ ttl # 0 /\ c = Command("expire", "blob", NoBytes)
                 \/ c = Command("zadd", "index", Bytes(now))
    BY <1>2, <1>3, StoreTypes, NewPipeline
<1>5. PipeOf(ver, Pipeline(node), node, now, ttl)
    <2>1. ASSUME NEW c \in ToSet(Pipeline(node)) PROVE Sent(ver, c, node, now, ttl)
        <3>1. ASSUME node.ckpt # NoBytes, c = Command("set", "blob", node.ckpt)
              PROVE  c = Command("set", "blob", c.val) /\ IsBlob(c.val, ver) /\ c.val = node.ckpt
            BY <1>3, <3>1 DEF Command
        <3> QED BY <1>4, <3>1 DEF Sent
    <2> QED BY <1>2, <1>3, <1>4, <2>1 DEF PipeOf
<1>6. \A m \in Node : /\ live'[m] = IF m = n THEN node ELSE live[m]
                      /\ saving'[m] = IF m = n THEN "awaiting" ELSE saving[m]
    BY <1>1 DEF StoreInv, OwnersInv
<1>7. /\ \A x \in Write : pipe'[x] = IF x = w THEN Pipeline(node) ELSE pipe[x]
      /\ pipe' = [x \in Write |-> pipe'[x]]
    BY <1>1 DEF StoreInv, PipesInv
<1> HIDE DEF ver
<1>8. SettingsInv'
    BY <1>1 DEF StoreInv, SettingsInv
<1>9. OwnersInv'
    <2>1. node \in [ver : 0..MaxVersion, ckpt : Seq(Nat)]
        BY <1>2, <1>3 DEF node
    <2>2. live' \in [Node -> [ver : 0..MaxVersion, ckpt : Seq(Nat)]]
        BY <1>1, <2>1 DEF StoreInv, OwnersInv
    <2>3. saving' \in [Node -> {"idle", "awaiting", "gone"}]
        BY <1>1 DEF StoreInv, OwnersInv
    <2>4. \A m \in Node : /\ live'[m].ckpt = NoBytes \/ IsBlob(live'[m].ckpt, live'[m].ver)
                          /\ saving'[m] = "awaiting" => live'[m].ver # 0
        <3> TAKE m \in Node
        <3>1. CASE m = n
            BY <1>2, <1>3, <1>6, <3>1
        <3>2. CASE m # n
            BY <1>6, <3>2 DEF StoreInv, OwnersInv
        <3> QED BY <3>1, <3>2
    <2>5. failed' \subseteq Write /\ \A x \in failed' : Awaited(x)' /\ x[1] \in spoiled'
        BY <1>1, <1>6, StoreTypes DEF StoreInv, OwnersInv, Awaited
    <2> QED BY <2>2, <2>3, <2>4, <2>5 DEF OwnersInv
<1>10. PipesInv'
    <2> SUFFICES ASSUME NEW x \in Write
                 PROVE  PipeOf(x[2], pipe'[x], live'[x[1]], now', ttl')
        BY <1>7 DEF PipesInv
    <2>1. CASE x = w
        BY <1>1, <1>5, <1>6, <1>7, <2>1
    <2>2. CASE x # w
        <3>1. PipeOf(x[2], pipe[x], live[x[1]], now, ttl) /\ pipe'[x] = pipe[x]
            BY <1>7, <2>2 DEF StoreInv, PipesInv
        <3>2. CASE x[1] # n
            BY <1>1, <1>6, <3>1, <3>2, StoreTypes
        <3>3. CASE x[1] = n
            <4>1. x[2] # ver /\ x[2] \in Nat
                BY <2>2, <3>3, StoreTypes
            <4>2. PipeOf(x[2], pipe[x], live[n], now, ttl) /\ now <= now
                BY <1>4, <3>1, <3>3
            <4>3. node.ver \in Nat /\ live[n].ver <= node.ver /\ x[2] # node.ver
                BY <1>2, <1>3, <4>1
            <4>4. PipeOf(x[2], pipe[x], node, now, ttl)
                BY <1>2, <1>4, <4>1, <4>2, <4>3, PipeStays
            <4> QED BY <1>1, <1>6, <3>1, <3>3, <4>4
        <3> QED BY <3>2, <3>3
    <2> QED BY <2>1, <2>2
<1>11. KeysInv'
    <2>1. IsFiniteSet(Members)'
        BY <1>1 DEF StoreInv, KeysInv, Members
    <2>2. \A m \in Node : KeysOf(live'[m], data[m], blob[m], now, ttl)
        <3> TAKE m \in Node
        <3>1. KeysOf(live[m], data[m], blob[m], now, ttl)
            BY DEF StoreInv, KeysInv
        <3>2. CASE m = n
            <4>1. KeysOf(node, data[m], blob[m], now, ttl)
                BY <1>2, <1>3, <3>1, <3>2, KeysStay
            <4> QED BY <1>6, <3>2, <4>1
        <3> QED BY <1>6, <3>1, <3>2
    <2> QED BY <1>1, <2>1, <2>2 DEF StoreInv, KeysInv
<1>12. \A m \in Node : m # n => /\ live'[m] = live[m] /\ saving'[m] = saving[m]
                                /\ \A v \in 1..MaxVersion : pipe'[<<m, v>>] = pipe[<<m, v>>]
    BY <1>6, <1>7, StoreTypes
<1>13. ASSUME NEW m \in Node, m # n PROVE Pending(m)' = Pending(m)
    <2>1. saving[m] = "awaiting" => live[m].ver \in 1..MaxVersion
        BY PendingFacts
    <2> QED BY <1>12, <1>13, <2>1 DEF Pending
<1>14. /\ Pending(n)' = Left(Pipeline(node)) /\ live'[n] = node
       /\ 1 \in Pending(n)' /\ 5 \in Pending(n)' /\ (node.ckpt # NoBytes => 3 \in Pending(n)')
    <2>1. Pending(n)' = Left(Pipeline(node))
        BY <1>3, <1>4, <1>6, <1>7 DEF Pending
    <2> QED BY <1>4, <1>6, <2>1
<1>15. CleanInv'
    <2> SUFFICES ASSUME NEW m \in Node \ spoiled
                 PROVE  Quiet(m)' /\ CleanOf(Pending(m)', live'[m], data[m], blob[m], ttl)
        BY <1>1 DEF CleanInv
    <2>1. Quiet(m) /\ CleanOf(Pending(m), live[m], data[m], blob[m], ttl)
        BY DEF StoreInv, CleanInv
    <2>2. CASE m # n
        <3>1. Quiet(m)'
            BY <1>12, <2>1, <2>2 DEF Quiet
        <3> QED BY <1>12, <1>13, <2>1, <2>2, <3>1
    <2>3. CASE m = n
        <3>1. \A v \in 1..MaxVersion : pipe[<<n, v>>] = << >>
            BY <1>1, <2>1, <2>3 DEF Quiet
        <3>2. \A v \in 1..MaxVersion : v # ver => pipe'[<<n, v>>] = << >>
            BY <1>7, <3>1, StoreTypes
        <3>3. Quiet(m)'
            BY <1>3, <1>6, <2>3, <3>2 DEF Quiet
        <3>4. CleanOf(Pending(n)', node, data[n], blob[n], ttl)
            BY <1>14, <2>1, <2>3 DEF CleanOf
        <3> QED BY <1>14, <2>3, <3>3, <3>4
    <2> QED BY <2>2, <2>3
<1>16. ThereInv'
    <2> SUFFICES ASSUME ttl = 0, NEW m \in Node, saving'[m] = "awaiting", <<m, live'[m].ver>> \notin failed
                 PROVE  ThereOf(Pending(m)', live'[m], data[m], blob[m], index[m])
        BY <1>1 DEF ThereInv
    <2>1. CASE m # n
        BY <1>12, <1>13, <2>1 DEF StoreInv, ThereInv
    <2>2. CASE m = n
        <3>1. ThereOf(Pending(n)', node, data[n], blob[n], index[n])
            BY <1>14 DEF ThereOf
        <3> QED BY <1>14, <2>2, <3>1
    <2> QED BY <2>1, <2>2
<1>17. AckedInv'
    <2> SUFFICES ASSUME NEW a \in acked
                 PROVE  AckedOf(a, live'[a.node], data[a.node], blob[a.node], index[a.node],
                                a.node \notin spoiled, ttl)
        BY <1>1 DEF StoreInv, AckedInv
    <2>1. /\ AckedOf(a, live[a.node], data[a.node], blob[a.node], index[a.node], a.node \notin spoiled, ttl)
          /\ a.node \in Node /\ a.ver \in Nat /\ a.ckpt \in Nat
        BY DEF StoreInv, AckedInv
    <2>2. CASE a.node # n
        BY <1>12, <2>1, <2>2
    <2>3. CASE a.node = n
        <3>1. a.ver <= node.ver /\ a.ckpt <= State(node.ckpt)
            <4>1. a.ver <= live[n].ver /\ a.ckpt <= State(live[n].ckpt)
                BY <2>1, <2>3 DEF AckedOf
            <4>2. State(live[n].ckpt) \in Nat /\ State(node.ckpt) \in Nat
                <5>1. State(node.ckpt) \in 0..ver
                    BY <1>2, <1>3, StateOf
                <5>2. State(live[n].ckpt) \in 0..live[n].ver
                    BY StateFacts
                <5> QED BY <1>2, <5>1, <5>2
            <4> QED BY <1>2, <1>3, <2>1, <4>1, <4>2
        <3>2. AckedOf(a, node, data[n], blob[n], index[n], n \notin spoiled, ttl)
            BY <2>1, <2>3, <3>1 DEF AckedOf
        <3> QED BY <1>14, <2>3, <3>2
    <2> QED BY <2>2, <2>3
<1> QED BY <1>8, <1>9, <1>10, <1>11, <1>15, <1>16, <1>17 DEF StoreInv

\* What a step does, as a call that reads sees it.
Moves ==
    /\ ttl' = ttl /\ acked \subseteq acked' /\ spoiled \subseteq spoiled'
    /\ \A n \in Node : live[n].ver <= live'[n].ver
    /\ \A n \in Members : n \in Members' /\ index'[n] = index[n]
    /\ \A n \in Node \ spoiled : \/ data'[n] = NoKey
                                 \/ data[n] # NoKey /\ data'[n].val = data[n].val
                                 \/ data'[n].val = Bytes(live[n].ver)

\* The server carries out a command.
LEMMA ExecuteKeeps ==
    ASSUME StoreInv, NEW w \in Write, Execute(w)
    PROVE  StoreInv' /\ Moves
<1> DEFINE n == w[1]
           v == w[2]
           p == pipe[w]
           c == Head(p)
           d2 == IF c.key = "data" THEN After(data[n], c) ELSE data[n]
           b2 == IF c.key = "blob" THEN After(blob[n], c) ELSE blob[n]
           score2 == IF c.key = "index" /\ index[n] = 0 THEN Number(c.val) ELSE index[n]
           gone == Place(c)
<1>1. /\ p # << >>
      /\ pipe' = [pipe EXCEPT ![w] = Tail(p)]
      /\ data' = IF c.key = "data" THEN [data EXCEPT ![n] = After(data[n], c)] ELSE data
      /\ blob' = IF c.key = "blob" THEN [blob EXCEPT ![n] = After(blob[n], c)] ELSE blob
      /\ index' = IF c.key = "index" /\ index[n] = 0 THEN [index EXCEPT ![n] = Number(c.val)] ELSE index
      /\ UNCHANGED <<ttl, codec, now, live, saving, failed, reader, troubles, spoiled, acked>>
    BY DEF Execute, settings
<1>2. /\ n \in Node /\ v \in 1..MaxVersion /\ w = <<n, v>> /\ ttl \in Nat /\ now \in Nat
      /\ live[n].ver \in Nat /\ data[n] \in Key /\ blob[n] \in Key
    BY StoreTypes
<1>3. PipeOf(v, p, live[n], now, ttl)
    BY DEF StoreInv, PipesInv
<1>4. /\ c \in Cmd /\ c \in ToSet(p) /\ gone \in Left(p) /\ Tail(p) \in Seq(Cmd)
      /\ Left(p) \subseteq 1..5 /\ Left(Tail(p)) = Left(p) \ {gone}
      /\ \A k \in Left(Tail(p)) : gone < k
    BY <1>1, <1>3, NextCommand DEF PipeOf
<1>5. Sent(v, c, live[n], now, ttl) /\ v \in 1..live[n].ver
    BY <1>1, <1>2, <1>3, <1>4 DEF PipeOf
<1>6. KeysOf(live[n], data[n], blob[n], now, ttl)
    BY <1>2 DEF StoreInv, KeysInv
<1>7. \A m \in Node : /\ data'[m] = IF m = n THEN d2 ELSE data[m]
                      /\ blob'[m] = IF m = n THEN b2 ELSE blob[m]
                      /\ index'[m] = IF m = n THEN score2 ELSE index[m]
    BY <1>1, <1>2 DEF StoreInv, KeysInv
<1>8. /\ \A x \in Write : pipe'[x] = IF x = w THEN Tail(p) ELSE pipe[x]
      /\ pipe' = [x \in Write |-> pipe'[x]]
    BY <1>1 DEF StoreInv, PipesInv
<1>9. /\ d2 \in Key /\ b2 \in Key
      /\ gone = 1 => d2 # NoKey /\ d2.val = Bytes(v)
      /\ gone = 2 => (d2 = NoKey <=> data[n] = NoKey) /\ d2.val = data[n].val
      /\ gone \notin {1, 2} => d2 = data[n]
      /\ gone = 3 => b2 # NoKey
      /\ gone = 4 => (b2 = NoKey <=> blob[n] = NoKey)
      /\ gone \notin {3, 4} => b2 = blob[n]
      /\ gone = 5 <=> c.key = "index"
      /\ gone = 5 => Number(c.val) \in 1..now
      /\ KeysOf(live[n], d2, b2, now, ttl)
    <2> HIDE DEF d2, b2, c, p, n, v, gone
    <2>1. d2 = (IF c.key = "data" THEN After(data[n], c) ELSE data[n])
        BY DEF d2
    <2>2. b2 = (IF c.key = "blob" THEN After(blob[n], c) ELSE blob[n])
        BY DEF b2
    <2> QED BY <1>2, <1>4, <1>5, <1>6, <2>1, <2>2, Carried DEF gone
<1>10. /\ data[n] # NoKey => d2 # NoKey
       /\ blob[n] # NoKey => b2 # NoKey
       /\ index[n] # 0 => score2 # 0
    BY <1>9
<1> HIDE DEF d2, b2, score2, gone
<1>11. SettingsInv' /\ OwnersInv'
    BY <1>1 DEF StoreInv, SettingsInv, OwnersInv, Awaited
<1>12. PipesInv'
    <2> SUFFICES ASSUME NEW x \in Write
                 PROVE  PipeOf(x[2], pipe'[x], live[x[1]], now, ttl)
        BY <1>1, <1>8 DEF PipesInv
    <2>1. CASE x = w
        BY <1>1, <1>3, <1>8, <2>1, OneCommandLess
    <2>2. CASE x # w
        BY <1>8, <2>2 DEF StoreInv, PipesInv
    <2> QED BY <2>1, <2>2
<1>13. KeysInv'
    <2>1. data' \in [Node -> Key] /\ blob' \in [Node -> Key]
        <3>1. data \in [Node -> Key] /\ blob \in [Node -> Key]
            BY DEF StoreInv, KeysInv, Key
        <3>2. /\ c.key = "data" => After(data[n], c) \in Key
              /\ c.key = "blob" => After(blob[n], c) \in Key
            BY <1>9 DEF d2, b2
        <3> QED BY <1>1, <1>2, <3>1, <3>2
    <2>2. index' \in [Node -> 0..MaxNow] /\ \A m \in Node : index'[m] <= now
        <3>1. index \in [Node -> 0..MaxNow] /\ (\A m \in Node : index[m] <= now) /\ now \in 1..MaxNow
            BY DEF StoreInv, KeysInv, SettingsInv
        <3>2. c.key = "index" => Number(c.val) \in 1..now /\ Number(c.val) \in 0..MaxNow
            <4>1. \A k \in 1..now : k \in 0..MaxNow
                BY <1>2, <3>1, BoundsAssumption
            <4> QED BY <1>9, <4>1
        <3>3. index' \in [Node -> 0..MaxNow]
            BY <1>1, <1>2, <3>1, <3>2
        <3>4. score2 <= now
            BY <1>2, <3>1, <3>2 DEF score2
        <3> QED BY <1>7, <3>1, <3>3, <3>4
    <2>3. IsFiniteSet(Members')
        <3>1. Members' \subseteq Members \cup {n}
            BY <1>7 DEF Members
        <3>2. IsFiniteSet(Members \cup {n})
            BY FS_AddElement DEF StoreInv, KeysInv
        <3> QED BY <3>1, <3>2, FS_Subset
    <2>4. \A m \in Node : KeysOf(live[m], data'[m], blob'[m], now, ttl)
        BY <1>7, <1>9 DEF StoreInv, KeysInv
    <2> QED BY <1>1, <2>1, <2>2, <2>3, <2>4 DEF KeysInv, Key
<1>14. ASSUME NEW m \in Node
       PROVE  /\ saving[m] = "awaiting" /\ w = <<m, live[m].ver>> =>
                     m = n /\ v = live[n].ver /\ Pending(m) = Left(p) /\ Pending(m)' = Pending(m) \ {gone}
              /\ ~ (saving[m] = "awaiting" /\ w = <<m, live[m].ver>>) => Pending(m)' = Pending(m)
    <2>1. saving[m] = "awaiting" => <<m, live[m].ver>> \in Write
        BY PendingFacts
    <2>2. CASE saving[m] = "awaiting" /\ w = <<m, live[m].ver>>
        <3>1. m = n /\ v = live[n].ver
            BY <2>2
        <3>2. Pending(m) = Left(p) /\ Pending(m)' = Left(Tail(p))
            BY <1>1, <1>8, <2>1, <2>2 DEF Pending
        <3> QED BY <1>4, <2>2, <3>1, <3>2
    <2>3. CASE saving[m] = "awaiting" /\ w # <<m, live[m].ver>>
        BY <1>1, <1>8, <2>1, <2>3 DEF Pending
    <2>4. CASE saving[m] # "awaiting"
        BY <1>1, <2>4 DEF Pending
    <2> QED BY <2>2, <2>3, <2>4
<1>15. n \notin spoiled => saving[n] = "awaiting" /\ v = live[n].ver /\ w = <<n, live[n].ver>>
    BY <1>1, <1>2 DEF StoreInv, CleanInv, Quiet
<1>16. CleanInv'
    <2> SUFFICES ASSUME NEW m \in Node \ spoiled
                 PROVE  Quiet(m)' /\ CleanOf(Pending(m)', live[m], data'[m], blob'[m], ttl)
        BY <1>1 DEF CleanInv
    <2>1. Quiet(m) /\ CleanOf(Pending(m), live[m], data[m], blob[m], ttl)
        BY DEF StoreInv, CleanInv
    <2>2. \A u \in 1..MaxVersion : pipe'[<<m, u>>] # << >> => pipe[<<m, u>>] # << >>
        BY <1>1, <1>8, StoreTypes
    <2>3. Quiet(m)'
        BY <1>1, <2>1, <2>2 DEF Quiet
    <2>4. CASE m # n
        <3>1. Pending(m)' = Pending(m)
            BY <1>14, <2>4
        <3> QED BY <1>7, <2>1, <2>3, <2>4, <3>1
    <2>5. CASE m = n
        <3>1. /\ Pending(n) = Left(p) /\ Pending(n)' = Pending(n) \ {gone} /\ v = live[n].ver
              /\ gone \in Pending(n) /\ Pending(n) \in SUBSET (1..5)
              /\ \A k \in Pending(n) \ {gone} : gone < k
              /\ live[n].ver \in Nat \ {0}
            BY <1>2, <1>4, <1>14, <1>15, <2>5
        <3>2. /\ ttl # 0 => (1 \in Pending(n) => 2 \in Pending(n)) /\ (3 \in Pending(n) => 4 \in Pending(n))
              /\ live[n].ckpt # NoBytes /\ (1 \in Pending(n) \/ 2 \in Pending(n)) => 3 \in Pending(n)
            BY <1>2, PendingFacts
        <3>3. CleanOf(Pending(n) \ {gone}, live[n], d2, b2, ttl)
            <4> DEFINE left == Pending(n)
            <4>1. /\ left \in SUBSET (1..5) /\ gone \in left /\ (\A k \in left \ {gone} : gone < k)
                  /\ ttl # 0 => (1 \in left => 2 \in left) /\ (3 \in left => 4 \in left)
                  /\ live[n].ckpt # NoBytes /\ (1 \in left \/ 2 \in left) => 3 \in left
                  /\ CleanOf(left, live[n], data[n], blob[n], ttl)
                BY <2>1, <2>5, <3>1, <3>2
            <4>2. Sent(live[n].ver, c, live[n], now, ttl) /\ gone = Place(c)
                BY <1>5, <3>1 DEF gone
            <4> HIDE DEF left
            <4>3. CleanOf(left \ {gone}, live[n], d2, b2, ttl)
                BY <1>2, <1>4, <1>6, <3>1, <4>1, <4>2, CleanCarried DEF d2, b2
            <4> QED BY <4>3 DEF left
        <3> QED BY <1>7, <2>3, <2>5, <3>1, <3>3
    <2> QED BY <2>4, <2>5
<1>17. ThereInv'
    <2> SUFFICES ASSUME ttl = 0, NEW m \in Node, saving[m] = "awaiting", <<m, live[m].ver>> \notin failed
                 PROVE  ThereOf(Pending(m)', live[m], data'[m], blob'[m], index'[m])
        BY <1>1 DEF ThereInv
    <2>1. ThereOf(Pending(m), live[m], data[m], blob[m], index[m])
        BY DEF StoreInv, ThereInv
    <2>2. CASE m # n
        <3>1. Pending(m)' = Pending(m)
            BY <1>14, <2>2
        <3> QED BY <1>7, <2>1, <2>2, <3>1
    <2>3. CASE m = n /\ w # <<m, live[m].ver>>
        <3>1. Pending(m)' = Pending(m) /\ data'[m] = d2 /\ blob'[m] = b2 /\ index'[m] = score2
            BY <1>7, <1>14, <2>3
        <3> QED BY <1>10, <2>1, <2>3, <3>1 DEF ThereOf
    <2>4. CASE m = n /\ w = <<m, live[m].ver>>
        <3>1. /\ Pending(m)' = Pending(m) \ {gone} /\ gone \in Pending(m) /\ v = live[n].ver
              /\ data'[m] = d2 /\ blob'[m] = b2 /\ index'[m] = score2
            BY <1>4, <1>7, <1>14, <2>4
        <3>2. /\ gone = 1 => d2 # NoKey
              /\ gone = 3 => b2 # NoKey
              /\ gone = 5 => score2 # 0
            BY <1>2, <1>9 DEF score2
        <3> QED BY <1>10, <2>1, <2>4, <3>1, <3>2 DEF ThereOf
    <2> QED BY <2>2, <2>3, <2>4
<1>18. AckedInv'
    <2> SUFFICES ASSUME NEW a \in acked
                 PROVE  AckedOf(a, live[a.node], data'[a.node], blob'[a.node], index'[a.node],
                                a.node \notin spoiled, ttl)
        BY <1>1 DEF StoreInv, AckedInv
    <2>1. /\ AckedOf(a, live[a.node], data[a.node], blob[a.node], index[a.node], a.node \notin spoiled, ttl)
          /\ a.node \in Node /\ a.ver \in Nat /\ a.ckpt \in Nat
        BY DEF StoreInv, AckedInv
    <2>2. CASE a.node # n
        BY <1>7, <2>1, <2>2
    <2>3. CASE a.node = n
        <3> DEFINE clean == n \notin spoiled
        <3>1. /\ clean \in BOOLEAN /\ (clean => v = live[n].ver)
              /\ AckedOf(a, live[n], data[n], blob[n], index[n], clean, ttl)
            BY <1>15, <2>1, <2>3
        <3> HIDE DEF clean
        <3>2. AckedOf(a, live[n], d2, b2, score2, clean, ttl)
            BY <1>2, <1>4, <1>5, <1>6, <2>1, <3>1, AckedCarried DEF d2, b2, score2
        <3>3. AckedOf(a, live[n], d2, b2, score2, n \notin spoiled, ttl)
            BY <3>2 DEF clean
        <3>4. data'[n] = d2 /\ blob'[n] = b2 /\ index'[n] = score2
            BY <1>2, <1>7
        <3> QED BY <2>3, <3>3, <3>4
    <2> QED BY <2>2, <2>3
<1>19. Moves
    <2>1. \A m \in Node : live[m].ver <= live'[m].ver
        BY <1>1, StoreTypes
    <2>2. ASSUME NEW m \in Members PROVE m \in Members' /\ index'[m] = index[m]
        <3>1. m \in Node /\ index[m] # 0
            BY DEF Members
        <3>2. m = n => score2 = index[m]
            BY <3>1 DEF score2
        <3> QED BY <1>7, <3>1, <3>2 DEF Members
    <2>3. ASSUME NEW m \in Node \ spoiled
          PROVE  \/ data'[m] = NoKey
                 \/ data[m] # NoKey /\ data'[m].val = data[m].val
                 \/ data'[m].val = Bytes(live[m].ver)
        <3>1. CASE m # n
            BY <1>7, <3>1
        <3>2. CASE m = n
            <4>1. data'[m] = d2 /\ v = live[n].ver
                BY <1>7, <1>15, <3>2
            <4> QED BY <1>9, <3>2, <4>1
        <3> QED BY <3>1, <3>2
    <2> QED BY <1>1, <2>1, <2>2, <2>3 DEF Moves
<1> QED BY <1>11, <1>12, <1>13, <1>16, <1>17, <1>18, <1>19 DEF StoreInv

\* What nothing of the store but the pipes, the failures and the callers changes.
LEMMA KeysRest ==
    ASSUME KeysInv, UNCHANGED <<live, data, blob, index, now, ttl>>
    PROVE  KeysInv'
BY DEF KeysInv, Members, KeysOf, Lives, IsBlob

\* A save that fails, is given up or is left by its process spoils its node: nothing
\* more is said of it, of what was acknowledged before only that it is there.
LEMMA Spoiling ==
    ASSUME StoreInv, spoiled \subseteq spoiled', UNCHANGED <<live, data, blob, index, ttl, acked>>
    PROVE  AckedInv'
<1> SUFFICES ASSUME NEW a \in acked
             PROVE  AckedOf(a, live[a.node], data[a.node], blob[a.node], index[a.node],
                            a.node \notin spoiled', ttl)
    BY DEF StoreInv, AckedInv
<1>1. AckedOf(a, live[a.node], data[a.node], blob[a.node], index[a.node], a.node \notin spoiled, ttl)
    BY DEF StoreInv, AckedInv
<1>2. a.node \notin spoiled' => a.node \notin spoiled
    OBVIOUS
<1> QED BY <1>1, <1>2 DEF AckedOf

\* Commands are lost, of a save that is awaited or of one that is not.
LEMMA LosesKeeps ==
    ASSUME StoreInv, NEW w \in Write,
           pipe' \in {[pipe EXCEPT ![w] = Tail(pipe[w])], [pipe EXCEPT ![w] = << >>]}, pipe[w] # << >>,
           UNCHANGED <<live, saving, data, blob, index, now, ttl>>,
           Awaited(w) \/ pipe' = [pipe EXCEPT ![w] = << >>]
    PROVE  /\ PipesInv'
           /\ \A n \in Node : n # w[1] \/ ~Awaited(w) => Pending(n)' = Pending(n)
           /\ \A n \in Node : Quiet(n) => Quiet(n)'
<1>1. /\ \A x \in Write : x # w => pipe'[x] = pipe[x]
      /\ pipe'[w] \in {Tail(pipe[w]), << >>} /\ pipe' = [x \in Write |-> pipe'[x]]
    BY DEF StoreInv, PipesInv
<1>2. PipesInv'
    <2> SUFFICES ASSUME NEW x \in Write PROVE PipeOf(x[2], pipe'[x], live[x[1]], now, ttl)
        BY <1>1 DEF PipesInv
    <2>1. PipeOf(x[2], pipe[x], live[x[1]], now, ttl)
        BY DEF StoreInv, PipesInv
    <2>2. CASE pipe'[x] = pipe[x]
        BY <2>1, <2>2
    <2>3. CASE pipe'[x] = << >>
        BY <2>3, NoCommands
    <2>4. CASE x = w /\ pipe'[x] = Tail(pipe[x])
        BY <2>1, <2>4, OneCommandLess
    <2> QED BY <1>1, <2>2, <2>3, <2>4
<1>3. ASSUME NEW n \in Node, n # w[1] \/ ~Awaited(w) PROVE Pending(n)' = Pending(n)
    <2>1. CASE saving[n] # "awaiting"
        BY <2>1 DEF Pending
    <2>2. CASE saving[n] = "awaiting"
        <3>1. <<n, live[n].ver>> \in Write /\ <<n, live[n].ver>> # w
            <4>1. <<n, live[n].ver>> \in Write
                BY <2>2, PendingFacts
            <4>2. <<n, live[n].ver>>[1] = n /\ <<n, live[n].ver>>[2] = live[n].ver
                OBVIOUS
            <4> QED BY <1>3, <2>2, <4>1, <4>2 DEF Awaited
        <3> QED BY <1>1, <3>1 DEF Pending
    <2> QED BY <2>1, <2>2
<1>4. ASSUME NEW n \in Node, Quiet(n) PROVE Quiet(n)'
    <2>1. \A u \in 1..MaxVersion : pipe'[<<n, u>>] # << >> => pipe[<<n, u>>] # << >>
        BY <1>1, StoreTypes
    <2> QED BY <1>4, <2>1 DEF Quiet
<1> QED BY <1>2, <1>3, <1>4

LEMMA FaultKeeps ==
    ASSUME StoreInv, NEW w \in Write, Fault(w)
    PROVE  StoreInv'
<1>1. /\ pipe[w] # << >> /\ Awaited(w) /\ troubles < MaxTroubles /\ troubles' = troubles + 1
      /\ pipe' \in {[pipe EXCEPT ![w] = Tail(pipe[w])], [pipe EXCEPT ![w] = << >>]}
      /\ failed' = failed \cup {w} /\ spoiled' = spoiled \cup {w[1]}
      /\ UNCHANGED <<ttl, codec, now, live, saving, data, blob, index, acked>>
    BY DEF Fault, settings, keys
<1>2. /\ PipesInv' /\ \A n \in Node : n # w[1] => Pending(n)' = Pending(n)
      /\ \A n \in Node : Quiet(n) => Quiet(n)'
    BY <1>1, LosesKeeps
<1>3. w[1] \in Node /\ w = <<w[1], live[w[1]].ver>>
    BY <1>1, StoreTypes DEF Awaited
<1>4. SettingsInv'
    <2>1. troubles + 1 \in 0..MaxTroubles
        BY <1>1, BoundsAssumption DEF StoreInv, SettingsInv
    <2> QED BY <1>1, <1>3, <2>1 DEF StoreInv, SettingsInv
<1>5. OwnersInv'
    BY <1>1 DEF StoreInv, OwnersInv, Awaited
<1>6. KeysInv'
    BY <1>1, KeysRest DEF StoreInv
<1>7. CleanInv'
    BY <1>1, <1>2 DEF StoreInv, CleanInv
<1>8. ThereInv'
    <2> SUFFICES ASSUME ttl = 0, NEW m \in Node, saving[m] = "awaiting", <<m, live[m].ver>> \notin failed'
                 PROVE  ThereOf(Pending(m)', live[m], data[m], blob[m], index[m])
        BY <1>1 DEF ThereInv
    <2>1. m # w[1] /\ <<m, live[m].ver>> \notin failed
        BY <1>1, <1>3
    <2> QED BY <1>2, <2>1 DEF StoreInv, ThereInv
<1>9. AckedInv'
    BY <1>1, Spoiling
<1> QED BY <1>2, <1>4, <1>5, <1>6, <1>7, <1>8, <1>9 DEF StoreInv

LEMMA CutKeeps ==
    ASSUME StoreInv, NEW w \in Write, Cut(w)
    PROVE  StoreInv'
<1>1. /\ pipe[w] # << >> /\ ~Awaited(w) /\ pipe' = [pipe EXCEPT ![w] = << >>]
      /\ UNCHANGED <<ttl, codec, now, live, saving, failed, data, blob, index, troubles, spoiled, acked>>
    BY DEF Cut, settings, keys
<1>2. /\ PipesInv' /\ \A n \in Node : Pending(n)' = Pending(n)
      /\ \A n \in Node : Quiet(n) => Quiet(n)'
    BY <1>1, LosesKeeps
<1>3. SettingsInv' /\ OwnersInv'
    BY <1>1 DEF StoreInv, SettingsInv, OwnersInv, Awaited
<1>4. KeysInv' /\ AckedInv'
    BY <1>1, KeysRest, Spoiling DEF StoreInv
<1>5. CleanInv' /\ ThereInv'
    BY <1>1, <1>2 DEF StoreInv, CleanInv, ThereInv
<1> QED BY <1>2, <1>3, <1>4, <1>5 DEF StoreInv

\* A save that returned True has carried out all of its pipeline.
LEMMA ReturnTrueKeeps ==
    ASSUME StoreInv, NEW n \in Node, ReturnTrue(n)
    PROVE  StoreInv'
<1> DEFINE w == <<n, live[n].ver>>
           new == [node |-> n, ver |-> live[n].ver, ckpt |-> Number(Decoded(live[n].ckpt))]
<1>1. /\ saving[n] = "awaiting" /\ pipe[w] = << >> /\ w \notin failed
      /\ saving' = [saving EXCEPT ![n] = "idle"] /\ acked' = acked \cup {new}
      /\ UNCHANGED <<ttl, codec, now, live, pipe, failed, data, blob, index, troubles, spoiled>>
    BY DEF ReturnTrue, settings, keys
<1>2. /\ live[n].ver \in 1..MaxVersion /\ w \in Write /\ live[n].ver \in Nat
      /\ new.ckpt = State(live[n].ckpt) /\ State(live[n].ckpt) \in 0..live[n].ver /\ new.node = n
      /\ new.ver = live[n].ver
    BY <1>1, PendingFacts, StoreTypes, StateFacts, DecodedIs
<1>3. new \in [node : Node, ver : 1..MaxVersion, ckpt : 0..MaxVersion]
    <2>1. State(live[n].ckpt) \in 0..MaxVersion
        BY <1>2, BoundsAssumption
    <2> QED BY <1>2, <2>1, DecodedIs
<1> HIDE DEF new
<1>4. \A m \in Node : saving'[m] = IF m = n THEN "idle" ELSE saving[m]
    BY <1>1 DEF StoreInv, OwnersInv
<1>5. Pending(n) = {} /\ Pending(n)' = {}
    <2>1. Left(<< >>) = {}
        BY NothingLeft, << >> \in Seq(Cmd)
    <2> QED BY <1>1, <1>4, <2>1 DEF Pending
<1>6. \A m \in Node : Pending(m)' = Pending(m)
    BY <1>1, <1>4, <1>5 DEF Pending
<1>7. SettingsInv' /\ PipesInv'
    BY <1>1 DEF StoreInv, SettingsInv, PipesInv
<1>8. OwnersInv'
    <2>1. saving' \in [Node -> {"idle", "awaiting", "gone"}]
        BY <1>1 DEF StoreInv, OwnersInv
    <2>2. failed \subseteq Write /\ \A x \in failed : Awaited(x) /\ x[1] \in spoiled
        BY DEF StoreInv, OwnersInv
    <2>3. \A x \in failed : x[1] # n /\ x[1] \in Node
        BY <1>1, <2>2, StoreTypes DEF Awaited
    <2>4. \A x \in failed : Awaited(x)'
        BY <1>1, <1>4, <2>2, <2>3 DEF Awaited
    <2>5. \A m \in Node : saving'[m] = "awaiting" => saving[m] = "awaiting"
        BY <1>4
    <2> QED BY <1>1, <2>1, <2>2, <2>4, <2>5 DEF StoreInv, OwnersInv
<1>9. KeysInv'
    BY <1>1, KeysRest DEF StoreInv
<1>10. CleanInv'
    <2> SUFFICES ASSUME NEW m \in Node \ spoiled
                 PROVE  Quiet(m)' /\ CleanOf(Pending(m), live[m], data[m], blob[m], ttl)
        BY <1>1, <1>6 DEF CleanInv
    <2>1. Quiet(m) /\ CleanOf(Pending(m), live[m], data[m], blob[m], ttl)
        BY DEF StoreInv, CleanInv
    <2>2. Quiet(m)'
        BY <1>1, <1>4, <2>1 DEF Quiet
    <2> QED BY <2>1, <2>2
<1>11. ThereInv'
    <2> SUFFICES ASSUME ttl = 0, NEW m \in Node, saving'[m] = "awaiting", <<m, live[m].ver>> \notin failed
                 PROVE  ThereOf(Pending(m), live[m], data[m], blob[m], index[m])
        BY <1>1, <1>6 DEF ThereInv
    <2> QED BY <1>4 DEF StoreInv, ThereInv
<1>12. AckedInv'
    <2>1. ASSUME NEW a \in acked
          PROVE  AckedOf(a, live[a.node], data[a.node], blob[a.node], index[a.node], a.node \notin spoiled, ttl)
        BY DEF StoreInv, AckedInv
    <2>2. AckedOf(new, live[n], data[n], blob[n], index[n], n \notin spoiled, ttl)
        <3>1. new.ver <= live[n].ver /\ new.ckpt <= State(live[n].ckpt)
            BY <1>2
        <3>2. ASSUME ttl = 0
              PROVE  data[n] # NoKey /\ index[n] # 0 /\ (new.ckpt # 0 => blob[n] # NoKey)
            <4>1. ThereOf({}, live[n], data[n], blob[n], index[n])
                BY <1>1, <1>5, <3>2 DEF StoreInv, ThereInv
            <4>2. new.ckpt # 0 => live[n].ckpt # NoBytes
                BY <1>2, Sentinels
            <4> QED BY <4>1, <4>2 DEF ThereOf
        <3>3. ASSUME ttl = 0, n \notin spoiled
              PROVE  Number(data[n].val) >= new.ver /\ State(blob[n].val) >= new.ckpt
            <4>1. CleanOf({}, live[n], data[n], blob[n], ttl)
                BY <1>5, <3>3 DEF StoreInv, CleanInv
            <4>2. data[n].val = Bytes(live[n].ver)
                BY <3>2, <3>3, <4>1 DEF CleanOf
            <4>3. Number(data[n].val) >= new.ver
                BY <1>2, <4>2, Sentinels
            <4>4. CASE new.ckpt = 0
                <5>1. KeysOf(live[n], data[n], blob[n], now, ttl)
                    BY DEF StoreInv, KeysInv
                <5>2. State(blob[n].val) \in 0..live[n].ver
                    BY <1>2, <5>1, KeyFacts, StoreTypes
                <5> QED BY <4>3, <4>4, <5>2
            <4>5. CASE new.ckpt # 0
                <5>1. live[n].ckpt # NoBytes
                    BY <1>2, <4>5, Sentinels
                <5>2. blob[n].val = live[n].ckpt
                    BY <3>2, <3>3, <4>1, <4>5, <5>1 DEF CleanOf
                <5> QED BY <1>2, <4>3, <5>2
            <4> QED BY <4>4, <4>5
        <3> QED BY <3>1, <3>2, <3>3 DEF AckedOf
    <2>3. acked' \subseteq [node : Node, ver : 1..MaxVersion, ckpt : 0..MaxVersion]
        BY <1>1, <1>3 DEF StoreInv, AckedInv
    <2> QED BY <1>1, <1>2, <2>1, <2>2, <2>3 DEF AckedInv
<1> QED BY <1>7, <1>8, <1>9, <1>10, <1>11, <1>12 DEF StoreInv

\* Saves that end without True.
LEMMA LeavingKeeps ==
    ASSUME StoreInv, SettingsInv', spoiled \subseteq spoiled',
           saving' \in [Node -> {"idle", "awaiting", "gone"}],
           \A n \in Node : saving'[n] = "awaiting" => saving[n] = "awaiting",
           \A n \in Node : saving[n] = "awaiting" /\ saving'[n] # "awaiting" => n \in spoiled',
           failed' = {x \in failed : saving'[x[1]] = "awaiting"},
           UNCHANGED <<ttl, now, live, pipe, data, blob, index, acked>>
    PROVE  StoreInv'
<1>1. OwnersInv'
    <2>1. failed \subseteq Write /\ \A x \in failed : Awaited(x) /\ x[1] \in spoiled
        BY DEF StoreInv, OwnersInv
    <2>2. failed' \subseteq Write /\ \A x \in failed' : Awaited(x)' /\ x[1] \in spoiled'
        BY <2>1 DEF Awaited
    <2> QED BY <2>2 DEF StoreInv, OwnersInv
<1>2. PipesInv' /\ KeysInv' /\ AckedInv'
    BY KeysRest, Spoiling DEF StoreInv, PipesInv
<1>3. CleanInv'
    <2> SUFFICES ASSUME NEW m \in Node \ spoiled'
                 PROVE  Quiet(m)' /\ CleanOf(Pending(m)', live[m], data[m], blob[m], ttl)
        BY DEF CleanInv
    <2>1. Quiet(m) /\ CleanOf(Pending(m), live[m], data[m], blob[m], ttl)
        BY DEF StoreInv, CleanInv
    <2>2. saving[m] = "awaiting" <=> saving'[m] = "awaiting"
        OBVIOUS
    <2>3. Quiet(m)' /\ Pending(m)' = Pending(m)
        BY <2>1, <2>2 DEF Quiet, Pending
    <2> QED BY <2>1, <2>3
<1>4. ThereInv'
    <2> SUFFICES ASSUME ttl = 0, NEW m \in Node, saving'[m] = "awaiting", <<m, live[m].ver>> \notin failed'
                 PROVE  ThereOf(Pending(m)', live[m], data[m], blob[m], index[m])
        BY DEF ThereInv
    <2>1. saving[m] = "awaiting" /\ <<m, live[m].ver>> \notin failed
        OBVIOUS
    <2>2. Pending(m)' = Pending(m)
        BY <2>1 DEF Pending
    <2> QED BY <2>1, <2>2 DEF StoreInv, ThereInv
<1> QED BY <1>1, <1>2, <1>3, <1>4 DEF StoreInv

LEMMA GivingUpKeeps ==
    ASSUME StoreInv, NEW n \in Node, Raise(n) \/ Miss(n)
    PROVE  StoreInv'
<1> DEFINE w == <<n, live[n].ver>>
<1>1. /\ saving[n] = "awaiting" /\ saving' = [saving EXCEPT ![n] = "idle"] /\ failed' = failed \ {w}
      /\ spoiled' \in {spoiled, spoiled \cup {n}} /\ (w \in failed \/ n \in spoiled')
      /\ troubles' \in {troubles, troubles + 1} /\ (troubles' = troubles \/ troubles < MaxTroubles)
      /\ UNCHANGED <<ttl, codec, now, live, pipe, data, blob, index, acked>>
    BY DEF Raise, Miss, settings, keys
<1>2. failed \subseteq Write /\ \A x \in failed : Awaited(x) /\ x[1] \in spoiled
    BY DEF StoreInv, OwnersInv
<1>3. w \in failed => n \in spoiled
    BY <1>2
<1>4. \A x \in failed : x[1] = n <=> x = w
    BY <1>2, StoreTypes DEF Awaited
<1>5. /\ saving' \in [Node -> {"idle", "awaiting", "gone"}]
      /\ \A m \in Node : saving'[m] = IF m = n THEN "idle" ELSE saving[m]
    BY <1>1 DEF StoreInv, OwnersInv
<1> HIDE DEF w
<1>6. failed' = {x \in failed : saving'[x[1]] = "awaiting"}
    <2>1. \A x \in failed : x[1] \in Node /\ saving[x[1]] = "awaiting"
        BY <1>2, StoreTypes DEF Awaited
    <2> QED BY <1>1, <1>4, <1>5, <2>1
<1>7. SettingsInv'
    <2>1. troubles' \in 0..MaxTroubles
        BY <1>1, BoundsAssumption DEF StoreInv, SettingsInv
    <2> QED BY <1>1, <2>1 DEF StoreInv, SettingsInv
<1>8. \A m \in Node : /\ saving'[m] = "awaiting" => saving[m] = "awaiting"
                      /\ saving[m] = "awaiting" /\ saving'[m] # "awaiting" => m \in spoiled'
    BY <1>1, <1>3, <1>5
<1>9. spoiled \subseteq spoiled'
    BY <1>1
<1> QED BY <1>1, <1>5, <1>6, <1>7, <1>8, <1>9, LeavingKeeps

LEMMA RestartKeeps == ASSUME StoreInv, Restart PROVE StoreInv'
<1>1. /\ troubles < MaxTroubles /\ troubles' = troubles + 1 /\ codec' \in Codec /\ failed' = {}
      /\ spoiled' = spoiled \cup {n \in Node : saving[n] = "awaiting"}
      /\ saving' = [n \in Node |-> IF live[n].ver = 0 THEN "idle" ELSE "gone"]
      /\ UNCHANGED <<ttl, now, live, pipe, data, blob, index, acked>>
    BY DEF Restart, keys
<1>2. /\ saving' \in [Node -> {"idle", "awaiting", "gone"}]
      /\ \A m \in Node : saving'[m] # "awaiting"
    BY <1>1
<1>3. failed' = {x \in failed : saving'[x[1]] = "awaiting"}
    <2>1. \A x \in failed : x[1] \in Node
        BY StoreTypes DEF StoreInv, OwnersInv
    <2> QED BY <1>1, <1>2, <2>1
<1>4. SettingsInv'
    <2>1. troubles' \in 0..MaxTroubles
        BY <1>1, BoundsAssumption DEF StoreInv, SettingsInv
    <2> QED BY <1>1, <2>1 DEF StoreInv, SettingsInv
<1>5. /\ spoiled \subseteq spoiled'
      /\ \A m \in Node : saving[m] = "awaiting" => m \in spoiled'
    BY <1>1
<1> QED BY <1>1, <1>2, <1>3, <1>4, <1>5, LeavingKeeps

LEMMA TickKeeps == ASSUME StoreInv, Tick PROVE StoreInv'
<1>1. /\ now < MaxNow /\ now' = now + 1
      /\ data' = [n \in Node |-> Expired(data[n])] /\ blob' = [n \in Node |-> Expired(blob[n])]
      /\ UNCHANGED <<ttl, codec, live, saving, pipe, failed, index, troubles, spoiled, acked>>
    BY DEF Tick, settings, engineVars
<1>2. ttl \in Nat /\ now \in Nat /\ now' \in Nat /\ now <= now' /\ now' \in 1..MaxNow
    BY <1>1, StoreTypes, BoundsAssumption
<1>3. ASSUME NEW n \in Node
      PROVE  /\ data'[n] = Expired(data[n]) /\ blob'[n] = Expired(blob[n])
             /\ KeysOf(live[n], data[n], blob[n], now, ttl)
             /\ Expired(data[n]) \in Key /\ Expired(blob[n]) \in Key
             /\ ttl = 0 => Expired(data[n]) = data[n] /\ Expired(blob[n]) = blob[n]
             /\ KeysOf(live[n], Expired(data[n]), Expired(blob[n]), now + 1, ttl)
             /\ CleanOf(Pending(n), live[n], data[n], blob[n], ttl)
                    => CleanOf(Pending(n), live[n], Expired(data[n]), Expired(blob[n]), ttl)
    <2>1. KeysOf(live[n], data[n], blob[n], now, ttl)
        BY DEF StoreInv, KeysInv
    <2>2. Lives(data[n], now, ttl) /\ Lives(blob[n], now, ttl)
        BY <2>1 DEF KeysOf
    <2>3. /\ Expired(data[n]) \in Key /\ Expired(blob[n]) \in Key
          /\ ttl = 0 => Expired(data[n]) = data[n] /\ Expired(blob[n]) = blob[n]
        BY <1>2, <2>2, ExpiredFacts, StoreTypes
    <2>4. live[n].ckpt # NoBytes /\ (1 \in Pending(n) \/ 2 \in Pending(n)) => 3 \in Pending(n)
        BY PendingFacts
    <2>5. /\ KeysOf(live[n], Expired(data[n]), Expired(blob[n]), now + 1, ttl)
          /\ CleanOf(Pending(n), live[n], data[n], blob[n], ttl)
                 => CleanOf(Pending(n), live[n], Expired(data[n]), Expired(blob[n]), ttl)
        BY <1>2, <2>1, <2>4, CleanTicks, StoreTypes
    <2> QED BY <1>1, <2>1, <2>3, <2>5
<1>4. \A n \in Node : Pending(n)' = Pending(n) /\ (Quiet(n) => Quiet(n)')
    BY <1>1 DEF Pending, Quiet
<1>5. SettingsInv' /\ OwnersInv'
    BY <1>1, <1>2 DEF StoreInv, SettingsInv, OwnersInv, Awaited
<1>6. PipesInv'
    <2> SUFFICES ASSUME NEW x \in Write PROVE PipeOf(x[2], pipe[x], live[x[1]], now', ttl)
        BY <1>1 DEF StoreInv, PipesInv
    <2>1. PipeOf(x[2], pipe[x], live[x[1]], now, ttl)
        BY DEF StoreInv, PipesInv
    <2>2. x[2] \in Nat /\ live[x[1]].ver \in Nat
        BY StoreTypes
    <2> QED BY <1>2, <2>1, <2>2, PipeStays
<1>7. KeysInv'
    <2>1. data' \in [Node -> Key] /\ blob' \in [Node -> Key]
        BY <1>1, <1>3
    <2>2. index \in [Node -> 0..MaxNow] /\ (\A n \in Node : index[n] <= now')
        <3>1. \A n \in Node : index[n] <= now /\ index[n] \in Nat
            BY BoundsAssumption DEF StoreInv, KeysInv
        <3> QED BY <1>2, <3>1 DEF StoreInv, KeysInv
    <2>3. IsFiniteSet(Members')
        BY <1>1 DEF StoreInv, KeysInv, Members
    <2> QED BY <1>1, <1>3, <2>1, <2>2, <2>3 DEF KeysInv, Key
<1>8. CleanInv'
    BY <1>1, <1>3, <1>4 DEF StoreInv, CleanInv
<1>9. ThereInv'
    BY <1>1, <1>3, <1>4 DEF StoreInv, ThereInv
<1>10. AckedInv'
    <2> SUFFICES ASSUME NEW a \in acked
                 PROVE  AckedOf(a, live[a.node], data'[a.node], blob'[a.node], index[a.node],
                                a.node \notin spoiled, ttl)
        BY <1>1 DEF StoreInv, AckedInv
    <2>1. /\ AckedOf(a, live[a.node], data[a.node], blob[a.node], index[a.node], a.node \notin spoiled, ttl)
          /\ a.node \in Node
        BY DEF StoreInv, AckedInv
    <2>2. ttl = 0 => data'[a.node] = data[a.node] /\ blob'[a.node] = blob[a.node]
        BY <1>3, <2>1
    <2> QED BY <2>1, <2>2 DEF AckedOf
<1> QED BY <1>5, <1>6, <1>7, <1>8, <1>9, <1>10 DEF StoreInv

LEMMA ReadingKeeps ==
    ASSUME StoreInv, UNCHANGED <<settings, now, engineVars, keys, troubles>>
    PROVE  StoreInv'
<1>1. UNCHANGED <<ttl, codec, now, live, saving, pipe, failed, data, blob, index, troubles, spoiled, acked>>
    BY DEF settings, engineVars, keys
<1>2. SettingsInv' /\ OwnersInv' /\ PipesInv'
    BY <1>1 DEF StoreInv, SettingsInv, OwnersInv, Awaited, PipesInv
<1>3. KeysInv' /\ AckedInv'
    BY <1>1, KeysRest, Spoiling DEF StoreInv
<1>4. CleanInv' /\ ThereInv'
    BY <1>1 DEF StoreInv, CleanInv, ThereInv, Quiet, Pending
<1> QED BY <1>2, <1>3, <1>4 DEF StoreInv

LEMMA StoreBegins == ASSUME Init PROVE StoreInv
<1>1. /\ ttl \in TTLs /\ codec \in Codec /\ now = 1 /\ troubles = 0 /\ spoiled = {} /\ acked = {} /\ failed = {}
      /\ live = [n \in Node |-> [ver |-> 0, ckpt |-> NoBytes]] /\ saving = [n \in Node |-> "idle"]
      /\ pipe = [w \in Write |-> << >>]
      /\ data = [n \in Node |-> NoKey] /\ blob = [n \in Node |-> NoKey] /\ index = [n \in Node |-> 0]
    BY DEF Init
<1>2. SettingsInv
    BY <1>1, BoundsAssumption DEF SettingsInv
<1>3. OwnersInv
    BY <1>1, Sentinels, BoundsAssumption DEF OwnersInv
<1>4. PipesInv
    BY <1>1, NoCommands DEF PipesInv
<1>5. KeysInv
    <2>1. IsFiniteSet(Members)
        BY <1>1, FS_EmptySet DEF Members
    <2>2. index \in [Node -> 0..MaxNow] /\ \A n \in Node : index[n] <= now
        BY <1>1, BoundsAssumption
    <2> QED BY <1>1, <2>1, <2>2, Sentinels DEF KeysInv, KeysOf, Lives
<1>6. CleanInv /\ ThereInv
    <2>1. \A n \in Node : /\ live[n].ckpt = NoBytes /\ data[n] = NoKey /\ blob[n] = NoKey /\ Quiet(n)
                          /\ saving[n] # "awaiting"
        BY <1>1, \A n \in Node, v \in 1..MaxVersion : <<n, v>> \in Write DEF Quiet, Write
    <2> QED BY <2>1 DEF CleanInv, ThereInv, CleanOf
<1>7. AckedInv
    BY <1>1 DEF AckedInv
<1> QED BY <1>2, <1>3, <1>4, <1>5, <1>6, <1>7 DEF StoreInv

LEMMA StoreKeeps == ASSUME StoreInv, [Next]_vars PROVE StoreInv' /\ Moves
<1>1. ASSUME NEW n \in Node, AdapterSave(n) \/ Aput(n) PROVE StoreInv' /\ Moves
    <2>1. PICK withState \in BOOLEAN : Save(n, withState)
        BY <1>1 DEF AdapterSave, Aput
    <2>2. StoreInv'
        BY <2>1, SaveKeeps
    <2>3. \A m \in Node : live[m].ver <= live'[m].ver
        <3>1. live' = [live EXCEPT ![n] = [ver |-> live[n].ver + 1,
                             ckpt |-> IF withState THEN Compress(codec, Bytes(live[n].ver + 1)) ELSE live[n].ckpt]]
            BY <2>1 DEF Save
        <3>2. \A m \in Node : live'[m].ver = IF m = n THEN live[n].ver + 1 ELSE live[m].ver
            BY <3>1 DEF StoreInv, OwnersInv
        <3> QED BY <3>2, StoreTypes
    <2> QED BY <2>1, <2>2, <2>3 DEF Moves, Save, settings, keys, Members
<1>2. ASSUME StoreInv', UNCHANGED <<ttl, live, data, index>>, acked \subseteq acked', spoiled \subseteq spoiled'
      PROVE  Moves
    BY <1>2, StoreTypes DEF Moves, Members
<1>3. ASSUME NEW n \in Node, ReturnTrue(n) \/ Raise(n) \/ Miss(n) PROVE StoreInv' /\ Moves
    <2>1. StoreInv'
        BY <1>3, ReturnTrueKeeps, GivingUpKeeps
    <2> QED BY <1>2, <1>3, <2>1 DEF ReturnTrue, Raise, Miss, settings, keys
<1>4. ASSUME UNCHANGED <<settings, now, engineVars, keys, troubles>> PROVE StoreInv' /\ Moves
    BY <1>2, <1>4, ReadingKeeps DEF settings, engineVars, keys
<1>5. ASSUME NEW n \in Node, Read(n) PROVE StoreInv' /\ Moves
    BY <1>4, <1>5 DEF Read, Ask, Reads
<1>6. ASSUME NEW w \in Write, Execute(w) \/ Fault(w) \/ Cut(w) PROVE StoreInv' /\ Moves
    <2>1. CASE Execute(w)
        BY <2>1, ExecuteKeeps
    <2>2. CASE Fault(w)
        BY <1>2, <2>2, FaultKeeps DEF Fault, settings, keys
    <2>3. CASE Cut(w)
        BY <1>2, <2>3, CutKeeps DEF Cut, settings, keys
    <2> QED BY <1>6, <2>1, <2>2, <2>3
<1>7. ASSUME List \/ ListData \/ ListBlobs PROVE StoreInv' /\ Moves
    BY <1>4, <1>7 DEF List, ListData, ListBlobs, Ask, Reads
<1>8. ASSUME Latest \/ LatestBlob \/ LatestData PROVE StoreInv' /\ Moves
    BY <1>4, <1>8 DEF Latest, LatestBlob, LatestData, Skip, Ask, Reads
<1>9. ASSUME Tick PROVE StoreInv' /\ Moves
    <2>1. StoreInv'
        BY <1>9, TickKeeps
    <2>2. \A n \in Node : data'[n] = data[n] \/ data'[n] = NoKey
        BY <1>9 DEF Tick, Expired
    <2> QED BY <1>9, <2>1, <2>2, StoreTypes DEF Tick, settings, engineVars, Moves, Members
<1>10. ASSUME Restart PROVE StoreInv' /\ Moves
    BY <1>2, <1>10, RestartKeeps DEF Restart, keys
<1>11. CASE UNCHANGED vars
    BY <1>4, <1>11 DEF vars, settings, engineVars, keys
<1> QED BY <1>1, <1>3, <1>5, <1>6, <1>7, <1>8, <1>9, <1>10, <1>11 DEF Next

-----------------------------------------------------------------------------
(* The calls that read. *)

\* The members of the index, by score and id, are totally ordered.
LEMMA IndexIsOrdered ==
    ASSUME StoreInv
    PROVE  /\ Orders(Before, Members) /\ IsFiniteSet(Members) /\ Members \subseteq Node
           /\ \A x \in Members : x \in Int /\ index[x] \in Int
           /\ \A x, y \in Members : <<x, y>> \in Before
                 <=> index[x] < index[y] \/ (index[x] = index[y] /\ x < y)
<1>1. \A x, y \in Members : <<x, y>> \in Before
          <=> index[x] < index[y] \/ (index[x] = index[y] /\ x < y)
    BY DEF Before
<1>2. \A x \in Members : x \in Node /\ x \in Int /\ index[x] \in Int
    BY NodeAssumption, BoundsAssumption DEF Members, StoreInv, KeysInv
<1>3. Orders(Before, Members)
    <2>1. \A x, y \in Members : x # y => <<x, y>> \in Before \/ <<y, x>> \in Before
        BY <1>1, <1>2
    <2>2. \A x \in Members : <<x, x>> \notin Before
        BY <1>1, <1>2
    <2>3. \A x, y, z \in Members : <<x, y>> \in Before /\ <<y, z>> \in Before => <<x, z>> \in Before
        BY <1>1, <1>2
    <2> QED BY <2>1, <2>2, <2>3 DEF Orders
<1> QED BY <1>1, <1>2, <1>3 DEF StoreInv, KeysInv

\* zrange and zrevrange
LEMMA ListedFacts ==
    ASSUME StoreInv
    PROVE  /\ ByScore \in Seq(Node) /\ NewestFirst \in Seq(Node)
           /\ \A n \in Members : \E i \in DOMAIN ByScore : ByScore[i] = n
           /\ \A n \in Members : \E i \in DOMAIN NewestFirst : NewestFirst[i] = n
           /\ \A i \in DOMAIN NewestFirst : NewestFirst[i] \in Members
           /\ \A i, j \in DOMAIN NewestFirst : i < j => <<NewestFirst[j], NewestFirst[i]>> \in Before
<1> DEFINE N == Cardinality(Members)
           s == ByScore
<1>1. /\ Orders(Before, Members) /\ IsFiniteSet(Members) /\ Members \subseteq Node
    BY IndexIsOrdered
<1>2. N \in Nat
    BY <1>1, FS_CardinalityType
<1>3. /\ s \in Seq(Members) /\ Len(s) = N /\ DOMAIN s = 1..N
      /\ \A k \in 1..N : s[k] \in Members
      /\ \A x \in Members : \E k \in 1..N : s[k] = x
      /\ \A k, l \in 1..N : k < l <=> <<s[k], s[l]>> \in Before
    BY <1>1, InOrderIsSorted DEF ByScore
<1> HIDE DEF N, s
<1>4. s \in Seq(Node)
    BY <1>1, <1>2, <1>3
<1>5. NewestFirst = [i \in 1..N |-> s[(N - i) + 1]]
    BY <1>3 DEF NewestFirst, Reverse, s
<1>6. \A i \in 1..N : (N - i) + 1 \in 1..N /\ (N - ((N - i) + 1)) + 1 = i
    BY <1>2
<1>7. /\ NewestFirst \in Seq(Node) /\ DOMAIN NewestFirst = 1..N
      /\ \A i \in 1..N : NewestFirst[i] = s[(N - i) + 1] /\ NewestFirst[i] \in Members
    <2>1. \A i \in 1..N : s[(N - i) + 1] \in Members /\ s[(N - i) + 1] \in Node
        BY <1>1, <1>3, <1>6
    <2> QED BY <1>2, <1>5, <2>1
<1>8. \A n \in Members : \E i \in 1..N : NewestFirst[i] = n
    <2> TAKE n \in Members
    <2>1. PICK k \in 1..N : s[k] = n
        BY <1>3
    <2> QED BY <1>6, <1>7, <2>1
<1>9. ASSUME NEW i \in 1..N, NEW j \in 1..N, i < j
      PROVE  <<NewestFirst[j], NewestFirst[i]>> \in Before
    <2>1. (N - j) + 1 < (N - i) + 1
        BY <1>2, <1>9
    <2> QED BY <1>3, <1>6, <1>7, <2>1
<1> QED BY <1>3, <1>4, <1>7, <1>8, <1>9 DEF s

\* What was acknowledged, a reader finds.
LEMMA AckedFacts ==
    ASSUME StoreInv, NEW a \in acked
    PROVE  /\ a.node \in Node /\ a.ver \in 1..MaxVersion /\ a.ver \in Nat /\ a.ver # 0
           /\ a.ckpt \in Nat
           /\ ttl = 0 => /\ data[a.node] # NoKey /\ a.node \in Members
                         /\ a.ckpt # 0 => blob[a.node] # NoKey
                         /\ a.node \notin spoiled => /\ Number(data[a.node].val) >= a.ver
                                                     /\ State(blob[a.node].val) >= a.ckpt
<1>1. a \in [node : Node, ver : 1..MaxVersion, ckpt : 0..MaxVersion]
    BY DEF StoreInv, AckedInv
<1>2. AckedOf(a, live[a.node], data[a.node], blob[a.node], index[a.node], a.node \notin spoiled, ttl)
    BY DEF StoreInv, AckedInv
<1> QED BY <1>1, <1>2 DEF AckedOf, Members

\* A key as an answer has it.
LEMMA KeyRead ==
    ASSUME StoreInv, NEW n \in Node
    PROVE  /\ Number(data[n].val) \in 0..MaxVersion /\ Number(data[n].val) \in Nat
           /\ data[n] # NoKey <=> Number(data[n].val) # 0
           /\ blob[n].val \in Seq(Nat) /\ State(blob[n].val) \in Nat
           /\ blob[n] # NoKey => IsBlob(blob[n].val, live[n].ver)
           /\ n \notin spoiled /\ data[n] # NoKey /\ blob[n] # NoKey
                  => State(blob[n].val) <= Number(data[n].val)
<1>1. /\ KeysOf(live[n], data[n], blob[n], now, ttl)
      /\ n \notin spoiled => CleanOf(Pending(n), live[n], data[n], blob[n], ttl)
    BY DEF StoreInv, KeysInv, CleanInv
<1>2. live[n].ver \in 0..MaxVersion /\ data[n] \in Key /\ blob[n] \in Key /\ live[n].ver \in Nat
    BY StoreTypes
<1>3. /\ data[n] # NoKey => Number(data[n].val) \in 1..live[n].ver
      /\ Number(data[n].val) \in 0..live[n].ver /\ State(blob[n].val) \in 0..live[n].ver
    BY <1>1, <1>2, KeyFacts
<1>4. data[n] = NoKey => Number(data[n].val) = 0
    BY Sentinels
<1>5. blob[n].val \in Seq(Nat)
    BY <1>2 DEF Key
<1>6. Number(data[n].val) \in 0..MaxVersion
    BY <1>2, <1>3, BoundsAssumption
<1> QED BY <1>1, <1>2, <1>3, <1>4, <1>5, <1>6 DEF KeysOf, CleanOf

\* Whatever happens meanwhile, what a call has found stays true of the store.
LEMMA ReaderStays ==
    ASSUME StoreInv, StoreInv', Moves, ReaderInv, reader' = reader
    PROVE  ReaderInv'
<1>1. ttl' = ttl /\ acked \subseteq acked' /\ spoiled \subseteq spoiled' /\ reader.due \subseteq acked
    BY DEF Moves, ReaderInv, ReaderTyped
<1>2. \A n \in Members : n \in Node /\ n \in Members' /\ index'[n] = index[n]
    BY DEF Moves, Members
<1>3. \A n \in Node : \A b : IsBlob(b, live[n].ver) => IsBlob(b, live'[n].ver)
    <2> SUFFICES ASSUME NEW n \in Node, NEW b, IsBlob(b, live[n].ver) PROVE IsBlob(b, live'[n].ver)
        OBVIOUS
    <2>1. live[n].ver \in Nat /\ live[n].ver <= live'[n].ver /\ live'[n].ver \in Nat
        BY StoreTypes DEF Moves, StoreInv, OwnersInv
    <2> QED BY <2>1, BlobFacts
<1>4. ReaderTyped'
    BY <1>1 DEF ReaderInv, ReaderTyped, Answers
<1>5. ListInv'
    BY <1>1 DEF ReaderInv, ListInv
<1>6. \A x, y \in Members : <<x, y>> \in Before => <<x, y>> \in Before'
    BY <1>2 DEF Before
<1>7. LatestInv'
    <2>1. ASSUME reader.pc \in {"blob", "value"}
          PROVE  /\ \A i \in DOMAIN reader.ids : reader.ids[i] \in Members'
                 /\ \A i, j \in DOMAIN reader.ids : i < j => <<reader.ids[j], reader.ids[i]>> \in Before'
                 /\ ttl' = 0 => \A a \in AckedCheckpoints' : \E i \in DOMAIN reader.ids : reader.ids[i] = a.node
        <3>1. /\ \A i \in DOMAIN reader.ids : reader.ids[i] \in Members
              /\ \A i, j \in DOMAIN reader.ids : i < j => <<reader.ids[j], reader.ids[i]>> \in Before
              /\ ttl = 0 => \A a \in AckedCheckpoints : \E i \in DOMAIN reader.ids : reader.ids[i] = a.node
            BY <2>1 DEF ReaderInv, LatestInv
        <3>2. AckedCheckpoints' = AckedCheckpoints
            BY DEF AckedCheckpoints
        <3> QED BY <1>1, <1>2, <1>6, <3>1, <3>2
    <2>2. ASSUME reader.pc = "value", NEW n, n = reader.ids[1]
          PROVE  /\ Len(reader.got) = 1 /\ reader.got[1].node = n
                 /\ IsBlob(reader.got[1].ckpt, live'[n].ver)
                 /\ n \notin spoiled' /\ data'[n] # NoKey =>
                        State(reader.got[1].ckpt) <= Number(data'[n].val)
        <3> DEFINE c == reader.got[1].ckpt
        <3>1. /\ Len(reader.got) = 1 /\ reader.got[1].node = n /\ IsBlob(c, live[n].ver)
              /\ n \notin spoiled /\ data[n] # NoKey => State(c) <= Number(data[n].val)
              /\ n \in Members
            <4>1. 1 \in DOMAIN reader.ids
                BY <2>2 DEF ReaderInv, ReaderTyped
            <4> QED BY <2>2, <4>1 DEF ReaderInv, LatestInv
        <3> HIDE DEF c
        <3>2. n \in Node /\ live[n].ver \in Nat /\ State(c) \in Nat /\ State(c) <= live[n].ver
            BY <1>2, <3>1, StoreTypes, BlobFacts
        <3>3. ASSUME n \notin spoiled', data'[n] # NoKey PROVE State(c) <= Number(data'[n].val)
            <4>1. n \notin spoiled
                BY <1>1, <3>3
            <4>2. CASE data[n] # NoKey /\ data'[n].val = data[n].val
                BY <3>1, <4>1, <4>2
            <4>3. CASE data'[n].val = Bytes(live[n].ver)
                <5>1. Number(data'[n].val) = live[n].ver
                    BY <3>2, <4>3, Sentinels
                <5> QED BY <3>2, <5>1
            <4> QED BY <3>2, <3>3, <4>1, <4>2, <4>3 DEF Moves
        <3> QED BY <1>3, <3>1, <3>2, <3>3 DEF c
    <2>3. ASSUME Done("latest"), reader.got # << >>, NEW r, r = reader.got[1]
          PROVE  /\ r.node \in Members' /\ IsBlob(r.ckpt, live'[r.node].ver)
                 /\ r.node \notin spoiled' => State(r.ckpt) <= r.ver
        <3>1. /\ r.node \in Members /\ IsBlob(r.ckpt, live[r.node].ver)
              /\ r.node \notin spoiled => State(r.ckpt) <= r.ver
            BY <2>3 DEF ReaderInv, LatestInv
        <3> QED BY <1>1, <1>2, <1>3, <3>1
    <2> QED BY <2>1, <2>2, <2>3 DEF LatestInv, Done
<1>8. AckedReadBack'
    <2> SUFFICES ASSUME ttl = 0, Done("read") \/ Done("list"), NEW a \in reader.due,
                        a.node \in ToSet(reader.ids) \/ reader.call = "list"
                 PROVE  \E i \in DOMAIN reader.got :
                            /\ reader.got[i].node = a.node
                            /\ a.node \notin spoiled' =>
                                   /\ reader.got[i].ver >= a.ver
                                   /\ Number(Decoded(reader.got[i].ckpt)') >= a.ckpt
        BY <1>1 DEF AckedReadBack, Done, Number
    <2>1. PICK i \in DOMAIN reader.got :
              /\ reader.got[i].node = a.node
              /\ a.node \notin spoiled => /\ reader.got[i].ver >= a.ver
                                          /\ Number(Decoded(reader.got[i].ckpt)) >= a.ckpt
        BY DEF ReaderInv, AckedReadBack
    <2>2. Decoded(reader.got[i].ckpt)' = Decoded(reader.got[i].ckpt)
        BY DEF Decoded, Decompress
    <2> QED BY <1>1, <2>1, <2>2
<1>9. LatestIsLastSeen'
    <2> SUFFICES ASSUME ttl = 0, Done("latest"), NEW a \in AckedCheckpoints
                 PROVE  /\ reader.got # << >>
                        /\ \/ index'[reader.got[1].node] > index'[a.node]
                           \/ index'[reader.got[1].node] = index'[a.node] /\ reader.got[1].node >= a.node
        BY <1>1 DEF LatestIsLastSeen, Done, AckedCheckpoints
    <2>1. /\ reader.got # << >>
          /\ \/ index[reader.got[1].node] > index[a.node]
             \/ index[reader.got[1].node] = index[a.node] /\ reader.got[1].node >= a.node
        BY DEF ReaderInv, LatestIsLastSeen
    <2>2. reader.got[1].node \in Members
        BY <2>1 DEF ReaderInv, LatestInv
    <2>3. a.node \in Members
        BY <1>1, AckedFacts DEF AckedCheckpoints
    <2> QED BY <1>2, <2>1, <2>2, <2>3
<1> QED BY <1>4, <1>5, <1>7, <1>8, <1>9 DEF ReaderInv

\* What a step of a call leaves alone.
LEMMA ReadsFacts ==
    ASSUME NEW r, Reads(r)
    PROVE  /\ reader' = r
           /\ UNCHANGED <<ttl, codec, now, live, data, blob, index, spoiled, acked>>
           /\ Members' = Members /\ Before' = Before
<1>1. reader' = r /\ UNCHANGED <<ttl, codec, now, live, data, blob, index, spoiled, acked>>
    BY DEF Reads, settings, engineVars, keys
<1>2. Members' = Members
    BY <1>1 DEF Members
<1> QED BY <1>1, <1>2 DEF Before

\* A record that is asked for answers with what is there.
LEMMA EntryFacts ==
    ASSUME NEW n \in Node, NEW v \in 0..MaxVersion, NEW c \in Seq(Nat)
    PROVE  /\ Entry(n, v, c) \in [node : Node, ver : 0..MaxVersion, ckpt : Seq(Nat)]
           /\ Entry(n, v, c).node = n /\ Entry(n, v, c).ver = v /\ Entry(n, v, c).ckpt = c
BY DEF Entry

LEMMA OneEntry ==
    ASSUME NEW S, NEW e \in S
    PROVE  <<e>> \in Seq(S) /\ <<e>> # << >> /\ Len(<<e>>) = 1 /\ DOMAIN <<e>> = {1} /\ <<e>>[1] = e
OBVIOUS

LEMMA NoAnswer == << >> \in Answers /\ << >> \in Seq(Node)
BY DEF Answers

\* What a call answers, in the states that its blobs were made in.
LEMMA ReadBackLater ==
    ASSUME ttl' = 0 /\ (Done("read") \/ Done("list"))' =>
               \A a \in reader'.due : a.node \in ToSet(reader'.ids) \/ reader'.call = "list" =>
                   \E i \in DOMAIN reader'.got :
                       /\ reader'.got[i].node = a.node
                       /\ a.node \notin spoiled' => /\ reader'.got[i].ver >= a.ver
                                                    /\ State(reader'.got[i].ckpt) >= a.ckpt
    PROVE  AckedReadBack'
<1>1. ASSUME NEW b PROVE State(b) = Number(IF b = NoBytes THEN NoBytes ELSE Decompress(codec', b))
    <2>1. Decompress(codec', b) = Decompress(CodecNone, b)
        BY DEF Decompress
    <2> QED BY <2>1, Sentinels DEF State
<1>2. \A i : Number(Decoded(reader.got[i].ckpt))' = State(reader'.got[i].ckpt)
    BY <1>1 DEF Decoded, Number, NoBytes
<1> QED BY <1>2 DEF AckedReadBack, Number

LEMMA ReadKeeps ==
    ASSUME StoreInv, ReaderInv, NEW n \in Node, Read(n)
    PROVE  ReaderInv'
<1> DEFINE r == [pc |-> "done", call |-> "read", ids |-> <<n>>, got |-> Found(n), due |-> acked]
<1>1. Reads(r)
    BY DEF Read, Ask
<1>2. /\ reader' = r
      /\ UNCHANGED <<ttl, codec, now, live, data, blob, index, spoiled, acked>>
    BY <1>1, ReadsFacts
<1>3. <<n>> \in Seq(Node) /\ ToSet(<<n>>) = {n}
    BY DEF ToSet
<1>4. data[n] # NoKey =>
          /\ Found(n) \in Answers /\ 1 \in DOMAIN Found(n) /\ Found(n)[1].node = n
          /\ Found(n)[1].ver = Number(data[n].val) /\ Found(n)[1].ckpt = blob[n].val
    <2> DEFINE e == Entry(n, Number(data[n].val), blob[n].val)
    <2>1. /\ e \in [node : Node, ver : 0..MaxVersion, ckpt : Seq(Nat)]
          /\ e.node = n /\ e.ver = Number(data[n].val) /\ e.ckpt = blob[n].val
        BY EntryFacts, KeyRead
    <2>2. data[n] # NoKey => Found(n) = <<e>>
        BY DEF Found
    <2> HIDE DEF e
    <2>3. <<e>> \in Answers /\ DOMAIN <<e>> = {1} /\ <<e>>[1] = e
        BY <2>1, OneEntry DEF Answers
    <2> QED BY <2>1, <2>2, <2>3
<1>5. Found(n) \in Answers
    BY <1>4, NoAnswer DEF Found
<1>6. ReaderTyped'
    BY <1>2, <1>3, <1>5 DEF ReaderTyped, Answers
<1>7. ListInv' /\ LatestInv' /\ LatestIsLastSeen'
    BY <1>2 DEF ListInv, LatestInv, LatestIsLastSeen, Done
<1>8. AckedReadBack'
    <2> SUFFICES ASSUME ttl = 0, NEW a \in acked, a.node = n
                 PROVE  \E i \in DOMAIN Found(n) :
                            /\ Found(n)[i].node = a.node
                            /\ a.node \notin spoiled =>
                                   /\ Found(n)[i].ver >= a.ver
                                   /\ State(Found(n)[i].ckpt) >= a.ckpt
        BY <1>2, <1>3, ReadBackLater DEF Done
    <2>1. /\ data[n] # NoKey
          /\ n \notin spoiled => Number(data[n].val) >= a.ver /\ State(blob[n].val) >= a.ckpt
        BY AckedFacts
    <2> QED BY <1>4, <2>1
<1> QED BY <1>6, <1>7, <1>8 DEF ReaderInv

LEMMA ListKeeps ==
    ASSUME StoreInv, ReaderInv, List
    PROVE  ReaderInv'
<1> DEFINE r == [pc |-> IF ByScore = << >> THEN "done" ELSE "data", call |-> "list", ids |-> ByScore,
                 got |-> << >>, due |-> acked]
<1>1. Reads(r)
    BY DEF List, Ask
<1>2. /\ reader' = r
      /\ UNCHANGED <<ttl, codec, now, live, data, blob, index, spoiled, acked>>
    BY <1>1, ReadsFacts
<1>3. ByScore \in Seq(Node) /\ \A n \in Members : \E i \in DOMAIN ByScore : ByScore[i] = n
    BY ListedFacts
<1>4. ReaderTyped'
    BY <1>2, <1>3, NoAnswer DEF ReaderTyped, Answers
<1>5. ttl = 0 => \A a \in acked : \E i \in DOMAIN ByScore : ByScore[i] = a.node
    BY <1>3, AckedFacts
<1>6. ListInv'
    BY <1>2, <1>5 DEF ListInv
<1>7. LatestInv' /\ LatestIsLastSeen'
    BY <1>2 DEF LatestInv, LatestIsLastSeen, Done
<1>8. AckedReadBack'
    <2> SUFFICES ASSUME ttl = 0, ByScore = << >>, NEW a \in acked PROVE FALSE
        BY <1>2 DEF AckedReadBack, Done
    <2> QED BY <1>5
<1> QED BY <1>4, <1>6, <1>7, <1>8 DEF ReaderInv

LEMMA ListDataKeeps ==
    ASSUME StoreInv, ReaderInv, ListData
    PROVE  ReaderInv'
<1> DEFINE ids == reader.ids
           got == [i \in DOMAIN ids |-> Entry(ids[i], Number(data[ids[i]].val), NoBytes)]
           r == [reader EXCEPT !.pc = "blobs", !.got = got]
<1>1. Reads(r) /\ reader.pc = "data"
    BY DEF ListData
<1>2. reader' = r /\ UNCHANGED <<ttl, codec, now, live, data, blob, index, spoiled, acked>>
    BY <1>1, ReadsFacts
<1>3. ids \in Seq(Node) /\ reader.call = "list" /\ reader.due \subseteq acked
    BY <1>1 DEF ReaderInv, ReaderTyped
<1> HIDE DEF ids
<1>4. \A i \in DOMAIN ids :
          /\ ids[i] \in Node
          /\ got[i] \in [node : Node, ver : 0..MaxVersion, ckpt : Seq(Nat)]
          /\ got[i].node = ids[i] /\ got[i].ver = Number(data[ids[i]].val)
    <2> TAKE i \in DOMAIN ids
    <2>1. ids[i] \in Node
        BY <1>3
    <2>2. got[i] = Entry(ids[i], Number(data[ids[i]].val), NoBytes)
        OBVIOUS
    <2> HIDE DEF got
    <2> QED BY <2>1, <2>2, EntryFacts, KeyRead, Sentinels
<1>5. DOMAIN got = DOMAIN ids /\ got \in Answers
    <2>1. DOMAIN ids = 1..Len(ids) /\ Len(ids) \in Nat
        BY <1>3
    <2> QED BY <1>4, <2>1 DEF Answers
<1> HIDE DEF got
<1>6. /\ reader'.pc = "blobs" /\ reader'.call = "list" /\ reader'.ids = ids
      /\ reader'.got = got /\ reader'.due = reader.due
    BY <1>2, <1>3 DEF ReaderInv, ReaderTyped, ids
<1>7. ReaderTyped'
    <2>1. reader' \in [pc : {"idle", "data", "blobs", "blob", "value", "done"},
                       call : {"none", "read", "list", "latest"},
                       ids : Seq(Node), got : Answers, due : SUBSET acked]
        BY <1>2, <1>5 DEF ReaderInv, ReaderTyped
    <2> QED BY <1>2, <1>6, <2>1 DEF ReaderTyped, Answers
<1>8. ListInv'
    <2>1. ASSUME ttl = 0, NEW a \in reader.due
          PROVE  \E i \in DOMAIN got : /\ got[i].node = a.node /\ got[i].ver # 0
                                       /\ a.node \notin spoiled => got[i].ver >= a.ver
        <3>1. PICK i \in DOMAIN ids : ids[i] = a.node
            BY <1>1, <2>1 DEF ReaderInv, ListInv, ids
        <3>2. /\ data[a.node] # NoKey /\ a.node \in Node
              /\ a.node \notin spoiled => Number(data[a.node].val) >= a.ver
            BY <1>3, <2>1, AckedFacts
        <3> QED BY <1>4, <1>5, <3>1, <3>2, KeyRead
    <2> QED BY <1>2, <1>4, <1>5, <1>6, <2>1 DEF ListInv
<1>9. LatestInv' /\ LatestIsLastSeen' /\ AckedReadBack'
    BY <1>6 DEF LatestInv, LatestIsLastSeen, AckedReadBack, Done
<1> QED BY <1>7, <1>8, <1>9 DEF ReaderInv

LEMMA ListBlobsKeeps ==
    ASSUME StoreInv, ReaderInv, ListBlobs
    PROVE  ReaderInv'
<1> DEFINE R == [node : Node, ver : 0..MaxVersion, ckpt : Seq(Nat)]
           got == reader.got
           pairs == [i \in DOMAIN got |-> [got[i] EXCEPT !.ckpt = blob[reader.ids[i]].val]]
           kept == {i \in DOMAIN pairs : Kept(pairs[i])}
           answer == SelectAt(pairs, kept)
           r == [reader EXCEPT !.pc = "done", !.got = answer]
<1>1. Reads(r) /\ reader.pc = "blobs"
    BY DEF ListBlobs
<1>2. reader' = r /\ UNCHANGED <<ttl, codec, now, live, data, blob, index, spoiled, acked>>
    BY <1>1, ReadsFacts
<1>3. /\ got \in Seq(R) /\ reader.ids \in Seq(Node) /\ reader.call = "list" /\ reader.due \subseteq acked
      /\ DOMAIN got = DOMAIN reader.ids /\ \A i \in DOMAIN got : got[i].node = reader.ids[i]
    BY <1>1 DEF ReaderInv, ReaderTyped, ListInv, Answers
<1> HIDE DEF got
<1>4. \A i \in DOMAIN got : /\ pairs[i] \in R /\ pairs[i].node = got[i].node
                            /\ pairs[i].ver = got[i].ver /\ pairs[i].ckpt = blob[got[i].node].val
    <2> TAKE i \in DOMAIN got
    <2>1. got[i] \in R /\ got[i].node = reader.ids[i]
        <3> HIDE DEF R
        <3> QED BY <1>3
    <2>2. pairs[i] = [got[i] EXCEPT !.ckpt = blob[got[i].node].val] /\ blob[got[i].node].val \in Seq(Nat)
        BY <2>1, KeyRead
    <2> HIDE DEF pairs
    <2> QED BY <2>1, <2>2
<1>5. pairs \in Seq(R) /\ DOMAIN pairs = DOMAIN got
    <2>1. DOMAIN got = 1..Len(got) /\ Len(got) \in Nat
        BY <1>3
    <2> QED BY <1>4, <2>1
<1> HIDE DEF pairs, R
<1>6. /\ answer \in Seq(R) /\ DOMAIN answer = 1..Cardinality(kept)
      /\ \A i \in kept : \E k \in 1..Cardinality(kept) : answer[k] = pairs[i]
    <2>1. kept \in SUBSET DOMAIN pairs
        OBVIOUS
    <2> HIDE DEF kept
    <2> QED BY <1>5, <2>1, SelectAtSelects
<1> HIDE DEF kept, answer
<1>7. /\ reader'.pc = "done" /\ reader'.call = "list" /\ reader'.ids = reader.ids
      /\ reader'.got = answer /\ reader'.due = reader.due
    BY <1>2, <1>3 DEF ReaderInv, ReaderTyped
<1>8. ReaderTyped'
    <2>1. answer \in Answers
        BY <1>6 DEF Answers, R
    <2>2. reader' \in [pc : {"idle", "data", "blobs", "blob", "value", "done"},
                       call : {"none", "read", "list", "latest"},
                       ids : Seq(Node), got : Answers, due : SUBSET acked]
        BY <1>2, <2>1 DEF ReaderInv, ReaderTyped
    <2> QED BY <1>2, <1>7, <2>2 DEF ReaderTyped, Answers
<1>9. ListInv' /\ LatestInv' /\ LatestIsLastSeen'
    BY <1>7 DEF ListInv, LatestInv, LatestIsLastSeen, Done
<1>10. AckedReadBack'
    <2> SUFFICES ASSUME ttl = 0, NEW a \in reader.due
                 PROVE  \E i \in DOMAIN answer :
                            /\ answer[i].node = a.node
                            /\ a.node \notin spoiled =>
                                   /\ answer[i].ver >= a.ver
                                   /\ State(answer[i].ckpt) >= a.ckpt
        BY <1>2, <1>7, ReadBackLater DEF Done
    <2>1. PICK i \in DOMAIN got : /\ got[i].node = a.node /\ got[i].ver # 0
                                  /\ a.node \notin spoiled => got[i].ver >= a.ver
        BY <1>1 DEF ReaderInv, ListInv, got
    <2>2. i \in kept
        BY <1>4, <1>5, <2>1 DEF kept, Kept
    <2>3. PICK k \in DOMAIN answer : answer[k] = pairs[i]
        BY <1>6, <2>2
    <2>4. a.node \notin spoiled => State(blob[a.node].val) >= a.ckpt
        BY <1>3, AckedFacts
    <2> QED BY <1>4, <2>1, <2>3, <2>4
<1> QED BY <1>8, <1>9, <1>10 DEF ReaderInv

LEMMA LatestKeeps ==
    ASSUME StoreInv, ReaderInv, Latest
    PROVE  ReaderInv'
<1> DEFINE ids == NewestFirst
           r == [pc |-> NextId(ids), call |-> "latest", ids |-> ids, got |-> << >>, due |-> acked]
<1>1. Reads(r)
    BY DEF Latest, Ask
<1>2. /\ reader' = r
      /\ UNCHANGED <<ttl, codec, now, live, data, blob, index, spoiled, acked>>
      /\ Members' = Members /\ Before' = Before
    BY <1>1, ReadsFacts
<1>3. /\ ids \in Seq(Node)
      /\ \A n \in Members : \E i \in DOMAIN ids : ids[i] = n
      /\ \A i \in DOMAIN ids : ids[i] \in Members
      /\ \A i, j \in DOMAIN ids : i < j => <<ids[j], ids[i]>> \in Before
    BY ListedFacts
<1> HIDE DEF ids
<1>4. ttl = 0 => \A a \in acked : \E i \in DOMAIN ids : ids[i] = a.node
    BY <1>3, AckedFacts
<1>5. NextId(ids) = IF ids = << >> THEN "done" ELSE "blob"
    BY DEF NextId
<1>6. /\ reader'.pc = (IF ids = << >> THEN "done" ELSE "blob") /\ reader'.call = "latest"
      /\ reader'.ids = ids /\ reader'.got = << >> /\ reader'.due = acked
    BY <1>2, <1>5
<1>7. ReaderTyped'
    <2>1. reader' \in [pc : {"idle", "data", "blobs", "blob", "value", "done"},
                       call : {"none", "read", "list", "latest"},
                       ids : Seq(Node), got : Answers, due : SUBSET acked]
        BY <1>2, <1>3, <1>5, NoAnswer
    <2> QED BY <1>2, <1>6, <2>1 DEF ReaderTyped, Answers
<1>8. ListInv' /\ AckedReadBack'
    BY <1>6 DEF ListInv, AckedReadBack, Done
<1>9. LatestInv'
    <2>1. \A a \in AckedCheckpoints' : a \in acked
        BY <1>6 DEF AckedCheckpoints
    <2>2. ASSUME reader'.pc \in {"blob", "value"}
          PROVE  /\ \A i \in DOMAIN reader'.ids : reader'.ids[i] \in Members'
                 /\ \A i, j \in DOMAIN reader'.ids : i < j => <<reader'.ids[j], reader'.ids[i]>> \in Before'
                 /\ ttl' = 0 => \A a \in AckedCheckpoints' : \E i \in DOMAIN reader'.ids : reader'.ids[i] = a.node
        BY <1>2, <1>3, <1>4, <1>6, <2>1
    <2> QED BY <1>6, <2>2 DEF LatestInv, Done
<1>10. LatestIsLastSeen'
    <2> SUFFICES ASSUME ttl = 0, ids = << >>, NEW a \in acked PROVE FALSE
        BY <1>2, <1>6 DEF LatestIsLastSeen, Done, AckedCheckpoints
    <2> QED BY <1>4
<1> QED BY <1>7, <1>8, <1>9, <1>10 DEF ReaderInv

\* A node that is passed over has no acknowledged checkpoint.
LEMMA SkipKeeps ==
    ASSUME StoreInv, ReaderInv, reader.pc \in {"blob", "value"}, Skip,
           ttl = 0 => \A a \in AckedCheckpoints : a.node # reader.ids[1]
    PROVE  ReaderInv'
<1> DEFINE ids == reader.ids
           rest == Tail(ids)
           r == [reader EXCEPT !.pc = NextId(rest), !.ids = rest, !.got = << >>]
<1>1. Reads(r)
    BY DEF Skip
<1>2. /\ reader' = r
      /\ UNCHANGED <<ttl, codec, now, live, data, blob, index, spoiled, acked>>
      /\ Members' = Members /\ Before' = Before
    BY <1>1, ReadsFacts
<1>3. /\ ids \in Seq(Node) /\ ids # << >> /\ reader.call = "latest" /\ reader.due \subseteq acked
      /\ \A i \in DOMAIN ids : ids[i] \in Members
      /\ \A i, j \in DOMAIN ids : i < j => <<ids[j], ids[i]>> \in Before
      /\ ttl = 0 => \A a \in AckedCheckpoints : \E i \in DOMAIN ids : ids[i] = a.node
    BY DEF ReaderInv, ReaderTyped, LatestInv
<1> HIDE DEF ids
<1>4. /\ rest \in Seq(Node) /\ \A i \in DOMAIN rest : i + 1 \in DOMAIN ids /\ rest[i] = ids[i + 1]
      /\ \A i \in DOMAIN ids : i = 1 \/ (i - 1 \in DOMAIN rest /\ rest[i - 1] = ids[i])
    <2>1. DOMAIN ids = 1..Len(ids) /\ Len(ids) \in Nat /\ Len(ids) # 0
        BY <1>3
    <2>2. rest \in Seq(Node) /\ DOMAIN rest = 1..(Len(ids) - 1) /\ \A i \in DOMAIN rest : rest[i] = ids[i + 1]
        BY <1>3, <2>1
    <2> HIDE DEF rest
    <2>3. \A i \in 1..(Len(ids) - 1) : i + 1 \in 1..Len(ids)
        BY <2>1
    <2>4. \A i \in 1..Len(ids) : i = 1 \/ (i - 1 \in 1..(Len(ids) - 1) /\ (i - 1) + 1 = i)
        BY <2>1
    <2> QED BY <2>1, <2>2, <2>3, <2>4
<1> HIDE DEF rest
<1>5. NextId(rest) = IF rest = << >> THEN "done" ELSE "blob"
    BY DEF NextId
<1>6. /\ reader'.pc = (IF rest = << >> THEN "done" ELSE "blob") /\ reader'.call = "latest"
      /\ reader'.ids = rest /\ reader'.got = << >> /\ reader'.due = reader.due
    BY <1>2, <1>3, <1>5 DEF ReaderInv, ReaderTyped
<1>7. ReaderTyped'
    <2>1. reader' \in [pc : {"idle", "data", "blobs", "blob", "value", "done"},
                       call : {"none", "read", "list", "latest"},
                       ids : Seq(Node), got : Answers, due : SUBSET acked]
        BY <1>2, <1>4, <1>5, NoAnswer DEF ReaderInv, ReaderTyped
    <2> QED BY <1>2, <1>6, <2>1 DEF ReaderTyped, Answers
<1>8. ListInv' /\ AckedReadBack'
    BY <1>6 DEF ListInv, AckedReadBack, Done
<1>9. AckedCheckpoints' = AckedCheckpoints
    BY <1>6 DEF AckedCheckpoints
<1>10. ttl = 0 => \A a \in AckedCheckpoints : \E i \in DOMAIN rest : rest[i] = a.node
    <2> SUFFICES ASSUME ttl = 0, NEW a \in AckedCheckpoints PROVE \E i \in DOMAIN rest : rest[i] = a.node
        OBVIOUS
    <2>1. PICK i \in DOMAIN ids : ids[i] = a.node
        BY <1>3
    <2>2. i # 1
        BY <2>1 DEF ids
    <2> QED BY <1>4, <2>1, <2>2
<1>11. \A i, j \in DOMAIN rest : i < j => <<rest[j], rest[i]>> \in Before
    <2> TAKE i, j \in DOMAIN rest
    <2>1. i \in Int /\ j \in Int /\ (i < j => i + 1 < j + 1)
        BY <1>4
    <2> QED BY <1>3, <1>4, <2>1
<1>12. LatestInv'
    <2>1. ASSUME reader'.pc \in {"blob", "value"}
          PROVE  /\ \A i \in DOMAIN reader'.ids : reader'.ids[i] \in Members'
                 /\ \A i, j \in DOMAIN reader'.ids : i < j => <<reader'.ids[j], reader'.ids[i]>> \in Before'
                 /\ ttl' = 0 => \A a \in AckedCheckpoints' : \E i \in DOMAIN reader'.ids : reader'.ids[i] = a.node
        BY <1>2, <1>3, <1>4, <1>6, <1>9, <1>10, <1>11
    <2> QED BY <1>6, <2>1 DEF LatestInv, Done
<1>13. LatestIsLastSeen'
    <2> SUFFICES ASSUME ttl = 0, rest = << >>, NEW a \in AckedCheckpoints PROVE FALSE
        BY <1>2, <1>6, <1>9 DEF LatestIsLastSeen, Done
    <2> QED BY <1>10
<1> QED BY <1>7, <1>8, <1>12, <1>13 DEF ReaderInv

LEMMA LatestBlobKeeps ==
    ASSUME StoreInv, ReaderInv, LatestBlob
    PROVE  ReaderInv'
<1> DEFINE n == reader.ids[1]
           e == Entry(n, 0, blob[n].val)
           r == [reader EXCEPT !.pc = "value", !.got = <<e>>]
<1>1. /\ reader.pc = "blob" /\ reader.ids \in Seq(Node) /\ reader.ids # << >> /\ reader.call = "latest"
      /\ reader.due \subseteq acked
    BY DEF LatestBlob, ReaderInv, ReaderTyped
<1>2. Head(reader.ids) = n /\ n \in Node /\ 1 \in DOMAIN reader.ids
    BY <1>1
<1>3. CASE blob[n] = NoKey
    <2>1. Skip
        BY <1>2, <1>3 DEF LatestBlob
    <2>2. ttl = 0 => \A a \in AckedCheckpoints : a.node # n
        BY <1>1, <1>3, AckedFacts DEF AckedCheckpoints
    <2> QED BY <1>1, <2>1, <2>2, SkipKeeps
<1>4. CASE blob[n] # NoKey
    <2>1. Reads(r)
        BY <1>2, <1>4 DEF LatestBlob
    <2>2. /\ reader' = r
          /\ UNCHANGED <<ttl, codec, now, live, data, blob, index, spoiled, acked>>
          /\ Members' = Members /\ Before' = Before
        BY <2>1, ReadsFacts
    <2>3. /\ e \in [node : Node, ver : 0..MaxVersion, ckpt : Seq(Nat)]
          /\ e.node = n /\ e.ckpt = blob[n].val
        BY <1>2, EntryFacts, KeyRead, BoundsAssumption, 0 \in 0..MaxVersion
    <2>4. /\ IsBlob(blob[n].val, live[n].ver)
          /\ n \notin spoiled /\ data[n] # NoKey => State(blob[n].val) <= Number(data[n].val)
        BY <1>2, <1>4, KeyRead
    <2> HIDE DEF e
    <2>5. <<e>> \in Answers /\ Len(<<e>>) = 1 /\ <<e>>[1] = e
        BY <2>3, OneEntry DEF Answers
    <2>6. /\ reader'.pc = "value" /\ reader'.call = "latest" /\ reader'.ids = reader.ids
          /\ reader'.got = <<e>> /\ reader'.due = reader.due
        BY <1>1, <2>2 DEF ReaderInv, ReaderTyped
    <2>7. ReaderTyped'
        <3>1. reader' \in [pc : {"idle", "data", "blobs", "blob", "value", "done"},
                           call : {"none", "read", "list", "latest"},
                           ids : Seq(Node), got : Answers, due : SUBSET acked]
            BY <2>2, <2>5 DEF ReaderInv, ReaderTyped
        <3> QED BY <1>1, <2>2, <2>6, <3>1 DEF ReaderTyped, Answers
    <2>8. ListInv' /\ AckedReadBack' /\ LatestIsLastSeen'
        BY <2>6 DEF ListInv, AckedReadBack, LatestIsLastSeen, Done
    <2>9. LatestInv'
        <3>1. /\ \A i \in DOMAIN reader'.ids : reader'.ids[i] \in Members'
              /\ \A i, j \in DOMAIN reader'.ids : i < j => <<reader'.ids[j], reader'.ids[i]>> \in Before'
              /\ ttl' = 0 => \A a \in AckedCheckpoints' : \E i \in DOMAIN reader'.ids : reader'.ids[i] = a.node
            <4>1. AckedCheckpoints' = AckedCheckpoints
                BY <2>6 DEF AckedCheckpoints
            <4> QED BY <1>1, <2>2, <2>6, <4>1 DEF ReaderInv, LatestInv
        <3>2. /\ Len(reader'.got) = 1 /\ reader'.got[1].node = reader'.ids[1]
              /\ IsBlob(reader'.got[1].ckpt, live'[n].ver)
              /\ n \notin spoiled' /\ data'[n] # NoKey => State(reader'.got[1].ckpt) <= Number(data'[n].val)
            BY <2>2, <2>3, <2>4, <2>5, <2>6
        <3> QED BY <2>6, <3>1, <3>2 DEF LatestInv, Done
    <2> QED BY <2>7, <2>8, <2>9 DEF ReaderInv
<1> QED BY <1>3, <1>4

LEMMA LatestDataKeeps ==
    ASSUME StoreInv, ReaderInv, LatestData
    PROVE  ReaderInv'
<1> DEFINE n == reader.ids[1]
           R == [node : Node, ver : 0..MaxVersion, ckpt : Seq(Nat)]
           got == reader.got
           got2 == [got EXCEPT ![1].ver = Number(data[n].val)]
<1>1. /\ reader.pc = "value" /\ reader.ids \in Seq(Node) /\ reader.ids # << >> /\ reader.call = "latest"
      /\ reader.due \subseteq acked /\ got \in Seq(R)
    BY DEF LatestData, ReaderInv, ReaderTyped, Answers
<1>2. Head(reader.ids) = n /\ n \in Node /\ 1 \in DOMAIN reader.ids /\ n \in Members
    BY <1>1 DEF ReaderInv, LatestInv
<1>3. CASE data[n] = NoKey
    <2>1. Skip
        BY <1>2, <1>3 DEF LatestData
    <2>2. ttl = 0 => \A a \in AckedCheckpoints : a.node # n
        BY <1>1, <1>3, AckedFacts DEF AckedCheckpoints
    <2> QED BY <1>1, <2>1, <2>2, SkipKeeps
<1>4. CASE data[n] # NoKey
    <2>1. Reads([reader EXCEPT !.pc = "done", !.got[1].ver = Number(data[n].val)])
        BY <1>2, <1>4 DEF LatestData
    <2>2. /\ reader' = [reader EXCEPT !.pc = "done", !.got = got2]
          /\ UNCHANGED <<ttl, codec, now, live, data, blob, index, spoiled, acked>>
          /\ Members' = Members /\ Before' = Before
        <3>1. [reader EXCEPT !.pc = "done", !.got[1].ver = Number(data[n].val)]
                  = [reader EXCEPT !.pc = "done", !.got = got2]
            OBVIOUS
        <3> QED BY <2>1, <3>1, ReadsFacts
    <2>3. /\ Len(got) = 1 /\ got[1].node = n /\ IsBlob(got[1].ckpt, live[n].ver)
          /\ n \notin spoiled => State(got[1].ckpt) <= Number(data[n].val)
        BY <1>1, <1>4 DEF ReaderInv, LatestInv
    <2>4. Number(data[n].val) \in 0..MaxVersion
        BY <1>2, KeyRead
    <2>5. /\ got2 \in Seq(R) /\ got2 # << >>
          /\ got2[1].node = n /\ got2[1].ckpt = got[1].ckpt /\ got2[1].ver = Number(data[n].val)
        <3>1. 1 \in DOMAIN got /\ got[1] \in R
            <4> HIDE DEF got, R
            <4>1. got \in Seq(R) /\ Len(got) = 1
                BY <1>1, <2>3
            <4>2. DOMAIN got = 1..1 /\ \A i \in DOMAIN got : got[i] \in R
                BY <4>1
            <4> QED BY <4>2
        <3>2. got2 = [got EXCEPT ![1] = [got[1] EXCEPT !.ver = Number(data[n].val)]]
            OBVIOUS
        <3> DEFINE g == [got[1] EXCEPT !.ver = Number(data[n].val)]
        <3>3. /\ g \in R /\ g.node = n /\ g.ckpt = got[1].ckpt /\ g.ver = Number(data[n].val)
            BY <2>3, <2>4, <3>1
        <3> HIDE DEF g, R, got, got2
        <3>4. got2 = [got EXCEPT ![1] = g]
            BY <3>2 DEF g
        <3>5. got2 \in Seq(R) /\ got2[1] = g /\ DOMAIN got2 = DOMAIN got
            BY <1>1, <3>1, <3>3, <3>4
        <3> QED BY <3>1, <3>3, <3>5
    <2> HIDE DEF got2
    <2>6. /\ reader'.pc = "done" /\ reader'.call = "latest" /\ reader'.ids = reader.ids
          /\ reader'.got = got2 /\ reader'.due = reader.due
        BY <1>1, <2>2 DEF ReaderInv, ReaderTyped
    <2>7. ReaderTyped'
        <3>1. reader' \in [pc : {"idle", "data", "blobs", "blob", "value", "done"},
                           call : {"none", "read", "list", "latest"},
                           ids : Seq(Node), got : Answers, due : SUBSET acked]
            BY <2>2, <2>5 DEF ReaderInv, ReaderTyped, Answers
        <3> QED BY <2>2, <2>6, <3>1 DEF ReaderTyped, Answers
    <2>8. ListInv' /\ AckedReadBack'
        BY <2>6 DEF ListInv, AckedReadBack, Done
    <2>9. LatestInv'
        BY <1>2, <2>2, <2>3, <2>5, <2>6 DEF LatestInv
    <2>10. LatestIsLastSeen'
        <3> SUFFICES ASSUME ttl = 0, NEW a \in AckedCheckpoints
                     PROVE  \/ index[n] > index[a.node]
                            \/ index[n] = index[a.node] /\ n >= a.node
            BY <2>2, <2>5, <2>6 DEF LatestIsLastSeen, AckedCheckpoints, Done
        <3>1. PICK i \in DOMAIN reader.ids : reader.ids[i] = a.node
            BY <1>1 DEF ReaderInv, LatestInv
        <3>2. n \in Int /\ index[n] \in Int
            BY <1>2, IndexIsOrdered
        <3>3. CASE i = 1
            BY <3>1, <3>2, <3>3
        <3>4. CASE i # 1
            <4>1. 1 < i
                BY <1>1, <3>4
            <4>2. <<a.node, n>> \in Before /\ a.node \in Members
                BY <1>1, <1>2, <3>1, <4>1 DEF ReaderInv, LatestInv
            <4>3. index[a.node] < index[n] \/ (index[a.node] = index[n] /\ a.node < n)
                BY <1>2, <4>2, IndexIsOrdered
            <4>4. a.node \in Int /\ index[a.node] \in Int
                BY <4>2, IndexIsOrdered
            <4> QED BY <3>2, <4>3, <4>4
        <3> QED BY <3>3, <3>4
    <2> QED BY <2>7, <2>8, <2>9, <2>10 DEF ReaderInv
<1> QED BY <1>3, <1>4

\* A new process has no call under way.
LEMMA ReaderBegins == ASSUME StoreInv, reader = Idle PROVE ReaderInv
<1>1. /\ reader.pc = "idle" /\ reader.call = "none" /\ reader.ids = << >> /\ reader.got = << >>
      /\ reader.due = {}
    BY DEF Idle
<1>2. ReaderTyped
    BY <1>1, NoAnswer DEF ReaderTyped, Idle
<1> QED BY <1>1, <1>2 DEF ReaderInv, ListInv, LatestInv, AckedReadBack, LatestIsLastSeen, Done

LEMMA ReaderKeeps ==
    ASSUME StoreInv, StoreInv', Moves, ReaderInv, [Next]_vars
    PROVE  ReaderInv'
<1>1. ASSUME NEW n \in Node, Read(n) PROVE ReaderInv'
    BY <1>1, ReadKeeps
<1>2. ASSUME List \/ ListData \/ ListBlobs PROVE ReaderInv'
    BY <1>2, ListKeeps, ListDataKeeps, ListBlobsKeeps
<1>3. ASSUME Latest \/ LatestBlob \/ LatestData PROVE ReaderInv'
    BY <1>3, LatestKeeps, LatestBlobKeeps, LatestDataKeeps
<1>4. ASSUME Restart PROVE ReaderInv'
    <2>1. reader' = Idle /\ Idle' = Idle
        BY <1>4 DEF Restart, Idle
    <2>2. /\ reader'.pc = "idle" /\ reader'.call = "none" /\ reader'.ids = << >> /\ reader'.got = << >>
          /\ reader'.due = {}
        BY <2>1 DEF Idle
    <2>3. ReaderTyped'
        <3>1. Idle \in [pc : {"idle", "data", "blobs", "blob", "value", "done"},
                        call : {"none", "read", "list", "latest"},
                        ids : Seq(Node), got : Answers, due : SUBSET acked']
            BY NoAnswer DEF Idle
        <3> QED BY <2>1, <2>2, <3>1 DEF ReaderTyped, Answers
    <2> QED BY <2>2, <2>3 DEF ReaderInv, ListInv, LatestInv, AckedReadBack, LatestIsLastSeen, Done
<1>5. ASSUME NEW n \in Node, AdapterSave(n) \/ Aput(n) \/ ReturnTrue(n) \/ Raise(n) \/ Miss(n)
      PROVE  reader' = reader
    BY <1>5 DEF AdapterSave, Aput, Save, ReturnTrue, Raise, Miss
<1>6. ASSUME NEW w \in Write, Execute(w) \/ Fault(w) \/ Cut(w) PROVE reader' = reader
    BY <1>6 DEF Execute, Fault, Cut
<1>7. Tick \/ UNCHANGED vars => reader' = reader
    BY DEF Tick, vars
<1>8. CASE reader' = reader
    BY <1>8, ReaderStays
<1> QED BY <1>1, <1>2, <1>3, <1>4, <1>5, <1>6, <1>7, <1>8 DEF Next

-----------------------------------------------------------------------------
(* The theorems. *)

\* What holds of the store and of every call that reads it.
THEOREM RedisInvariant == Spec => []Inv
<1>1. Init => Inv
    <2>1. Init => reader = Idle
        BY DEF Init
    <2> QED BY <2>1, StoreBegins, ReaderBegins DEF Inv
<1>2. Inv /\ [Next]_vars => Inv'
    BY StoreKeeps, ReaderKeeps DEF Inv
<1> QED BY <1>1, <1>2, PTL DEF Spec

\* The keys, the pipelines and the answers of a store stay what they are said to be.
THEOREM RedisTyped == Spec => []TypeOK
<1>1. Inv => TypeOK
    <2> SUFFICES ASSUME Inv PROVE TypeOK
        OBVIOUS
    <2>1. StoreInv /\ ReaderTyped
        BY DEF Inv, ReaderInv
    <2>2. /\ ttl \in TTLs /\ codec \in Codec /\ now \in 1..MaxNow /\ troubles \in 0..MaxTroubles
          /\ spoiled \subseteq Node
          /\ live \in [Node -> [ver : 0..MaxVersion, ckpt : Seq(Nat)]]
          /\ saving \in [Node -> {"idle", "awaiting", "gone"}]
          /\ index \in [Node -> 0..MaxNow]
          /\ acked \subseteq [node : Node, ver : 1..MaxVersion, ckpt : 0..MaxVersion]
          /\ \A w \in failed : Awaited(w)
        BY <2>1 DEF StoreInv, SettingsInv, OwnersInv, KeysInv, AckedInv
    <2>3. \A w \in Write : Len(pipe[w]) <= 5
        BY <2>1 DEF StoreInv, PipesInv, PipeOf
    <2>4. ASSUME NEW n \in Node, NEW key \in {data[n], blob[n]}
          PROVE  /\ key.val \in Seq(Nat) /\ key.dies \in Nat
                 /\ key.dies # 0 => ttl # 0 /\ now < key.dies
        <3>1. data[n] \in Key /\ blob[n] \in Key
            BY <2>1, StoreTypes
        <3>2. Lives(key, now, ttl)
            BY <2>1 DEF StoreInv, KeysInv, KeysOf
        <3> QED BY <3>1, <3>2 DEF Key, Lives
    <2>5. /\ reader.pc \in {"idle", "data", "blobs", "blob", "value", "done"}
          /\ reader.ids \in Seq(Node) /\ reader.got \in Answers
        BY <2>1 DEF ReaderTyped
    <2> QED BY <2>2, <2>3, <2>4, <2>5 DEF TypeOK
<1> QED BY <1>1, RedisInvariant, PTL

\* With a time to live, a node never outlives its own checkpoint, whatever became of
\* the saves of other nodes.
THEOREM RedisBlobOutlivesData == Spec => []BlobOutlivesData
<1>1. Inv => BlobOutlivesData
    <2> SUFFICES ASSUME Inv, NEW n \in Node \ spoiled, data[n] # NoKey, live[n].ckpt # NoBytes,
                        \A v \in 1..MaxVersion : pipe[<<n, v>>] = << >>
                 PROVE  blob[n] # NoKey
        BY DEF BlobOutlivesData
    <2>1. StoreInv /\ CleanOf(Pending(n), live[n], data[n], blob[n], ttl)
        BY DEF Inv, StoreInv, CleanInv
    <2>2. Pending(n) = {}
        <3>1. Left(<< >>) = {}
            BY NothingLeft, << >> \in Seq(Cmd)
        <3>2. saving[n] = "awaiting" => live[n].ver \in 1..MaxVersion
            BY <2>1, PendingFacts
        <3> QED BY <3>1, <3>2 DEF Pending
    <2> QED BY <2>1, <2>2 DEF CleanOf
<1> QED BY <1>1, RedisInvariant, PTL

\* Without a time to live, a save that returned True is read back and listed, as it
\* was or newer.
THEOREM RedisReadsBack == Spec => []AckedReadBack
<1>1. Inv => AckedReadBack
    BY DEF Inv, ReaderInv
<1> QED BY <1>1, RedisInvariant, PTL

\* Without a time to live, latest never answers with a node that was first seen before
\* one with an acknowledged checkpoint.
THEOREM RedisLatestIsLastSeen == Spec => []LatestIsLastSeen
<1>1. Inv => LatestIsLastSeen
    BY DEF Inv, ReaderInv
<1> QED BY <1>1, RedisInvariant, PTL

\* What latest hands out is a state that was saved, and no newer than the data beside it.
THEOREM RedisLatestIsWhole == Spec => []LatestIsWhole
<1>1. Inv => LatestIsWhole
    <2> SUFFICES ASSUME Inv, Done("latest"), reader.got # << >>, NEW r, r = reader.got[1]
                 PROVE  /\ Decoded(r.ckpt) \in {Bytes(k) : k \in 1..live[r.node].ver}
                        /\ r.node \notin spoiled => Number(Decoded(r.ckpt)) <= r.ver
        BY DEF LatestIsWhole
    <2>1. /\ r.node \in Members /\ IsBlob(r.ckpt, live[r.node].ver)
          /\ r.node \notin spoiled => State(r.ckpt) <= r.ver
        BY DEF Inv, ReaderInv, LatestInv
    <2>2. live[r.node].ver \in Nat
        BY <2>1, StoreTypes DEF Inv, Members
    <2>3. \E k \in 1..live[r.node].ver : Decoded(r.ckpt) = Bytes(k)
        BY <2>1, <2>2, BlobFacts
    <2> QED BY <2>1, <2>3, DecodedIs
<1> QED BY <1>1, RedisInvariant, PTL
=============================================================================
