------------------------------ MODULE HotCache ------------------------------
(***************************************************************************)
(* checkpoint.py HotCache: a bounded LRU cache with a time to live.  The   *)
(* OrderedDict is a sequence whose head is the least recently used entry.  *)
(* The machine's calls are made on the event loop only, so each call is    *)
(* one step; time.monotonic() is the clock `now'.                          *)
(***************************************************************************)
EXTENDS Ordering, HotCacheContract

CONSTANTS
    Key,          \* node ids
    Value,        \* node objects (only their identity matters)
    Capacity,     \* hot_capacity
    TTL,          \* hot_ttl_seconds, in clock units
    MaxNow        \* bound: the clock stops here

ASSUME CapacityAssumption == Capacity \in Nat \ {0}   \* __init__ raises otherwise
ASSUME TTLAssumption == TTL \in Nat
ASSUME BoundsAssumption == MaxNow \in Nat
ASSUME NoneAssumption == None \notin Value /\ None \notin [ts : Nat, val : Value]

VARIABLES
    entries,      \* _entries, least recently used first
    now,          \* the monotonic clock
    answer,       \* result of the last get
    recency,      \* history: keys by their last put or hit, latest last
    lastPut       \* history: what the last put of each key stored, and when

vars == <<entries, now, answer, recency, lastPut>>

Entry == [id : Key, ts : 0..MaxNow, val : Value]

Ids(q) == {q[i].id : i \in DOMAIN q}
EntryOf(q, k) == CHOOSE e \in {q[i] : i \in DOMAIN q} : e.id = k
Expired(e, t) == t - e.ts > TTL
Without(q, k) == SelectAt(q, {i \in DOMAIN q : q[i].id # k})

\* Plausible bug: a read renews the entry's time to live.
MoveToEndRenewed(q, k) == Append(Without(q, k), [EntryOf(q, k) EXCEPT !.ts = now])

\* move_to_end
MoveToEnd(q, k) == Append(Without(q, k), EntryOf(q, k))

\* Plausible bug: the sweep is forgotten.
KeepExpired(q, t) == q

\* _evict_expired
EvictExpired(q, t) == SelectAt(q, {i \in DOMAIN q : ~Expired(q[i], t)})

\* Plausible bugs: room for one entry too many; popitem() from the wrong end.
EvictLRULate(q) == IF Len(q) > Capacity + 1 THEN Tail(q) ELSE q
EvictMRU(q) == IF Len(q) > Capacity THEN SubSeq(q, 1, Capacity) ELSE q

\* while len > capacity: popitem(last=False)
EvictLRU(q) == IF Len(q) > Capacity
               THEN SubSeq(q, Len(q) - Capacity + 1, Len(q)) ELSE q

Used(k) == Append(SelectAt(recency, {i \in DOMAIN recency : recency[i] # k}), k)

PutEntries(q, k, v) ==
    EvictLRU(EvictExpired(Append(Without(q, k), [id |-> k, ts |-> now, val |-> v]), now))

\* get answers <<entries left behind, value or None>>.
GetEntries(q, k) ==
    IF k \notin Ids(q) THEN <<q, None>>
    ELSE IF Expired(EntryOf(q, k), now) THEN <<Without(q, k), None>>
    ELSE <<MoveToEnd(q, k), EntryOf(q, k).val>>

Init ==
    /\ entries = << >> /\ now = 0 /\ answer = None
    /\ recency = << >>
    /\ lastPut = [k \in Key |-> None]

Put(k, v) ==
    /\ entries' = PutEntries(entries, k, v)
    /\ recency' = Used(k)
    /\ lastPut' = [lastPut EXCEPT ![k] = [ts |-> now, val |-> v]]
    /\ UNCHANGED <<now, answer>>

Get(k) ==
    LET got == GetEntries(entries, k) IN
    /\ entries' = got[1]
    /\ answer' = got[2]
    /\ recency' = IF got[2] = None THEN recency ELSE Used(k)
    /\ UNCHANGED <<now, lastPut>>

\* __len__ evicts what has expired before it counts.
Count ==
    /\ entries' = EvictExpired(entries, now)
    /\ UNCHANGED <<now, answer, recency, lastPut>>

Tick ==
    /\ now < MaxNow
    /\ now' = now + 1
    /\ UNCHANGED <<entries, answer, recency, lastPut>>

Next ==
    \/ \E k \in Key, v \in Value : Put(k, v)
    \/ \E k \in Key : Get(k)
    \/ Count
    \/ Tick

Spec == Init /\ [][Next]_vars

-----------------------------------------------------------------------------
\* The cache is a list of at most Capacity entries with distinct ids, none of
\* them stamped in the future.
TypeOK ==
    /\ entries \in Seq(Entry) /\ Len(entries) <= Capacity
    /\ Cardinality(Ids(entries)) = Len(entries)
    /\ \A i \in DOMAIN entries : entries[i].ts <= now
    /\ now \in 0..MaxNow
    /\ Ids(entries) \subseteq {recency[i] : i \in DOMAIN recency}

\* A hit returns the value of the key's last put, and that put is at most TTL
\* old: reading an entry must not prolong its life (get leaves ts alone).
HitsAreFresh ==
    [][\A k \in Key : Get(k) /\ answer' # None =>
          /\ lastPut[k] # None /\ answer' = lastPut[k].val
          /\ now - lastPut[k].ts <= TTL]_vars

MoreRecent(k, order) ==
    LET at(j) == CHOOSE i \in DOMAIN order : order[i] = j
    IN  {j \in {order[i] : i \in DOMAIN order} : at(j) > at(k)}

LiveIds(q) == {e.id : e \in {q[i] : i \in {j \in DOMAIN q : ~Expired(q[j], now)}}}

\* Only the least recently used entry makes room, and only in a cache full of
\* live entries: a live entry leaves only when Capacity entries that were put
\* or read after it stay.  An expired entry is never kept at its expense.
EvictsLeastRecentlyUsed ==
    [][\A i \in DOMAIN entries :
          LET e == entries[i] IN
          (~Expired(e, now) /\ e.id \notin Ids(entries')) =>
             Cardinality(MoreRecent(e.id, recency') \cap LiveIds(entries')) = Capacity
      ]_vars

\* The map the entries stand for.
HotMap == [k \in Key |-> IF k \in Ids(entries) THEN EntryOf(entries, k).val ELSE None]

\* Every call does to the map what HotCacheContract lets it do, which is all
\* that CheckpointEngine assumes of the hot tier.
KeepsContract ==
    [][/\ \A k \in Key, v \in Value : Put(k, v) => HotMap' \in PutOutcomes(HotMap, k, v)
       /\ \A k \in Key : Get(k) => <<HotMap', answer'>> \in GetOutcomes(HotMap, k)
       /\ Count => HotMap' \in TrimOutcomes(HotMap)]_vars
=============================================================================
