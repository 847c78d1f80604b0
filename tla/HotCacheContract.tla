-------------------------- MODULE HotCacheContract --------------------------
(***************************************************************************)
(* What the checkpoint engine relies on when it uses the hot tier: a cache *)
(* is a map from node ids to the value of the last put, and may forget any *)
(* other entry whenever it is touched (LRU or TTL).  HotCache is checked   *)
(* to keep to it; CheckpointEngine is built on it and nothing more.        *)
(***************************************************************************)
CONSTANT None          \* Python's None: no entry

\* The maps hot[k] = v may lead to: k holds v, any other key may be evicted.
PutOutcomes(hot, k, v) ==
    {[j \in DOMAIN hot |-> IF j = k THEN v
                           ELSE IF j \in evicted THEN None ELSE hot[j]] :
        evicted \in SUBSET DOMAIN hot}

\* The <<map, answer>> pairs of a lookup: the entry, or nothing and no entry.
GetOutcomes(hot, k) == {<<hot, hot[k]>>, <<[hot EXCEPT ![k] = None], None>>}

\* The maps any other operation may leave: nothing is added or changed.
TrimOutcomes(hot) ==
    {[j \in DOMAIN hot |-> IF j \in evicted THEN None ELSE hot[j]] :
        evicted \in SUBSET DOMAIN hot}
=============================================================================
