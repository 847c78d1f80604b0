--------------------------- MODULE MCRedisLatest ---------------------------
(***************************************************************************)
(* RedisStore for an agent that awaits one save at a time, with a history  *)
(* of which checkpoint is the most recent one.                             *)
(***************************************************************************)
EXTENDS MCRedisStore

NoSaver == {}
Never == {0}

VARIABLE recent         \* history: the node of the last checkpoint whose save
                        \* returned True, 0 before the first

\* Its save is the one that was given the state.
Recent == LET new == {a \in acked' \ acked : a.ckpt = a.ver}
          IN  recent' = IF new = {} THEN recent ELSE (CHOOSE a \in new : TRUE).node

OneAtATime == Cardinality({n \in Node : saving'[n] = "awaiting"}) <= 1

HistoryInit == Init /\ recent = 0
HistoryNext == Next /\ OneAtATime /\ Recent
HistorySpec == HistoryInit /\ [][HistoryNext]_<<vars, recent>>

NoTies == \A m, n \in Members : index[m] = index[n] => m = n
NoSave == acked = reader.due /\ \A n \in Node : saving[n] = "idle"

\* "Return the most recent checkpoint for an execution": where no save was in
\* progress and no two nodes were first seen at the same time, that is the one of
\* the last save that was given a state.
LatestIsMostRecent ==
    Done("latest") /\ NoSave /\ NoTies /\ recent # 0 =>
        reader.got # << >> /\ reader.got[1].node = recent
=============================================================================
