------------------------------ MODULE DurableLog ------------------------------
(***************************************************************************)
(* What the checkpoint engine and its SQLite store promise together: a log *)
(* of node states that only ever grows, in which no node goes back to an   *)
(* older state, and an acknowledgement of a save only for a state that is  *)
(* in the log.  A crash is invisible here: it loses nothing that the log   *)
(* holds or that was acknowledged.                                         *)
(***************************************************************************)
EXTENDS Integers, Sequences

CONSTANT State          \* records [node, ver, ckpt]

VARIABLES
    log,                \* committed rows, oldest first
    acked               \* states whose save returned True

vars == <<log, acked>>

InOrder(rows) ==
    \A i, j \in DOMAIN rows :
        i <= j /\ rows[i].node = rows[j].node =>
            rows[i].ver <= rows[j].ver /\ rows[i].ckpt <= rows[j].ckpt

Init == log = << >> /\ acked = {}

Extend ==
    /\ log' \in Seq(State)
    /\ Len(log') > Len(log)
    /\ SubSeq(log', 1, Len(log)) = log
    /\ InOrder(log')
    /\ UNCHANGED acked

Ack ==
    /\ \E i \in DOMAIN log : acked' = acked \cup {log[i]}
    /\ UNCHANGED log

Next == Extend \/ Ack

Spec == Init /\ [][Next]_vars
=============================================================================
