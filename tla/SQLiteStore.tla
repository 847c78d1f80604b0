----------------------------- MODULE SQLiteStore -----------------------------
(***************************************************************************)
(* storage/sqlite_store.py: the nodes table and its three queries.  A      *)
(* table is the sequence of rows in `seq' order.  The rows are those of    *)
(* one execution: every query selects by id or by execution_id, so rows of *)
(* another execution change no answer.                                     *)
(***************************************************************************)
EXTENDS FiniteSetsExt, ExecutionNode, Ordering

CONSTANT NoRow          \* fetchone() returned None

RowsOf(rows, n) == {i \in DOMAIN rows : rows[i].node = n}
Blobs(rows) == {i \in DOMAIN rows : rows[i].ckpt # NoBlob}

\* Plausible bug: ORDER BY seq LIMIT 1.
Oldest(rows, S) == IF S = {} THEN NoRow ELSE rows[Min(S)]

\* ORDER BY seq DESC LIMIT 1
Newest(rows, S) == IF S = {} THEN NoRow ELSE rows[Max(S)]

\* _read_sync
Latest(rows, n) == Newest(rows, RowsOf(rows, n))

\* Plausible bug: the blob of the last row, without checkpoint IS NOT NULL.
LastRowIfBlob(rows) == IF Len(rows) \in Blobs(rows) THEN rows[Len(rows)] ELSE NoRow

\* _latest_checkpoint_sync
LatestCheckpoint(rows) == Newest(rows, Blobs(rows))

\* The latest rows of the nodes of the rows in I, in the order of those.
LatestOf(rows, I) ==
    LET chosen == SelectAt(rows, I) IN [k \in DOMAIN chosen |-> Latest(rows, chosen[k].node)]

\* Plausible bug: ORDER BY seq.
ListByLastSeq(rows) ==
    LatestOf(rows, {i \in DOMAIN rows : i = Max(RowsOf(rows, rows[i].node))})

\* MIN(seq) ... GROUP BY id
Firsts(rows) == {i \in DOMAIN rows : i = Min(RowsOf(rows, rows[i].node))}

\* _list_sync: one row per node, its latest, in order of first appearance.
ListByExecution(rows) == LatestOf(rows, Firsts(rows))
=============================================================================
