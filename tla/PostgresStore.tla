--------------------------- MODULE PostgresStore ---------------------------
(***************************************************************************)
(* stores/postgres.py: the queries of the Postgres backend, on the same    *)
(* rows in seq order as SQLiteStore.  Node ids are numbers, so that ORDER  *)
(* BY id has an order; it has nothing to do with that of the rows.         *)
(***************************************************************************)
EXTENDS SQLiteStore, SequencesExt

Ids(rows, S) == {rows[i].node : i \in S}

\* SELECT DISTINCT ON (id) ... ORDER BY id, seq DESC: of the rows in S, the last
\* one of each node, in the order of the ids.
DistinctOnId(rows, S) ==
    LET ids == Ascending(Ids(rows, S))
    IN  [k \in DOMAIN ids |-> Max(RowsOf(rows, ids[k]) \cap S)]

\* Plausible bug: the window function over what DISTINCT ON has left.
LastSeq(rows, i) == Max(RowsOf(rows, rows[i].node))

\* MIN(seq) OVER (PARTITION BY id), which sees all rows of the execution.
FirstSeq(rows, i) == Min(RowsOf(rows, rows[i].node))

\* list_by_execution: _LIST_ORDER_SQL
ListBySeq(rows) ==
    LET last   == ToSet(DistinctOnId(rows, DOMAIN rows))
        before == {p \in last \X last : FirstSeq(rows, p[1]) < FirstSeq(rows, p[2])}
        chosen == InOrder(last, before)
    IN  [k \in DOMAIN chosen |-> rows[chosen[k]]]

\* get_latest_checkpoint: the first of DISTINCT ON, by its LIMIT 1.  The query
\* before it only tells whether there is any.
LatestDistinct(rows) ==
    IF Blobs(rows) = {} THEN NoRow ELSE rows[Head(DistinctOnId(rows, Blobs(rows)))]
=============================================================================
