-------------------------- MODULE SQLiteStoreProofs --------------------------
(***************************************************************************)
(* Lemmas about the queries of SQLiteStore, for every table.               *)
(***************************************************************************)
EXTENDS SQLiteStore, OrderingProofs

\* A non-empty set of row numbers has a largest element (ORDER BY seq DESC
\* LIMIT 1 picks a row): the well-foundedness of < on the distances to the end.
LEMMA MaxOfIndices ==
    ASSUME NEW n \in Nat, NEW S \in SUBSET (1..n), S # {}
    PROVE  Max(S) \in S /\ \A i \in S : i <= Max(S)
<1> DEFINE D == {n - i : i \in S}
<1>1. D \subseteq Nat /\ D # {}
    <2>1. \A i \in S : n - i \in Nat
        OBVIOUS
    <2>2. \A i \in S : n - i \in D
        OBVIOUS
    <2> QED BY <2>1, <2>2, Zenon
<1>2. PICK d \in D : \A e \in D : <<e, d>> \notin OpToRel(<, Nat)
    BY <1>1, NatLessThanWellFounded, WFMin
<1>3. \A e \in D : ~ (e < d)
    BY <1>1, <1>2 DEF OpToRel
<1>4. PICK m \in S : d = n - m
    OBVIOUS
<1>5. \A i \in S : m >= i
    <2> TAKE i \in S
    <2>1. n - i \in D
        OBVIOUS
    <2> QED BY <2>1, <1>3, <1>4
<1>6. \E x \in S : \A y \in S : x >= y
    BY <1>5
<1> HIDE DEF D
<1>7. Max(S) \in S /\ \A y \in S : Max(S) >= y
    BY <1>6 DEF Max
<1> QED BY <1>7

\* The first of some row numbers (MIN(seq)).
LEMMA MinOfIndices ==
    ASSUME NEW n \in Nat, NEW S \in SUBSET (1..n), S # {}
    PROVE  Min(S) \in S /\ \A i \in S : Min(S) <= i
<1>1. S \subseteq Nat
    OBVIOUS
<1>2. PICK m \in S : \A i \in S : <<i, m>> \notin OpToRel(<, Nat)
    BY <1>1, NatLessThanWellFounded, WFMin
<1>3. \A i \in S : ~ (i < m)
    BY <1>1, <1>2 DEF OpToRel
<1>4. \A i \in S : m =< i
    BY <1>1, <1>3
<1>5. \E x \in S : \A y \in S : x =< y
    BY <1>4
<1>6. Min(S) \in S /\ \A y \in S : Min(S) =< y
    BY <1>5 DEF Min
<1> QED BY <1>6

\* A query answers with a row it selected, the last of them, or with nothing.
LEMMA NewestIsLast ==
    ASSUME NEW R, NEW rows \in Seq(R), NEW S \in SUBSET DOMAIN rows
    PROVE  \/ S = {} /\ Newest(rows, S) = NoRow
           \/ \E m \in S : Newest(rows, S) = rows[m] /\ \A i \in S : i <= m
<1>1. CASE S = {}
    BY <1>1 DEF Newest
<1>2. CASE S # {}
    <2>1. Len(rows) \in Nat /\ S \in SUBSET (1..Len(rows))
        OBVIOUS
    <2>2. Max(S) \in S /\ \A i \in S : i <= Max(S)
        BY <1>2, <2>1, MaxOfIndices
    <2> QED BY <1>2, <2>2 DEF Newest
<1> QED BY <1>1, <1>2

\* The three queries return rows of the table (or nothing).
LEMMA QueriesReturnRows ==
    ASSUME NEW R, NEW rows \in Seq(R)
    PROVE  /\ \A n : Latest(rows, n) \in R \cup {NoRow}
           /\ LatestCheckpoint(rows) \in R \cup {NoRow}
<1>1. \A S \in SUBSET DOMAIN rows : Newest(rows, S) \in R \cup {NoRow}
    <2> TAKE S \in SUBSET DOMAIN rows
    <2>1. \A m \in S : rows[m] \in R
        OBVIOUS
    <2> QED BY <2>1, NewestIsLast
<1>2. \A n : RowsOf(rows, n) \in SUBSET DOMAIN rows
    BY DEF RowsOf
<1>3. Blobs(rows) \in SUBSET DOMAIN rows
    BY DEF Blobs
<1> QED BY <1>1, <1>2, <1>3 DEF Latest, LatestCheckpoint
-----------------------------------------------------------------------------
\* Each node has one first row.
LEMMA FirstRows ==
    ASSUME NEW R, NEW rows \in Seq(R)
    PROVE  /\ Firsts(rows) \in SUBSET DOMAIN rows
           /\ \A i \in DOMAIN rows : \E f \in Firsts(rows) :
                 rows[f].node = rows[i].node /\ f <= i
           /\ \A f \in Firsts(rows) : \A i \in DOMAIN rows :
                 rows[i].node = rows[f].node => f <= i
           /\ \A f, g \in Firsts(rows) : rows[f].node = rows[g].node => f = g
<1>0. Len(rows) \in Nat /\ DOMAIN rows = 1..Len(rows)
    OBVIOUS
<1>1. Firsts(rows) \in SUBSET DOMAIN rows
    BY DEF Firsts
<1>2. ASSUME NEW i \in DOMAIN rows
      PROVE  LET f == Min(RowsOf(rows, rows[i].node)) IN
             /\ f \in DOMAIN rows /\ rows[f].node = rows[i].node
             /\ \A j \in DOMAIN rows : rows[j].node = rows[i].node => f <= j
    <2> DEFINE S == RowsOf(rows, rows[i].node)
    <2>1. S \in SUBSET (1..Len(rows)) /\ i \in S
        BY <1>0 DEF RowsOf
    <2>2. Min(S) \in S /\ \A j \in S : Min(S) <= j
        <3> HIDE DEF S
        <3> QED BY <2>1, <1>0, MinOfIndices
    <2> QED BY <2>2 DEF RowsOf
<1>3. ASSUME NEW i \in DOMAIN rows
      PROVE  \E f \in Firsts(rows) : rows[f].node = rows[i].node /\ f <= i
    <2> DEFINE f == Min(RowsOf(rows, rows[i].node))
    <2>1. f \in DOMAIN rows /\ rows[f].node = rows[i].node /\ f <= i
        BY <1>2
    <2>2. f = Min(RowsOf(rows, rows[f].node))
        BY <2>1
    <2> HIDE DEF f
    <2> QED BY <2>1, <2>2 DEF Firsts
<1>4. ASSUME NEW f \in Firsts(rows), NEW i \in DOMAIN rows, rows[i].node = rows[f].node
      PROVE  f <= i
    <2>1. f \in DOMAIN rows /\ f = Min(RowsOf(rows, rows[f].node))
        BY DEF Firsts
    <2>2. Min(RowsOf(rows, rows[f].node)) <= i
        BY <1>2, <1>4, <2>1
    <2> QED BY <2>1, <2>2
<1>5. ASSUME NEW f \in Firsts(rows), NEW g \in Firsts(rows), rows[f].node = rows[g].node
      PROVE  f = g
    <2>1. f \in DOMAIN rows /\ f = Min(RowsOf(rows, rows[f].node))
        BY DEF Firsts
    <2>2. g \in DOMAIN rows /\ g = Min(RowsOf(rows, rows[g].node))
        BY DEF Firsts
    <2> QED BY <1>5, <2>1, <2>2
<1> QED BY <1>1, <1>3, <1>4, <1>5

\* What the list of an execution is: every recorded node once, as its newest row
\* has it, in the order of the first rows.
LEMMA ListFacts ==
    ASSUME NEW R, NEW rows \in Seq(R)
    PROVE  /\ ListByExecution(rows) \in Seq(R)
           /\ IsFiniteSet(Firsts(rows)) /\ Cardinality(Firsts(rows)) \in Nat
           /\ Firsts(rows) \in SUBSET Int
           /\ DOMAIN ListByExecution(rows) = 1..Cardinality(Firsts(rows))
           /\ Len(ListByExecution(rows)) = Cardinality(Firsts(rows))
           /\ \A k \in DOMAIN ListByExecution(rows) :
                 /\ Ascending(Firsts(rows))[k] \in Firsts(rows)
                 /\ ListByExecution(rows)[k].node = rows[Ascending(Firsts(rows))[k]].node
                 /\ ListByExecution(rows)[k] = Latest(rows, ListByExecution(rows)[k].node)
                 /\ \E i \in DOMAIN rows : ListByExecution(rows)[k] = rows[i]
           /\ \A i \in DOMAIN rows : \E k \in DOMAIN ListByExecution(rows) :
                 ListByExecution(rows)[k].node = rows[i].node
           /\ \A k, l \in DOMAIN ListByExecution(rows) :
                 ListByExecution(rows)[k].node = ListByExecution(rows)[l].node => k = l
<1> DEFINE F == Firsts(rows)
           L == ListByExecution(rows)
           n == Cardinality(F)
<1>1. F \in SUBSET DOMAIN rows
    BY FirstRows
<1>2. /\ F \in SUBSET Int /\ IsFiniteSet(F) /\ n \in Nat
      /\ DOMAIN SelectAt(rows, F) = 1..n
      /\ \A k \in 1..n : SelectAt(rows, F)[k] = rows[Ascending(F)[k]] /\ Ascending(F)[k] \in F
      /\ \A i \in F : \E k \in 1..n : Ascending(F)[k] = i
      /\ \A k, l \in 1..n : Ascending(F)[k] = Ascending(F)[l] => k = l
    <2> HIDE DEF F
    <2>1. /\ F \in SUBSET Int /\ IsFiniteSet(F) /\ n \in Nat
          /\ DOMAIN SelectAt(rows, F) = 1..n
          /\ \A k \in 1..n : SelectAt(rows, F)[k] = rows[Ascending(F)[k]] /\ Ascending(F)[k] \in F
        BY <1>1, SelectAtSelects
    <2>2. /\ \A i \in F : \E k \in 1..n : Ascending(F)[k] = i
          /\ \A k, l \in 1..n : Ascending(F)[k] = Ascending(F)[l] => k = l
        BY <2>1, AscendingIsSorted
    <2> QED BY <2>1, <2>2
<1>3. ASSUME NEW i \in DOMAIN rows
      PROVE  \E m \in DOMAIN rows : /\ Latest(rows, rows[i].node) = rows[m]
                                   /\ rows[m].node = rows[i].node /\ rows[m] \in R
    <2>1. RowsOf(rows, rows[i].node) \in SUBSET DOMAIN rows /\ i \in RowsOf(rows, rows[i].node)
        BY DEF RowsOf
    <2>2. PICK m \in RowsOf(rows, rows[i].node) : Latest(rows, rows[i].node) = rows[m]
        BY <2>1, NewestIsLast DEF Latest
    <2> QED BY <2>2 DEF RowsOf
<1>4. DOMAIN L = 1..n /\ \A k \in 1..n : L[k] = Latest(rows, rows[Ascending(F)[k]].node)
    BY <1>2 DEF ListByExecution, LatestOf
<1> HIDE DEF F, L
<1>5. ASSUME NEW k \in 1..n
      PROVE  /\ L[k].node = rows[Ascending(F)[k]].node
             /\ L[k] = Latest(rows, L[k].node) /\ L[k] \in R
             /\ \E i \in DOMAIN rows : L[k] = rows[i]
    <2>1. Ascending(F)[k] \in DOMAIN rows
        BY <1>1, <1>2
    <2> QED BY <1>3, <1>4, <2>1
<1>6. L \in Seq(R) /\ Len(L) = n
    <2>1. L = [k \in 1..n |-> L[k]]
        BY <1>4 DEF L, ListByExecution, LatestOf
    <2>2. L \in [1..n -> R]
        BY <2>1, <1>5
    <2> QED BY <1>2, <2>2
<1>7. ASSUME NEW i \in DOMAIN rows
      PROVE  \E k \in 1..n : L[k].node = rows[i].node
    <2>1. PICK f \in F : rows[f].node = rows[i].node
        BY FirstRows DEF F
    <2>2. PICK k \in 1..n : Ascending(F)[k] = f
        BY <1>2
    <2> QED BY <1>5, <2>1, <2>2
<1>8. ASSUME NEW k \in 1..n, NEW l \in 1..n, L[k].node = L[l].node
      PROVE  k = l
    <2>1. Ascending(F)[k] \in F /\ Ascending(F)[l] \in F
        BY <1>2
    <2>2. rows[Ascending(F)[k]].node = rows[Ascending(F)[l]].node
        BY <1>5, <1>8
    <2>3. Ascending(F)[k] = Ascending(F)[l]
        BY <2>1, <2>2, FirstRows DEF F
    <2> QED BY <1>2, <2>3
<1> QED BY <1>2, <1>4, <1>5, <1>6, <1>7, <1>8 DEF F, L

\* Which rows are the first of their nodes.
LEMMA FirstRowsAre ==
    ASSUME NEW R, NEW rows \in Seq(R), NEW i \in DOMAIN rows
    PROVE  i \in Firsts(rows) <=> \A j \in DOMAIN rows : rows[j].node = rows[i].node => i <= j
<1>1. PICK f \in Firsts(rows) : rows[f].node = rows[i].node /\ f <= i
    BY FirstRows
<1>2. f \in DOMAIN rows /\ f \in Int /\ i \in Int
    BY FirstRows
<1>3. ASSUME \A j \in DOMAIN rows : rows[j].node = rows[i].node => i <= j PROVE i = f
    BY <1>1, <1>2, <1>3
<1> QED BY <1>1, <1>3, FirstRows

\* Whatever row is added, the nodes listed before keep their places.
LEMMA NodesKeepPlaces ==
    ASSUME NEW R, NEW rows \in Seq(R), NEW row \in R
    PROVE  LET old == ListByExecution(rows)
               new == ListByExecution(Append(rows, row))
           IN  /\ Len(old) <= Len(new)
               /\ \A k \in DOMAIN old : k \in DOMAIN new /\ new[k].node = old[k].node
<1> DEFINE more == Append(rows, row)
           S == Firsts(rows)
           T == Firsts(more)
<1>1. /\ Len(rows) \in Nat /\ DOMAIN rows = 1..Len(rows)
      /\ more \in Seq(R) /\ DOMAIN more = 1..(Len(rows) + 1)
      /\ \A i \in DOMAIN rows : i \in DOMAIN more /\ more[i] = rows[i]
    OBVIOUS
<1> HIDE DEF more
<1>2. \A i \in DOMAIN more : i \in DOMAIN rows \/ (i = Len(rows) + 1 /\ \A j \in DOMAIN rows : j < i)
    BY <1>1
<1>3. S \in SUBSET DOMAIN rows /\ T \in SUBSET DOMAIN more
    BY <1>1, FirstRows
<1>4. ASSUME NEW i \in DOMAIN rows PROVE i \in S <=> i \in T
    <2>1. i \in S <=> \A j \in DOMAIN rows : rows[j].node = rows[i].node => i <= j
        BY FirstRowsAre
    <2>2. i \in T <=> \A j \in DOMAIN more : more[j].node = more[i].node => i <= j
        BY <1>1, FirstRowsAre
    <2>3. \A j \in DOMAIN more \ DOMAIN rows : i <= j
        BY <1>1, <1>2
    <2> QED BY <1>1, <2>1, <2>2, <2>3
<1>5. S \subseteq T /\ \A i \in S : \A j \in T \ S : i < j
    BY <1>1, <1>2, <1>3, <1>4
<1>6. /\ S \in SUBSET Int /\ IsFiniteSet(T) /\ T \in SUBSET Int
      /\ Cardinality(S) \in Nat /\ Cardinality(T) \in Nat
    BY <1>1, ListFacts
<1>7. /\ DOMAIN ListByExecution(rows) = 1..Cardinality(S)
      /\ Len(ListByExecution(rows)) = Cardinality(S)
      /\ \A k \in DOMAIN ListByExecution(rows) :
            Ascending(S)[k] \in S /\ ListByExecution(rows)[k].node = rows[Ascending(S)[k]].node
    BY ListFacts
<1>8. /\ DOMAIN ListByExecution(more) = 1..Cardinality(T)
      /\ Len(ListByExecution(more)) = Cardinality(T)
      /\ \A k \in DOMAIN ListByExecution(more) :
            ListByExecution(more)[k].node = more[Ascending(T)[k]].node
    BY <1>1, ListFacts
<1> HIDE DEF S, T
<1>9. /\ Cardinality(S) <= Cardinality(T)
      /\ \A k \in 1..Cardinality(S) : k \in 1..Cardinality(T) /\ Ascending(S)[k] = Ascending(T)[k]
    BY <1>5, <1>6, AscendingGrows
<1>10. ASSUME NEW k \in DOMAIN ListByExecution(rows)
       PROVE  /\ k \in DOMAIN ListByExecution(more)
              /\ ListByExecution(more)[k].node = ListByExecution(rows)[k].node
    BY <1>1, <1>3, <1>7, <1>8, <1>9
<1> QED BY <1>7, <1>8, <1>9, <1>10 DEF more
=============================================================================
