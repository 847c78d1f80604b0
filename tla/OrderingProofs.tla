--------------------------- MODULE OrderingProofs ---------------------------
(***************************************************************************)
(* What the operators of Ordering return, for every finite set and every   *)
(* strict total order of it.                                               *)
(***************************************************************************)
EXTENDS Ordering, FiniteSetTheorems, TLAPS

\* Ranks are positions, and grow with the order.
LEMMA Ranks ==
    ASSUME NEW S, IsFiniteSet(S), NEW R, Orders(R, S)
    PROVE  /\ \A x \in S : Cardinality(UpTo(S, R, x)) \in 1..Cardinality(S)
           /\ \A x, y \in S : <<x, y>> \in R
                  => Cardinality(UpTo(S, R, x)) < Cardinality(UpTo(S, R, y))
<1>1. ASSUME NEW x \in S
      PROVE  /\ IsFiniteSet(UpTo(S, R, x)) /\ x \in UpTo(S, R, x)
             /\ Cardinality(UpTo(S, R, x)) \in 1..Cardinality(S)
  <2>1. UpTo(S, R, x) \in SUBSET S /\ x \in UpTo(S, R, x)
    BY DEF UpTo
  <2>2. IsFiniteSet(UpTo(S, R, x)) /\ Cardinality(UpTo(S, R, x)) <= Cardinality(S)
    BY <2>1, FS_Subset
  <2>3. Cardinality(UpTo(S, R, x)) \in Nat /\ Cardinality(S) \in Nat
    BY <2>2, FS_CardinalityType
  <2>4. Cardinality(UpTo(S, R, x)) # 0
    BY <2>1, <2>2, FS_EmptySet
  <2> QED BY <2>1, <2>2, <2>3, <2>4
<1>2. ASSUME NEW x \in S, NEW y \in S, <<x, y>> \in R
      PROVE  Cardinality(UpTo(S, R, x)) < Cardinality(UpTo(S, R, y))
  <2>1. UpTo(S, R, x) \in SUBSET UpTo(S, R, y)
    BY <1>2 DEF UpTo, Orders
  <2>2. y \in UpTo(S, R, y) /\ y \notin UpTo(S, R, x)
    BY <1>2 DEF UpTo, Orders
  <2>3. /\ Cardinality(UpTo(S, R, x)) <= Cardinality(UpTo(S, R, y))
        /\ Cardinality(UpTo(S, R, x)) # Cardinality(UpTo(S, R, y))
    BY <1>1, <2>1, <2>2, FS_Subset
  <2>4. Cardinality(UpTo(S, R, x)) \in 1..Cardinality(S)
        /\ Cardinality(UpTo(S, R, y)) \in 1..Cardinality(S)
    BY <1>1
  <2> QED BY <2>3, <2>4, FS_CardinalityType
<1> QED BY <1>1, <1>2

\* Each position is the rank of one element.
LEMMA RankIsBijective ==
    ASSUME NEW S, IsFiniteSet(S), NEW R, Orders(R, S)
    PROVE  /\ \A x, y \in S :
                 Cardinality(UpTo(S, R, x)) = Cardinality(UpTo(S, R, y)) => x = y
           /\ \A k \in 1..Cardinality(S) : \E x \in S : Cardinality(UpTo(S, R, x)) = k
<1> DEFINE rank == [x \in S |-> Cardinality(UpTo(S, R, x))]
           T == 1..Cardinality(S)
<1>1. Cardinality(S) \in Nat
  BY FS_CardinalityType
<1>2. IsFiniteSet(T) /\ Cardinality(T) = Cardinality(S)
  BY <1>1, FS_Interval
<1>3. \A x \in S : rank[x] \in T
  BY Ranks
<1>4. \A x, y \in S : rank[x] = rank[y] => x = y
  <2> SUFFICES ASSUME NEW x \in S, NEW y \in S, x # y PROVE rank[x] # rank[y]
    OBVIOUS
  <2>1. <<x, y>> \in R \/ <<y, x>> \in R
    BY DEF Orders
  <2>2. rank[x] < rank[y] \/ rank[y] < rank[x]
    BY <2>1, Ranks
  <2> HIDE DEF rank
  <2> QED BY <2>2, <1>3, <1>1
<1>5. rank \in Injection(S, T)
  <2>1. rank \in [S -> T] /\ DOMAIN rank = S
    BY <1>3
  <2> HIDE DEF rank
  <2> QED BY <2>1, <1>4 DEF Injection, IsInjective
<1>6. rank \in Surjection(S, T)
  <2> HIDE DEF rank, T
  <2> QED BY <1>2, <1>5, FS_Injection
<1> QED BY <1>4, <1>6 DEF Surjection

\* A query with ORDER BY answers with each element once, in that order.
LEMMA InOrderIsSorted ==
    ASSUME NEW S, IsFiniteSet(S), NEW R, Orders(R, S)
    PROVE  /\ InOrder(S, R) \in Seq(S)
           /\ Len(InOrder(S, R)) = Cardinality(S)
           /\ DOMAIN InOrder(S, R) = 1..Cardinality(S)
           /\ \A k \in 1..Cardinality(S) :
                 InOrder(S, R)[k] \in S /\ Cardinality(UpTo(S, R, InOrder(S, R)[k])) = k
           /\ \A x \in S : \E k \in 1..Cardinality(S) : InOrder(S, R)[k] = x
           /\ \A k, l \in 1..Cardinality(S) :
                 k < l <=> <<InOrder(S, R)[k], InOrder(S, R)[l]>> \in R
           /\ \A k, l \in 1..Cardinality(S) : InOrder(S, R)[k] = InOrder(S, R)[l] => k = l
<1> DEFINE n == Cardinality(S)
           s == InOrder(S, R)
<1>1. n \in Nat
  BY FS_CardinalityType
<1>2. \A k \in 1..n : s[k] \in S /\ Cardinality(UpTo(S, R, s[k])) = k
  BY RankIsBijective DEF InOrder
<1>3. s = [k \in 1..n |-> s[k]]
  BY DEF InOrder
<1>4. s \in [1..n -> S] /\ DOMAIN s = 1..n
  <2> HIDE DEF s
  <2> QED BY <1>2, <1>3
<1>5. s \in Seq(S) /\ Len(s) = n
  <2> HIDE DEF s, n
  <2> QED BY <1>1, <1>4
<1>6. \A x \in S : \E k \in 1..n : s[k] = x
  <2> SUFFICES ASSUME NEW x \in S PROVE \E k \in 1..n : s[k] = x
    OBVIOUS
  <2>1. Cardinality(UpTo(S, R, x)) \in 1..n
    BY Ranks
  <2>2. s[Cardinality(UpTo(S, R, x))] = x
    <3> HIDE DEF s
    <3> QED BY <2>1, <1>2, RankIsBijective
  <2> QED BY <2>1, <2>2
<1>7. \A k, l \in 1..n : s[k] = s[l] => k = l
  <2> HIDE DEF s
  <2> QED BY <1>2
<1>8. \A k, l \in 1..n : k < l <=> <<s[k], s[l]>> \in R
  <2> SUFFICES ASSUME NEW k \in 1..n, NEW l \in 1..n PROVE k < l <=> <<s[k], s[l]>> \in R
    OBVIOUS
  <2> HIDE DEF s, n
  <2>1. s[k] \in S /\ s[l] \in S /\ Cardinality(UpTo(S, R, s[k])) = k
        /\ Cardinality(UpTo(S, R, s[l])) = l
    BY <1>2
  <2>2. <<s[k], s[l]>> \in R => k < l
    BY <2>1, Ranks
  <2>3. <<s[l], s[k]>> \in R => l < k
    BY <2>1, Ranks
  <2>4. CASE s[k] = s[l]
    <3>1. k = l /\ <<s[k], s[l]>> \notin R
      BY <2>1, <2>4 DEF Orders
    <3> QED BY <3>1
  <2>5. CASE s[k] # s[l]
    <3>1. <<s[k], s[l]>> \in R \/ <<s[l], s[k]>> \in R
      BY <2>1, <2>5 DEF Orders
    <3> QED BY <3>1, <2>2, <2>3
  <2> QED BY <2>4, <2>5
<1> QED BY <1>2, <1>4, <1>5, <1>6, <1>7, <1>8

\* T has the elements of S in the same order, and others behind them.
Prolongs(T, Q, S, R) ==
    /\ S \subseteq T /\ Orders(R, S) /\ Orders(Q, T)
    /\ \A x, y \in S : <<x, y>> \in R <=> <<x, y>> \in Q
    /\ \A x \in S : \A y \in T \ S : <<x, y>> \in Q

\* Elements that come after all others leave the places of those alone: what a
\* query listed stays where it is when rows are added behind.
LEMMA InOrderGrows ==
    ASSUME NEW S, NEW R, NEW T, NEW Q, IsFiniteSet(T), Prolongs(T, Q, S, R)
    PROVE  /\ IsFiniteSet(S) /\ Cardinality(S) <= Cardinality(T)
           /\ Cardinality(S) \in Nat /\ Cardinality(T) \in Nat
           /\ \A k \in 1..Cardinality(S) :
                 k \in 1..Cardinality(T) /\ InOrder(S, R)[k] = InOrder(T, Q)[k]
<1>0. S \subseteq T /\ Orders(R, S) /\ Orders(Q, T)
  BY DEF Prolongs
<1>1. IsFiniteSet(S) /\ Cardinality(S) <= Cardinality(T)
  BY <1>0, FS_Subset
<1>2. Cardinality(S) \in Nat /\ Cardinality(T) \in Nat
  BY <1>1, FS_CardinalityType
<1>3. ASSUME NEW k \in 1..Cardinality(S)
      PROVE  k \in 1..Cardinality(T) /\ InOrder(S, R)[k] = InOrder(T, Q)[k]
  <2> DEFINE x == InOrder(S, R)[k]
             z == InOrder(T, Q)[k]
  <2>1. k \in 1..Cardinality(T)
    BY <1>1, <1>2
  <2>2. x \in S /\ Cardinality(UpTo(S, R, x)) = k
    BY <1>0, <1>1, InOrderIsSorted
  <2>3. z \in T /\ Cardinality(UpTo(T, Q, z)) = k
    BY <1>0, <2>1, InOrderIsSorted
  <2> HIDE DEF x, z
  <2>4. ASSUME NEW y \in T, y # x PROVE <<y, x>> \in Q <=> y \in S /\ <<y, x>> \in R
    <3>1. CASE y \in S
      BY <2>2, <3>1 DEF Prolongs
    <3>2. CASE y \notin S
      BY <2>2, <3>2 DEF Orders, Prolongs
    <3> QED BY <3>1, <3>2
  <2>5. UpTo(T, Q, x) = UpTo(S, R, x)
    BY <1>0, <2>2, <2>4 DEF UpTo
  <2>6. x = z
    BY <1>0, <2>2, <2>3, <2>5, RankIsBijective
  <2> QED BY <2>1, <2>6 DEF x, z
<1> QED BY <1>1, <1>2, <1>3

-----------------------------------------------------------------------------
LEMMA LessOrders == \A S \in SUBSET Int : Orders(Less(S), S)
<1> SUFFICES ASSUME NEW S \in SUBSET Int PROVE Orders(Less(S), S)
  OBVIOUS
<1>1. \A x, y \in S : <<x, y>> \in Less(S) <=> x < y
  BY DEF Less
<1>2. \A x, y \in S : x \in Int /\ y \in Int
  OBVIOUS
<1> QED BY <1>1, <1>2 DEF Orders

LEMMA AscendingIsInOrder == \A S \in SUBSET Int : Ascending(S) = InOrder(S, Less(S))
<1> SUFFICES ASSUME NEW S \in SUBSET Int PROVE Ascending(S) = InOrder(S, Less(S))
  OBVIOUS
<1> DEFINE f(k) == CHOOSE x \in S : Cardinality({y \in S : y <= x}) = k
           g(k) == CHOOSE x \in S : Cardinality(UpTo(S, Less(S), x)) = k
<1>1. ASSUME NEW x \in S PROVE {y \in S : y <= x} = UpTo(S, Less(S), x)
  <2>1. \A y \in S : y <= x <=> y = x \/ <<y, x>> \in Less(S)
    BY DEF Less
  <2> QED BY <2>1 DEF UpTo
<1>2. \A k \in 1..Cardinality(S) : f(k) = g(k)
  <2> SUFFICES ASSUME NEW k \in 1..Cardinality(S) PROVE f(k) = g(k)
    OBVIOUS
  <2>1. \A x \in S : Cardinality({y \in S : y <= x}) = k
                        <=> Cardinality(UpTo(S, Less(S), x)) = k
    BY <1>1
  <2> QED BY <2>1
<1>3. /\ Ascending(S) = [k \in 1..Cardinality(S) |-> f(k)]
      /\ InOrder(S, Less(S)) = [k \in 1..Cardinality(S) |-> g(k)]
  BY DEF Ascending, InOrder
<1> HIDE DEF f, g
<1> QED BY <1>2, <1>3

\* ORDER BY seq
LEMMA AscendingIsSorted ==
    ASSUME NEW S \in SUBSET Int, IsFiniteSet(S)
    PROVE  /\ Ascending(S) \in Seq(S)
           /\ Cardinality(S) \in Nat
           /\ Len(Ascending(S)) = Cardinality(S)
           /\ DOMAIN Ascending(S) = 1..Cardinality(S)
           /\ \A k \in 1..Cardinality(S) : Ascending(S)[k] \in S
           /\ \A x \in S : \E k \in 1..Cardinality(S) : Ascending(S)[k] = x
           /\ \A k, l \in 1..Cardinality(S) : k < l <=> Ascending(S)[k] < Ascending(S)[l]
           /\ \A k, l \in 1..Cardinality(S) : Ascending(S)[k] = Ascending(S)[l] => k = l
<1>1. Orders(Less(S), S)
  BY LessOrders
<1>2. \A x, y \in S : <<x, y>> \in Less(S) <=> x < y
  BY DEF Less
<1>3. Cardinality(S) \in Nat
  BY FS_CardinalityType
<1>4. \A k \in 1..Cardinality(S) : Ascending(S)[k] \in S
  BY <1>1, InOrderIsSorted, AscendingIsInOrder
<1>5. \A k, l \in 1..Cardinality(S) : k < l <=> Ascending(S)[k] < Ascending(S)[l]
  <2> SUFFICES ASSUME NEW k \in 1..Cardinality(S), NEW l \in 1..Cardinality(S)
               PROVE  k < l <=> Ascending(S)[k] < Ascending(S)[l]
    OBVIOUS
  <2>1. k < l <=> <<Ascending(S)[k], Ascending(S)[l]>> \in Less(S)
    BY <1>1, InOrderIsSorted, AscendingIsInOrder
  <2>2. Ascending(S)[k] \in S /\ Ascending(S)[l] \in S
    BY <1>4
  <2> QED BY <1>2, <2>1, <2>2
<1>6. /\ Ascending(S) \in Seq(S) /\ Len(Ascending(S)) = Cardinality(S)
      /\ DOMAIN Ascending(S) = 1..Cardinality(S)
  BY <1>1, InOrderIsSorted, AscendingIsInOrder
<1>7. \A x \in S : \E k \in 1..Cardinality(S) : Ascending(S)[k] = x
  BY <1>1, InOrderIsSorted, AscendingIsInOrder
<1>8. \A k, l \in 1..Cardinality(S) : Ascending(S)[k] = Ascending(S)[l] => k = l
  BY <1>1, InOrderIsSorted, AscendingIsInOrder
<1> QED BY <1>3, <1>4, <1>5, <1>6, <1>7, <1>8

\* Appending to a table appends to the numbers of its rows.
LEMMA AscendingGrows ==
    ASSUME NEW S \in SUBSET Int, NEW T \in SUBSET Int, IsFiniteSet(T), S \subseteq T,
           \A x \in S : \A y \in T \ S : x < y
    PROVE  /\ IsFiniteSet(S) /\ Cardinality(S) <= Cardinality(T)
           /\ Cardinality(S) \in Nat /\ Cardinality(T) \in Nat
           /\ \A k \in 1..Cardinality(S) :
                 k \in 1..Cardinality(T) /\ Ascending(S)[k] = Ascending(T)[k]
<1>1. Orders(Less(S), S) /\ Orders(Less(T), T)
  BY LessOrders
<1>2. \A x, y \in S : <<x, y>> \in Less(S) <=> <<x, y>> \in Less(T)
  BY DEF Less
<1>3. \A x \in S : \A y \in T \ S : <<x, y>> \in Less(T)
  BY DEF Less
<1>4. Prolongs(T, Less(T), S, Less(S))
  BY <1>1, <1>2, <1>3 DEF Prolongs
<1> QED BY <1>4, InOrderGrows, AscendingIsInOrder

\* A selection from a sequence consists of the elements at the positions selected.
LEMMA SelectAtSelects ==
    ASSUME NEW T, NEW s \in Seq(T), NEW I \in SUBSET DOMAIN s
    PROVE  /\ I \in SUBSET Int /\ IsFiniteSet(I) /\ Cardinality(I) \in Nat
           /\ SelectAt(s, I) \in Seq(T)
           /\ Len(SelectAt(s, I)) = Cardinality(I)
           /\ DOMAIN SelectAt(s, I) = 1..Cardinality(I)
           /\ \A k \in 1..Cardinality(I) :
                 SelectAt(s, I)[k] = s[Ascending(I)[k]] /\ Ascending(I)[k] \in I
           /\ \A i \in I : \E k \in 1..Cardinality(I) : SelectAt(s, I)[k] = s[i]
<1>1. Len(s) \in Nat /\ DOMAIN s = 1..Len(s)
  OBVIOUS
<1>2. IsFiniteSet(1..Len(s))
  BY <1>1, FS_Interval
<1>3. I \in SUBSET Int /\ IsFiniteSet(I) /\ Cardinality(I) \in Nat
  BY <1>1, <1>2, FS_Subset, FS_CardinalityType
<1>4. \A k \in 1..Cardinality(I) : Ascending(I)[k] \in I
  BY <1>3, AscendingIsSorted
<1>5. \A k \in 1..Cardinality(I) : SelectAt(s, I)[k] = s[Ascending(I)[k]]
  BY DEF SelectAt
<1>6. SelectAt(s, I) \in [1..Cardinality(I) -> T]
  BY <1>4 DEF SelectAt
<1>7. \A i \in I : \E k \in 1..Cardinality(I) : SelectAt(s, I)[k] = s[i]
  <2> SUFFICES ASSUME NEW i \in I
               PROVE  \E k \in 1..Cardinality(I) : SelectAt(s, I)[k] = s[i]
    OBVIOUS
  <2>1. PICK k \in 1..Cardinality(I) : Ascending(I)[k] = i
    BY <1>3, AscendingIsSorted
  <2> QED BY <2>1, <1>5
<1>8. SelectAt(s, I) \in Seq(T) /\ Len(SelectAt(s, I)) = Cardinality(I)
      /\ DOMAIN SelectAt(s, I) = 1..Cardinality(I)
  <2> DEFINE f == SelectAt(s, I)
             n == Cardinality(I)
  <2> HIDE DEF f, n
  <2>1. n \in Nat /\ f \in [1..n -> T]
    BY <1>3, <1>6 DEF f, n
  <2>2. f \in Seq(T) /\ Len(f) = n /\ DOMAIN f = 1..n
    BY <2>1
  <2> QED BY <2>2 DEF f, n
<1> QED BY <1>3, <1>4, <1>5, <1>7, <1>8

\* What a selection from a longer sequence has in addition.
LEMMA SelectAtGrows ==
    ASSUME NEW T, NEW s \in Seq(T), NEW x \in T, NEW I \in SUBSET DOMAIN s
    PROVE  /\ SelectAt(Append(s, x), I) = SelectAt(s, I)
           /\ SelectAt(Append(s, x), I \cup {Len(s) + 1}) = Append(SelectAt(s, I), x)
<1> DEFINE t == Append(s, x)
           J == I \cup {Len(s) + 1}
<1>1. /\ Len(s) \in Nat /\ DOMAIN s = 1..Len(s) /\ t \in Seq(T) /\ DOMAIN t = 1..(Len(s) + 1)
      /\ \A i \in DOMAIN s : t[i] = s[i]
      /\ t[Len(s) + 1] = x
    OBVIOUS
<1>2. /\ I \in SUBSET Int /\ IsFiniteSet(I) /\ Cardinality(I) \in Nat
      /\ SelectAt(s, I) \in Seq(T) /\ DOMAIN SelectAt(s, I) = 1..Cardinality(I)
      /\ Len(SelectAt(s, I)) = Cardinality(I)
      /\ \A k \in 1..Cardinality(I) :
            SelectAt(s, I)[k] = s[Ascending(I)[k]] /\ Ascending(I)[k] \in I
    BY SelectAtSelects
<1>3. I \in SUBSET DOMAIN t /\ J \in SUBSET DOMAIN t
    BY <1>1
<1> HIDE DEF t
<1>4. /\ DOMAIN SelectAt(t, I) = 1..Cardinality(I) /\ SelectAt(t, I) \in Seq(T)
      /\ \A k \in 1..Cardinality(I) : SelectAt(t, I)[k] = t[Ascending(I)[k]]
    BY <1>1, <1>3, SelectAtSelects
<1>5. \A k \in 1..Cardinality(I) : SelectAt(t, I)[k] = SelectAt(s, I)[k]
    BY <1>1, <1>2, <1>4
<1>6. SelectAt(t, I) = SelectAt(s, I)
    BY <1>2, <1>4, <1>5
<1>7. /\ IsFiniteSet(J) /\ Cardinality(J) = Cardinality(I) + 1
      /\ J \in SUBSET Int /\ I \subseteq J
      /\ \A i \in I : \A j \in J \ I : i < j
    <2>1. Len(s) + 1 \notin I
        BY <1>1
    <2>2. \A j \in J \ I : j = Len(s) + 1
        OBVIOUS
    <2>3. \A i \in I : i < Len(s) + 1
        BY <1>1
    <2>4. IsFiniteSet(J) /\ Cardinality(J) = Cardinality(I) + 1
        BY <1>2, <2>1, FS_AddElement
    <2> QED BY <1>1, <1>2, <2>2, <2>3, <2>4
<1> HIDE DEF J
<1>8. \A k \in 1..Cardinality(I) : k \in 1..Cardinality(J) /\ Ascending(I)[k] = Ascending(J)[k]
    BY <1>2, <1>7, AscendingGrows
<1>9. /\ DOMAIN SelectAt(t, J) = 1..Cardinality(J) /\ SelectAt(t, J) \in Seq(T)
      /\ Len(SelectAt(t, J)) = Cardinality(J)
      /\ \A k \in 1..Cardinality(J) : SelectAt(t, J)[k] = t[Ascending(J)[k]]
    BY <1>1, <1>3, SelectAtSelects
<1>10. Ascending(J)[Cardinality(J)] = Len(s) + 1
    <2>1. PICK k \in 1..Cardinality(J) : Ascending(J)[k] = Len(s) + 1
        BY <1>7, AscendingIsSorted DEF J
    <2>2. k \notin 1..Cardinality(I)
        BY <1>1, <1>2, <1>8, <2>1
    <2> QED BY <1>2, <1>7, <2>1, <2>2
<1>11. /\ \A k \in 1..Cardinality(I) : SelectAt(t, J)[k] = SelectAt(s, I)[k]
       /\ SelectAt(t, J)[Cardinality(I) + 1] = x
    <2>1. ASSUME NEW k \in 1..Cardinality(I) PROVE SelectAt(t, J)[k] = SelectAt(s, I)[k]
        <3>1. SelectAt(t, J)[k] = t[Ascending(I)[k]]
            BY <1>8, <1>9
        <3>2. Ascending(I)[k] \in DOMAIN s
            BY <1>2
        <3> QED BY <1>1, <1>2, <3>1, <3>2
    <2>2. Cardinality(J) \in 1..Cardinality(J)
        BY <1>2, <1>7
    <2>3. SelectAt(t, J)[Cardinality(J)] = x
        BY <1>1, <1>9, <1>10, <2>2
    <2> QED BY <1>7, <2>1, <2>3
<1>12. SelectAt(t, J) = Append(SelectAt(s, I), x)
    <2> DEFINE u == Append(SelectAt(s, I), x)
    <2>1. /\ u \in Seq(T) /\ Len(u) = Cardinality(I) + 1 /\ DOMAIN u = 1..(Cardinality(I) + 1)
          /\ u[Cardinality(I) + 1] = x
          /\ \A k \in 1..Cardinality(I) : u[k] = SelectAt(s, I)[k]
        BY <1>2
    <2> HIDE DEF u
    <2>2. \A k \in 1..(Cardinality(I) + 1) : k \in 1..Cardinality(I) \/ k = Cardinality(I) + 1
        BY <1>2
    <2>3. \A k \in DOMAIN u : SelectAt(t, J)[k] = u[k]
        BY <1>11, <2>1, <2>2
    <2>4. DOMAIN SelectAt(t, J) = DOMAIN u
        BY <1>7, <1>9, <2>1
    <2>5. SelectAt(t, J) = u
        BY <1>9, <2>1, <2>3, <2>4
    <2> QED BY <2>5 DEF u
<1> QED BY <1>6, <1>12 DEF t, J

\* Sets that correspond, orders and all, are listed alike: the same query asked
\* of other keys.
LEMMA InOrderCorresponds ==
    ASSUME NEW S, NEW R, IsFiniteSet(S), Orders(R, S), NEW T, NEW Q, Orders(Q, T),
           NEW f \in Bijection(S, T),
           \A x, y \in S : <<x, y>> \in R <=> <<f[x], f[y]>> \in Q
    PROVE  /\ IsFiniteSet(T) /\ Cardinality(T) = Cardinality(S)
           /\ \A k \in 1..Cardinality(S) : InOrder(T, Q)[k] = f[InOrder(S, R)[k]]
<1>1. IsFiniteSet(T) /\ Cardinality(T) = Cardinality(S)
  BY FS_Bijection DEF ExistsBijection
<1>2. /\ f \in [S -> T] /\ \A x, y \in S : f[x] = f[y] => x = y
      /\ \A t \in T : \E x \in S : f[x] = t
  BY DEF Bijection, Injection, Surjection, IsInjective
<1>3. ASSUME NEW x \in S PROVE Cardinality(UpTo(T, Q, f[x])) = Cardinality(UpTo(S, R, x))
  <2> DEFINE U == UpTo(S, R, x)
             V == UpTo(T, Q, f[x])
             g == [y \in U |-> f[y]]
  <2>1. U \subseteq S /\ V \subseteq T
    BY DEF UpTo
  <2>2. \A y \in S : y \in U <=> f[y] \in V
    BY <1>2 DEF UpTo
  <2> HIDE DEF U, V
  <2>3. g \in [U -> V] /\ \A y, z \in U : g[y] = g[z] => y = z
    BY <1>2, <2>1, <2>2
  <2>4. \A v \in V : \E y \in U : g[y] = v
    BY <1>2, <2>1, <2>2
  <2>5. g \in Bijection(U, V)
    BY <2>3, <2>4 DEF Bijection, Injection, Surjection, IsInjective
  <2>6. IsFiniteSet(U)
    BY <2>1, FS_Subset
  <2> QED BY <2>5, <2>6, FS_Bijection DEF ExistsBijection, U, V
<1>4. ASSUME NEW k \in 1..Cardinality(S) PROVE InOrder(T, Q)[k] = f[InOrder(S, R)[k]]
  <2>1. InOrder(S, R)[k] \in S /\ Cardinality(UpTo(S, R, InOrder(S, R)[k])) = k
    BY InOrderIsSorted
  <2>2. InOrder(T, Q)[k] \in T /\ Cardinality(UpTo(T, Q, InOrder(T, Q)[k])) = k
    BY <1>1, InOrderIsSorted
  <2>3. f[InOrder(S, R)[k]] \in T
    BY <1>2, <2>1
  <2> QED BY <1>1, <1>3, <2>1, <2>2, <2>3, RankIsBijective
<1> QED BY <1>1, <1>4
=============================================================================
