--------------------------- MODULE HotCacheProofs ---------------------------
(***************************************************************************)
(* The hot tier, for any keys, values, capacity and time to live: the list *)
(* it keeps is in the order of use, and stands for the map of the puts.    *)
(***************************************************************************)
EXTENDS HotCache, OrderingProofs

\* r has the elements of s at the positions I, in their order; f says where from.
Picks(f, r, s, I) ==
    /\ \A k \in DOMAIN r : f[k] \in I /\ r[k] = s[f[k]]
    /\ \A k, l \in DOMAIN r : k < l <=> f[k] < f[l]
    /\ \A i \in I : \E k \in DOMAIN r : f[k] = i

LEMMA Subsequence ==
    ASSUME NEW T, NEW s \in Seq(T), NEW I \in SUBSET DOMAIN s
    PROVE  /\ SelectAt(s, I) \in Seq(T) /\ Len(SelectAt(s, I)) <= Len(s)
           /\ I # DOMAIN s => Len(SelectAt(s, I)) < Len(s)
           /\ \E f : Picks(f, SelectAt(s, I), s, I)
<1>1. /\ I \in SUBSET Int /\ IsFiniteSet(I) /\ Cardinality(I) \in Nat
      /\ SelectAt(s, I) \in Seq(T) /\ Len(SelectAt(s, I)) = Cardinality(I)
      /\ DOMAIN SelectAt(s, I) = 1..Cardinality(I)
      /\ \A k \in 1..Cardinality(I) :
            SelectAt(s, I)[k] = s[Ascending(I)[k]] /\ Ascending(I)[k] \in I
    BY SelectAtSelects
<1>2. /\ \A k, l \in 1..Cardinality(I) : k < l <=> Ascending(I)[k] < Ascending(I)[l]
      /\ \A i \in I : \E k \in 1..Cardinality(I) : Ascending(I)[k] = i
    BY <1>1, AscendingIsSorted
<1>3. IsFiniteSet(1..Len(s)) /\ Cardinality(1..Len(s)) = Len(s) /\ DOMAIN s = 1..Len(s)
    <2>1. Len(s) \in Nat /\ DOMAIN s = 1..Len(s)
        OBVIOUS
    <2>2. 1 \in Int /\ Len(s) \in Int
        BY <2>1
    <2>3. IsFiniteSet(1..Len(s))
          /\ Cardinality(1..Len(s)) = IF 1 > Len(s) THEN 0 ELSE Len(s) - 1 + 1
        BY <2>2, FS_Interval
    <2>4. (IF 1 > Len(s) THEN 0 ELSE Len(s) - 1 + 1) = Len(s)
        BY <2>1
    <2> QED BY <2>1, <2>3, <2>4
<1>4. /\ Cardinality(I) <= Len(s)
      /\ I # DOMAIN s => Cardinality(I) < Len(s)
    <2>1. /\ Cardinality(I) <= Cardinality(DOMAIN s)
          /\ I # DOMAIN s => Cardinality(I) # Cardinality(DOMAIN s)
        BY <1>3, FS_Subset
    <2>2. Cardinality(DOMAIN s) = Len(s) /\ Len(s) \in Nat
        BY <1>3
    <2> QED BY <1>1, <2>1, <2>2
<1>5. Picks(Ascending(I), SelectAt(s, I), s, I)
    BY <1>1, <1>2 DEF Picks
<1> QED BY <1>1, <1>4, <1>5

-----------------------------------------------------------------------------
(* A list of entries that fits an order of use and the puts: it has what   *)
(* was put last of each key, and is in that order.                         *)

Order == {s \in Seq(Key) : \A a, b \in DOMAIN s : s[a] = s[b] => a = b}

IsPut(e, puts) == puts[e.id] = [ts |-> e.ts, val |-> e.val]

Fits(q, order, puts) ==
    /\ q \in Seq(Entry)
    /\ \A i \in DOMAIN q : IsPut(q[i], puts) /\ \E a \in DOMAIN order : order[a] = q[i].id
    /\ \A i, j \in DOMAIN q : i < j =>
          \A a, b \in DOMAIN order : order[a] = q[i].id /\ order[b] = q[j].id => a < b

\* No key twice.
LEMMA KeysAreDistinct ==
    ASSUME NEW q, NEW order \in Seq(Key), NEW puts, Fits(q, order, puts)
    PROVE  \A i, j \in DOMAIN q : q[i].id = q[j].id => i = j
<1> SUFFICES ASSUME NEW i \in DOMAIN q, NEW j \in DOMAIN q, q[i].id = q[j].id, i < j PROVE FALSE
    BY DEF Fits
<1>1. PICK a \in DOMAIN order : order[a] = q[i].id
    BY DEF Fits
<1>2. a < a
    BY <1>1 DEF Fits
<1> QED BY <1>2

\* What is left of a list that fits still fits.
LEMMA FewerFit ==
    ASSUME NEW q, NEW order, NEW puts, Fits(q, order, puts), NEW I \in SUBSET DOMAIN q
    PROVE  Fits(SelectAt(q, I), order, puts)
<1> DEFINE r == SelectAt(q, I)
<1>0. q \in Seq(Entry)
    BY DEF Fits
<1>1. r \in Seq(Entry)
    BY <1>0, Subsequence
<1>2. PICK f : Picks(f, r, q, I)
    BY <1>0, Subsequence
<1> HIDE DEF r
<1>3. /\ \A k \in DOMAIN r : f[k] \in DOMAIN q /\ r[k] = q[f[k]]
      /\ \A k, l \in DOMAIN r : k < l <=> f[k] < f[l]
    BY <1>2 DEF Picks
<1>4. \A k \in DOMAIN r : IsPut(r[k], puts) /\ \E a \in DOMAIN order : order[a] = r[k].id
    BY <1>3 DEF Fits
<1>5. \A k, l \in DOMAIN r : k < l =>
          \A a, b \in DOMAIN order : order[a] = r[k].id /\ order[b] = r[l].id => a < b
    BY <1>3 DEF Fits
<1>6. Fits(r, order, puts)
    BY <1>1, <1>4, <1>5 DEF Fits
<1> QED BY <1>6 DEF r

\* A key used again goes to the end of the order; the others keep theirs.
LEMMA UsedFacts ==
    ASSUME recency \in Order, NEW k \in Key
    PROVE  /\ Used(k) \in Order /\ Len(Used(k)) \in Nat \ {0} /\ Used(k)[Len(Used(k))] = k
           /\ \A a \in DOMAIN recency : \E b \in DOMAIN Used(k) : Used(k)[b] = recency[a]
           /\ \A a, b \in DOMAIN Used(k) : a < b /\ Used(k)[b] # k =>
                 \E c, d \in DOMAIN recency :
                    c < d /\ recency[c] = Used(k)[a] /\ recency[d] = Used(k)[b]
<1> DEFINE I == {i \in DOMAIN recency : recency[i] # k}
           rest == SelectAt(recency, I)
           new == Append(rest, k)
<1>0. recency \in Seq(Key) /\ \A a, b \in DOMAIN recency : recency[a] = recency[b] => a = b
    BY DEF Order
<1>1. Used(k) = new
    BY DEF Used
<1>2. rest \in Seq(Key) /\ Len(rest) \in Nat
    <2>1. I \in SUBSET DOMAIN recency
        OBVIOUS
    <2> HIDE DEF I
    <2> QED BY <1>0, <2>1, Subsequence
<1>I. /\ I \in SUBSET DOMAIN recency /\ \A i \in I : recency[i] # k
      /\ \A i \in DOMAIN recency : recency[i] # k => i \in I
    OBVIOUS
<1> HIDE DEF I
<1>P. PICK f : Picks(f, rest, recency, I)
    BY <1>0, <1>I, Subsequence
<1>3. /\ \A m \in DOMAIN rest : f[m] \in I /\ rest[m] = recency[f[m]]
      /\ \A m, l \in DOMAIN rest : m < l <=> f[m] < f[l]
      /\ \A i \in I : \E m \in DOMAIN rest : f[m] = i
    BY <1>P DEF Picks
<1>4. \A m \in DOMAIN rest : f[m] \in DOMAIN recency /\ rest[m] # k
    BY <1>3, <1>I
<1>5. \A i \in DOMAIN recency : recency[i] # k => \E m \in DOMAIN rest : rest[m] = recency[i]
    BY <1>3, <1>I
<1> HIDE DEF rest
<1>6. /\ new \in Seq(Key) /\ Len(new) = Len(rest) + 1 /\ new[Len(rest) + 1] = k
      /\ DOMAIN rest = 1..Len(rest) /\ DOMAIN new = 1..(Len(rest) + 1)
      /\ \A m \in 1..Len(rest) : new[m] = rest[m]
    BY <1>2
<1> HIDE DEF new
<1>7. \A m \in DOMAIN new : m \in DOMAIN rest \/ m = Len(rest) + 1
    BY <1>2, <1>6
<1>8. new \in Order
    <2>1. \A a, b \in DOMAIN rest : rest[a] = rest[b] => a = b
        <3> SUFFICES ASSUME NEW a \in DOMAIN rest, NEW b \in DOMAIN rest, rest[a] = rest[b]
                     PROVE  a = b
            OBVIOUS
        <3>1. f[a] = f[b] /\ f[a] \in Int
            BY <1>0, <1>3, <1>4
        <3>2. ~(a < b) /\ ~(b < a) /\ a \in Int /\ b \in Int
            BY <1>2, <1>3, <1>6, <3>1
        <3> QED BY <3>2
    <2>2. \A a, b \in DOMAIN new : new[a] = new[b] => a = b
        BY <1>4, <1>6, <1>7, <2>1
    <2> QED BY <1>6, <2>2 DEF Order
<1>9. \A a \in DOMAIN recency : \E b \in DOMAIN new : new[b] = recency[a]
    <2> SUFFICES ASSUME NEW a \in DOMAIN recency PROVE \E b \in DOMAIN new : new[b] = recency[a]
        OBVIOUS
    <2>1. CASE recency[a] = k
        <3>1. Len(rest) + 1 \in DOMAIN new
            BY <1>2, <1>6
        <3> QED BY <1>6, <2>1, <3>1
    <2>2. CASE recency[a] # k
        <3>1. \A m \in DOMAIN rest : m \in DOMAIN new
            BY <1>2, <1>6
        <3> QED BY <1>5, <1>6, <2>2, <3>1
    <2> QED BY <2>1, <2>2
<1>10. ASSUME NEW a \in DOMAIN new, NEW b \in DOMAIN new, a < b, new[b] # k
       PROVE  \E c, d \in DOMAIN recency : c < d /\ recency[c] = new[a] /\ recency[d] = new[b]
    <2>1. b \in DOMAIN rest /\ a \in DOMAIN rest
        BY <1>2, <1>6, <1>7, <1>10
    <2>2. f[a] < f[b] /\ recency[f[a]] = new[a] /\ recency[f[b]] = new[b]
        BY <1>3, <1>6, <1>10, <2>1
    <2> QED BY <1>4, <2>1, <2>2
<1> QED BY <1>1, <1>2, <1>6, <1>8, <1>9, <1>10

\* An entry that is put or used goes behind the others.
LEMMA AppendFits ==
    ASSUME recency \in Order, NEW q, Fits(q, recency, lastPut), NEW e \in Entry,
           \A i \in DOMAIN q : q[i].id # e.id,
           NEW puts, IsPut(e, puts), \A j : j # e.id => puts[j] = lastPut[j]
    PROVE  Fits(Append(q, e), Used(e.id), puts)
<1> DEFINE k == e.id
           new == Append(q, e)
           order == Used(k)
<1>1. k \in Key /\ q \in Seq(Entry) /\ recency \in Seq(Key)
    BY DEF Entry, Fits, Order
<1>2. /\ new \in Seq(Entry) /\ Len(q) \in Nat /\ DOMAIN q = 1..Len(q)
      /\ DOMAIN new = 1..(Len(q) + 1) /\ new[Len(q) + 1] = e
      /\ \A i \in DOMAIN q : new[i] = q[i]
    BY <1>1
<1> HIDE DEF new
<1>3. \A i \in DOMAIN new : i \in DOMAIN q \/ i = Len(q) + 1
    BY <1>2
<1>4. /\ order \in Order /\ Len(order) \in Nat \ {0} /\ order[Len(order)] = k
      /\ \A a \in DOMAIN recency : \E b \in DOMAIN order : order[b] = recency[a]
      /\ \A a, b \in DOMAIN order : a < b /\ order[b] # k =>
            \E c, d \in DOMAIN recency : c < d /\ recency[c] = order[a] /\ recency[d] = order[b]
    BY <1>1, UsedFacts
<1> HIDE DEF order
<1>5. /\ DOMAIN order = 1..Len(order)
      /\ \A a, b \in DOMAIN order : order[a] = order[b] => a = b
    BY <1>4 DEF Order
<1>6. ASSUME NEW i \in DOMAIN new
      PROVE  IsPut(new[i], puts) /\ \E a \in DOMAIN order : order[a] = new[i].id
    <2>1. CASE i \in DOMAIN q
        <3>1. IsPut(q[i], lastPut) /\ \E a \in DOMAIN recency : recency[a] = q[i].id
            BY <2>1 DEF Fits
        <3> QED BY <1>2, <1>4, <2>1, <3>1 DEF IsPut
    <2>2. CASE i = Len(q) + 1
        <3>1. Len(order) \in DOMAIN order
            BY <1>4, <1>5
        <3> QED BY <1>2, <1>4, <2>2, <3>1
    <2> QED BY <1>3, <2>1, <2>2
<1>7. ASSUME NEW i \in DOMAIN new, NEW j \in DOMAIN new, i < j,
             NEW a \in DOMAIN order, NEW b \in DOMAIN order,
             order[a] = new[i].id, order[b] = new[j].id
      PROVE  a < b
    <2>1. i \in DOMAIN q
        BY <1>2, <1>3, <1>7
    <2>2. CASE j = Len(q) + 1
        <3>1. order[b] = k /\ order[a] # k
            BY <1>2, <1>7, <2>1, <2>2
        <3>2. b = Len(order)
            BY <1>4, <1>5, <3>1
        <3> QED BY <1>4, <1>5, <3>1, <3>2
    <2>3. CASE j \in DOMAIN q
        <3>1. order[a] = q[i].id /\ order[b] = q[j].id /\ order[a] # k
            BY <1>2, <1>7, <2>1, <2>3
        <3>2. order[a] # order[b]
            <4>1. i # j
                BY <1>2, <1>7
            <4> QED BY <1>1, <2>1, <2>3, <3>1, <4>1, KeysAreDistinct
        <3>3. ~(b < a)
            <4> SUFFICES ASSUME b < a PROVE FALSE
                OBVIOUS
            <4>1. PICK c \in DOMAIN recency, d \in DOMAIN recency :
                      c < d /\ recency[c] = q[j].id /\ recency[d] = q[i].id
                BY <1>4, <3>1
            <4>2. d < c
                BY <1>7, <2>1, <2>3, <4>1 DEF Fits
            <4> QED BY <1>1, <4>1, <4>2
        <3> QED BY <1>4, <1>5, <3>2, <3>3
    <2> QED BY <1>3, <2>2, <2>3
<1>8. Fits(new, order, puts)
    BY <1>2, <1>6, <1>7 DEF Fits
<1> QED BY <1>8 DEF new, order

\* Eviction leaves the last Capacity entries.
LEMMA EvictFacts ==
    ASSUME NEW order, NEW puts, NEW q, Fits(q, order, puts)
    PROVE  /\ Fits(EvictLRU(q), order, puts)
           /\ Len(EvictLRU(q)) = IF Len(q) > Capacity THEN Capacity ELSE Len(q)
           /\ \A i \in DOMAIN EvictLRU(q) :
                 /\ i + (Len(q) - Len(EvictLRU(q))) \in DOMAIN q
                 /\ EvictLRU(q)[i] = q[i + (Len(q) - Len(EvictLRU(q)))]
<1> DEFINE r == EvictLRU(q)
<1>1. q \in Seq(Entry) /\ Len(q) \in Nat /\ DOMAIN q = 1..Len(q) /\ Capacity \in Nat \ {0}
    BY CapacityAssumption DEF Fits
<1>2. CASE Len(q) <= Capacity
    <2>1. r = q
        BY <1>1, <1>2 DEF EvictLRU
    <2>2. Len(q) - Len(q) = 0 /\ \A i \in DOMAIN q : i + 0 = i
        BY <1>1
    <2>3. Fits(EvictLRU(q), order, puts) /\ Len(EvictLRU(q)) = Len(q)
        BY <2>1
    <2>4. \A i \in DOMAIN EvictLRU(q) :
              /\ i + (Len(q) - Len(EvictLRU(q))) \in DOMAIN q
              /\ EvictLRU(q)[i] = q[i + (Len(q) - Len(EvictLRU(q)))]
        BY <2>1, <2>2
    <2>5. ~(Len(q) > Capacity)
        BY <1>1, <1>2
    <2> QED BY <2>3, <2>4, <2>5
<1>3. CASE Len(q) > Capacity
    <2> DEFINE d == Len(q) - Capacity
    <2>0. d \in Nat /\ d + 1 \in 1..Len(q)
        BY <1>1, <1>3
    <2>1. r = SubSeq(q, d + 1, Len(q))
        BY <1>1, <1>3 DEF EvictLRU
    <2> HIDE DEF d, r
    <2>2. /\ r \in Seq(Entry) /\ Len(r) = Len(q) - d
          /\ \A i \in 1..(Len(q) - d) : r[i] = q[i + d]
        BY <1>1, <2>0, <2>1
    <2>3. Len(r) = Capacity /\ DOMAIN r = 1..Capacity /\ Len(q) - Len(r) = d
        BY <1>1, <2>2 DEF d
    <2>4. \A i \in DOMAIN r : i + d \in DOMAIN q /\ r[i] = q[i + d] /\ i \in Int
        BY <1>1, <2>0, <2>2, <2>3 DEF d
    <2>5. \A i, j \in DOMAIN r : i < j => i + d < j + d
        BY <2>0, <2>4
    <2>6. Fits(r, order, puts)
        BY <2>2, <2>4, <2>5 DEF Fits
    <2> QED BY <1>3, <2>3, <2>4, <2>6 DEF r
<1> QED BY <1>1, <1>2, <1>3

-----------------------------------------------------------------------------
Holds(q, e) == \E i \in DOMAIN q : q[i] = e

LEMMA EntryOfFacts ==
    ASSUME NEW order \in Seq(Key), NEW puts, NEW q, Fits(q, order, puts)
    PROVE  /\ \A k \in Ids(q) : Holds(q, EntryOf(q, k)) /\ EntryOf(q, k).id = k
           /\ \A e : Holds(q, e) => e \in Entry /\ e.id \in Ids(q) /\ EntryOf(q, e.id) = e
<1>1. ASSUME NEW k \in Ids(q) PROVE Holds(q, EntryOf(q, k)) /\ EntryOf(q, k).id = k
    <2>1. \E e \in {q[i] : i \in DOMAIN q} : e.id = k
        BY DEF Ids
    <2>2. EntryOf(q, k) \in {q[i] : i \in DOMAIN q} /\ EntryOf(q, k).id = k
        BY <2>1 DEF EntryOf
    <2> QED BY <2>2 DEF Holds
<1>2. ASSUME NEW e, Holds(q, e) PROVE e \in Entry /\ e.id \in Ids(q) /\ EntryOf(q, e.id) = e
    <2>1. PICK i \in DOMAIN q : q[i] = e
        BY <1>2 DEF Holds
    <2>2. e \in Entry /\ e.id \in Ids(q)
        BY <2>1 DEF Fits, Ids
    <2>3. PICK j \in DOMAIN q : q[j] = EntryOf(q, e.id) /\ q[j].id = e.id
        BY <1>1, <2>2 DEF Holds
    <2>4. i = j
        BY <2>1, <2>3, KeysAreDistinct
    <2> QED BY <2>1, <2>2, <2>3, <2>4
<1> QED BY <1>1, <1>2

\* As many entries as keys.
LEMMA KeysAreCounted ==
    ASSUME NEW order \in Seq(Key), NEW puts, NEW q, Fits(q, order, puts)
    PROVE  Cardinality(Ids(q)) = Len(q)
<1> DEFINE f == [i \in 1..Len(q) |-> q[i].id]
<1>1. q \in Seq(Entry) /\ Len(q) \in Nat /\ DOMAIN q = 1..Len(q)
    BY DEF Fits
<1>2. \A i, j \in 1..Len(q) : f[i] = f[j] => i = j
    BY <1>1, KeysAreDistinct
<1>3. f \in [1..Len(q) -> Ids(q)] /\ \A k \in Ids(q) : \E i \in 1..Len(q) : f[i] = k
    BY <1>1 DEF Ids
<1>4. f \in Bijection(1..Len(q), Ids(q))
    <2> HIDE DEF f
    <2> QED BY <1>2, <1>3 DEF Bijection, Injection, Surjection, IsInjective
<1> QED BY <1>1, <1>4, FS_CountingElements DEF ExistsBijection

LEMMA WithoutFacts ==
    ASSUME NEW order \in Seq(Key), NEW puts, NEW q, Fits(q, order, puts), NEW k
    PROVE  /\ Fits(Without(q, k), order, puts) /\ Len(Without(q, k)) <= Len(q)
           /\ k \in Ids(q) => Len(Without(q, k)) < Len(q)
           /\ \A e : Holds(Without(q, k), e) <=> Holds(q, e) /\ e.id # k
<1> DEFINE I == {i \in DOMAIN q : q[i].id # k}
<1>1. Without(q, k) = SelectAt(q, I) /\ I \in SUBSET DOMAIN q /\ q \in Seq(Entry)
    BY DEF Without, Fits
<1>2. k \in Ids(q) => I # DOMAIN q
    BY DEF Ids
<1>3. \A i \in DOMAIN q : i \in I <=> q[i].id # k
    OBVIOUS
<1> HIDE DEF I
<1>4. PICK f : Picks(f, Without(q, k), q, I)
    BY <1>1, Subsequence
<1>5. \A e : Holds(Without(q, k), e) <=> Holds(q, e) /\ e.id # k
    BY <1>1, <1>3, <1>4 DEF Holds, Picks
<1> QED BY <1>1, <1>2, <1>5, FewerFit, Subsequence

LEMMA SweepFacts ==
    ASSUME NEW order \in Seq(Key), NEW puts, NEW q, Fits(q, order, puts), NEW t
    PROVE  /\ Fits(EvictExpired(q, t), order, puts) /\ Len(EvictExpired(q, t)) <= Len(q)
           /\ \A e : Holds(EvictExpired(q, t), e) <=> Holds(q, e) /\ ~Expired(e, t)
<1> DEFINE I == {i \in DOMAIN q : ~Expired(q[i], t)}
<1>1. EvictExpired(q, t) = SelectAt(q, I) /\ I \in SUBSET DOMAIN q /\ q \in Seq(Entry)
    BY DEF EvictExpired, Fits
<1>2. \A i \in DOMAIN q : i \in I <=> ~Expired(q[i], t)
    OBVIOUS
<1> HIDE DEF I
<1>3. PICK f : Picks(f, EvictExpired(q, t), q, I)
    BY <1>1, Subsequence
<1>4. \A e : Holds(EvictExpired(q, t), e) <=> Holds(q, e) /\ ~Expired(e, t)
    BY <1>1, <1>2, <1>3 DEF Holds, Picks
<1> QED BY <1>1, <1>4, FewerFit, Subsequence

-----------------------------------------------------------------------------
HInv ==
    /\ now \in 0..MaxNow
    /\ recency \in Order
    /\ lastPut = [k \in Key |-> lastPut[k]]
    /\ Fits(entries, recency, lastPut) /\ Len(entries) <= Capacity
    /\ \A e : Holds(entries, e) => e.ts <= now

\* What put has before it makes room: the new entry behind the live ones.
Swept(q, k, v) ==
    EvictExpired(Append(Without(q, k), [id |-> k, ts |-> now, val |-> v]), now)

LEMMA PutFacts ==
    ASSUME HInv, NEW k \in Key, NEW v \in Value, Put(k, v)
    PROVE  LET e == [id |-> k, ts |-> now, val |-> v]
               q == Swept(entries, k, v)
           IN  /\ entries' = EvictLRU(q) /\ Fits(q, recency', lastPut') /\ recency' \in Order
               /\ lastPut' = [j \in Key |-> lastPut'[j]]
               /\ \A x : Holds(q, x) <=>
                      x = e \/ (Holds(entries, x) /\ x.id # k /\ ~Expired(x, now))
               /\ q # << >> /\ q[Len(q)] = e
<1> DEFINE e == [id |-> k, ts |-> now, val |-> v]
           rest == Without(entries, k)
           more == Append(rest, e)
           q == EvictExpired(more, now)
<1>1. /\ entries' = EvictLRU(q) /\ recency' = Used(k) /\ UNCHANGED now
      /\ lastPut' = [lastPut EXCEPT ![k] = [ts |-> now, val |-> v]]
    BY DEF Put, PutEntries
<1>2. /\ recency \in Order /\ recency \in Seq(Key) /\ Fits(entries, recency, lastPut)
      /\ lastPut = [j \in Key |-> lastPut[j]]
    BY DEF HInv, Order
<1>3. Fits(rest, recency, lastPut) /\ \A x : Holds(rest, x) <=> Holds(entries, x) /\ x.id # k
    BY <1>2, WithoutFacts
<1>4. e \in Entry /\ e.id = k /\ ~Expired(e, now)
    <2>1. now \in Int
        BY BoundsAssumption DEF HInv
    <2> QED BY <2>1, TTLAssumption DEF HInv, Entry, Expired
<1>5. IsPut(e, lastPut') /\ \A j : j # e.id => lastPut'[j] = lastPut[j]
    <2>1. \A j : j # k => lastPut'[j] = lastPut[j]
        BY <1>1, <1>2
    <2>2. lastPut'[k] = [ts |-> now, val |-> v]
        BY <1>1, <1>2
    <2> QED BY <1>4, <2>1, <2>2 DEF IsPut
<1>6. \A i \in DOMAIN rest : rest[i].id # e.id
    BY <1>3, <1>4 DEF Holds
<1>7. rest \in Seq(Entry)
    BY <1>3 DEF Fits
<1>8. \A x : Holds(more, x) <=> Holds(rest, x) \/ x = e
    <2> HIDE DEF rest, e
    <2>1. /\ Len(rest) \in Nat /\ DOMAIN rest = 1..Len(rest) /\ DOMAIN more = 1..(Len(rest) + 1)
          /\ more[Len(rest) + 1] = e /\ \A i \in DOMAIN rest : more[i] = rest[i]
        BY <1>4, <1>7
    <2>2. /\ \A i \in DOMAIN more : i \in DOMAIN rest \/ i = Len(rest) + 1
          /\ \A i \in DOMAIN rest : i \in DOMAIN more
          /\ Len(rest) + 1 \in DOMAIN more
        BY <2>1
    <2> HIDE DEF more
    <2> QED BY <2>1, <2>2 DEF Holds
<1> HIDE DEF rest, e
<1>9. Fits(more, Used(e.id), lastPut')
    BY <1>2, <1>3, <1>4, <1>5, <1>6, AppendFits
<1>10. recency' \in Order /\ recency' \in Seq(Key) /\ Fits(more, recency', lastPut')
       /\ Len(recency') \in Nat \ {0} /\ recency'[Len(recency')] = k
    BY <1>1, <1>2, <1>4, <1>9, UsedFacts DEF Order
<1> HIDE DEF more
<1>11. /\ Fits(q, recency', lastPut')
       /\ \A x : Holds(q, x) <=> Holds(more, x) /\ ~Expired(x, now)
    BY <1>10, SweepFacts
<1>12. \A x : Holds(q, x) <=> x = e \/ (Holds(entries, x) /\ x.id # k /\ ~Expired(x, now))
    BY <1>3, <1>4, <1>8, <1>11
<1> HIDE DEF q
<1>13. q # << >> /\ q[Len(q)] = e
    <2>1. PICK i \in DOMAIN q : q[i] = e
        BY <1>12 DEF Holds
    <2>2. q \in Seq(Entry) /\ Len(q) \in Nat /\ DOMAIN q = 1..Len(q)
        BY <1>11 DEF Fits
    <2>3. Len(q) \in DOMAIN q /\ (i < Len(q) \/ i = Len(q))
        BY <2>1, <2>2
    <2>4. ASSUME i < Len(q) PROVE FALSE
        <3>1. PICK b \in DOMAIN recency' : recency'[b] = q[Len(q)].id
            BY <1>11, <2>3 DEF Fits
        <3>2. Len(recency') \in DOMAIN recency' /\ DOMAIN recency' = 1..Len(recency')
            BY <1>10
        <3>3. Len(recency') < b
            <4>1. \A a, c \in DOMAIN recency' :
                      recency'[a] = q[i].id /\ recency'[c] = q[Len(q)].id => a < c
                BY <1>11, <2>1, <2>3, <2>4 DEF Fits
            <4>2. q[i].id = k
                BY <1>4, <2>1
            <4> QED BY <1>10, <3>1, <3>2, <4>1, <4>2
        <3> QED BY <1>10, <3>2, <3>3
    <2> QED BY <2>1, <2>2, <2>3, <2>4
<1>14. lastPut' = [j \in Key |-> lastPut'[j]]
    BY <1>1, <1>2
<1>15. q = Swept(entries, k, v)
    BY DEF Swept, q, more, rest, e
<1> QED BY <1>1, <1>10, <1>11, <1>12, <1>13, <1>14, <1>15 DEF e

\* What a lookup leaves behind.
LEMMA GetFacts ==
    ASSUME HInv, NEW k \in Key, Get(k)
    PROVE  /\ Fits(entries', recency', lastPut) /\ recency' \in Order
           /\ Len(entries') <= Len(entries)
           /\ \/ /\ \A x : Holds(entries', x) <=> Holds(entries, x)
                 /\ \/ k \in Ids(entries) /\ answer' = EntryOf(entries, k).val
                       /\ ~Expired(EntryOf(entries, k), now)
                    \/ k \notin Ids(entries) /\ answer' = None
              \/ /\ \A x : Holds(entries', x) <=> Holds(entries, x) /\ x.id # k
                 /\ k \in Ids(entries) /\ Expired(EntryOf(entries, k), now) /\ answer' = None
<1> DEFINE e == EntryOf(entries, k)
           rest == Without(entries, k)
<1>1. /\ recency \in Order /\ recency \in Seq(Key) /\ Fits(entries, recency, lastPut)
      /\ entries \in Seq(Entry)
    BY DEF HInv, Order, Fits
<1>2. CASE k \notin Ids(entries)
    <2>1. entries' = entries /\ answer' = None /\ recency' = recency
        BY <1>2 DEF Get, GetEntries
    <2>2. Len(entries) <= Len(entries)
        BY <1>1
    <2> QED BY <1>1, <1>2, <2>1, <2>2
<1>3. CASE k \in Ids(entries) /\ Expired(e, now)
    <2>1. entries' = rest /\ answer' = None /\ recency' = recency
        BY <1>3 DEF Get, GetEntries
    <2>2. /\ Fits(rest, recency, lastPut) /\ Len(rest) <= Len(entries)
          /\ \A x : Holds(rest, x) <=> Holds(entries, x) /\ x.id # k
        BY <1>1, WithoutFacts
    <2> QED BY <1>1, <1>3, <2>1, <2>2
<1>4. CASE k \in Ids(entries) /\ ~Expired(e, now)
    <2>1. Holds(entries, e) /\ e.id = k /\ e \in Entry
        BY <1>1, <1>4, EntryOfFacts
    <2>2. e.val # None
        BY <2>1, NoneAssumption DEF Entry
    <2>3. entries' = Append(rest, e) /\ answer' = e.val /\ recency' = Used(k)
        BY <1>4, <2>2 DEF Get, GetEntries, MoveToEnd
    <2>4. /\ Fits(rest, recency, lastPut) /\ Len(rest) < Len(entries)
          /\ \A x : Holds(rest, x) <=> Holds(entries, x) /\ x.id # k
        BY <1>1, <1>4, WithoutFacts
    <2>5. IsPut(e, lastPut)
        BY <1>1, <2>1 DEF Fits, Holds
    <2> HIDE DEF rest, e
    <2>6. \A i \in DOMAIN rest : rest[i].id # e.id
        BY <2>1, <2>4 DEF Holds
    <2>7. Fits(entries', Used(k), lastPut)
        BY <1>1, <2>1, <2>3, <2>4, <2>5, <2>6, AppendFits
    <2>8. recency' \in Order
        BY <1>1, <2>3, UsedFacts
    <2>9. /\ rest \in Seq(Entry) /\ Len(rest) \in Nat /\ DOMAIN rest = 1..Len(rest)
          /\ DOMAIN entries' = 1..(Len(rest) + 1) /\ Len(entries') = Len(rest) + 1
          /\ entries'[Len(rest) + 1] = e /\ \A i \in DOMAIN rest : entries'[i] = rest[i]
        BY <2>1, <2>3, <2>4 DEF Fits
    <2>10. \A x : Holds(entries', x) <=> Holds(entries, x)
        <3>1. /\ \A i \in DOMAIN entries' : i \in DOMAIN rest \/ i = Len(rest) + 1
              /\ \A i \in DOMAIN rest : i \in DOMAIN entries'
              /\ Len(rest) + 1 \in DOMAIN entries'
            BY <2>9
        <3>2. \A x : Holds(entries', x) <=> Holds(rest, x) \/ x = e
            BY <2>9, <3>1 DEF Holds
        <3>3. \A x : Holds(entries, x) /\ x.id = k => x = e
            BY <1>1, EntryOfFacts DEF e
        <3> QED BY <2>1, <2>4, <3>2, <3>3
    <2>11. Len(entries') <= Len(entries)
        BY <1>1, <2>4, <2>9
    <2> QED BY <1>4, <2>3, <2>7, <2>8, <2>10, <2>11 DEF e
<1> QED BY <1>2, <1>3, <1>4

LEMMA InitHInv == Init => HInv
<1> SUFFICES ASSUME Init PROVE HInv
    OBVIOUS
<1>1. /\ entries = << >> /\ now = 0 /\ recency = << >> /\ lastPut = [k \in Key |-> None]
    BY DEF Init
<1>2. recency \in Order
    BY <1>1 DEF Order
<1>3. Fits(entries, recency, lastPut) /\ Len(entries) <= Capacity
    BY <1>1, CapacityAssumption DEF Fits
<1>4. \A e : ~Holds(entries, e)
    BY <1>1 DEF Holds
<1> QED BY <1>1, <1>2, <1>3, <1>4, BoundsAssumption DEF HInv

LEMMA HInvStep == HInv /\ [Next]_vars => HInv'
<1> SUFFICES ASSUME HInv, [Next]_vars PROVE HInv'
    OBVIOUS
<1>0. /\ recency \in Order /\ recency \in Seq(Key) /\ Fits(entries, recency, lastPut)
      /\ entries \in Seq(Entry) /\ Len(entries) <= Capacity /\ Len(entries) \in Nat
      /\ Capacity \in Nat /\ now \in 0..MaxNow /\ lastPut = [k \in Key |-> lastPut[k]]
      /\ \A e : Holds(entries, e) => e.ts <= now
    BY CapacityAssumption DEF HInv, Order, Fits
<1>1. ASSUME NEW k \in Key, NEW v \in Value, Put(k, v) PROVE HInv'
    <2> DEFINE e == [id |-> k, ts |-> now, val |-> v]
               q == Swept(entries, k, v)
    <2>1. /\ entries' = EvictLRU(q) /\ Fits(q, recency', lastPut') /\ recency' \in Order
          /\ lastPut' = [j \in Key |-> lastPut'[j]]
          /\ \A x : Holds(q, x) <=>
                 x = e \/ (Holds(entries, x) /\ x.id # k /\ ~Expired(x, now))
        BY <1>1, PutFacts
    <2>2. e.ts = now
        OBVIOUS
    <2> HIDE DEF e, q
    <2>3. /\ Fits(EvictLRU(q), recency', lastPut')
          /\ Len(EvictLRU(q)) = IF Len(q) > Capacity THEN Capacity ELSE Len(q)
          /\ \A i \in DOMAIN EvictLRU(q) : \E j \in DOMAIN q : EvictLRU(q)[i] = q[j]
        BY <2>1, EvictFacts
    <2>4. Len(entries') <= Capacity
        <3>1. Len(q) \in Nat
            BY <2>1 DEF Fits
        <3> QED BY <1>0, <2>1, <2>3, <3>1
    <2>5. \A x : Holds(entries', x) => Holds(q, x)
        BY <2>1, <2>3 DEF Holds
    <2>6. \A x : Holds(entries', x) => x.ts <= now
        BY <1>0, <2>1, <2>2, <2>5
    <2>7. now' = now
        BY <1>1 DEF Put
    <2> QED BY <1>0, <2>1, <2>3, <2>4, <2>6, <2>7 DEF HInv, Holds
<1>2. ASSUME NEW k \in Key, Get(k) PROVE HInv'
    <2>1. UNCHANGED <<now, lastPut>>
        BY <1>2 DEF Get
    <2>2. /\ Fits(entries', recency', lastPut) /\ recency' \in Order
          /\ Len(entries') <= Len(entries)
          /\ \A x : Holds(entries', x) => Holds(entries, x)
        BY <1>2, GetFacts
    <2>3. Len(entries') <= Capacity
        <3>1. Len(entries') \in Nat
            BY <2>2 DEF Fits
        <3> QED BY <1>0, <2>2, <3>1
    <2> QED BY <1>0, <2>1, <2>2, <2>3 DEF HInv, Holds
<1>3. CASE Count
    <2>1. entries' = EvictExpired(entries, now) /\ UNCHANGED <<now, recency, lastPut>>
        BY <1>3 DEF Count
    <2>2. /\ Fits(EvictExpired(entries, now), recency, lastPut)
          /\ Len(EvictExpired(entries, now)) <= Len(entries)
          /\ \A x : Holds(EvictExpired(entries, now), x) => Holds(entries, x)
        BY <1>0, SweepFacts
    <2>3. Len(entries') <= Capacity
        <3>1. Len(entries') \in Nat
            BY <2>1, <2>2 DEF Fits
        <3> QED BY <1>0, <2>1, <2>2, <3>1
    <2> QED BY <1>0, <2>1, <2>2, <2>3 DEF HInv, Holds
<1>4. CASE Tick
    <2>1. now' = now + 1 /\ now < MaxNow /\ UNCHANGED <<entries, recency, lastPut>>
        BY <1>4 DEF Tick
    <2>2. now' \in 0..MaxNow /\ now \in Int
        BY <1>0, <2>1, BoundsAssumption
    <2>3. \A e : Holds(entries, e) => e.ts <= now'
        <3>1. \A e : Holds(entries, e) => e \in Entry
            BY <1>0 DEF Holds
        <3>2. \A e \in Entry : e.ts \in Int
            BY BoundsAssumption DEF Entry
        <3> QED BY <1>0, <2>1, <2>2, <3>1, <3>2
    <2> QED BY <1>0, <2>1, <2>2, <2>3 DEF HInv, Holds
<1>5. CASE UNCHANGED vars
    BY <1>0, <1>5 DEF vars, HInv, Holds
<1> QED BY <1>1, <1>2, <1>3, <1>4, <1>5 DEF Next

LEMMA HInvHolds == Spec => []HInv
BY InitHInv, HInvStep, PTL DEF Spec

-----------------------------------------------------------------------------
\* The cache never holds more than Capacity entries nor two of one key, none from
\* the future, and every one of them has its place in the order of use.
THEOREM HotCacheTyped == Spec => []TypeOK
<1>1. HInv => TypeOK
    <2> SUFFICES ASSUME HInv PROVE TypeOK
        OBVIOUS
    <2>1. /\ recency \in Seq(Key) /\ Fits(entries, recency, lastPut) /\ entries \in Seq(Entry)
          /\ \A e : Holds(entries, e) => e.ts <= now
        BY DEF HInv, Order, Fits
    <2>2. Cardinality(Ids(entries)) = Len(entries)
        BY <2>1, KeysAreCounted
    <2>3. \A i \in DOMAIN entries : entries[i].ts <= now
        BY <2>1 DEF Holds
    <2>4. Ids(entries) \subseteq {recency[i] : i \in DOMAIN recency}
        BY <2>1 DEF Fits, Ids
    <2> QED BY <2>1, <2>2, <2>3, <2>4 DEF TypeOK, HInv
<1> QED BY <1>1, HInvHolds, PTL

\* A hit is what was put last under its key, and not longer ago than the time to
\* live, however often the entry was read since.
THEOREM HitsFresh == Spec => HitsAreFresh
<1> DEFINE Fresh == \A k \in Key : Get(k) /\ answer' # None =>
               /\ lastPut[k] # None /\ answer' = lastPut[k].val
               /\ now - lastPut[k].ts <= TTL
<1>1. HInv => Fresh
    <2> SUFFICES ASSUME HInv, NEW k \in Key, Get(k), answer' # None
                 PROVE  /\ lastPut[k] # None /\ answer' = lastPut[k].val
                        /\ now - lastPut[k].ts <= TTL
        OBVIOUS
    <2>1. /\ k \in Ids(entries) /\ answer' = EntryOf(entries, k).val
          /\ ~Expired(EntryOf(entries, k), now)
        BY GetFacts
    <2>2. recency \in Seq(Key) /\ Fits(entries, recency, lastPut) /\ now \in Int
        BY BoundsAssumption DEF HInv, Order
    <2>3. PICK i \in DOMAIN entries : entries[i] = EntryOf(entries, k) /\ entries[i].id = k
        BY <2>1, <2>2, EntryOfFacts DEF Holds
    <2>4. entries[i] \in Entry /\ lastPut[k] = [ts |-> entries[i].ts, val |-> entries[i].val]
        BY <2>2, <2>3 DEF Fits, IsPut
    <2>5. entries[i].ts \in Nat /\ entries[i].val \in Value
        BY <2>4, BoundsAssumption DEF Entry
    <2>6. lastPut[k] \in [ts : Nat, val : Value]
        BY <2>4, <2>5
    <2>7. now - entries[i].ts <= TTL
        BY <2>1, <2>2, <2>3, <2>5, TTLAssumption DEF Expired
    <2> QED BY <2>1, <2>3, <2>4, <2>6, <2>7, NoneAssumption
<1>2. Fresh => [Fresh]_vars
    OBVIOUS
<1> HIDE DEF Fresh
<1>3. Spec => [][Fresh]_vars
    BY <1>1, <1>2, HInvHolds, PTL
<1> QED BY <1>3 DEF HitsAreFresh, Fresh

\* To the map of its puts, the cache does nothing that CheckpointEngine does not
\* allow for: it forgets, and never makes up or changes an entry.
THEOREM HotCacheKeepsContract == Spec => KeepsContract
<1> DEFINE Kept ==
        /\ \A k \in Key, v \in Value : Put(k, v) => HotMap' \in PutOutcomes(HotMap, k, v)
        /\ \A k \in Key : Get(k) => <<HotMap', answer'>> \in GetOutcomes(HotMap, k)
        /\ Count => HotMap' \in TrimOutcomes(HotMap)
<1>1. HInv /\ HInv' => Kept
    <2> SUFFICES ASSUME HInv, HInv' PROVE Kept
        OBVIOUS
    <2>0. /\ recency \in Seq(Key) /\ Fits(entries, recency, lastPut)
          /\ recency' \in Seq(Key) /\ Fits(entries', recency', lastPut')
        BY DEF HInv, Order
    <2>1. /\ HotMap = [j \in Key |-> HotMap[j]] /\ HotMap' = [j \in Key |-> HotMap'[j]]
          /\ DOMAIN HotMap = Key
        BY DEF HotMap
    <2>2. /\ \A x : Holds(entries, x) => HotMap[x.id] = x.val
          /\ \A x : Holds(entries', x) => HotMap'[x.id] = x.val
        BY <2>0, EntryOfFacts DEF HotMap, Entry
    <2>3. /\ \A j \in Key : HotMap[j] = None \/ \E x : Holds(entries, x) /\ x.id = j
          /\ \A j \in Key : HotMap'[j] = None \/ \E x : Holds(entries', x) /\ x.id = j
        BY <2>0, EntryOfFacts DEF HotMap
    <2>4. ASSUME NEW k \in Key, NEW v \in Value, Put(k, v)
          PROVE  HotMap' \in PutOutcomes(HotMap, k, v)
        <3> DEFINE e == [id |-> k, ts |-> now, val |-> v]
                   q == Swept(entries, k, v)
                   gone == {j \in Key : HotMap'[j] = None}
        <3>1. /\ entries' = EvictLRU(q) /\ Fits(q, recency', lastPut')
              /\ \A x : Holds(q, x) => x = e \/ (Holds(entries, x) /\ x.id # k)
              /\ q # << >> /\ q[Len(q)] = e
            BY <2>4, PutFacts
        <3>2. e.id = k /\ e.val = v
            OBVIOUS
        <3> HIDE DEF e, q
        <3>3. /\ Len(EvictLRU(q)) = IF Len(q) > Capacity THEN Capacity ELSE Len(q)
              /\ \A i \in DOMAIN EvictLRU(q) :
                    /\ i + (Len(q) - Len(EvictLRU(q))) \in DOMAIN q
                    /\ EvictLRU(q)[i] = q[i + (Len(q) - Len(EvictLRU(q)))]
            BY <3>1, EvictFacts
        <3>4. Holds(entries', e)
            <4> DEFINE m == Len(entries')
            <4>1. q \in Seq(Entry) /\ Len(q) \in Nat \ {0} /\ Capacity \in Nat \ {0}
                  /\ entries' \in Seq(Entry)
                BY <2>0, <3>1, CapacityAssumption DEF Fits
            <4>2. m \in DOMAIN entries' /\ m + (Len(q) - m) = Len(q)
                BY <3>1, <3>3, <4>1
            <4>3. entries'[m] = q[m + (Len(q) - m)]
                BY <3>1, <3>3, <4>2
            <4> QED BY <3>1, <4>2, <4>3 DEF Holds
        <3>5. \A x : Holds(entries', x) => x = e \/ (Holds(entries, x) /\ x.id # k)
            BY <3>1, <3>3 DEF Holds
        <3>6. \A j \in Key : HotMap'[j] = IF j = k THEN v ELSE IF j \in gone THEN None
                                          ELSE HotMap[j]
            BY <2>2, <2>3, <3>2, <3>4, <3>5
        <3>7. gone \in SUBSET DOMAIN HotMap
            BY <2>1
        <3> HIDE DEF gone
        <3>8. HotMap' = [j \in DOMAIN HotMap |-> IF j = k THEN v ELSE IF j \in gone THEN None
                                                 ELSE HotMap[j]]
            BY <2>1, <3>6
        <3> QED BY <3>7, <3>8 DEF PutOutcomes
    <2>5. ASSUME NEW k \in Key, Get(k)
          PROVE  <<HotMap', answer'>> \in GetOutcomes(HotMap, k)
        <3>1. CASE \A x : Holds(entries', x) <=> Holds(entries, x)
            <4>1. \A j \in Key : HotMap'[j] = HotMap[j]
                BY <2>2, <2>3, <3>1
            <4>2. HotMap' = HotMap
                BY <2>1, <4>1
            <4>3. answer' = HotMap[k]
                <5>1. CASE k \in Ids(entries)
                    <6>1. Holds(entries, EntryOf(entries, k)) /\ EntryOf(entries, k).id = k
                        BY <2>0, <5>1, EntryOfFacts
                    <6>2. Holds(entries', EntryOf(entries, k))
                        BY <3>1, <6>1
                    <6>3. answer' = EntryOf(entries, k).val
                        BY <2>5, <5>1, <6>1, <6>2, GetFacts
                    <6> QED BY <2>2, <6>1, <6>3
                <5>2. CASE k \notin Ids(entries)
                    BY <2>5, <5>2, GetFacts DEF HotMap
                <5> QED BY <5>1, <5>2
            <4> QED BY <4>2, <4>3 DEF GetOutcomes
        <3>2. CASE /\ \A x : Holds(entries', x) <=> Holds(entries, x) /\ x.id # k
                   /\ answer' = None
            <4>1. \A j \in Key : HotMap'[j] = IF j = k THEN None ELSE HotMap[j]
                BY <2>2, <2>3, <3>2
            <4>2. HotMap' = [HotMap EXCEPT ![k] = None]
                BY <2>1, <4>1
            <4> QED BY <3>2, <4>2 DEF GetOutcomes
        <3> QED BY <2>5, <3>1, <3>2, GetFacts
    <2>6. ASSUME Count PROVE HotMap' \in TrimOutcomes(HotMap)
        <3> DEFINE gone == {j \in Key : HotMap'[j] = None}
        <3>1. \A x : Holds(entries', x) => Holds(entries, x)
            BY <2>0, <2>6, SweepFacts DEF Count
        <3>2. \A j \in Key : HotMap'[j] = IF j \in gone THEN None ELSE HotMap[j]
            BY <2>2, <2>3, <3>1
        <3>3. gone \in SUBSET DOMAIN HotMap
            BY <2>1
        <3> HIDE DEF gone
        <3>4. HotMap' = [j \in DOMAIN HotMap |-> IF j \in gone THEN None ELSE HotMap[j]]
            BY <2>1, <3>2
        <3> QED BY <3>3, <3>4 DEF TrimOutcomes
    <2> QED BY <2>4, <2>5, <2>6
<1>2. Kept => [Kept]_vars
    OBVIOUS
<1> HIDE DEF Kept
<1>3. Spec => [][Kept]_vars
    BY <1>1, <1>2, HInvHolds, PTL
<1> QED BY <1>3 DEF KeepsContract, Kept

LEMMA MoreRecentIs ==
    ASSUME NEW order \in Order, NEW a \in DOMAIN order, NEW b \in DOMAIN order, a < b
    PROVE  order[b] \in MoreRecent(order[a], order)
<1> DEFINE at(j) == CHOOSE i \in DOMAIN order : order[i] = j
<1>1. ASSUME NEW c \in DOMAIN order PROVE at(order[c]) = c
    <2>1. at(order[c]) \in DOMAIN order /\ order[at(order[c])] = order[c]
        OBVIOUS
    <2> QED BY <2>1 DEF Order
<1>2. at(order[b]) > at(order[a])
    <2>1. a \in Int /\ b \in Int
        BY DEF Order
    <2> QED BY <1>1, <2>1
<1>3. MoreRecent(order[a], order) = {j \in {order[i] : i \in DOMAIN order} : at(j) > at(order[a])}
    BY DEF MoreRecent
<1> HIDE DEF at
<1> QED BY <1>2, <1>3

\* Only a put into a cache full of live entries drops a live one, and then the one
\* used longest ago: Capacity entries used after it stay.
THEOREM HotCacheEvictsLRU == Spec => EvictsLeastRecentlyUsed
<1> DEFINE LRU == \A i \in DOMAIN entries :
          LET e == entries[i] IN
          (~Expired(e, now) /\ e.id \notin Ids(entries')) =>
             Cardinality(MoreRecent(e.id, recency') \cap LiveIds(entries')) = Capacity
<1>1. HInv /\ HInv' /\ [Next]_vars => LRU
    <2> SUFFICES ASSUME HInv, HInv', [Next]_vars, NEW i \in DOMAIN entries,
                        ~Expired(entries[i], now), entries[i].id \notin Ids(entries')
                 PROVE  Cardinality(MoreRecent(entries[i].id, recency') \cap LiveIds(entries'))
                            = Capacity
        OBVIOUS
    <2> DEFINE x == entries[i]
    <2>0. /\ recency \in Seq(Key) /\ Fits(entries, recency, lastPut)
          /\ recency' \in Order /\ recency' \in Seq(Key) /\ Fits(entries', recency', lastPut')
          /\ Holds(entries, x) /\ x \in Entry
        <3>1. /\ recency \in Seq(Key) /\ Fits(entries, recency, lastPut)
              /\ recency' \in Order /\ recency' \in Seq(Key) /\ Fits(entries', recency', lastPut')
            BY DEF HInv, Order
        <3>2. Holds(entries, x)
            BY DEF Holds
        <3>3. entries \in Seq(Entry)
            BY <3>1 DEF Fits
        <3> QED BY <3>1, <3>2, <3>3
    <2>1. ~Holds(entries', x)
        BY <2>0, EntryOfFacts
    <2>2. EntryOf(entries, x.id) = x
        BY <2>0, EntryOfFacts
    <2>3. ASSUME NEW k \in Key, Get(k) PROVE FALSE
        BY <2>0, <2>1, <2>2, <2>3, GetFacts
    <2>4. ASSUME Count PROVE FALSE
        BY <2>0, <2>1, <2>4, SweepFacts DEF Count
    <2>5. ASSUME Tick \/ UNCHANGED vars PROVE FALSE
        BY <2>0, <2>1, <2>5 DEF Tick, vars, Holds
    <2>6. ASSUME NEW k \in Key, NEW v \in Value, Put(k, v)
          PROVE  Cardinality(MoreRecent(x.id, recency') \cap LiveIds(entries')) = Capacity
        <3> DEFINE e == [id |-> k, ts |-> now, val |-> v]
                   q == Swept(entries, k, v)
                   d == Len(q) - Len(entries')
        <3>1. /\ entries' = EvictLRU(q) /\ Fits(q, recency', lastPut')
              /\ \A y : Holds(q, y) <=>
                     y = e \/ (Holds(entries, y) /\ y.id # k /\ ~Expired(y, now))
              /\ q # << >> /\ q[Len(q)] = e /\ ~Expired(e, now) /\ e.id = k
            <4>1. now \in Int
                BY BoundsAssumption DEF HInv
            <4>2. ~Expired(e, now)
                BY <4>1, TTLAssumption DEF Expired
            <4> QED BY <2>6, <4>2, PutFacts
        <3> HIDE DEF e, q
        <3>2. /\ Len(entries') = IF Len(q) > Capacity THEN Capacity ELSE Len(q)
              /\ \A j \in DOMAIN entries' :
                    j + d \in DOMAIN q /\ entries'[j] = q[j + d]
            BY <3>1, EvictFacts
        <3>3. /\ q \in Seq(Entry) /\ Len(q) \in Nat \ {0} /\ Capacity \in Nat \ {0}
              /\ entries' \in Seq(Entry) /\ DOMAIN q = 1..Len(q)
              /\ DOMAIN entries' = 1..Len(entries') /\ Len(entries') \in Nat
            BY <2>0, <3>1, CapacityAssumption DEF Fits
        <3>4. d \in Nat /\ d + Len(entries') = Len(q)
            BY <3>2, <3>3
        <3>5. Len(entries') \in DOMAIN entries' /\ Len(entries') + d = Len(q)
            BY <3>2, <3>3, <3>4
        <3> HIDE DEF d
        <3>6. entries'[Len(entries')] = e
            BY <3>1, <3>2, <3>5
        <3>7. x.id # k
            <4>1. k \in Ids(entries')
                BY <3>1, <3>5, <3>6 DEF Ids
            <4> QED BY <4>1
        <3>8. PICK m \in DOMAIN q : q[m] = x
            <4>1. Holds(q, x)
                BY <2>0, <3>1, <3>7
            <4> QED BY <4>1 DEF Holds
        <3>9. m <= d /\ Len(entries') = Capacity
            <4>1. ASSUME m > d PROVE FALSE
                <5>1. m - d \in DOMAIN entries' /\ (m - d) + d = m
                    BY <3>3, <3>4, <4>1
                <5>2. entries'[m - d] = x
                    BY <3>2, <3>8, <5>1
                <5> QED BY <2>1, <5>1, <5>2 DEF Holds
            <4>2. m \in Int /\ m >= 1
                BY <3>3
            <4> QED BY <3>2, <3>3, <3>4, <4>1, <4>2
        <3>10. ASSUME NEW j \in DOMAIN entries' PROVE entries'[j].id \in MoreRecent(x.id, recency')
            <4>1. j + d \in DOMAIN q /\ entries'[j] = q[j + d] /\ m < j + d
                <5>1. j \in Int /\ j >= 1 /\ m \in Int
                    BY <3>3
                <5>2. m < j + d
                    BY <3>4, <3>9, <5>1
                <5> QED BY <3>2, <5>2
            <4>2. PICK a \in DOMAIN recency' : recency'[a] = x.id
                BY <3>1, <3>8 DEF Fits
            <4>3. PICK b \in DOMAIN recency' : recency'[b] = q[j + d].id
                BY <3>1, <4>1 DEF Fits
            <4>4. \A a2, b2 \in DOMAIN recency' :
                      recency'[a2] = q[m].id /\ recency'[b2] = q[j + d].id => a2 < b2
                BY <3>1, <4>1 DEF Fits
            <4>5. a < b
                BY <3>8, <4>2, <4>3, <4>4
            <4> QED BY <2>0, <4>1, <4>2, <4>3, <4>5, MoreRecentIs
        <3>11. \A j \in DOMAIN entries' : ~Expired(entries'[j], now)
            <4>1. \A j \in DOMAIN entries' : Holds(q, entries'[j])
                BY <3>2 DEF Holds
            <4> QED BY <3>1, <4>1
        <3>12. LiveIds(entries') = Ids(entries')
            BY <3>11 DEF LiveIds, Ids
        <3>13. MoreRecent(x.id, recency') \cap LiveIds(entries') = Ids(entries')
            BY <3>10, <3>12 DEF Ids
        <3>14. Cardinality(Ids(entries')) = Len(entries')
            BY <2>0, KeysAreCounted
        <3> QED BY <3>9, <3>13, <3>14
    <2> QED BY <2>3, <2>4, <2>5, <2>6 DEF Next
<1>2. LRU => [LRU]_vars
    OBVIOUS
<1> HIDE DEF LRU
<1>3. Spec => [][LRU]_vars
    BY <1>1, <1>2, HInvHolds, PTL DEF Spec
<1> QED BY <1>3 DEF EvictsLeastRecentlyUsed, LRU
=============================================================================
