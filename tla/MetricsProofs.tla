--------------------------- MODULE MetricsProofs ---------------------------
(* What percentile promises, for every list of samples.                    *)
EXTENDS Metrics, TLAPS

\* A product of factors that are not negative is not negative.
LEMMA NotNegative == \A a, b \in Nat : a * b \in Nat
  BY SMT

\* low and high are neighbours in the list, whatever pct and the list are.
LEMMA RanksInList ==
    ASSUME NEW data \in Seq(Int), data # << >>, NEW pct \in Pct
    PROVE  /\ Low(data, pct) \in DOMAIN data
           /\ High(data, pct) \in DOMAIN data
           /\ Low(data, pct) <= High(data, pct)
           /\ Frac(data, pct) \in 0..99
<1> DEFINE last == Len(data) - 1
           rank == pct * last
<1>1. last \in Nat /\ pct \in Nat /\ (100 - pct) \in Nat
  BY DEF Pct
<1>2. rank \in Nat
  BY <1>1, NotNegative
<1>3. rank <= 100 * last
  <2>1. (100 - pct) * last \in Nat
    BY <1>1, NotNegative
  <2>2. (100 - pct) * last = 100 * last - rank
    BY <1>1, SMT
  <2> QED BY <2>1, <2>2, <1>1, <1>2
<1>4. rank \div 100 \in 0..last /\ rank % 100 \in 0..99
  <2> HIDE DEF rank, last
  <2> QED BY <1>1, <1>2, <1>3, SMT
<1>5. DOMAIN data = 1..(last + 1)
  OBVIOUS
<1>6. Low(data, pct) = rank \div 100 + 1 /\ Frac(data, pct) = rank % 100
  BY DEF Low, Frac, Rank
<1> HIDE DEF rank
<1> QED BY <1>1, <1>4, <1>5, <1>6 DEF High

\* A point between two values is not outside them.
LEMMA Between ==
    ASSUME NEW low \in Int, NEW high \in Int, low <= high, NEW frac \in 0..99
    PROVE  /\ 100 * low + (high - low) * frac \in Int
           /\ 100 * low <= 100 * low + (high - low) * frac
           /\ 100 * low + (high - low) * frac <= 100 * high
<1>1. (high - low) \in Nat /\ frac \in Nat /\ (100 - frac) \in Nat
  OBVIOUS
<1>2. (high - low) * frac \in Nat /\ (high - low) * (100 - frac) \in Nat
  BY <1>1, NotNegative
<1>3. (high - low) * (100 - frac) = 100 * (high - low) - (high - low) * frac
  BY <1>1, SMT
<1> QED BY <1>1, <1>2, <1>3

\* percentile answers with a value between two neighbours of the sorted samples,
\* so never outside what was observed; no index leaves the list.
THEOREM PercentileInRange ==
    ASSUME NEW data \in Seq(Int), data # << >>, Sorted(data), NEW pct \in Pct
    PROVE  /\ Percentile(data, pct) \in Int
           /\ 100 * data[Low(data, pct)] <= Percentile(data, pct)
           /\ Percentile(data, pct) <= 100 * data[High(data, pct)]
           /\ 100 * data[1] <= Percentile(data, pct)
           /\ Percentile(data, pct) <= 100 * data[Len(data)]
<1> DEFINE l == Low(data, pct)
           h == High(data, pct)
<1>1. l \in DOMAIN data /\ h \in DOMAIN data /\ l <= h /\ Frac(data, pct) \in 0..99
  BY RanksInList
<1>2. 1 \in DOMAIN data /\ Len(data) \in DOMAIN data /\ 1 <= l /\ h <= Len(data)
  BY <1>1
<1> HIDE DEF l, h
<1>3. /\ data[l] \in Int /\ data[h] \in Int /\ data[1] \in Int /\ data[Len(data)] \in Int
      /\ data[l] <= data[h] /\ data[1] <= data[l] /\ data[h] <= data[Len(data)]
  BY <1>1, <1>2 DEF Sorted
<1>4. /\ Percentile(data, pct) \in Int
      /\ 100 * data[l] <= Percentile(data, pct) /\ Percentile(data, pct) <= 100 * data[h]
  <2>1. CASE Len(data) = 1
    <3>1. l = 1 /\ h = 1
      BY <2>1, <1>1
    <3> QED BY <2>1, <3>1, <1>3 DEF Percentile
  <2>2. CASE Len(data) # 1
    <3>1. Percentile(data, pct) = 100 * data[l] + (data[h] - data[l]) * Frac(data, pct)
      BY <2>2 DEF Percentile, l, h
    <3> DEFINE point == 100 * data[l] + (data[h] - data[l]) * Frac(data, pct)
    <3>2. point \in Int /\ 100 * data[l] <= point /\ point <= 100 * data[h]
      BY <1>1, <1>3, Between
    <3> QED BY <3>1, <3>2
  <2> QED BY <2>1, <2>2
<1> QED BY <1>3, <1>4 DEF l, h

\* A higher percentile is never a smaller value.
THEOREM PercentileMonotonic ==
    ASSUME NEW data \in Seq(Int), data # << >>, Sorted(data),
           NEW p \in Pct, NEW q \in Pct, p <= q
    PROVE  Percentile(data, p) <= Percentile(data, q)
<1> DEFINE last == Len(data) - 1
           lp == Low(data, p)
           lq == Low(data, q)
           hp == High(data, p)
           hq == High(data, q)
<1>1. /\ lp \in DOMAIN data /\ hp \in DOMAIN data /\ lp <= hp /\ Frac(data, p) \in 0..99
      /\ lq \in DOMAIN data /\ hq \in DOMAIN data /\ lq <= hq /\ Frac(data, q) \in 0..99
  BY RanksInList
<1>2. /\ Percentile(data, p) \in Int /\ Percentile(data, q) \in Int
      /\ Percentile(data, p) <= 100 * data[hp] /\ 100 * data[lq] <= Percentile(data, q)
  BY PercentileInRange
<1>3. last \in Nat /\ p \in Nat /\ q \in Nat /\ (q - p) \in Nat
  BY DEF Pct
<1>4. p * last \in Nat /\ q * last \in Nat /\ (q - p) * last \in Nat
  BY <1>3, NotNegative
<1>5. (q - p) * last = q * last - p * last
  BY <1>3, SMT
<1>6. p * last <= q * last
  BY <1>4, <1>5
<1>7. /\ lp = (p * last) \div 100 + 1 /\ Frac(data, p) = (p * last) % 100
      /\ lq = (q * last) \div 100 + 1 /\ Frac(data, q) = (q * last) % 100
  BY DEF Low, Frac, Rank
<1>8. \A a, b \in Nat : a <= b => (a \div 100 < b \div 100)
                                 \/ (a \div 100 = b \div 100 /\ a % 100 <= b % 100)
  BY SMT
<1>9. lp < lq \/ (lp = lq /\ Frac(data, p) <= Frac(data, q))
  <2>1. \A a, b \in Nat : a <= b => (a \div 100 + 1 < b \div 100 + 1)
                       \/ (a \div 100 + 1 = b \div 100 + 1 /\ a % 100 <= b % 100)
    BY <1>8
  <2> HIDE DEF last, lp, lq
  <2> QED BY <1>4, <1>6, <1>7, <2>1
<1>10. CASE lp < lq
  <2>1. hp <= lq
    BY <1>1, <1>10 DEF High
  <2>2. data[hp] <= data[lq] /\ data[hp] \in Int /\ data[lq] \in Int
    BY <1>1, <2>1 DEF Sorted
  <2> HIDE DEF lp, lq, hp, hq
  <2> QED BY <1>2, <2>2
<1>11. ASSUME Frac(data, p) <= Frac(data, q)
       PROVE  /\ Frac(data, p) \in Nat /\ Frac(data, q) \in Nat
              /\ Frac(data, q) - Frac(data, p) \in Nat
  <2>1. \A a, b \in 0..99 : a <= b => a \in Nat /\ b \in Nat /\ b - a \in Nat
    OBVIOUS
  <2>2. Frac(data, p) \in 0..99 /\ Frac(data, q) \in 0..99
    BY <1>1
  <2> QED BY <1>11, <2>1, <2>2, Zenon
<1>12. CASE lp = lq /\ Frac(data, p) <= Frac(data, q)
  <2>1. hp = hq
    BY <1>12 DEF High
  <2>2. CASE Len(data) = 1
    BY <2>2, <1>2 DEF Percentile
  <2>3. CASE Len(data) # 1
    <3> DEFINE low  == data[lp]
               wide == data[hp] - data[lp]
               fp   == Frac(data, p)
               fq   == Frac(data, q)
    <3>1. /\ Percentile(data, p) = 100 * low + wide * fp
          /\ Percentile(data, q) = 100 * low + wide * fq
      BY <2>1, <2>3, <1>12 DEF Percentile
    <3>2. low \in Int /\ wide \in Nat
      BY <1>1 DEF Sorted
    <3>3. fp \in Nat /\ fq \in Nat /\ (fq - fp) \in Nat
      BY <1>12, <1>11
    <3> HIDE DEF low, wide, fp, fq
    <3>4. wide * fp \in Nat /\ wide * fq \in Nat /\ wide * (fq - fp) \in Nat
      BY <3>2, <3>3, NotNegative
    <3>5. wide * (fq - fp) = wide * fq - wide * fp
      BY <3>2, <3>3, SMT
    <3> QED BY <3>1, <3>2, <3>4, <3>5
  <2> QED BY <2>2, <2>3
<1> QED BY <1>9, <1>10, <1>12
=============================================================================
