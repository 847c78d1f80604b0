------------------------------ MODULE Metrics ------------------------------
(***************************************************************************)
(* metrics.py percentile, in exact arithmetic: samples and pct are         *)
(* integers (0 <= pct <= 100), ranks and results are in hundredths.  data  *)
(* is what sorted() gives: the samples in ascending order.                 *)
(***************************************************************************)
EXTENDS Integers, Sequences

Sorted(data) == \A i, j \in DOMAIN data : i <= j => data[i] <= data[j]

Pct == 0..100

\* rank: a position between the first sample (0) and the last (Len(data) - 1).
Rank(data, pct) == pct * (Len(data) - 1)

\* Sequences begin at 1 here, lists at 0 there.
Low(data, pct) == Rank(data, pct) \div 100 + 1
High(data, pct) == IF Low(data, pct) < Len(data) THEN Low(data, pct) + 1 ELSE Len(data)
Frac(data, pct) == Rank(data, pct) % 100

\* percentile, when there are samples.
Percentile(data, pct) ==
    IF Len(data) = 1 THEN 100 * data[1]
    ELSE LET low == data[Low(data, pct)] IN
         100 * low + (data[High(data, pct)] - low) * Frac(data, pct)
=============================================================================
