----------------------------- MODULE LatencyStats -----------------------------
(***************************************************************************)
(* What BenchmarkService.measureFor picks from the sorted latencies of a   *)
(* window: an index for each percentile, for any number of samples.  The   *)
(* average and the rounding to hundredths of a millisecond are left out.   *)
(* p / 100.0 * n in doubles is never above the exact quotient for the p    *)
(* that are used and exact when it is whole, so its ceiling is that of the *)
(* integers.                                                               *)
(***************************************************************************)
EXTENDS Integers

\* A mistake: the rank is used as the index.
RankAsIndex(n, p) == IF (p * n + 99) \div 100 < n THEN (p * n + 99) \div 100 ELSE n - 1

\* pct: (int) Math.ceil(p / 100.0 * n) - 1, clamped to the array.
Index(n, p) ==
    LET idx == (p * n + 99) \div 100 - 1
    IN  IF idx > n - 1 THEN n - 1 ELSE IF idx < 0 THEN 0 ELSE idx

\* The indices the answer is made of, of one sample at least.
Picked(n) == [p50 |-> Index(n, 50), p95 |-> Index(n, 95), p99 |-> Index(n, 99), max |-> n - 1]

-----------------------------------------------------------------------------
\* i is the nearest rank of p: i + 1 of n samples are p percent of them, and
\* i samples are not.
NearestRank(i, n, p) ==
    /\ i \in 0 .. (n - 1)
    /\ 100 * (i + 1) >= p * n
    /\ 100 * i < p * n

\* For any number of samples, each percentile is a sample and the smallest
\* that its part of the samples does not exceed, and a higher percentile is
\* never smaller.
NearestRanks(n) ==
    LET s == Picked(n)
    IN  /\ NearestRank(s.p50, n, 50) /\ NearestRank(s.p95, n, 95) /\ NearestRank(s.p99, n, 99)
        /\ s.p50 <= s.p95 /\ s.p95 <= s.p99 /\ s.p99 <= s.max
=============================================================================
