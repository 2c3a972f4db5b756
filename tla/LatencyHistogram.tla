--------------------------- MODULE LatencyHistogram ----------------------------
(***************************************************************************)
(* LatencyHistogram (http_bench/analysis.py): a log-linear histogram of    *)
(* latencies that can be merged.  Latencies are whole numbers, of a unit   *)
(* in which every bucket bound and every midpoint is whole too, so the     *)
(* arithmetic is exact.                                                    *)
(***************************************************************************)
EXTENDS Integers, FiniteSets, Sequences, SequencesExt, FiniteSetsExt

CONSTANTS LowestMs, SubBuckets, MaxExponent

ASSUME LayoutAssumption ==
  /\ SubBuckets \in Nat \ {0} /\ MaxExponent \in Nat \ {0}
  /\ LowestMs \in Nat \ {0} /\ LowestMs % (2 * SubBuckets) = 0

None == -1         \* no latency is negative

Top == MaxExponent * SubBuckets - 1
Buckets == 0 .. Top

(* Where the octaves begin: each is twice as far as the one before.        *)
Base[exponent \in 0 .. MaxExponent] ==
  IF exponent = 0 THEN LowestMs ELSE 2 * Base[exponent - 1]

(* The largest value that is still in the range of the buckets.            *)
Range_ms == Base[MaxExponent]

Empty ==
  [counts |-> [b \in Buckets |-> 0], count |-> 0, total |-> 0,
   min_ms |-> None, max_ms |-> None, overflow_count |-> 0]

Index(value) ==
  IF value <= LowestMs THEN 0
  ELSE IF value >= Range_ms THEN Top
  ELSE LET exponent == CHOOSE e \in 0 .. MaxExponent - 1 :
             Base[e] <= value /\ value < Base[e + 1]
           base == Base[exponent]
       IN exponent * SubBuckets + ((value - base) * SubBuckets) \div base

Lower(b) == (Base[b \div SubBuckets] * (SubBuckets + (b % SubBuckets))) \div SubBuckets

Width(b) == Base[b \div SubBuckets] \div SubBuckets

Smaller(a, b) == IF a = None THEN b ELSE IF b = None \/ a < b THEN a ELSE b

Larger(a, b) == IF a > b THEN a ELSE b

Record(h, value) ==
  [counts |-> [h.counts EXCEPT ![Index(value)] = @ + 1],
   count |-> h.count + 1,
   total |-> h.total + value,
   min_ms |-> Smaller(h.min_ms, value),
   max_ms |-> Larger(h.max_ms, value),
   overflow_count |-> h.overflow_count + IF value > Range_ms THEN 1 ELSE 0]

FromValues(values) == FoldFunction(LAMBDA v, h : Record(h, v), Empty, values)

MergeHistograms(h, other) ==
  [counts |-> [b \in Buckets |-> h.counts[b] + other.counts[b]],
   count |-> h.count + other.count,
   total |-> h.total + other.total,
   min_ms |-> Smaller(h.min_ms, other.min_ms),
   max_ms |-> Larger(h.max_ms, other.max_ms),
   overflow_count |-> h.overflow_count + other.overflow_count]

MergeAll(histograms) ==
  FoldFunction(LAMBDA other, h : MergeHistograms(h, other), Empty, histograms)

Seen(h, b) == SumFunctionOnSet(h.counts, 0 .. b)

\* Mutant: the rank is a bucket late.
RankedLate(h, percent) ==
  CHOOSE b \in Buckets :
    /\ 100 * Seen(h, b) > percent * h.count
    /\ \A c \in 0 .. b - 1 : 100 * Seen(h, c) <= percent * h.count

Ranked(h, percent) ==
  CHOOSE b \in Buckets :
    /\ h.counts[b] > 0
    /\ 100 * Seen(h, b) >= percent * h.count
    /\ \A c \in 0 .. b - 1 : 100 * Seen(h, c) < percent * h.count

(* The middle of the first bucket at which the rank is reached, kept within *)
(* the extremes.                                                           *)
Quantile(h, percent) ==
  IF h.count = 0 THEN 0
  ELSE LET b == Ranked(h, percent)
           middle == Larger(Lower(b) + Width(b) \div 2, h.min_ms)
       IN IF middle > h.max_ms THEN h.max_ms ELSE middle
================================================================================
