------------------------- MODULE IntervalStreamProofs -------------------------
(***************************************************************************)
(* That what the streamer hands over is true, for every bucket, lateness   *)
(* and length of a run and any number of results.                          *)
(*                                                                         *)
(* Two facts carry the proof.  Results are recorded in the order of their  *)
(* offsets, none of which is after `now`, so the results before a window   *)
(* are a prefix of the list.  And while the task lives, the cursor is the  *)
(* length of the prefix before its next window, which begins by `now`.     *)
(***************************************************************************)
EXTENDS IntervalStream, FiniteSetTheorems, TLAPS

(* The windows partition time. *)
LEMMA WindowFacts ==
  ASSUME NEW t \in Nat
  PROVE  /\ t \div Bucket \in Nat
         /\ (t \div Bucket) * Bucket <= t
         /\ t < (t \div Bucket + 1) * Bucket
         /\ \A v \in Nat : t \div Bucket = v <=> v * Bucket <= t /\ t < (v + 1) * Bucket
<1>1. t \div Bucket \in Nat
  BY BucketAssumption
<1>2. (t \div Bucket) * Bucket <= t
  BY BucketAssumption
<1>3. t < (t \div Bucket + 1) * Bucket
  BY BucketAssumption
<1>4. ASSUME NEW v \in Nat, v * Bucket <= t, t < (v + 1) * Bucket
      PROVE  t \div Bucket = v
  BY <1>4, BucketAssumption
<1>5. QED
  BY <1>1, <1>2, <1>3, <1>4

LEMMA WindowsAscend ==
  ASSUME NEW u \in Nat, NEW v \in Nat
  PROVE  /\ u * Bucket \in Nat
         /\ u < v => (u + 1) * Bucket <= v * Bucket
         /\ u <= v => u * Bucket <= v * Bucket
<1>1. u * Bucket \in Nat
  BY BucketAssumption
<1>2. ASSUME u < v
      PROVE  (u + 1) * Bucket <= v * Bucket
  BY <1>2, BucketAssumption
<1>3. ASSUME u <= v
      PROVE  u * Bucket <= v * Bucket
  BY <1>3, BucketAssumption
<1>4. QED
  BY <1>1, <1>2, <1>3
-------------------------------------------------------------------------------
(* The first m results are those before window x.                          *)
Before(m, x) == \A k \in Results : k <= m <=> offsets[k] < x * Bucket

(* Offsets ascend, up to the present, and every window has such a prefix.  *)
Recorded ==
  /\ offsets \in Seq(Nat)
  /\ Len(offsets) <= MaxResults
  /\ now \in Nat
  /\ \A k \in Results : offsets[k] <= now
  /\ \A j, k \in Results : j <= k => offsets[j] <= offsets[k]
  /\ \A x \in Nat : \E m \in 0 .. Len(offsets) : Before(m, x)

(* What was streamed, of the first c results: each of its windows once and *)
(* whole as far as c, and those emitted as closed have closed.             *)
Faithful(S, c) ==
  /\ \A e \in S : /\ e \in Emission
                  /\ e.results = {k \in 1 .. c : offsets[k] \div Bucket = e.window}
  /\ \A d, e \in S : d.window = e.window => d = e
  /\ \A k \in 1 .. c : \E e \in S : e.window = offsets[k] \div Bucket
  /\ \A e \in S : ~ e.flush => /\ (e.window + 1) * Bucket <= now
                               /\ InWindow(e.window) \subseteq 1 .. c

(* It goes up to window w, and so does the cursor.                         *)
UpTo(S, c, w) ==
  /\ c \in 0 .. Len(offsets)
  /\ w \in Nat
  /\ Before(c, w)
  /\ \A e \in S : e.window < w

LEMMA ResultFacts ==
  ASSUME Recorded
  PROVE  /\ Len(offsets) \in Nat
         /\ Results = 1 .. Len(offsets)
         /\ \A k \in Results : k \in Nat /\ offsets[k] \in Nat /\ 1 .. k \subseteq Results
<1>1. offsets \in Seq(Nat)
  BY DEF Recorded
<1>2. Len(offsets) \in Nat /\ \A k \in 1 .. Len(offsets) : offsets[k] \in Nat
  BY <1>1
<1>. DEFINE n == Len(offsets)
<1>. HIDE DEF n
<1>3. \A k \in 1 .. n : k \in Nat /\ 1 .. k \subseteq 1 .. n
  BY <1>2 DEF n
<1>4. QED
  BY <1>2, <1>3 DEF Results, n

(* The results of window v that a cursor before window w takes.            *)
LEMMA BatchLemma ==
  ASSUME Recorded, NEW c \in 0 .. Len(offsets), NEW w \in Nat, Before(c, w),
         NEW v \in Nat, w <= v
  PROVE  /\ Taken(c, v) = {k \in Results : w * Bucket <= offsets[k]
                                           /\ offsets[k] < (v + 1) * Bucket}
         /\ Batch(c, w, v) = InWindow(v)
<1>1. ASSUME NEW u \in Nat
      PROVE  Taken(c, u) = {k \in Results : w * Bucket <= offsets[k]
                                            /\ offsets[k] < (u + 1) * Bucket}
  <2>1. u * Bucket \in Nat /\ (u + 1) * Bucket \in Nat /\ w * Bucket \in Nat
    BY WindowsAscend
  <2>. DEFINE bound == (u + 1) * Bucket
              low == w * Bucket
  <2>2. ASSUME NEW k \in Results
        PROVE  (k > c /\ \A j \in c + 1 .. k : offsets[j] < bound)
                 <=> (low <= offsets[k] /\ offsets[k] < bound)
    <3>1. /\ offsets[k] \in Nat /\ k \in Nat
          /\ k <= c <=> offsets[k] < low
      BY <2>2, ResultFacts DEF Before
    <3>2. \A j \in c + 1 .. k : j \in Results /\ offsets[j] \in Nat
      BY <2>2, ResultFacts
    <3>3. \A j \in c + 1 .. k : offsets[j] <= offsets[k]
      BY <2>2, <3>2 DEF Recorded
    <3>. HIDE DEF bound, low
    <3>4. bound \in Nat /\ low \in Nat
      BY <2>1 DEF bound, low
    <3>5. CASE k > c
      BY <3>1, <3>2, <3>3, <3>4, <3>5
    <3>6. CASE ~ (k > c)
      BY <3>1, <3>4, <3>6
    <3>7. QED
      BY <3>5, <3>6
  <2>3. QED
    BY <2>2 DEF Taken
<1>2. Batch(c, w, v) = InWindow(v)
  <2>1. ASSUME NEW k \in Results
        PROVE  /\ offsets[k] \in Nat
               /\ k \in InWindow(v) <=> v * Bucket <= offsets[k]
                                        /\ offsets[k] < (v + 1) * Bucket
    <3>1. offsets[k] \in Nat
      BY <2>1, ResultFacts
    <3>2. QED
      BY <3>1, WindowFacts DEF InWindow
  <2>2. CASE v = w
    BY <1>1, <2>1, <2>2 DEF Batch, InWindow
  <2>3. CASE v # w
    <3>1. v - 1 \in Nat /\ (v - 1) + 1 = v
      BY <2>3
    <3>2. Taken(c, v - 1) = {k \in Results : w * Bucket <= offsets[k]
                                             /\ offsets[k] < v * Bucket}
      BY <1>1, <3>1
    <3>3. w * Bucket <= v * Bucket /\ v * Bucket \in Nat /\ w * Bucket \in Nat
      BY WindowsAscend
    <3>4. Batch(c, w, v) = Taken(c, v) \ Taken(c, v - 1)
      BY <2>3 DEF Batch
    <3>5. QED
      BY <1>1, <2>1, <3>2, <3>3, <3>4 DEF InWindow
  <2>4. QED
    BY <2>2, <2>3
<1>3. QED
  BY <1>1, <1>2

(* The prefixes before two windows are in their order, and what lies       *)
(* between them are the results of the windows between.                    *)
LEMMA PrefixLemma ==
  ASSUME Recorded, NEW c \in 0 .. Len(offsets), NEW w \in Nat, Before(c, w),
         NEW m \in 0 .. Len(offsets), NEW n \in Nat, Before(m, n), w <= n
  PROVE  /\ c <= m
         /\ \A v \in w .. n - 1 : InWindow(v) \subseteq c + 1 .. m
         /\ \A k \in c + 1 .. m : k \in Results /\ offsets[k] \div Bucket \in w .. n - 1
<1>. DEFINE low == w * Bucket
            high == n * Bucket
<1>1. low \in Nat /\ high \in Nat /\ low <= high
  BY WindowsAscend
<1>2. Len(offsets) \in Nat /\ Results = 1 .. Len(offsets)
  BY ResultFacts
<1>3. ASSUME NEW k \in Results
      PROVE  /\ k \in Nat /\ offsets[k] \in Nat
             /\ k <= c <=> offsets[k] < low
             /\ k <= m <=> offsets[k] < high
  BY <1>3, ResultFacts DEF Before
<1>4. ASSUME NEW k \in Results
      PROVE  k \in c + 1 .. m <=> low <= offsets[k] /\ offsets[k] < high
  <2>. HIDE DEF low, high
  <2>1. QED
    BY <1>1, <1>3, <1>4
<1>5. c <= m
  <2>1. SUFFICES ASSUME c > m
                 PROVE  FALSE
    BY <1>2
  <2>2. c \in Results /\ c \in Nat /\ m \in Nat
    BY <1>2, <2>1
  <2>. HIDE DEF low, high
  <2>3. QED
    BY <1>1, <1>3, <2>1, <2>2
<1>6. ASSUME NEW k \in Results
      PROVE  (low <= offsets[k] /\ offsets[k] < high)
               <=> offsets[k] \div Bucket \in w .. n - 1
  <2>1. PICK v \in Nat : v = offsets[k] \div Bucket
    BY <1>3, <1>6, WindowFacts
  <2>2. v * Bucket <= offsets[k] /\ offsets[k] < (v + 1) * Bucket
    BY <1>3, <1>6, <2>1, WindowFacts
  <2>3. v + 1 \in Nat /\ v * Bucket \in Nat /\ (v + 1) * Bucket \in Nat
    <3>1. v + 1 \in Nat
      BY <2>1
    <3>2. QED
      BY <2>1, <3>1, WindowsAscend
  <2>4. CASE v < w
    <3>1. (v + 1) * Bucket <= low
      BY <2>4, WindowsAscend
    <3>2. QED
      BY <1>1, <1>3, <1>6, <2>1, <2>2, <2>3, <2>4, <3>1
  <2>5. CASE n <= v
    <3>1. high <= v * Bucket
      BY <2>5, WindowsAscend
    <3>2. QED
      BY <1>1, <1>3, <1>6, <2>1, <2>2, <2>3, <2>5, <3>1
  <2>6. CASE w <= v /\ v < n
    <3>1. low <= v * Bucket /\ (v + 1) * Bucket <= high
      BY <2>6, WindowsAscend
    <3>2. v \in w .. n - 1
      BY <2>6
    <3>. HIDE DEF low, high
    <3>3. QED
      BY <1>1, <1>3, <1>6, <2>1, <2>2, <2>3, <3>1, <3>2
  <2>7. QED
    BY <2>4, <2>5, <2>6
<1>7. \A v \in w .. n - 1 : InWindow(v) \subseteq c + 1 .. m
  BY <1>4, <1>6 DEF InWindow
<1>8. \A k \in c + 1 .. m : k \in Results
  BY <1>2
<1>9. QED
  BY <1>4, <1>5, <1>6, <1>7, <1>8

(* The windows from w to n - 1, each with all of its results.              *)
Whole(w, n, final) ==
  {e \in {[window |-> v, results |-> InWindow(v), flush |-> final] :
            v \in w .. n - 1} : empties \/ e.results # {}}

(* What emit makes of the cursor, when it handles the windows from w to    *)
(* n - 1: each whole.                                                      *)
LEMMA EmitLemma ==
  ASSUME Recorded, NEW c \in 0 .. Len(offsets), NEW w \in Nat, Before(c, w),
         NEW m \in 0 .. Len(offsets), NEW n \in Nat, Before(m, n), w <= n,
         NEW final, Handled(c, w, final) = w .. n - 1
  PROVE  /\ WindowAfter(c, w, final) = n
         /\ CursorAfter(c, w, final) = m
         /\ Emitted(c, w, final) = Whole(w, n, final)
<1>1. \A v \in w .. n - 1 : Batch(c, w, v) = InWindow(v)
  BY BatchLemma
<1>2. Cardinality(w .. n - 1) = n - w
  <2>1. w \in Int /\ n - 1 \in Int
    OBVIOUS
  <2>2. Cardinality(w .. n - 1) = IF w > n - 1 THEN 0 ELSE (n - 1) - w + 1
    BY <2>1, FS_Interval
  <2>3. QED
    BY <2>2
<1>3. WindowAfter(c, w, final) = n
  BY <1>2 DEF WindowAfter
<1>4. UNION {Batch(c, w, v) : v \in w .. n - 1} = c + 1 .. m
  <2>1. UNION {Batch(c, w, v) : v \in w .. n - 1} \subseteq c + 1 .. m
    BY <1>1, PrefixLemma
  <2>2. ASSUME NEW k \in c + 1 .. m
        PROVE  \E v \in w .. n - 1 : k \in Batch(c, w, v)
    <3>1. k \in Results /\ offsets[k] \div Bucket \in w .. n - 1
      BY <2>2, PrefixLemma
    <3>2. k \in InWindow(offsets[k] \div Bucket)
      BY <3>1 DEF InWindow
    <3>3. QED
      BY <1>1, <3>1, <3>2
  <2>3. QED
    BY <2>1, <2>2
<1>5. Cardinality(c + 1 .. m) = m - c
  <2>1. c <= m /\ c \in Int /\ m \in Int /\ c + 1 \in Int
    BY PrefixLemma, ResultFacts
  <2>2. Cardinality(c + 1 .. m) = IF c + 1 > m THEN 0 ELSE m - (c + 1) + 1
    BY <2>1, FS_Interval
  <2>3. QED
    BY <2>1, <2>2
<1>6. CursorAfter(c, w, final) = m
  <2>1. c \in Int /\ m \in Int
    BY ResultFacts
  <2>2. CursorAfter(c, w, final) = c + (m - c)
    BY <1>4, <1>5 DEF CursorAfter
  <2>3. QED
    BY <2>1, <2>2
<1>7. Emitted(c, w, final) = Whole(w, n, final)
  <2>1. {[window |-> v, results |-> Batch(c, w, v), flush |-> final] : v \in w .. n - 1}
          = {[window |-> v, results |-> InWindow(v), flush |-> final] : v \in w .. n - 1}
    BY <1>1
  <2>2. QED
    BY <2>1 DEF Emitted, Whole
<1>8. QED
  BY <1>3, <1>6, <1>7

(* The windows that have closed are those before the present one.          *)
LEMMA ClosedLemma ==
  ASSUME now \in Nat, NEW c, NEW w \in Nat, w * Bucket <= now
  PROVE  /\ w <= now \div Bucket
         /\ Handled(c, w, FALSE) = w .. now \div Bucket - 1
<1>. DEFINE n == now \div Bucket
<1>1. n \in Nat /\ n * Bucket <= now /\ now < (n + 1) * Bucket
  BY WindowFacts
<1>. HIDE DEF n
<1>2. w <= n
  <2>1. SUFFICES ASSUME n < w
                 PROVE  FALSE
    BY <1>1
  <2>2. (n + 1) * Bucket <= w * Bucket
    BY <1>1, <2>1, WindowsAscend
  <2>3. (n + 1) * Bucket \in Nat /\ w * Bucket \in Nat
    BY <1>1, WindowsAscend
  <2>4. QED
    BY <1>1, <2>2, <2>3
<1>3. ASSUME NEW u \in Nat
      PROVE  GoesOn(c, w, u, FALSE) <=> u < n
  <2>1. GoesOn(c, w, u, FALSE) <=> now >= (u + 1) * Bucket
    BY DEF GoesOn
  <2>2. /\ (u + 1) * Bucket \in Nat /\ n * Bucket \in Nat /\ (n + 1) * Bucket \in Nat
        /\ u < n => (u + 1) * Bucket <= n * Bucket
        /\ n <= u => (n + 1) * Bucket <= (u + 1) * Bucket
    BY <1>1, WindowsAscend
  <2>. DEFINE a == (u + 1) * Bucket
              b == n * Bucket
              d == (n + 1) * Bucket
  <2>. HIDE DEF a, b, d
  <2>3. /\ a \in Nat /\ b \in Nat /\ d \in Nat
        /\ u < n => a <= b
        /\ n <= u => d <= a
        /\ b <= now /\ now < d
    BY <1>1, <2>2 DEF a, b, d
  <2>4. GoesOn(c, w, u, FALSE) <=> now >= a
    BY <2>1 DEF a
  <2>5. n \in Nat
    BY <1>1
  <2>6. now >= a <=> u < n
    BY <2>3, <2>5
  <2>7. QED
    BY <2>4, <2>6
<1>4. ASSUME NEW v \in w .. w + n
      PROVE  (\A u \in w .. v : GoesOn(c, w, u, FALSE)) <=> v < n
  <2>1. v \in w .. v /\ \A u \in w .. v : u \in Nat /\ u <= v
    BY <1>1
  <2>2. ASSUME \A u \in w .. v : GoesOn(c, w, u, FALSE)
        PROVE  v < n
    BY <1>3, <2>1, <2>2
  <2>3. ASSUME v < n, NEW u \in w .. v
        PROVE  GoesOn(c, w, u, FALSE)
    <3>1. u \in Nat /\ u < n
      BY <1>1, <2>1, <2>3
    <3>2. QED
      BY <1>3, <3>1
  <2>4. QED
    BY <2>2, <2>3
<1>5. Handled(c, w, FALSE) = {v \in w .. w + n : v < n}
  BY <1>4 DEF Handled, n
<1>6. {v \in w .. w + n : v < n} = w .. n - 1
  BY <1>1
<1>7. QED
  BY <1>2, <1>5, <1>6 DEF n

(* The flush goes up to the present window or, if results are in it, past  *)
(* it: in either case no result is left.                                   *)
LEMMA FlushLemma ==
  ASSUME Recorded, NEW c \in 0 .. Len(offsets), NEW w \in Nat, Before(c, w),
         w * Bucket <= now
  PROVE  \E n \in Nat : /\ w <= n
                        /\ Handled(c, w, TRUE) = w .. n - 1
                        /\ Before(Len(offsets), n)
<1>. DEFINE p == now \div Bucket
            left == \E k \in Results : p * Bucket <= offsets[k]
            n == IF left THEN p + 1 ELSE p
<1>1. now \in Nat /\ \A k \in Results : offsets[k] <= now
  BY DEF Recorded
<1>2. p \in Nat /\ p * Bucket <= now /\ now < (p + 1) * Bucket /\ w <= p
  BY <1>1, WindowFacts, ClosedLemma
<1>3. ASSUME NEW k \in Results
      PROVE  /\ k \in Nat /\ k <= Len(offsets)
             /\ offsets[k] \in Nat /\ offsets[k] <= now
             /\ k <= c <=> offsets[k] < w * Bucket
  <2>1. k \in Nat /\ k <= Len(offsets) /\ offsets[k] \in Nat
    BY <1>3, ResultFacts
  <2>2. k <= c <=> offsets[k] < w * Bucket
    BY <1>3 DEF Before
  <2>3. QED
    BY <1>1, <1>3, <2>1, <2>2
<1>. HIDE DEF p
<1>4. ASSUME NEW u \in Nat, w <= u
      PROVE  GoesOn(c, w, u, TRUE) <=>
               \/ (u + 1) * Bucket <= now
               \/ \E k \in Results : u * Bucket <= offsets[k]
  <2>1. u * Bucket \in Nat /\ w * Bucket \in Nat /\ w * Bucket <= u * Bucket
        /\ (u + 1) * Bucket \in Nat
    BY <1>4, WindowsAscend
  <2>2. ASSUME NEW k \in Results
        PROVE  (k > c /\ (u > w => k \notin Taken(c, u - 1)))
                 <=> u * Bucket <= offsets[k]
    <3>. DEFINE a == u * Bucket
                b == w * Bucket
    <3>. HIDE DEF a, b
    <3>1. a \in Nat /\ b \in Nat /\ b <= a /\ offsets[k] \in Nat
          /\ (k > c <=> b <= offsets[k])
      <4>1. a \in Nat /\ b \in Nat /\ b <= a
        BY <2>1 DEF a, b
      <4>2. k \in Nat /\ c \in Nat /\ offsets[k] \in Nat /\ (k <= c <=> offsets[k] < b)
        BY <1>3, <2>2, ResultFacts DEF b
      <4>3. QED
        BY <4>1, <4>2
    <3>2. CASE u = w
      BY <3>1, <3>2 DEF a, b
    <3>3. CASE u > w
      <4>1. u - 1 \in Nat /\ w <= u - 1 /\ (u - 1) + 1 = u
        BY <3>3
      <4>2. Taken(c, u - 1) = {j \in Results : w * Bucket <= offsets[j]
                                               /\ offsets[j] < u * Bucket}
        BY <4>1, BatchLemma
      <4>3. k \in Taken(c, u - 1) <=> b <= offsets[k] /\ offsets[k] < a
        BY <2>2, <4>2 DEF a, b
      <4>4. (k > c /\ k \notin Taken(c, u - 1)) <=> a <= offsets[k]
        BY <3>1, <4>3
      <4>5. QED
        BY <3>3, <4>4 DEF a
    <3>4. QED
      BY <1>4, <3>2, <3>3
  <2>3. now >= (u + 1) * Bucket <=> (u + 1) * Bucket <= now
    BY <1>1, <2>1
  <2>4. QED
    BY <2>2, <2>3 DEF GoesOn
<1>5. n \in Nat /\ w <= n /\ n <= p + 1 /\ (left => n = p + 1) /\ (~ left => n = p)
  BY <1>2
<1>6. Before(Len(offsets), n)
  <2>1. CASE left
    <3>1. \A k \in Results : offsets[k] < (p + 1) * Bucket
      <4>1. (p + 1) * Bucket \in Nat
        BY <1>2, WindowsAscend
      <4>2. QED
        BY <1>1, <1>2, <1>3, <4>1
    <3>2. QED
      BY <1>3, <1>5, <2>1, <3>1 DEF Before
  <2>2. CASE ~ left
    <3>1. \A k \in Results : offsets[k] < p * Bucket
      <4>1. p * Bucket \in Nat
        BY <1>2, WindowsAscend
      <4>2. QED
        BY <1>3, <2>2, <4>1
    <3>2. QED
      BY <1>3, <1>5, <2>2, <3>1 DEF Before
  <2>3. QED
    BY <2>1, <2>2
<1>7. ASSUME NEW u \in Nat, w <= u, u < n
      PROVE  GoesOn(c, w, u, TRUE)
  <2>1. CASE u = p
    <3>1. left
      BY <1>2, <1>5, <1>7, <2>1
    <3>2. QED
      BY <1>4, <1>7, <2>1, <3>1
  <2>2. CASE u # p
    <3>1. u < p
      BY <1>2, <1>5, <1>7, <2>2
    <3>2. (u + 1) * Bucket <= p * Bucket /\ (u + 1) * Bucket \in Nat /\ p * Bucket \in Nat
      BY <1>2, <3>1, WindowsAscend
    <3>3. (u + 1) * Bucket <= now
      BY <1>1, <1>2, <3>2
    <3>4. QED
      BY <1>4, <1>7, <3>3
  <2>3. QED
    BY <2>1, <2>2
<1>8. ~ GoesOn(c, w, n, TRUE)
  <2>1. p <= n
    BY <1>2, <1>5
  <2>2. /\ (n + 1) * Bucket \in Nat /\ (p + 1) * Bucket \in Nat
        /\ n * Bucket \in Nat
        /\ (p + 1) * Bucket <= (n + 1) * Bucket
    <3>. HIDE DEF n
    <3>1. p + 1 \in Nat /\ n + 1 \in Nat /\ n \in Nat /\ p + 1 <= n + 1
      BY <1>2, <1>5, <2>1
    <3>2. QED
      BY <3>1, WindowsAscend
  <2>3. ~ ((n + 1) * Bucket <= now)
    BY <1>1, <1>2, <2>2
  <2>4. \A k \in Results : ~ (n * Bucket <= offsets[k])
    BY <1>3, <1>6, <2>2 DEF Before
  <2>5. QED
    BY <1>4, <1>5, <2>3, <2>4
<1>. HIDE DEF n, left
<1>9. ASSUME NEW v \in w .. w + p
      PROVE  (\A u \in w .. v : GoesOn(c, w, u, TRUE)) <=> v < n
  <2>1. v \in Nat /\ \A u \in w .. v : u \in Nat /\ w <= u /\ u <= v
    BY <1>2
  <2>2. ASSUME ~ (v < n)
        PROVE  n \in w .. v
    BY <1>5, <2>1, <2>2
  <2>3. ASSUME v < n, NEW u \in w .. v
        PROVE  GoesOn(c, w, u, TRUE)
    <3>1. u \in Nat /\ w <= u /\ u < n
      BY <1>5, <2>1, <2>3
    <3>2. QED
      BY <1>7, <3>1
  <2>4. QED
    BY <1>8, <2>2, <2>3
<1>10. Handled(c, w, TRUE) = {v \in w .. w + p : v < n}
  BY <1>9 DEF Handled, p
<1>11. {v \in w .. w + p : v < n} = w .. n - 1
  <2>1. ASSUME NEW v \in w .. n - 1
        PROVE  v \in w .. w + p /\ v < n
    BY <1>2, <1>5
  <2>2. ASSUME NEW v \in w .. w + p, v < n
        PROVE  v \in w .. n - 1
    BY <1>2, <1>5, <2>2
  <2>3. QED
    BY <2>1, <2>2
<1>12. QED
  BY <1>5, <1>6, <1>10, <1>11

(* Emitting the windows from w to n - 1, each whole, keeps the stream      *)
(* faithful and brings it up to n.                                         *)
LEMMA ExtendLemma ==
  ASSUME Recorded, NEW S, NEW c, NEW w, Faithful(S, c), UpTo(S, c, w),
         NEW m \in 0 .. Len(offsets), NEW n \in Nat, Before(m, n), w <= n,
         NEW final \in BOOLEAN, final \/ n * Bucket <= now
  PROVE  /\ Faithful(S \cup Whole(w, n, final), m)
         /\ UpTo(S \cup Whole(w, n, final), m, n)
<1>. DEFINE A == Whole(w, n, final)
<1>1. /\ c \in 0 .. Len(offsets) /\ w \in Nat /\ Before(c, w)
      /\ \A e \in S : e.window < w
  BY DEF UpTo
<1>2. /\ c <= m
      /\ \A v \in w .. n - 1 : InWindow(v) \subseteq c + 1 .. m
      /\ \A k \in c + 1 .. m : k \in Results /\ offsets[k] \div Bucket \in w .. n - 1
  BY <1>1, PrefixLemma
<1>3. /\ c \in Nat /\ m \in Nat /\ Len(offsets) \in Nat
      /\ m <= Len(offsets) /\ Len(offsets) <= MaxResults /\ MaxResults \in Nat
      /\ Results = 1 .. Len(offsets)
  <2>1. Len(offsets) \in Nat /\ Results = 1 .. Len(offsets)
    BY ResultFacts
  <2>2. Len(offsets) <= MaxResults /\ MaxResults \in Nat
    BY BoundsAssumption DEF Recorded
  <2>3. QED
    BY <1>1, <2>1, <2>2
<1>4. 1 .. m = (1 .. c) \cup (c + 1 .. m) /\ 1 .. m \subseteq 1 .. MaxResults
      /\ 1 .. m \subseteq Results
  BY <1>2, <1>3
<1>5. ASSUME NEW e \in S
      PROVE  /\ e \in Emission /\ e.window \in Nat /\ e.window < w
             /\ e.results = {k \in 1 .. m : offsets[k] \div Bucket = e.window}
             /\ ~ e.flush => /\ (e.window + 1) * Bucket <= now
                             /\ InWindow(e.window) \subseteq 1 .. m
  <2>1. /\ e \in Emission /\ e.window < w
        /\ e.results = {k \in 1 .. c : offsets[k] \div Bucket = e.window}
        /\ ~ e.flush => /\ (e.window + 1) * Bucket <= now
                        /\ InWindow(e.window) \subseteq 1 .. c
    BY <1>1, <1>5 DEF Faithful
  <2>2. e.window \in Nat
    BY <2>1 DEF Emission
  <2>3. \A k \in c + 1 .. m : offsets[k] \div Bucket # e.window
    <3>1. e.window \notin w .. n - 1
      BY <1>1, <2>1, <2>2
    <3>2. QED
      BY <1>2, <3>1
  <2>4. e.results = {k \in 1 .. m : offsets[k] \div Bucket = e.window}
    BY <1>4, <2>1, <2>3
  <2>5. QED
    BY <1>4, <2>1, <2>2, <2>4
<1>6. ASSUME NEW e \in A
      PROVE  \E v \in w .. n - 1 :
               e = [window |-> v, results |-> InWindow(v), flush |-> final]
  BY <1>6 DEF Whole
<1>7. ASSUME NEW v \in w .. n - 1
      PROVE  InWindow(v) = {k \in 1 .. m : offsets[k] \div Bucket = v}
  BY <1>2, <1>4, <1>7 DEF InWindow
<1>8. ASSUME NEW e \in A
      PROVE  /\ e \in Emission /\ e.window \in w .. n - 1
             /\ e.results = {k \in 1 .. m : offsets[k] \div Bucket = e.window}
             /\ ~ e.flush => /\ (e.window + 1) * Bucket <= now
                             /\ InWindow(e.window) \subseteq 1 .. m
  <2>1. PICK v \in w .. n - 1 :
          e = [window |-> v, results |-> InWindow(v), flush |-> final]
    BY <1>6, <1>8
  <2>2. InWindow(v) = {k \in 1 .. m : offsets[k] \div Bucket = v}
    BY <1>7
  <2>3. v \in Nat /\ v < n
    BY <1>1
  <2>4. e \in Emission
    BY <1>4, <2>1, <2>2, <2>3 DEF Emission
  <2>5. ASSUME ~ final
        PROVE  (v + 1) * Bucket <= now
    <3>1. /\ (v + 1) * Bucket <= n * Bucket
          /\ (v + 1) * Bucket \in Nat /\ n * Bucket \in Nat /\ now \in Nat
      <4>1. v + 1 \in Nat
        BY <2>3
      <4>2. QED
        BY <2>3, <4>1, WindowsAscend DEF Recorded
    <3>2. n * Bucket <= now
      BY <2>5
    <3>3. QED
      BY <3>1, <3>2
  <2>6. QED
    BY <2>1, <2>2, <2>4, <2>5
<1>9. \A d, e \in S \cup A : d.window = e.window => d = e
  <2>1. \A d, e \in S : d.window = e.window => d = e
    BY DEF Faithful
  <2>2. \A d \in S, e \in A : d.window # e.window
    <3>1. \A d \in S : d.window \in Nat /\ d.window < w
      BY <1>5
    <3>2. \A e \in A : e.window \in w .. n - 1
      BY <1>8
    <3>3. QED
      BY <1>1, <3>1, <3>2
  <2>3. \A d, e \in A : d.window = e.window => d = e
    BY <1>6
  <2>4. QED
    BY <2>1, <2>2, <2>3
<1>10. \A k \in 1 .. m : \E e \in S \cup A : e.window = offsets[k] \div Bucket
  <2>1. \A k \in 1 .. c : \E e \in S : e.window = offsets[k] \div Bucket
    BY DEF Faithful
  <2>2. ASSUME NEW k \in c + 1 .. m
        PROVE  \E e \in A : e.window = offsets[k] \div Bucket
    <3>1. PICK v \in w .. n - 1 : v = offsets[k] \div Bucket
      BY <1>2
    <3>2. k \in InWindow(v)
      BY <1>2, <3>1 DEF InWindow
    <3>3. [window |-> v, results |-> InWindow(v), flush |-> final] \in A
      BY <3>2 DEF Whole
    <3>4. QED
      BY <3>1, <3>3
  <2>3. QED
    BY <1>4, <2>1, <2>2
<1>11. Faithful(S \cup A, m)
  BY <1>5, <1>8, <1>9, <1>10 DEF Faithful
<1>12. UpTo(S \cup A, m, n)
  <2>1. \A e \in S \cup A : e.window < n
    <3>1. \A e \in S : e.window \in Nat /\ e.window < w
      BY <1>5
    <3>2. \A e \in A : e.window \in w .. n - 1
      BY <1>8
    <3>3. QED
      BY <1>1, <3>1, <3>2
  <2>2. QED
    BY <2>1 DEF UpTo
<1>13. QED
  BY <1>11, <1>12
-------------------------------------------------------------------------------
(* One emit of the closed windows, and the flush, from any faithful state. *)
LEMMA ClosingLemma ==
  ASSUME Recorded, NEW S, NEW c, NEW w, Faithful(S, c), UpTo(S, c, w),
         w * Bucket <= now
  PROVE  LET d == CursorAfter(c, w, FALSE)
             x == WindowAfter(c, w, FALSE)
             T == S \cup Emitted(c, w, FALSE)
         IN /\ Faithful(T, d) /\ UpTo(T, d, x)
            /\ x * Bucket <= now /\ now < (x + 1) * Bucket
<1>. DEFINE p == now \div Bucket
            A == Whole(w, p, FALSE)
<1>1. /\ c \in 0 .. Len(offsets) /\ w \in Nat /\ Before(c, w) /\ now \in Nat
  BY DEF UpTo, Recorded
<1>2. p \in Nat /\ p * Bucket <= now /\ now < (p + 1) * Bucket
  BY <1>1, WindowFacts
<1>3. w <= p /\ Handled(c, w, FALSE) = w .. p - 1
  BY <1>1, ClosedLemma
<1>. HIDE DEF p
<1>4. PICK m \in 0 .. Len(offsets) : Before(m, p)
  BY <1>2 DEF Recorded
<1>5. /\ WindowAfter(c, w, FALSE) = p /\ CursorAfter(c, w, FALSE) = m
      /\ Emitted(c, w, FALSE) = A
  <2>. DEFINE final == FALSE
  <2>1. Handled(c, w, final) = w .. p - 1
    BY <1>3
  <2>. HIDE DEF final
  <2>2. /\ WindowAfter(c, w, final) = p /\ CursorAfter(c, w, final) = m
        /\ Emitted(c, w, final) = Whole(w, p, final)
    BY <1>1, <1>2, <1>3, <1>4, <2>1, EmitLemma
  <2>3. QED
    BY <2>2 DEF final
<1>6. Faithful(S \cup A, m) /\ UpTo(S \cup A, m, p)
  <2>1. FALSE \in BOOLEAN
    OBVIOUS
  <2>2. QED
    BY <1>2, <1>3, <1>4, <2>1, ExtendLemma
<1>7. QED
  BY <1>2, <1>5, <1>6

LEMMA FlushingLemma ==
  ASSUME Recorded, NEW S, NEW c, NEW w, Faithful(S, c), UpTo(S, c, w),
         w * Bucket <= now
  PROVE  /\ CursorAfter(c, w, TRUE) = Len(offsets)
         /\ WindowAfter(c, w, TRUE) \in Nat
         /\ Faithful(S \cup Emitted(c, w, TRUE), Len(offsets))
<1>1. c \in 0 .. Len(offsets) /\ w \in Nat /\ Before(c, w)
  BY DEF UpTo
<1>2. PICK n \in Nat : /\ w <= n
                       /\ Handled(c, w, TRUE) = w .. n - 1
                       /\ Before(Len(offsets), n)
  BY <1>1, FlushLemma
<1>. DEFINE A == Whole(w, n, TRUE)
<1>3. Len(offsets) \in 0 .. Len(offsets)
  BY ResultFacts
<1>4. /\ WindowAfter(c, w, TRUE) = n /\ CursorAfter(c, w, TRUE) = Len(offsets)
      /\ Emitted(c, w, TRUE) = A
  <2>. DEFINE final == TRUE
  <2>1. Handled(c, w, final) = w .. n - 1
    BY <1>2
  <2>. HIDE DEF final
  <2>2. /\ WindowAfter(c, w, final) = n /\ CursorAfter(c, w, final) = Len(offsets)
        /\ Emitted(c, w, final) = Whole(w, n, final)
    BY <1>1, <1>2, <1>3, <2>1, EmitLemma
  <2>3. QED
    BY <2>2 DEF final
<1>5. Faithful(S \cup A, Len(offsets))
  <2>1. TRUE \in BOOLEAN
    OBVIOUS
  <2>2. QED
    BY <1>2, <1>3, <2>1, ExtendLemma
<1>6. QED
  BY <1>2, <1>4, <1>5

(* The inductive invariant. *)
Summarised ==
  pc = "done" =>
    /\ streamer = "done"
    /\ intervals = {[window |-> v, results |-> InWindow(v)] :
                      v \in {offsets[k] \div Bucket : k \in Results}}

IInv ==
  /\ TypeOK
  /\ Recorded
  /\ Faithful(streamed, cursor)
  /\ streamer # "done" => UpTo(streamed, cursor, window) /\ window * Bucket <= now
  /\ Summarised

LEMMA InitEstablishes == Init => IInv
<1>. SUFFICES ASSUME Init
              PROVE  IInv
  OBVIOUS
<1>1. now \in Nat /\ now \in 0 .. RunTicks + Bucket
  BY LatenessAssumption, BoundsAssumption, BucketAssumption DEF Init
<1>2. offsets = <<>> /\ Len(offsets) = 0 /\ offsets \in Seq(Nat) /\ Results = {}
  BY DEF Init, Results
<1>3. TypeOK
  BY <1>1, <1>2, BoundsAssumption DEF Init, TypeOK
<1>4. Recorded
  BY <1>1, <1>2, BoundsAssumption DEF Recorded, Before
<1>5. Faithful(streamed, cursor)
  BY DEF Init, Faithful
<1>6. UpTo(streamed, cursor, window) /\ window * Bucket <= now
  BY <1>1, <1>2, BucketAssumption DEF Init, UpTo, Before
<1>7. QED
  BY <1>3, <1>4, <1>5, <1>6 DEF Init, IInv, Summarised

(* What depends on the results and the clock only, when neither changes.   *)
LEMMA StillLemma ==
  ASSUME UNCHANGED <<now, offsets>>
  PROVE  /\ Recorded => Recorded'
         /\ \A S, c : Faithful(S, c) => Faithful(S, c)'
         /\ \A S, c, w : UpTo(S, c, w) => UpTo(S, c, w)'
         /\ Results' = Results
         /\ \A v : InWindow(v)' = InWindow(v)
<1>1. Results' = Results /\ \A v : InWindow(v)' = InWindow(v)
  BY DEF Results, InWindow
<1>2. \A m, x : Before(m, x)' <=> Before(m, x)
  BY DEF Before, Results
<1>3. Recorded => Recorded'
  BY <1>1, <1>2 DEF Recorded
<1>4. QED
  BY <1>1, <1>2, <1>3 DEF Faithful, UpTo

LEMMA TickPreserves == IInv /\ Tick => IInv'
<1>. SUFFICES ASSUME IInv, Tick
              PROVE  IInv'
  OBVIOUS
<1>1. /\ now \in Nat /\ now' = now + 1 /\ pc # "done"
      /\ UNCHANGED <<empties, pc, offsets, streamer, wake, cursor, window,
                     streamed, intervals>>
  BY DEF Tick, streamVars, IInv, Recorded
<1>2. now' \in 0 .. RunTicks + Bucket
  BY <1>1, BoundsAssumption, BucketAssumption DEF Tick, stop
<1>3. TypeOK'
  BY <1>1, <1>2 DEF IInv, TypeOK
<1>4. Results' = Results /\ \A v : InWindow(v)' = InWindow(v)
  BY <1>1 DEF Results, InWindow
<1>5. \A m, x : Before(m, x)' <=> Before(m, x)
  BY <1>1 DEF Before, Results
<1>6. Recorded'
  <2>1. Recorded
    BY DEF IInv
  <2>2. \A k \in Results : offsets[k] <= now'
    <3>1. \A k \in Results : offsets[k] \in Nat /\ offsets[k] <= now
      BY <2>1, ResultFacts DEF Recorded
    <3>2. QED
      BY <1>1, <3>1
  <2>3. QED
    BY <1>1, <1>4, <1>5, <2>1, <2>2 DEF Recorded
<1>7. Faithful(streamed, cursor)'
  <2>1. Faithful(streamed, cursor)
    BY DEF IInv
  <2>2. ASSUME NEW e \in streamed, ~ e.flush
        PROVE  (e.window + 1) * Bucket <= now'
    <3>1. e.window + 1 \in Nat /\ (e.window + 1) * Bucket <= now
      BY <2>1, <2>2 DEF Faithful, Emission
    <3>2. (e.window + 1) * Bucket \in Nat
      BY <3>1, WindowsAscend
    <3>3. QED
      BY <1>1, <3>1, <3>2
  <2>3. QED
    BY <1>1, <1>4, <2>1, <2>2 DEF Faithful
<1>8. (streamer # "done" => UpTo(streamed, cursor, window) /\ window * Bucket <= now)'
  <2>1. SUFFICES ASSUME streamer # "done"
                 PROVE  UpTo(streamed, cursor, window)' /\ window * Bucket <= now'
    BY <1>1
  <2>2. UpTo(streamed, cursor, window) /\ window * Bucket <= now
    BY <2>1 DEF IInv
  <2>3. window \in Nat /\ window * Bucket \in Nat
    BY <2>2, WindowsAscend DEF UpTo
  <2>4. QED
    BY <1>1, <1>5, <2>2, <2>3 DEF UpTo
<1>9. QED
  BY <1>1, <1>3, <1>6, <1>7, <1>8 DEF IInv, Summarised

(* A result is recorded after all others, past every window that was       *)
(* emitted as closed and at or past the next one of a living streamer.     *)
LEMMA RecordPreserves == IInv /\ Record => IInv'
<1>. SUFFICES ASSUME IInv, Record
              PROVE  IInv'
  OBVIOUS
<1>0. PICK n \in Nat : n = Len(offsets)
  BY ResultFacts DEF IInv
<1>1. /\ pc \in {"running", "draining"} /\ n < MaxResults
      /\ offsets' = Append(offsets, now)
      /\ UNCHANGED <<empties, now, pc, streamer, wake, cursor, window,
                     streamed, intervals>>
  BY <1>0 DEF Record, streamVars
<1>2. /\ Recorded /\ offsets \in Seq(Nat) /\ n \in Nat /\ now \in Nat
      /\ Results = 1 .. n /\ cursor \in 0 .. n
      /\ \A k \in Results : offsets[k] \in Nat /\ offsets[k] <= now
  <2>1. Recorded /\ cursor \in 0 .. n
    BY <1>0 DEF IInv, TypeOK
  <2>2. QED
    BY <1>0, <2>1, ResultFacts DEF Recorded
<1>3. /\ offsets' \in Seq(Nat) /\ Len(offsets') = n + 1
      /\ offsets'[n + 1] = now
      /\ \A k \in Results : offsets'[k] = offsets[k]
  BY <1>0, <1>1, <1>2
<1>4. Results' = Results \cup {n + 1} /\ n + 1 \notin Results
  BY <1>2, <1>3 DEF Results
<1>5. TypeOK'
  <2>1. Len(offsets') <= MaxResults /\ cursor' \in 0 .. Len(offsets')
    BY <1>1, <1>2, <1>3, BoundsAssumption
  <2>2. QED
    BY <1>1, <1>3, <2>1 DEF IInv, TypeOK
<1>6. ASSUME NEW m \in 0 .. n, NEW x \in Nat, Before(m, x), x * Bucket <= now
      PROVE  Before(m, x)'
  <2>1. x * Bucket \in Nat
    BY WindowsAscend
  <2>2. ~ (n + 1 <= m) /\ ~ (now < x * Bucket)
    BY <1>2, <1>6, <2>1
  <2>3. QED
    BY <1>3, <1>4, <1>6, <2>2 DEF Before
<1>7. Recorded'
  <2>1. Len(offsets') <= MaxResults
    BY <1>5 DEF TypeOK
  <2>2. \A k \in Results' : offsets'[k] <= now'
    BY <1>1, <1>2, <1>3, <1>4
  <2>3. \A j, k \in Results' : j <= k => offsets'[j] <= offsets'[k]
    <3>1. \A j, k \in Results : j <= k => offsets'[j] <= offsets'[k]
      BY <1>2, <1>3 DEF Recorded
    <3>2. \A j \in Results : offsets'[j] <= offsets'[n + 1] /\ ~ (n + 1 <= j)
      BY <1>2, <1>3
    <3>3. offsets'[n + 1] <= offsets'[n + 1]
      BY <1>2, <1>3
    <3>4. QED
      BY <1>4, <3>1, <3>2, <3>3
  <2>4. ASSUME NEW x \in Nat
        PROVE  \E m \in 0 .. Len(offsets') : Before(m, x)'
    <3>1. x * Bucket \in Nat
      BY WindowsAscend
    <3>2. CASE x * Bucket <= now
      <4>1. PICK m \in 0 .. n : Before(m, x)
        BY <1>0, <1>2 DEF Recorded
      <4>2. Before(m, x)' /\ m \in 0 .. Len(offsets')
        BY <1>2, <1>3, <1>6, <3>2, <4>1
      <4>3. QED
        BY <4>2
    <3>3. CASE now < x * Bucket
      <4>1. \A k \in Results' : k <= n + 1
        BY <1>2, <1>4
      <4>2. \A k \in Results' : offsets'[k] < x * Bucket
        <5>1. \A k \in Results : offsets'[k] < x * Bucket
          <6>. DEFINE bound == x * Bucket
          <6>1. bound \in Nat /\ now < bound /\ now \in Nat
            BY <1>2, <3>1, <3>3
          <6>. HIDE DEF bound
          <6>2. \A k \in Results : offsets'[k] < bound
            BY <1>2, <1>3, <6>1
          <6>3. QED
            BY <6>2 DEF bound
        <5>2. offsets'[n + 1] < x * Bucket
          BY <1>3, <3>3
        <5>3. QED
          BY <1>4, <5>1, <5>2
      <4>3. Before(n + 1, x)'
        BY <4>1, <4>2 DEF Before
      <4>4. n + 1 \in 0 .. Len(offsets')
        BY <1>2, <1>3
      <4>5. QED
        BY <4>3, <4>4
    <3>4. QED
      BY <1>2, <3>1, <3>2, <3>3
  <2>5. QED
    BY <1>1, <1>2, <1>3, <2>1, <2>2, <2>3, <2>4 DEF Recorded
<1>8. 1 .. cursor \subseteq Results
  BY <1>2
<1>9. Faithful(streamed, cursor)'
  <2>1. Faithful(streamed, cursor)
    BY DEF IInv
  <2>2. ASSUME NEW e \in streamed
        PROVE  e.results = {k \in 1 .. cursor : offsets'[k] \div Bucket = e.window}
    BY <1>3, <1>8, <2>1 DEF Faithful
  <2>3. \A k \in 1 .. cursor : \E e \in streamed : e.window = offsets'[k] \div Bucket
    BY <1>3, <1>8, <2>1 DEF Faithful
  <2>4. ASSUME NEW e \in streamed, ~ e.flush
        PROVE  InWindow(e.window)' \subseteq 1 .. cursor
    <3>1. /\ e.window \in Nat /\ (e.window + 1) * Bucket <= now
          /\ InWindow(e.window) \subseteq 1 .. cursor
      BY <2>1, <2>4 DEF Faithful, Emission
    <3>2. now \div Bucket # e.window
      <4>1. (e.window + 1) * Bucket \in Nat
        <5>1. e.window + 1 \in Nat
          BY <3>1
        <5>2. QED
          BY <5>1, WindowsAscend
      <4>2. now < (now \div Bucket + 1) * Bucket
        BY <1>2, WindowFacts
      <4>3. QED
        BY <1>2, <3>1, <4>1, <4>2
    <3>3. InWindow(e.window)' \subseteq InWindow(e.window)
      BY <1>3, <1>4, <3>2 DEF InWindow
    <3>4. QED
      BY <3>1, <3>3
  <2>5. QED
    BY <1>1, <2>1, <2>2, <2>3, <2>4 DEF Faithful
<1>10. (streamer # "done" => UpTo(streamed, cursor, window) /\ window * Bucket <= now)'
  <2>1. SUFFICES ASSUME streamer # "done"
                 PROVE  UpTo(streamed, cursor, window)' /\ window * Bucket <= now
    BY <1>1
  <2>2. UpTo(streamed, cursor, window) /\ window * Bucket <= now
    BY <2>1 DEF IInv
  <2>3. window \in Nat /\ cursor \in 0 .. n /\ Before(cursor, window)
    BY <1>0, <2>2 DEF UpTo
  <2>4. Before(cursor, window)'
    BY <1>1, <1>6, <2>2, <2>3
  <2>5. cursor' \in 0 .. Len(offsets')
    BY <1>5 DEF TypeOK
  <2>6. QED
    BY <1>1, <2>2, <2>4, <2>5 DEF UpTo
<1>11. QED
  BY <1>1, <1>5, <1>7, <1>9, <1>10 DEF IInv, Summarised

(* A step of the streaming task that leaves it alive or done.              *)
LEMMA StreamStep ==
  ASSUME IInv, UNCHANGED <<empties, now, pc, offsets, intervals>>, pc # "done",
         streamer' \in {"asleep", "done"}, wake' \in Nat,
         cursor' \in 0 .. Len(offsets), window' \in Nat,
         Faithful(streamed', cursor'),
         streamer' # "done" => /\ UpTo(streamed', cursor', window')
                               /\ window' * Bucket <= now
  PROVE  IInv'
<1>1. Recorded' /\ Faithful(streamed, cursor)'
  BY StillLemma DEF IInv, Faithful, InWindow, Results
<1>2. streamed' \subseteq Emission
  BY DEF Faithful
<1>3. TypeOK'
  BY <1>2 DEF IInv, TypeOK
<1>4. (streamer # "done" => UpTo(streamed, cursor, window) /\ window * Bucket <= now)'
  BY DEF UpTo, Before, Results
<1>5. Summarised'
  BY DEF Summarised
<1>6. QED
  BY <1>1, <1>3, <1>4, <1>5 DEF IInv

LEMMA FaithfulCursor ==
  ASSUME Recorded
  PROVE  Len(offsets) \in 0 .. Len(offsets)
BY ResultFacts

LEMMA StreamPreserves == IInv /\ Stream => IInv'
<1>. SUFFICES ASSUME IInv, Stream
              PROVE  IInv'
  OBVIOUS
<1>1. /\ Recorded /\ Faithful(streamed, cursor)
      /\ streamer # "done" => /\ UpTo(streamed, cursor, window)
                              /\ window * Bucket <= now
      /\ pc = "done" => streamer = "done"
      /\ now \in Nat /\ wake \in Nat /\ cursor \in 0 .. Len(offsets) /\ window \in Nat
  BY DEF IInv, TypeOK, Recorded, Summarised
<1>2. now + Bucket \in Nat
  BY <1>1, BucketAssumption
<1>3. CASE Begin /\ ~ stop
  <2>1. /\ UNCHANGED <<empties, now, pc, offsets, intervals, cursor, window, streamed>>
        /\ streamer = "new" /\ streamer' = "asleep" /\ wake' = now + Bucket
    BY <1>3 DEF Begin
  <2>2. QED
    BY <1>1, <1>2, <2>1, StreamStep
<1>4. CASE Begin /\ stop
  <2>1. /\ UNCHANGED <<empties, now, pc, offsets, intervals, wake>>
        /\ streamer = "new" /\ streamer' = "done"
        /\ streamed' = streamed \cup Emitted(cursor, window, TRUE)
        /\ cursor' = CursorAfter(cursor, window, TRUE)
        /\ window' = WindowAfter(cursor, window, TRUE)
    BY <1>4 DEF Begin, Emit
  <2>2. /\ cursor' = Len(offsets) /\ window' \in Nat
        /\ Faithful(streamed', cursor')
    BY <1>1, <2>1, FlushingLemma
  <2>3. cursor' \in 0 .. Len(offsets)
    BY <1>1, <2>2, FaithfulCursor
  <2>4. QED
    BY <1>1, <2>1, <2>2, <2>3, StreamStep
<1>5. CASE Wake
  <2>1. /\ UNCHANGED <<empties, now, pc, offsets, intervals, streamer>>
        /\ streamer = "asleep" /\ wake' = now + Bucket
        /\ streamed' = streamed \cup Emitted(cursor, window, FALSE)
        /\ cursor' = CursorAfter(cursor, window, FALSE)
        /\ window' = WindowAfter(cursor, window, FALSE)
    BY <1>5 DEF Wake, Emit
  <2>2. /\ Faithful(streamed', cursor') /\ UpTo(streamed', cursor', window')
        /\ window' * Bucket <= now
    BY <1>1, <2>1, ClosingLemma
  <2>3. cursor' \in 0 .. Len(offsets) /\ window' \in Nat
    BY <2>2 DEF UpTo
  <2>4. QED
    BY <1>1, <1>2, <2>1, <2>2, <2>3, StreamStep
<1>6. CASE WakeAndFlush
  <2>. DEFINE c == CursorAfter(cursor, window, FALSE)
              w == WindowAfter(cursor, window, FALSE)
              S == streamed \cup Emitted(cursor, window, FALSE)
  <2>1. /\ UNCHANGED <<empties, now, pc, offsets, intervals, wake>>
        /\ streamer = "asleep" /\ streamer' = "done"
        /\ streamed' = S \cup Emitted(c, w, TRUE)
        /\ cursor' = CursorAfter(c, w, TRUE)
        /\ window' = WindowAfter(c, w, TRUE)
    BY <1>6 DEF WakeAndFlush
  <2>2. Faithful(S, c) /\ UpTo(S, c, w) /\ w * Bucket <= now
    BY <1>1, <2>1, ClosingLemma
  <2>. HIDE DEF c, w, S
  <2>3. /\ cursor' = Len(offsets) /\ window' \in Nat
        /\ Faithful(streamed', cursor')
    BY <1>1, <2>1, <2>2, FlushingLemma
  <2>4. cursor' \in 0 .. Len(offsets)
    BY <1>1, <2>3, FaithfulCursor
  <2>5. QED
    BY <1>1, <2>1, <2>3, <2>4, StreamStep
<1>7. QED
  BY <1>3, <1>4, <1>5, <1>6 DEF Stream

LEMMA ReportPreserves == IInv /\ Report => IInv'
<1>. SUFFICES ASSUME IInv, Report
              PROVE  IInv'
  OBVIOUS
<1>. DEFINE windows == {offsets[k] \div Bucket : k \in Results}
<1>1. /\ UNCHANGED <<empties, now, offsets, streamer, wake, cursor, window, streamed>>
      /\ streamer = "done" /\ pc' = "done"
      /\ intervals' = {[window |-> v, results |-> InWindow(v)] : v \in windows}
  BY DEF Report, streamVars
<1>2. Recorded
  BY DEF IInv
<1>3. Results \subseteq 1 .. MaxResults
  <2>1. Len(offsets) \in Nat /\ Results = 1 .. Len(offsets)
    BY <1>2, ResultFacts
  <2>2. Len(offsets) <= MaxResults /\ MaxResults \in Nat
    BY <1>2, BoundsAssumption DEF Recorded
  <2>3. QED
    BY <2>1, <2>2
<1>4. \A v \in windows : v \in Nat
  BY <1>2, ResultFacts, WindowFacts
<1>5. intervals' \subseteq Interval
  <2>1. ASSUME NEW v \in windows
        PROVE  [window |-> v, results |-> InWindow(v)] \in Interval
    BY <1>3, <1>4 DEF InWindow, Interval
  <2>2. QED
    BY <1>1, <2>1
<1>6. TypeOK'
  BY <1>1, <1>5 DEF IInv, TypeOK
<1>7. Summarised'
  BY <1>1, StillLemma DEF Summarised, Results, InWindow
<1>8. Recorded' /\ Faithful(streamed, cursor)'
  BY <1>1, StillLemma DEF IInv, Faithful, InWindow, Results
<1>9. QED
  BY <1>1, <1>6, <1>7, <1>8 DEF IInv

(* Steps of the run that leave the results and the streamer alone.         *)
LEMMA RestLemma ==
  ASSUME IInv, UNCHANGED <<empties, now, offsets, streamVars, intervals>>,
         pc' \in {"draining", "joining"} \/ pc' = pc
  PROVE  IInv'
<1>1. UNCHANGED <<empties, now, offsets, streamer, wake, cursor, window, streamed,
                  intervals>>
  BY DEF streamVars
<1>2. TypeOK'
  BY <1>1 DEF IInv, TypeOK
<1>3. Summarised'
  BY <1>1 DEF IInv, Summarised, Results, InWindow
<1>4. Recorded' /\ Faithful(streamed, cursor)'
  BY <1>1, StillLemma DEF IInv, Faithful, InWindow, Results
<1>5. (streamer # "done" => UpTo(streamed, cursor, window) /\ window * Bucket <= now)'
  BY <1>1 DEF IInv, UpTo, Before, Results
<1>6. QED
  BY <1>2, <1>3, <1>4, <1>5 DEF IInv

LEMMA NextPreserves == IInv /\ [Next]_vars => IInv'
<1>. SUFFICES ASSUME IInv, [Next]_vars
              PROVE  IInv'
  OBVIOUS
<1>1. CASE Stop
  BY <1>1, RestLemma DEF Stop
<1>2. CASE DrainEnds
  BY <1>2, RestLemma DEF DrainEnds
<1>3. CASE UNCHANGED vars
  BY <1>3, RestLemma DEF vars
<1>4. QED
  BY <1>1, <1>2, <1>3, TickPreserves, RecordPreserves, StreamPreserves,
     ReportPreserves DEF Next, Finished
-------------------------------------------------------------------------------
(* The invariant holds throughout, whenever results come and the task      *)
(* wakes.                                                                  *)
THEOREM Invariance == Spec => []IInv
<1>1. QED
  BY InitEstablishes, NextPreserves, PTL DEF Spec

(* Every result is streamed once and in its window, a window that was      *)
(* emitted as closed is final, and after a quiet drain the summary agrees. *)
THEOREM StreamStaysFaithful == Spec => []StreamIsFaithful
<1>1. ASSUME IInv
      PROVE  StreamIsFaithful
  <2>1. TypeOK /\ Recorded /\ Faithful(streamed, cursor) /\ Summarised
    BY <1>1 DEF IInv
  <2>2. /\ cursor \in 0 .. Len(offsets) /\ Results = 1 .. Len(offsets)
        /\ 1 .. cursor \subseteq Results
    BY <2>1, ResultFacts DEF TypeOK
  <2>3. EmittedOnce
    <3>1. \A k \in 1 .. cursor : \E e \in streamed : k \in e.results
      BY <2>1 DEF Faithful
    <3>2. \A e \in streamed : e.results \subseteq 1 .. cursor
      BY <2>1 DEF Faithful
    <3>3. \A d, e \in streamed :
            d # e => d.window # e.window /\ d.results \cap e.results = {}
      BY <2>1 DEF Faithful
    <3>4. QED
      BY <3>1, <3>2, <3>3 DEF EmittedOnce
  <2>4. ClosedIsFinal
    BY <2>1, <2>2 DEF ClosedIsFinal, Faithful, InWindow
  <2>5. QuietDrainAgrees
    <3>1. SUFFICES ASSUME pc = "done", cursor = Len(offsets)
                   PROVE  {[window |-> e.window, results |-> e.results] :
                             e \in {d \in streamed : d.results # {}}} = intervals
      BY DEF QuietDrainAgrees
    <3>2. intervals = {[window |-> v, results |-> InWindow(v)] :
                         v \in {offsets[k] \div Bucket : k \in Results}}
      BY <2>1, <3>1 DEF Summarised
    <3>3. \A e \in streamed : e.results = InWindow(e.window)
      BY <2>1, <2>2, <3>1 DEF Faithful, InWindow
    <3>4. ASSUME NEW e \in streamed, e.results # {}
          PROVE  [window |-> e.window, results |-> e.results] \in intervals
      <4>1. PICK k \in Results : offsets[k] \div Bucket = e.window
        BY <3>3, <3>4 DEF InWindow
      <4>2. QED
        BY <3>2, <3>3, <4>1
    <3>5. ASSUME NEW i \in intervals
          PROVE  \E e \in streamed : /\ e.results # {}
                                     /\ i = [window |-> e.window, results |-> e.results]
      <4>1. PICK k \in Results :
              i = [window |-> offsets[k] \div Bucket,
                   results |-> InWindow(offsets[k] \div Bucket)]
        BY <3>2
      <4>2. PICK e \in streamed : e.window = offsets[k] \div Bucket
        BY <2>1, <2>2, <3>1 DEF Faithful
      <4>3. k \in e.results
        BY <3>3, <4>2 DEF InWindow
      <4>4. QED
        BY <3>3, <4>1, <4>2, <4>3
    <3>6. QED
      BY <3>4, <3>5
  <2>6. QED
    BY <2>1, <2>3, <2>4, <2>5 DEF StreamIsFaithful
<1>2. QED
  BY <1>1, Invariance, PTL

(* However late the task wakes, it has caught up when it sleeps again.     *)
THEOREM StreamStaysCurrent == Spec => StreamIsCurrent
<1>1. ASSUME IInv, [Next]_vars, streamer = "asleep", wake' # wake
      PROVE  (window' + 1) * Bucket > now
  <2>1. Wake
    BY <1>1 DEF Next, Tick, Record, Stream, Begin, WakeAndFlush, Stop, DrainEnds,
                Report, Finished, vars, streamVars
  <2>2. /\ Recorded /\ Faithful(streamed, cursor)
        /\ UpTo(streamed, cursor, window) /\ window * Bucket <= now
    BY <1>1 DEF IInv
  <2>3. window' = WindowAfter(cursor, window, FALSE)
    BY <2>1 DEF Wake, Emit
  <2>4. PICK w \in Nat : w = window' /\ now < (w + 1) * Bucket
    BY <2>2, <2>3, ClosingLemma DEF UpTo
  <2>5. now \in Nat
    BY <2>2 DEF Recorded
  <2>6. w + 1 \in Nat
    OBVIOUS
  <2>7. (w + 1) * Bucket \in Nat
    BY <2>6, WindowsAscend
  <2>8. QED
    BY <2>4, <2>5, <2>7
<1>2. QED
  BY <1>1, Invariance, PTL DEF Spec, StreamIsCurrent

(* Whenever the task ends, it has handed over all that was recorded.       *)
THEOREM FlushStaysComplete == Spec => FlushIsComplete
<1>1. ASSUME IInv, [Next]_vars, streamer # "done", streamer' = "done"
      PROVE  cursor' = Len(offsets)
  <2>1. /\ Recorded /\ Faithful(streamed, cursor)
        /\ UpTo(streamed, cursor, window) /\ window * Bucket <= now
    BY <1>1 DEF IInv
  <2>2. (Begin /\ stop) \/ WakeAndFlush
    BY <1>1 DEF Next, Tick, Record, Stream, Begin, Wake, Stop, DrainEnds, Report,
                Finished, vars, streamVars
  <2>3. CASE Begin /\ stop
    <3>1. cursor' = CursorAfter(cursor, window, TRUE)
      BY <1>1, <2>3 DEF Begin, Emit
    <3>2. QED
      BY <2>1, <3>1, FlushingLemma
  <2>4. CASE WakeAndFlush
    <3>. DEFINE c == CursorAfter(cursor, window, FALSE)
                w == WindowAfter(cursor, window, FALSE)
                S == streamed \cup Emitted(cursor, window, FALSE)
    <3>1. cursor' = CursorAfter(c, w, TRUE)
      BY <2>4 DEF WakeAndFlush
    <3>2. Faithful(S, c) /\ UpTo(S, c, w) /\ w * Bucket <= now
      BY <2>1, ClosingLemma
    <3>. HIDE DEF c, w, S
    <3>3. QED
      BY <2>1, <3>1, <3>2, FlushingLemma
  <2>5. QED
    BY <2>2, <2>3, <2>4
<1>2. QED
  BY <1>1, Invariance, PTL DEF Spec, FlushIsComplete

===============================================================================
