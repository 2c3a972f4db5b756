------------------------------ MODULE LoadReport -------------------------------
(***************************************************************************)
(* What becomes of the results of a load test: each run (of one node, on   *)
(* one target) sums its results up, writes the summary to a payload file   *)
(* and is judged by the thresholds; payload files are merged by            *)
(* merge-load-test, in one step or in several, and the merged summary is   *)
(* judged again (load_test.py, distributed.py, analysis.py and cli.py of    *)
(* http_bench).  The exit code of the last command is what a pipeline sees. *)
(*                                                                         *)
(* A file says whose results it stands for: that is known to the model     *)
(* only.  Runs that are merged do not overlap.                             *)
(***************************************************************************)
EXTENDS LatencyHistogram, Thresholds

CONSTANTS
  Nodes,
  Kinds,          \* what can come of a request
  MaxResults,     \* of the run of each node
  Launches,       \* how the nodes are started, and the thresholds given
  EpochTolerance, SkewTolerance

Outcomes ==
  [completed : BOOLEAN,       \* status SUCCESS
   responded : BOOLEAN,       \* there is a status code
   expected : BOOLEAN,        \* and it is one of the expected ones
   total_ms : Nat,
   ttfb_ms : Nat,
   dns_ms : Nat \cup {None},  \* none when no name was looked up
   http2 : BOOLEAN,
   expiry : Nat \cup {None},  \* days the certificate seen is still valid
   at : Nat]                  \* when it completed, since the origin of the run

Starts ==
  [epoch : Nat \cup {None}, clock_offset : Int, bucket : Nat \ {0},
   paced : BOOLEAN, dropped : Nat, duration : Nat, offset : Nat]

ASSUME NodesAssumption == IsFiniteSet(Nodes) /\ MaxResults \in [Nodes -> Nat]
ASSUME KindsAssumption ==
  Kinds \subseteq Outcomes /\ \A k \in Kinds : k.expected => k.responded
ASSUME TolerancesAssumption == EpochTolerance \in Nat /\ SkewTolerance \in Nat

VARIABLES
  start,       \* how each node was started
  criteria,    \* the thresholds of every command
  running,     \* the nodes whose run is under way
  timed_results, \* of each node, as they completed
  files,       \* the payload files not merged into another yet
  last         \* the command that ended last

reportVars == <<start, criteria, running, timed_results, files, last>>

Metrics ==
  {"total_requests", "success_rate", "transport_error_rate",
   "unexpected_status_rate", "min_latency", "max_latency", "avg_latency",
   "p95_latency", "median_latency", "latency_overflow_count", "http2_rate",
   "avg_dns_ms", "p95_ttfb_ms", "cert_expiry_days", "dropped", "rps"}

SAMPLE_DEPENDENT_METRICS ==
  {"min_latency", "max_latency", "avg_latency", "median_latency",
   "p95_latency", "p95_ttfb_ms", "avg_dns_ms", "http2_rate"}

UNMERGEABLE_METRICS == {"p95_ttfb_ms"}

Criteria == [metric : Metrics, limit : Int,
             op : {"<", "<=", ">", ">=", "==", "!="}]

ASSUME LaunchesAssumption ==
  Launches \subseteq [start : [Nodes -> Starts], criteria : SUBSET Criteria]

NoCommand == [exit |-> 0, of |-> {}, ended |-> FALSE]

ReportTypeOK ==
  /\ [start |-> start, criteria |-> criteria] \in Launches
  /\ running \subseteq Nodes
  /\ DOMAIN timed_results = Nodes
  /\ \A n \in Nodes : timed_results[n] \in BoundedSeq(Kinds, MaxResults[n])
  /\ \A f \in files : f.of \subseteq Nodes \ running /\ f.of # {}
  /\ \A f, g \in files : f = g \/ f.of \cap g.of = {}
  /\ last.exit \in {0, 1, 2} /\ last.of \subseteq Nodes /\ last.ended \in BOOLEAN

ReportInit ==
  /\ \E s \in Launches : start = s.start /\ criteria = s.criteria
  /\ running = Nodes
  /\ timed_results = [n \in Nodes |-> <<>>]
  /\ files = {}
  /\ last = NoCommand

--------------------------------------------------------------------------------
(* Statistics of one run. *)

Number(rows, P(_)) == Cardinality({i \in DOMAIN rows : P(rows[i])})

Responded(r) == r.responded
LookedUp(r) == r.responded /\ r.dns_ms # None

(* The least value; what is missing does not count.                        *)
Least(values) ==
  LET known == {values[i] : i \in DOMAIN values} \ {None}
  IN IF known = {} THEN None ELSE Min(known)

Column(rows, F(_)) == [i \in DOMAIN rows |-> F(rows[i])]

(* The latencies of the answers, not those of timeouts.                    *)
Latencies(rows) ==
  Column(RestrictValues(rows, Responded), LAMBDA r : r.total_ms)

\* Mutant: a name found in the cache was looked up in no time.
CachedToo(rows) ==
  Column(RestrictValues(rows, Responded),
         LAMBDA r : IF r.dns_ms = None THEN 0 ELSE r.dns_ms)

Lookups(rows) == Column(RestrictValues(rows, LookedUp), LAMBDA r : r.dns_ms)

(* Between the two samples around the rank, in proportion.                 *)
Percentile(values, percent) ==
  LET rank == percent * (Cardinality(DOMAIN values) - 1)
      UpTo(v) == Cardinality({i \in DOMAIN values : values[i] <= v})
      At(k) == Min({v \in Range(values) : UpTo(v) > k})
      low == At(rank \div 100)
      high == At((rank + 99) \div 100)
  IN IF values = <<>> THEN <<0, 1>>
     ELSE <<100 * low + (rank % 100) * (high - low), 100>>

TargetStatistics(rows) ==
  LET total == Cardinality(DOMAIN rows)
      responded == Number(rows, Responded)
      expected == Number(rows, LAMBDA r : r.expected)
      lookups == Lookups(rows)
  IN [total |-> total,
      successful |-> Number(rows, LAMBDA r : r.completed),
      responded |-> responded,
      transport |-> Fraction(100 * (total - responded), total),
      unexpected |-> Fraction(100 * (responded - expected), total),
      http2 |-> Fraction(100 * Number(rows, LAMBDA r : r.responded /\ r.http2),
                         responded),
      dns |-> Fraction(SumFunction(lookups), Cardinality(DOMAIN lookups)),
      lookups |-> Cardinality(DOMAIN lookups),
      expiry |-> Least(Column(rows, LAMBDA r : r.expiry)),
      median |-> Percentile(Latencies(rows), 50),
      p95 |-> Percentile(Latencies(rows), 95),
      p95_ttfb |-> Percentile(Column(RestrictValues(rows, Responded),
                                     LAMBDA r : r.ttfb_ms), 95),
      histogram |-> FromValues(Latencies(rows))]

(* A window in which nothing completed is absent.                          *)
Window(r, bucket) == r.at \div bucket

Intervals(rows, bucket) ==
  [w \in {Window(rows[i], bucket) : i \in DOMAIN rows} |->
     TargetStatistics(RestrictValues(rows, LAMBDA r : Window(r, bucket) = w))]

(* The results of these runs in a table, a row for each.                   *)
Results(of) ==
  [row \in UNION {{n} \X DOMAIN timed_results[n] : n \in of} |->
     timed_results[row[1]][row[2]]]

Summarize(n) ==
  LET s == start[n]
      rows == Results({n})
  IN [stats |-> TargetStatistics(rows),
      errors |-> Number(rows, LAMBDA r : ~ r.completed),
      intervals |-> Intervals(rows, s.bucket),
      epoch |-> s.epoch, clock_offset |-> s.clock_offset, bucket |-> s.bucket,
      paced |-> s.paced, dropped |-> s.dropped,
      duration |-> s.duration, offset |-> s.offset,
      merged |-> FALSE]

--------------------------------------------------------------------------------
(* Merging. *)

Plus(x, y) == <<x[1] * y[2] + y[1] * x[2], x[2] * y[2]>>

Times(x, n) == <<x[1] * n, x[2]>>

WeightedMean(values, weights) ==
  LET usable == {i \in DOMAIN weights : weights[i] > 0}
      weight == SumFunctionOnSet(weights, usable)
      sum == FoldFunction(Plus, <<0, 1>>,
               [i \in usable |-> Times(values[i], weights[i])])
  IN IF weight = 0 THEN <<0, 1>> ELSE <<sum[1], sum[2] * weight>>

(* Without any request the parts have nothing to say, not even of the      *)
(* certificates.                                                           *)
MergeStats(parts) ==
  LET totals == Column(parts, LAMBDA s : s.total)
      responded == Column(parts, LAMBDA s : s.responded)
      lookups == Column(parts, LAMBDA s : s.lookups)
      histogram == MergeAll(Column(parts, LAMBDA s : s.histogram))
  IN IF SumFunction(totals) = 0 THEN TargetStatistics(<<>>)
     ELSE [total |-> SumFunction(totals),
           successful |-> SumFunction(Column(parts, LAMBDA s : s.successful)),
           responded |-> SumFunction(responded),
           transport |-> WeightedMean(Column(parts, LAMBDA s : s.transport), totals),
           unexpected |-> WeightedMean(Column(parts, LAMBDA s : s.unexpected), totals),
           http2 |-> WeightedMean(Column(parts, LAMBDA s : s.http2), responded),
           dns |-> WeightedMean(Column(parts, LAMBDA s : s.dns), lookups),
           lookups |-> SumFunction(lookups),
           expiry |-> Least(Column(parts, LAMBDA s : s.expiry)),
           median |-> <<Quantile(histogram, 50), 1>>,
           p95 |-> <<Quantile(histogram, 95), 1>>,
           p95_ttfb |-> <<0, 1>>,
           histogram |-> histogram]

Abs(x) == IF x < 0 THEN -x ELSE x

(* Epochs that agree, or no epochs at all.                                 *)
\* Mutant: a node without an epoch is compared with no one.
EpochsKnownAgree(group) ==
  LET known == {s.epoch : s \in group} \ {None}
  IN \A a, b \in known : Abs(a - b) <= EpochTolerance

EpochsAgree(group) ==
  LET epochs == {s.epoch : s \in group}
  IN \/ epochs = {None}
     \/ None \notin epochs /\ \A a, b \in epochs : Abs(a - b) <= EpochTolerance

(* Runs of one mode and one target whose windows are the same seconds.     *)
Mergeable(chosen) ==
  LET group == {f.summary : f \in chosen}
  IN \/ Cardinality(chosen) = 1
     \/ /\ \A s, t \in group : s.paced = t.paced /\ s.bucket = t.bucket
        /\ \A s \in group : Abs(s.clock_offset) <= SkewTolerance
        /\ EpochsAgree(group)

(* One summary alone is left as it is.                                     *)
MergeSummaries(summaries) ==
  LET windows == UNION {DOMAIN summaries[i].intervals : i \in DOMAIN summaries}
      Of(w) == RestrictValues(summaries, LAMBDA s : w \in DOMAIN s.intervals)
      first == summaries[CHOOSE i \in DOMAIN summaries : TRUE]
  IN IF Cardinality(DOMAIN summaries) = 1 THEN first
     ELSE [stats |-> MergeStats(Column(summaries, LAMBDA s : s.stats)),
           errors |-> SumFunction(Column(summaries, LAMBDA s : s.errors)),
           intervals |-> [w \in windows |->
             MergeStats(Column(Of(w), LAMBDA s : s.intervals[w]))],
           epoch |-> Least(Column(summaries, LAMBDA s : s.epoch)),
           clock_offset |-> 0,                      \* not propagated
           bucket |-> first.bucket,
           paced |-> \A i \in DOMAIN summaries : summaries[i].paced,
           dropped |-> SumFunction(Column(summaries, LAMBDA s : s.dropped)),
           duration |-> Max({summaries[i].duration : i \in DOMAIN summaries}),
           offset |-> Max({summaries[i].offset : i \in DOMAIN summaries}),
           merged |-> TRUE]

--------------------------------------------------------------------------------
(* Thresholds. *)

Defined(s) ==
  LET h == s.stats.histogram
  IN [m \in Metrics |->
        CASE m = "total_requests" -> <<s.stats.total, 1>>
          [] m = "success_rate" -> Fraction(100 * s.stats.successful, s.stats.total)
          [] m = "transport_error_rate" -> s.stats.transport
          [] m = "unexpected_status_rate" -> s.stats.unexpected
          [] m = "min_latency" -> <<h.min_ms, 1>>
          [] m = "max_latency" -> <<h.max_ms, 1>>
          [] m = "avg_latency" -> Fraction(h.total, h.count)
          [] m = "median_latency" -> s.stats.median
          [] m = "p95_latency" -> s.stats.p95
          [] m = "latency_overflow_count" -> <<h.overflow_count, 1>>
          [] m = "http2_rate" -> s.stats.http2
          [] m = "avg_dns_ms" -> s.stats.dns
          [] m = "cert_expiry_days" -> <<s.stats.expiry, 1>>
          [] m = "p95_ttfb_ms" -> s.stats.p95_ttfb
          [] m = "dropped" -> <<s.dropped, 1>>
          [] m = "rps" -> Fraction(s.stats.total, s.duration)]

\* Mutant: what was not measured is zero.
NothingMissing(s) == {}

Missing(s) ==
     (IF s.stats.responded = 0 THEN SAMPLE_DEPENDENT_METRICS ELSE {})
  \cup (IF s.merged THEN UNMERGEABLE_METRICS ELSE {})
  \cup (IF s.stats.expiry = None THEN {"cert_expiry_days"} ELSE {})
  \cup (IF s.duration = 0 THEN {"rps"} ELSE {})
  \cup (IF s.paced THEN {} ELSE {"dropped"})

Namespace(s) == Without(Defined(s), Missing(s))

Judged(s) == IF AllPass(criteria, Namespace(s)) THEN 0 ELSE 1

--------------------------------------------------------------------------------
(* Commands. *)

Answer(n, kind) ==
  /\ n \in running /\ Len(timed_results[n]) < MaxResults[n]
  /\ timed_results' = [timed_results EXCEPT ![n] = Append(@, kind)]
  /\ UNCHANGED <<start, criteria, running, files, last>>

(* load-test --emit-summary --threshold.                                   *)
load_test(n) ==
  /\ n \in running
  /\ running' = running \ {n}
  /\ files' = files \cup {[of |-> {n}, summary |-> Summarize(n)]}
  /\ last' = [exit |-> Judged(Summarize(n)), of |-> {n}, ended |-> TRUE]
  /\ UNCHANGED <<start, criteria, timed_results>>

(* An interrupted load test reports nothing, and exits with 0.             *)
Interrupt(n) ==
  /\ n \in running
  /\ running' = running \ {n}
  /\ last' = [exit |-> 0, of |-> {n}, ended |-> FALSE]
  /\ UNCHANGED <<start, criteria, timed_results, files>>

(* The payloads, of one target; their order tells nothing.                 *)
merge_payloads(chosen) == MergeSummaries([f \in chosen |-> f.summary])

(* merge-load-test; a payload keeps no single result.                      *)
merge_load_test(chosen) ==
  LET merged == merge_payloads(chosen)
      of == UNION {f.of : f \in chosen}
  IN /\ chosen # {} /\ Mergeable(chosen)
     /\ files' = (files \ chosen) \cup {[of |-> of, summary |-> merged]}
     /\ last' = [exit |-> Judged(merged), of |-> of, ended |-> TRUE]
     /\ UNCHANGED <<start, criteria, running, timed_results>>

Refuse(chosen) ==
  /\ chosen # {} /\ ~ Mergeable(chosen)
  /\ last' = [exit |-> 2, of |-> UNION {f.of : f \in chosen}, ended |-> TRUE]
  /\ UNCHANGED <<start, criteria, running, timed_results, files>>

ReportNext ==
  \/ \E n \in Nodes :
       load_test(n) \/ Interrupt(n) \/ \E kind \in Kinds : Answer(n, kind)
  \/ \E chosen \in SUBSET files : merge_load_test(chosen) \/ Refuse(chosen)

ReportSpec == ReportInit /\ [][ReportNext]_reportVars

--------------------------------------------------------------------------------
(* Properties. *)

(* The statistics s say of these results what can be counted.              *)
Describes(s, rows) ==
  LET h == s.histogram
      total == Cardinality(DOMAIN rows)
      answers == {i \in DOMAIN rows : rows[i].responded}
      lookups == {i \in answers : rows[i].dns_ms # None}
      certificates == {rows[i].expiry : i \in DOMAIN rows} \ {None}
      Rate(n, d) == Fraction(100 * n, d)
      latencies == {rows[i].total_ms : i \in answers}
  IN /\ s.total = total
     /\ s.successful = Number(rows, LAMBDA r : r.completed)
     /\ s.responded = Cardinality(answers)
     /\ Equal(s.transport, Rate(total - Cardinality(answers), total))
     /\ Equal(s.unexpected,
              Rate(Number(rows, LAMBDA r : r.responded /\ ~ r.expected), total))
     /\ Equal(s.http2,
              Rate(Number(rows, LAMBDA r : r.responded /\ r.http2),
                   Cardinality(answers)))
     /\ Equal(s.dns,
              Fraction(SumFunctionOnSet(Column(rows, LAMBDA r : r.dns_ms), lookups),
                       Cardinality(lookups)))
     /\ s.expiry = IF certificates = {} THEN None ELSE Min(certificates)
     /\ h.count = Cardinality(answers)
     /\ h.total = SumFunctionOnSet(Column(rows, LAMBDA r : r.total_ms), answers)
     /\ h.min_ms = IF answers = {} THEN None ELSE Min(latencies)
     /\ h.max_ms = IF answers = {} THEN None ELSE Max(latencies)

(* "Counts and byte totals are summed.  Rates whose denominator is also     *)
(* being summed are recovered exactly ... min/max latency and the mean come *)
(* from the merged histogram" (load_test.py:1788-1793), in whatever order   *)
(* and in however many steps the files are merged; and so in every window,  *)
(* which holds the results that completed in it, of all the nodes.          *)
MergeIsExact ==
  \A f \in files :
    LET rows == Results(f.of)
        s == f.summary
        In(w) == RestrictValues(rows, LAMBDA r : Window(r, s.bucket) = w)
    IN /\ Describes(s.stats, rows)
       /\ s.errors = Number(rows, LAMBDA r : ~ r.completed)
       /\ DOMAIN s.intervals = {Window(rows[i], s.bucket) : i \in DOMAIN rows}
       /\ \A w \in DOMAIN s.intervals : Describes(s.intervals[w], In(w))

(* The sample at a rank, of all that were answered.                        *)
AtRank(rows, percent) ==
  LET answers == {i \in DOMAIN rows : rows[i].responded}
      UpTo(v) == Cardinality({i \in answers : rows[i].total_ms <= v})
  IN Min({v \in {rows[i].total_ms : i \in answers} :
            100 * UpTo(v) >= percent * Cardinality(answers)})

(* "correct in kind (a real percentile over the union) and accurate to the  *)
(* histogram's bucket resolution" (load_test.py:1795-1798), which is one    *)
(* bucket's width "relative to its own lower bound" (analysis.py:47-50):    *)
(* when a percentile is further away from the sample of that rank than its  *)
(* bucket is wide, overflow_count tells ("so a caller can tell that the     *)
(* tail is truncated rather than silently trusting a wrong p99", 62-65).    *)
(* A latency below the first bucket is reported as if it were in it.       *)
QuantilesAreClose ==
  \A f \in files :
    LET h == f.summary.stats.histogram
        rows == Results(f.of)
    IN h.count > 0 /\ h.overflow_count = 0
         => \A percent \in {50, 95} :
              LET exact == AtRank(rows, percent)
              IN Abs(Quantile(h, percent) - exact)
                   <= IF exact < LowestMs THEN LowestMs + Width(0) ELSE Width(Index(exact))

(* Whether there was an answer, or a certificate, in any of the runs.      *)
Answered(of) ==
  \E n \in of : \E i \in DOMAIN timed_results[n] : timed_results[n][i].responded

Certified(of) ==
  \E n \in of : \E i \in DOMAIN timed_results[n] :
    timed_results[n][i].expiry # None

Measured(metric, of) ==
  CASE metric = "cert_expiry_days" -> Certified(of)
    [] metric \in SAMPLE_DEPENDENT_METRICS -> Answered(of)
    [] OTHER -> TRUE

(* The worst sample of no run breaks a threshold on the worst.             *)
NoNodeHides(of) ==
  \A t \in criteria, n \in of : \A i \in DOMAIN timed_results[n] :
    LET r == timed_results[n][i]
    IN /\ t.metric = "max_latency" /\ t.op \in {"<", "<="} /\ r.responded
            => Holds(t.op, <<r.total_ms, 1>>, <<t.limit, 1>>)
       /\ t.metric = "cert_expiry_days" /\ t.op \in {">", ">="} /\ r.expiry # None
            => Holds(t.op, <<r.expiry, 1>>, <<t.limit, 1>>)

(* "a threshold must never pass vacuously" (analysis.py:540-544): a command *)
(* that came to its end and exits with 0 measured every metric it was asked *)
(* to judge; of the mean of a phase, which is 0.0 when no request went      *)
(* through the phase, at least an answer (459-475).  And "merge_summaries   *)
(* ... into a single summary that exporters, thresholds and the SaaS layer  *)
(* can consume unchanged" (load_test.py:1957-1963): when a merged run is    *)
(* green no node hides behind the others, however they were grouped.        *)
GreenIsEarned ==
  last.ended /\ last.exit = 0
    => /\ \A t \in criteria : Measured(t.metric, last.of)
       /\ NoNodeHides(last.of)

(* Runs that are merged started together ("workers that were not            *)
(* synchronised" are refused, load_test.py:2059-2077).  The epoch of a      *)
(* merged file is its first, so every merge may add the tolerance once more, *)
(* and what a merge at once refuses may be merged in steps: the runs of a    *)
(* file are apart by no more than a tolerance for each of them but one.     *)
OriginsStayClose ==
  \A f \in files : \A m, n \in f.of :
    /\ start[m].epoch = None <=> start[n].epoch = None
    /\ Abs(start[m].epoch - start[n].epoch)
         <= EpochTolerance * (Cardinality(f.of) - 1)

(* Nor is any run that was merged on a clock out of step, of another mode,  *)
(* or with windows of another width (2009-2056), in whatever steps: a       *)
(* merged file no longer tells the offsets of its runs.                     *)
RunsMatch ==
  \A f \in files : \A m, n \in f.of : m # n =>
    /\ Abs(start[m].clock_offset) <= SkewTolerance
    /\ start[m].bucket = start[n].bucket /\ start[m].paced = start[n].paced

(* Files are sound: every run is in one file at most, with runs that        *)
(* started together and count their windows alike.                          *)
FilesAreSound == ReportTypeOK /\ OriginsStayClose /\ RunsMatch

================================================================================
