# Verification of net-benchmark

TLA+ modules, TLC configurations and TLAPS proofs about net-benchmark, a Python
(asyncio) command line tool and library that measures DNS resolvers, HTTP
endpoints and TLS deployments. Paths below are relative to
`src/src/net_benchmark/` unless they begin with `docs/` (`src/docs/source/`).
Line numbers are those of the commit the modules were written from;
`PROJECT.json` lists, for every definition, the lines it models.

## 1. Inventory

| Component | State it keeps | Operations | Interacts with |
|---|---|---|---|
| Sustained run (`http_bench/load_test.py`, `run_sustained`) | bounded queue and its unfinished count, worker tasks, `stop_event`, the counters | pacer loop, worker loop, join, `_retire_workers`, `_drain` | HTTP engine (`request_single`), streamer (shares `timed_results`), summary |
| Throughput and ramp-up runs (`run_throughput`, `run_ramp_up`) | slot tasks, steps, `stop_event`, clock of the throttle | slot loop, steps, `_sleep_bounded`, `_throttle`, `_drain` | the same |
| Interval streamer (`_stream_intervals`) | cursor into `timed_results`, window index, swallowed errors | wake per bucket, `emit`, final flush, `_stop_stream` | every run; user callback |
| Run bookkeeping (`_exclusive`, `_begin_run`, `warmup`) | `_running`, epoch, start time, connection baseline | enter, warm up, wait for the epoch, snapshot, leave | distributed runs |
| Distributed runs (`http_bench/distributed.py`) | worker processes, their futures, planned targets | split the load, launch, collect, merge | load-test engine in each process, summary merge |
| Summary merge (`merge_summaries`, `_merge_target_stats`) | none: functions on summaries | sum, histogram merge, interval merge, payload files | histogram |
| Latency histogram (`http_bench/analysis.py`) | sparse buckets, count, min, max, overflow | record, merge, quantile, serialise | analyzer, merge |
| Thresholds (`http_bench/analysis.py`) | none | parse, evaluate on the metric namespace | load-test CLI |
| HTTP engine (`http_bench/core.py`) | DNS cache with per-host locks, clients and transports per origin, semaphore, progress counters, connections charged so far | `request_single` with retries, progress, warm-up, close | httpx, resolver |
| DNS engine (`dns_benchmark/core.py`) | result cache, semaphore, progress counters, pool of TLS connections, HTTPS clients | `query_single`, `query_single_doh`, `query_single_dot` with retries, warm-ups, benchmark, close | dnspython, httpx, sockets |
| Resolver and domain managers (`dns_benchmark/core.py`) | built-in tables | lookups, parsing of lists and files | CLI |
| TLS engine (`ssl_check/core.py`) | semaphore, per-host locks, failures per host, progress, shared log registry and guidelines | check with sub-checks, retries, backoff, policy | the TLS sub-checks |
| TLS handshakes (`ssl_check/handshake.py`) | per probe: phase, deadline, bytes, timings | resolve, connect, STARTTLS dialogues, handshake pump, capture | sockets, openssl |
| Chains and revocation (`ssl_check/chain.py`, `multi_store.py`, `revocation.py`) | per call; a CRL cache on disk that every check shares | verify, fetch issuers (AIA), CRLs, OCSP | HTTP fetches, other processes on the same disk |
| Certificate, grade, policy, gate (`ssl_check/certificate.py`, `grading.py`, `core.py`, `analysis.py`, `cli.py`) | none: functions of what was observed and of the date | lifetime audit, alarm, score and ceilings, policy, thresholds, exit code | each other: the same facts are judged several times |
| Scans of an endpoint (`ssl_check/enumeration.py`, `deep_introspection.py`) | per call | enumerate versions and suites, find out the server's preference, CryptoLyzer probes of which each may fail | openssl, sockets |
| Profiles (`ssl_check/mozilla_profile.py`) | the guidelines document, once per engine | fetch, compare a result with a profile field by field | TLS engine, certificate, scans |
| Other TLS checks (`ssl_check/*`: ct, lint, jarm, zero_rtt, san_audit, ...) | per call | connect, parse, compare | openssl, sockets |
| Statistics (`*/analysis.py`) | none | aggregate results | exporters |
| Command lines (`cli.py`, `*/cli.py`), monitoring loops | consecutive failures, alerts | parse options, run engines, exit codes | everything |
| Exporters (`*/exporters.py`, `exporters/base.py`), utilities | none | write CSV, XLSX, PDF, JSON | CLI |

How they interact: the command lines build an engine and call one `run_*`,
`run_benchmark` or `check_targets`. A load-test engine calls
`HTTPBenchmarkEngine.request_single` from many tasks of one event loop, and its
streamer reads the list of results those tasks append to. A distributed run
puts one load-test engine per target into each of several processes and merges
what they return. The DNS and TLS engines are used on their own.

What is hard in this code is the same everywhere. Coroutines share counters,
queues, caches and connections, so every `await` is a point of interleaving;
shutdown is a sequence of bounded waits of which any may expire; retries and
cancellations cross the accounting; several clocks and processes have to agree
on a timeline. What makes each component correct is stated in section 4, next
to the runs that check it. `PROJECT.json` lists the individual hazards, each
at the line where it bites.

## 2. Modules

Everything in one event loop is modelled at the grain of the event loop: an
action is what a task does between two suspension points, so the interleavings
of the model are those of asyncio and no others. Arguments of a run (mode,
backlog, protocol, ...) are a variable (`args`, `opts`, `world`, `start`,
`options`) that `Init` or the next launch chooses, so that one run of TLC
covers all the configurations.

Load tests and measurements:

| Module | Models | How |
|---|---|---|
| `LoadRun` | the promise of every load run | Abstract specification. Requests are started only while the run accepts, each is answered, crashes its worker or is cut off, and the summary hides none. |
| `SustainedRun` | `run_sustained` with its worker, `_retire_workers`, `_drain` | The queue is FIFO and sentinels come after the last fire, so its contents are two counts, `fires` and `sentinels`; `unfinished` is the queue's own counter. `wstate` says where each worker is suspended. `Fire` is one iteration of the pacer, `Wake`/`Complete`/`Fail` what a worker does when `get()` or the request returns, the rest the phases of the shutdown. |
| `SlotRun` | `run_throughput`, `run_ramp_up`, `_throttle`, `_sleep_bounded`, `_drain` | One slot per task; `Climb`, `Reach` and the actions beside them are the iterations of the ramp, with the early exit when an absolute deadline has passed; `Stop` sets `stop_event` and enters the drain in the same step, as the code does. |
| `IntervalStream` | `_stream_intervals`, `_start_stream`, `_stop_stream`, `_build_intervals` | Time in ticks; results are their offsets, in order of recording; `emit` is a function of cursor, window and clock (`Handled`, `Batch`, `CursorAfter`). |
| `HttpEngine` | `request_single`, `_resolve_host`, `run_benchmark`, `close`, `_update_progress` | Per request: queued, waiting for the lock of the host, resolving, sending, backoff. The pool of httpx is external: each hop of an attempt may reuse an idle connection or open one, and a redirect leads within the host or elsewhere. `detours` is a history variable: the connections that brought a redirect and were charged to nobody by then. |
| `DistributedRun` | `run_distributed`, its planning, `_begin_run` in each worker, `merge_summaries` where the timeline is concerned | Processes with a shared clock; the parent collects futures in order; the executor breaks when a process dies. |
| `LatencyHistogram` | the histogram of `http_bench/analysis.py` | Pure: record, clamp, overflow, merge, quantile, over a layout whose bounds and midpoints are whole. |
| `Thresholds` | parsing and evaluation of thresholds | Pure; a metric is a fraction, or missing. |
| `LoadReport` | what becomes of results: the statistics of a target, the payload file, `merge-load-test`, the thresholds and exit codes of both commands | Each node answers requests, sums up and writes its file; files are merged in any grouping and order, or refused. |
| `DnsEngine` | the three `query_single*`, `_get_dot_connection`, `run_benchmark`, the warm-ups, `close` | Per query: queued, connecting, reading, backoff. A TLS connection is a stream of asyncio: `owed` has yet to arrive, `buffer` has arrived, `waiter` is the query the stream will wake (external), `half` the one that has read a length and not yet the reply, `torn` a stream read out of step. A query that was woken has yet to run. |

TLS check:

| Module | Models | How |
|---|---|---|
| `TlsProbe` | `probe_tls` | One probe per target: resolve, connect, the turns of a STARTTLS dialogue (`Dialogue`), the pump with its byte cap, the capture. A deadline may fire wherever the code waits under one. |
| `TlsEngine` | `check_targets`, `_check_locked` and what they call | Extends `TlsProbe`. A target takes the lock of its host and a slot, waits out the backoff, warms up, samples with retries, and goes through the checks in their order; an exception at any of them is gathered into an error result. The two fetch-once documents are tested before an `await` and set after it. |
| `TlsChain` | `build_chain_audit`, the cross-sign path, `check_multi_store_trust` | A certificate is a name with a subject and an issuer; verifying is finding a path of valid certificates to an anchor. |
| `CrlCache` | `CRLCache.put` and `_evict_if_needed` of any number of processes on one directory | A put opens its file, writes it, lists the directory and unlinks files one by one, each a step; the steps of several puts interleave. A write may fail and leave a partial file, a listing may fail (a file may go between the glob and its `stat`), a file may have gone already or refuse to go. |
| `TlsRevocation` | `check_revocation`, its use of the CRL cache, OCSP | Extends `TlsChain` and `CrlCache`: the issuer comes from the chain that was just built, a CRL that was downloaded is put on disk and then judged. The world says which other processes put CRLs into the same directory meanwhile (`AnotherPuts`) and which CRLs the URLs serve. |
| `TlsCertificate` | lifetime audit, alarm, key, signature, names (`certificate.py`) | Pure, in half days: the code counts days by floor, half days tell a floor from the span. |
| `TlsGrade` | scores, ceilings, final grade (`grading.py`) | Pure, grades are numbers. |
| `TlsScan` | enumeration of versions and suites, `detect_cipher_preference`, rating of suites, the CryptoLyzer probes (`enumeration.py`, `deep_introspection.py`) | Pure: an endpoint is the versions, suites and groups it accepts; every scan is a handshake with some of them offered (`Handshakes`), limited by what the local library offers. A probe may learn nothing. |
| `TlsProfile` | `evaluate_profile`, `check_mozilla_profiles` (`mozilla_profile.py`) | Pure: which fields of a profile a result violates. |
| `TlsVerdict` | a job that runs `ssl check` again and again: observation, scans, grade, policy, profiles, summary, thresholds, exit code | Extends the four above and `Thresholds`. The guidelines are those of the engine of a run; when it got none, each check fetches some for itself. |

`MC*` modules hold instances for TLC, `*Proofs` modules the theorems
(section 6).

`SustainedRun` and `SlotRun` both implement `LoadRun`
(`ImplementsLoadRun == Run!Spec` under a refinement mapping: requests in flight
are busy workers, `crashed` the dead ones, `cut` what `_drain` calls
`interrupted`). `DistributedRun` treats the load run inside a worker as a black
box that starts, serves requests and finishes. `LoadReport` begins where the
runs end. `TlsEngine` is composed with `TlsProbe` (a handshake is the machine of
that module), `TlsRevocation` with `TlsChain` and `CrlCache`, `TlsVerdict` with
the rules it applies; between them what a check found is a fact that `TlsVerdict` chooses.

Abstractions that the reader should know of:

- Time. `SustainedRun`, `SlotRun`, `DnsEngine`, `TlsEngine` have no clock: a
  request and a sleep take any time, and a bounded wait may expire whenever the
  task it waits for is not ready to run in the same iteration of the loop
  (`MayExpire`, `EachHasRun`). This allows more orders than a real clock; a
  property that holds does so for all durations. `IntervalStream`, `HttpEngine`,
  `DistributedRun`, `TlsRevocation` and `TlsVerdict` have one, because windows,
  times to live, the epoch, freshness and expiry are about it. The spacing that
  `_throttle` enforces is not modelled.
- Data. Responses and names are left out where no property is about them; a
  result is the fact that it was recorded, by whom and in which window. In
  `LoadReport` it carries the latencies that the statistics read; results are a
  table with a row for each, and statistics fold over the rows in no order, since
  none of them depends on one. A line of a
  STARTTLS dialogue is a yes, a no, or one of several; a chunk of a handshake is
  a unit.
- Locks that are never held across an `await` (the progress locks, the lock
  around `timed_results`) are not modelled: the step is atomic without them.
- Callbacks of the caller are assumed not to raise in `HttpEngine` (those of the
  command line do not); the DNS engine and the streamer isolate them, which is
  why they do not appear there.
- A record type is folded into the question of a DNS query. A reply over TLS
  arrives whole; its length and its body are read in two steps, as they are before
  Python 3.12, where `wait_for` runs each read in a task of its own (later versions
  may take both in one step, which is one of the orders here). A reply that follows
  the length of another does not parse.
- In `TlsEngine` the checks after the handshake are single steps named after
  them; what they find is modelled in `TlsRevocation` and `TlsVerdict`. The ones
  that can raise (a peer that hangs up in a STARTTLS dialogue) may do so.
- Signatures and the parsing of certificates belong to libraries: they hold or
  fail by choice.

## 3. Plan

Done, in this order: `LoadRun`, `SustainedRun`, `SlotRun`; `IntervalStream`;
`HttpEngine`; `DistributedRun`; `DnsEngine`; `TlsProbe` and `TlsEngine`;
`TlsChain`, `CrlCache` and `TlsRevocation`; `LatencyHistogram`, `Thresholds`, `LoadReport`;
`TlsCertificate`, `TlsGrade`, `TlsVerdict`; proofs of the load runs, the stream,
the HTTP and TLS engines, distributed runs, the pool, counters and cache of the
DNS engine and the judgements on certificates; `TlsScan` and `TlsProfile`; proofs
of chains, revocation, the CRL cache, profiles, the merge of payload files, its
exactness and its percentiles, what a green exit means, and that a weaker endpoint
is never judged better.

Left, most valuable first:

1. Run bookkeeping: `_exclusive`, `warmup` and the connection baseline of a load
   test engine that is used again.
2. The monitoring loops of the DNS command line (consecutive failures, alerts).

## 4. Runs

Bounds are in the `.cfg` files and in `MCScenarios`. Every run stays below five
minutes with two workers. The first invariant of a run includes the type
invariant of its module.

### Passing

- `sustained` (`SustainedRun`; 3 workers, backlogs 1 and 3, 5 slots, with and
  without grace, healthy and unhealthy targets). `CountersBalance`: the
  unfinished count, on which `queue.join()` waits, is exactly the work left, also
  when workers die; until the stop a scheduled fire was started, is queued or was
  dropped; the counters of the summary balance (with a backlog no smaller than
  the pool, which is the default; and, after a join that completed, for the fires
  too). `ImplementsLoadRun`. Liveness: `Terminates` whatever the target does, and
  `ShutsDownUnaided`: on a healthy target no bounded wait of the shutdown is
  needed, so putting sentinels into a full queue cannot deadlock. Three workers
  and a backlog of one make the retire block in the middle; five slots overflow
  the largest backlog and refill it.
- `slots` (`SlotRun`; 3 slots, 1 to 3 steps, 4 requests, all modes).
  `ResultsBalance`: every request is a result, in flight, crashed or cut off, and
  the summary accounts for it (in the runs where it does, see section 5).
  `OnPlan`: the rounded levels of the ramp never fall and end at
  `max_concurrency`. `ImplementsLoadRun`, `Terminates`. Three steps give a middle
  level that is a tie (rounded to even).
- `stream` (`IntervalStream`; bucket of 2 ticks, 3 results, 5 ticks, a start on
  time or late). `StreamIsFaithful`: the cursor skips and repeats nothing, a
  window emitted as closed never gains a result, and the stream equals the
  summary if nothing completes after the flush. `StreamIsCurrent`: after every
  wake-up no closed window is outstanding. `FlushIsComplete`. Two ticks per
  bucket put results on and beside a boundary; a start late by more than a bucket
  skips windows.
- `http` (`HttpEngine`; 2 targets of one host, 1 retry, cache on and off,
  HTTP/1.1 and HTTP/2, 1 or 2 slots, benchmark, warm-up, load test with
  cancellations; redirects, at most one in an attempt, in the load test over HTTP/1.1
  without a cache). `ChargedAndCountedOnce`: the time to set up a connection is
  reported by one result at most, over HTTP/1.1 by the request that opened it unless
  the connection brought a redirect before (section 5), whatever failed or was
  cancelled; progress and failures are counted once; a disabled
  cache serves nobody. `NoRedundantLookup`: lookups of a host are single flight.
  `AllReturn`: waiting for the lock of a host with a slot in hand does not
  deadlock. One host makes every lock contended; a second host would only add
  independent copies.
- `distributed` (`DistributedRun`; 1 to 3 workers, 1 or 2 targets, replicated or
  dealt, paced or not; a run of one window). `NothingIsLost`: no request before
  the epoch, every worker is merged or listed as failed, and no target disappears
  without a failed worker. `OfferedAsAsked`: the merged rate of a target without
  failures is the rate asked for. `TimelineAligned`: window k means the same
  stretch of time in every worker, late ones included. `Ends`. Three workers for
  two targets leave a worker without work, two for one a target without exclusive
  worker.
- `dns` (`DnsEngine`; plain queries to 2 resolvers with every use of the cache
  and every warm-up, DNS over HTTPS, DNS over TLS on one connection with 1 or 2
  slots). `CountsAndHits`: queries and failures are counted once, and a hit, or an
  entry of the cache, stands for an answer that this engine got from that resolver
  to that question, never for a failure or another hit. `NoLateReply`: a connection
  in the pool that no query reads owes no reply and keeps none, whole or in half,
  so a late reply is not read by a later query, also when queries connect at once,
  evict each other's connections or take each other's replies; and queries one at a
  time (one slot) get their own replies, whatever timed out before. `AllReturn` on a
  network that may fall silent at any point. With one resolver every TLS query
  shares the one connection, which is the case that matters; three queries in two
  slots let one come between the arrival of a reply and the reading of it.
- `tls` (`TlsEngine`; one target on each scanned port, 25, 143, 110, 389, 21 and
  443, with a warm-up, two samples, a retry and every check; two targets of one
  host whose fetches meet, with hosts serialised or not; three targets of two
  hosts for two slots; a byte cap of 2). `HostsInTurn`: types, and a connection is
  open only for a target with a slot; serialised hosts see one target at a time,
  and what a target backs off from is still there when it has waited.
  `PhasesInOrder`: no ClientHello follows a dialogue that was not finished or did
  not offer STARTTLS where it must be offered. `SettledOutcome`: status, measured
  flag, samples, evidence and profile of a settled result belong together, a
  target that raised has only its error, and progress counts the rest.
  `SharedOnceFetched`: when fetches of several targets meet, once one was judged by
  the engine's log registry no other goes without or fetches again; of the guidelines
  it says only that they are settled once nobody fetches, as a failing fetch may take
  a document away (section 5). `AllSettle`: every target ends, on a silent peer and on one that sends for ever. Two hosts and two slots
  let a target that waits for a lock and one that waits for a slot block each
  other, if anything could.
- `evidence` (`TlsRevocation`; a leaf under a cross-signed issuer, every order and
  omission of what the peer sends, every answer of its AIA URLs, the engine's
  store and two vendors', `MaxDepth` 2; then two CRL URLs and two responders, CRLs
  good, revoking, stale, unsigned or larger than the budget of 2, an age limit of
  1, a clock of 2). `ChainsAreHonest`: what is verified is a path to an anchor, an
  intermediate is missing exactly when it was not sent, and stores disagree for a
  reason. `RevocationIsHonest`: the verdict is earned by a fresh and signed
  answer, no good answer hides a revocation, and URL and times are of the answer
  that gave the status. `WithinBounds`: when no process is putting, the files of the
  cache are within its budget, unless the last eviction was cut short by the disk
  (`excused`: a write or a listing that failed, a file that refused to go when it
  had to; section 5). One of the worlds has a neighbour that puts CRLs of sizes 2
  and 3 as often as it likes while this process downloads and puts: two processes
  are the fewest whose steps interleave, two URLs the fewest of which one file is
  older. `AllChecked`. A clock of 2 lets a cached CRL pass both its age limit and
  its next update; it stands still between the steps of this process's own put.
- `reports` (`LoadReport`; three nodes with up to two, one and one results of five
  kinds, four launches: one late, one without an epoch, one on a clock out of
  step, three whose epochs differ by the tolerance each; a histogram from 4 with 2
  sub-buckets and 3 octaves, so that 32 is its top). `FilesAreSound`: no run is in
  two files, and the runs of one started together (`OriginsStayClose`), on clocks
  in step, in one mode and with equal windows (`RunsMatch`). `MergeIsExact`: in any
  order and grouping, and in every window, what can be counted is what counting
  the union gives. `QuantilesAreClose`: a percentile is within a bucket of the
  sample of its rank unless the overflow count tells, and a latency below the first
  bucket, of which there is one, counts as if it were in it. `GreenIsEarned`: exit code 0
  means that what was judged was measured (of a phase mean, that there was an
  answer), and that no node hides a sample that breaks the threshold. Three files are the
  fewest with different groupings.
- `verdicts` (`TlsVerdict`; two targets, the first any of some forty endpoints, the
  second always the same, under three command lines of which some hold
  certificates against another day; half days 5880, 5892, 5893 and 6602, which are
  on both sides of an expiry and of a change of the caps). `ExpiryViewsAgree`: the
  four places that tell whether a certificate is expired agree. `JudgementsAgree`:
  policy and grade of the same facts agree, the targets of one run are held to the
  same guidelines unless their audits report an error, and a server that is said to
  have no order of suites accepts both and follows the client. `WeakeningNeverHelps`: a weaker endpoint (an
  older version, a suite no stronger than one it already accepts, a smaller group, a
  worse chain or leaf) gets no better grade, has no suite rated better, and passes no policy or profile the
  stronger one failed; it is evaluated at the gate, where every judgement is there.
  `GateIsEarned`: exit code 0 after the gate stands for what was asked.
  `AlarmsInTime`: alarms do not abate, and an expiry is announced a day before.
  `RenewalIsForetold`: a certificate found compliant can be renewed in time, and
  one foretold to fail does.

`CHECK_DEADLOCK` is off where the modelled program ends by itself and has no
stuttering `Finished` action. Every property has a mutant of a mapped
definition, named `\* Mutant:` next to the definition it changes, under which it
fails.

### Fairness

Only what the event loop and its timers guarantee: a task that is ready runs,
and a bounded wait ends (`WF` of the driver's steps and of woken tasks).
Requests are assumed to return only where the property says so (a healthy target
in `ShutsDownUnaided`). In `HttpEngine` every I/O of an attempt is under a
timeout of httpx or of the resolver, so the disjunction of its outcomes is fair,
but no single outcome. In `DnsEngine` only the timer of each attempt is fair: no
reply and no connection is ever assumed. In `DistributedRun` time passes, a
worker gets on with its run, and the parent collects. In `TlsEngine` the steps
of a target are fair (its fetches and checks are under timeouts), and of a
handshake only the steps that a deadline brings about (`ProbeDeadline`): nothing
is assumed of a peer. In `TlsRevocation` the audit's own steps are fair, their
outcomes are not. `LoadReport` and `TlsVerdict` state no liveness.

## 5. Where code and documentation part

Two are runs that TLC finds violated; running the engines shows both.

- `http_stale`: the re-read of the DNS cache under the lock ignores the time to
  live, so a host is resolved once for ever (http_bench/core.py:1446 against
  1418-1421).
- `dns_foreign`: two DNS-over-TLS queries in flight to a resolver
  (dns_benchmark/core.py:700 against 110-114). The stream forgets the query that
  waits when data comes, and that query runs later: another one that reads in
  between takes the reply to the first, and neither fails. While the first still
  waits, the second is refused ("readexactly() called while another coroutine is
  already waiting") after it wrote, and the first may return the reply to the second.

The others were met while modelling. The models do what the code does, and a
property is restricted where it has to be.

Load tests (`http_bench/`):

- With a backlog smaller than the pool, idle workers that got no sentinel in time
  are counted as interrupted requests (load_test.py:1400; the comment at
  1395-1396 says otherwise).
- A ramp without a hold creates the slots of its last step and stops in the same
  step: it never runs at `max_concurrency` (1581 against 1455-1456).
- Results that complete during the drain are in the summary's interval and not in
  the streamed one (1042 against 937-938).
- A sustained run discards the fires that are queued when the join times out, and
  no counter mentions them (1329), although `dropped_rate` is "% of scheduled
  requests that never fired" (288-290). Fires that arrive in one step of the loop
  are dropped while workers are idle, although `dropped` means that "every worker
  was busy" (102-103). One that resumes late fires at a slot already passed
  (1371-1374).
- A throughput worker that is late by more than the run still issues one request
  per slot (comment 1212-1213: "does no work").
- A ramp with a low ceiling counts slots sleeping in `_throttle` as interrupted;
  this is why the summary of `SlotRun` is restricted by `RunsOut`.
- One killed process breaks the executor and with it the futures of all workers
  still running (distributed.py:549 against 561-562). A target whose only worker
  raised has no result at all, although one per target is promised (461).
- A threshold on a phase mean without samples of its own (`avg_dns_ms` with every
  name cached) passes on 0.0 (analysis.py:466 against 540-544). On the other
  hand the CAUTION at load_test.py:1819-1821, that a phase threshold passes
  vacuously on a merged summary, is outdated: the metric is missing there and the
  threshold fails.
- Merging in steps accepts epochs further apart than the tolerance, which a merge
  at once refuses (load_test.py:2066-2077): `OriginsStayClose` states what holds.
- Median and p95 of a merge are nearest-rank, those of a run interpolated, though
  the merge gives "exactly the summary a single-process run would have produced"
  (distributed.py:384-387).
- Ctrl-C ends the commands with exit code 0 although thresholds were given
  (http_bench/cli.py:2205-2206, ssl_check/cli.py:1076-1077 against "the non-zero
  exit is what makes this usable as a CI step", 1057-1058). The threshold report
  is keyed by target (http_bench/cli.py:2184-2187), so that of a duplicate
  overwrites a failing one. `std_latency` is accepted and never computed.
- Redirects are followed by default, and a result looks at the connection of the
  last response only (http_bench/core.py:1618-1629, 1318-1325). The setup of a
  connection that was opened for a hop before that is charged to nobody, stays in the
  `duration_ms` of the request that paid it, and, when the connection goes back to the
  pool, is charged to the next request whose last response comes over it, although
  "only the request that actually opened the connection is charged" (1631-1632).
  `SetupChargedOnce` asks for the opener where there is no such detour.
- Over HTTP/2 the setup of a connection is charged to the first request that
  completes, not to the one that opened it. A DNS lookup made by an attempt that
  failed is in no result: the retry reports a cached name.

DNS (`dns_benchmark/`):

- The warm-ups fill the cache and count as progress until the counter is reset;
  their docstrings say that neither happens (core.py:325 and 178 against 959 and
  1007). The queries of all iterations look into the cache before any of them has
  an answer, since they are tasks of one gather, so no iteration is served by another
  one and the only hits of a run come from its warm-up; `use_cache` is to "allow cache
  usage across iterations" (867, and docs/source/guides/dns-benchmark.md:125).
  `CountsAndHits` holds either way and says nothing of it: it counts the progress
  of a warm-up while it runs, and asks only what a hit stands for.
- TLS connections that another query overwrote or evicted in the pool are never
  closed; `close()` sees only the pool (core.py:110-114).
- The monitoring loop uses one engine in several event loops (cli.py:1218-1255).

TLS (`ssl_check/`):

- `probe_tls` raises when the peer hangs up during a STARTTLS dialogue
  (handshake.py:1109 against "Never raises for a target-side failure", 1020). The
  guard against an idle handshake cannot be reached. A handshake that fails after
  the connection was made has no `total_ms`.
- The guidelines document is fetched again for every later target after a failed
  fetch (mozilla_profile.py:436 against core.py:987-989); when that succeeds the
  target reports an assessment and the old error. Targets that come together each
  fetch it for the engine, against "fetched once per engine run" (core.py:1367), and
  a failing fetch overwrites a document that another fetched meanwhile
  (core.py:1376). The log registry is fetched
  twice in one check after a failure.
- `expected_group` fails when the deep introspection did not run, although the
  policy is "never a false failure for a check that did not run"
  (core.py:1745-1748). A leaf that cannot be parsed skips the checks of the
  policy and is compliant.
- If the last sample fails the endpoint counts as unmeasured, whatever the others
  showed. The progress never reaches its total when a target raises.
- A cached CRL past its `next_update` is used up to six hours, and gives STALE
  instead of being fetched again (revocation.py:96-102).
- "Every operation is best-effort" (revocation.py:491-493) holds for the check, and
  the price is the budget: a put whose write, listing or unlink fails gives up or
  goes on after its file was written (revocation.py:527-529, 535-536, 549-550), also
  because another process removed a file between the glob and its `stat`, and the
  directory stays over `max_total_bytes` until the next put that lists it.
  `CacheWithinBudget` says when it is within the budget nevertheless.
- The trust anchor of a chain is labelled as sent by the peer; a certificate that
  was sent and fetched is labelled as fetched; the last fetch at the depth cap is
  never verified.
- `all_trusted` of the transparency check is False rather than the documented
  None when nothing could be verified. The savings of 0-RTT ignore exit codes.
- The grade counts DES-CBC3-SHA as a 56-bit cipher, and leaves out the caps whose
  data only the deep introspection delivers. A server of RC4 alone is F, with a
  NULL suite added C: this is why `WeakeningNeverHelps` adds suites only to one
  that accepts another than RC4. A suite that is listed and never accepted (AEAD
  without TLS 1.2) does not count: a suite no stronger than that one may raise
  the grade. A certificate without subject alternative names fails
  the policy and can be graded A.
- `detect_cipher_preference` reports that the server enforces its order when the
  server accepts only the second of the two suites it tries
  (enumeration.py:416-442 against "None", 358-366). `JudgementsAgree` therefore
  claims nothing of a server that is said to enforce an order; what it says of one
  that has none (`DisorderIsReal`) holds.
- After the engine failed to fetch the guidelines each check fetches its own, and
  reports the engine's error beside a full assessment (core.py:1385-1389).
- `max_latency<500` and rates pass on 0.0 for a host that was never measured
  (comment at analysis.py:78-81): `GateIsEarned` asks for samples only where the
  code does, and for as many as a percentile needs. Names of metrics are checked after the whole run (cli.py:988).

## 6. Proofs

The `*Proofs` modules are checked by tlapm to the last leaf, for every value of
the constants that the named assumptions allow: finite non-empty sets of
workers, slots and targets, positive backlogs and buckets, a start concurrency
within the maximum, arguments of the right types, a rate that divides by the
workers (`RateAssumption`), tolerances that are not negative
(`TolerancesAssumption`), one leaf and at least one sample per endpoint, two
different suites to find out a preference with (`PreferenceAssumption`);
responses that are certificates, CRLs and replies of their types, and cached files
within the budget to begin with (`ChainAssumption`, `AnswersAssumption`,
`CacheAssumption`, `CRLsAssumption`, `EvidenceAssumption`), finitely many CRL URLs
and a budget that is a number (`BudgetAssumption`), neighbours that are not the
process itself (`ProcessesAssumption`). Every module with assumptions is
extended by a run, so TLC evaluates them on the instances. A proof module may
prove two specifications that share no variable.

- `SustainedRunProofs`. `TypeOK` is not inductive: `unfinished - 1` stays natural
  only because the count is exact, and the drain is only right because of what
  the phases guarantee. `IInv` is `TypeOK`, the checked invariants, and
  `Bookkeeping` (what each phase implies for `stop`, `retired` and the queue),
  `PendingWorkersHaveItems` (late in the shutdown every live worker has a
  sentinel, a fire or a request, when the backlog holds the pool) and
  `JoinedClean` (after a join without timeout the queue holds no fire). One lemma
  per action, counts of workers by `CountsOfMove`. From it `BooksBalance` (the
  invariant of the run) and its parts, and `StoppedRunsStartNothing`.
- `SlotRunProofs`. Slots move one at a time (`SlotMoves`), except where the ramp
  grows the pool (`GrownPool`) and the drain cancels it (`EndPoolFacts`); the
  counts of each state follow. `BooksBalance` and its parts. `RampIsOnPlan`: the
  rounding to even keeps the order (`RoundGrows`), so the levels never fall and
  end at the maximum (`LevelFacts`), and a pool never has more slots than the
  level it grows to.
- `Implementation` of both load runs: `Spec => ImplementsLoadRun`, step by step
  under `IInv`: an action maps to the `LoadRun` action of the same effect or to
  a stutter. Where a slot may still start after the stop, `accepting` is mapped
  to "not stopped, or a slot sleeps in the throttle".
- `IntervalStreamProofs`. Offsets are recorded in order and none is after `now`
  (`Recorded`), so the results before a window are a prefix of the list; while
  the task lives its cursor is the length of that prefix (`UpTo`). With what was
  handed over so far (`Faithful`) this is inductive. `StreamStaysFaithful`,
  `StreamStaysCurrent`, `FlushStaysComplete`.
- `HttpEngineProofs`. The charge is right because a connection in the pool is in
  use by one request, was charged before or brought a redirect (`Charges`): an
  exchange that fails or is cancelled takes its connection out of the pool. A
  connection that a hop is about to open was never used, since hops and attempts only
  go up (`Opened`, `OpenedStays`). `Tasks` and `Phases` tie the
  data of a request to where it is. `LedgersStayRight`, `LookupsAreSingleFlight`.
- `DistributedRunProofs`. What is merged must not change afterwards: a future that
  was collected has ended (`Collection`), and what has ended is not touched by
  anything, the break of the executor included (`EndedStay`). Offsets count from
  the epoch (`Clocks`). That the shares of a target add up to the rate is
  arithmetic of quotients and remainders (`DivisionFact`, `RemainderFact`) and of
  the dealing of targets (`EveryTargetIsAssigned`); the merged end is a maximum,
  which exists because the naturals are well-founded. `LoadIsNeverLost`,
  `RateIsAsAsked`, `TimelinesAlign`.
  The payload files of `LoadReport` are proved in the same module. What a merged
  summary no longer tells has to be remembered by the invariant: the epoch of a
  file is the first of its runs', each of which is further from it by a tolerance
  for every run but one (`Origins`), bucket and mode are those of all, and the
  clock offset is that of its run while there is one (`Likeness`). A merge of
  several is of more runs than each of its parts, so one tolerance more is room
  enough (`WiderByOne`). `MergedRunsBelongTogether`, for any nodes, results and
  sequence of merges.
  `MergesAreExact` says that statistics of statistics are those of the union. They
  are folds over finite sets, and a fold is the value at the whole set of a function
  on its subsets that it is chosen to be: that the function exists (`FoldExists`)
  and may take away the elements in any order (`FoldIs`) is proved once, by the
  smallest counterexample (`SetUpTo`), for any operation in which two elements may
  be exchanged. A sum over a table that is cut into parts is then the sum of the
  parts' (`SumOfParts`), the minimum of the minima is the minimum, and a rate whose
  parts are weighted with their denominators is the rate of the whole
  (`MeanOfRates`). `Parted` says of a table that these are its parts;
  `DescribedAlone` is what the statistics of a table say of it, `DescribedTogether`
  what merged statistics say of tables that were cut from one, and `TellsTogether`
  lifts that to whole summaries with their windows. `ExactInv` is inductive because
  the runs of a file are over, so their results do not change any more, and because
  two files have no run in common, so the results of a merged file are cut into
  those of its parts (`ResultsParted`).
  `QuantilesStayClose` is about the buckets. Their layout is a recursive function
  (`Base`), which exists by induction (`BaseIs`); an index is an octave and a slice
  of it (`Placed`), so a latency is within its bucket (`IndexIs`) and a larger one
  never in a bucket before (`IndexRises`). How many are in a bucket adds up like
  every other count (`MeasureOfValues`, `MeasureOfParts`, `Sorted`), so as many are
  seen up to a bucket as there are latencies whose index is at most its (`SeenIs`);
  the rank is reached at the bucket of the sample of that rank (`RankedIs`), and
  keeping the middle of it within the extremes only brings it closer
  (`QuantileIsClose`).
  `GreenIsEarnedAlways` follows: statistics that are exact see an answer or a
  certificate only if one of the runs did, and know the worst latency and the
  certificate that ends first (`DescribedIsCounted`), so that a threshold that
  passes says the same of every run (`GreenSays`).
- `DnsEngineProofs`. `NoLateReply` is not inductive. What is: a pooled connection
  has as many replies to come or to read as it has readers, unless one of them has
  misread it and is about to evict it (`PoolIsBalanced`). Whoever fails evicts the
  connection, and whoever takes another's reply leaves its own to that one; so the
  books stay balanced although replies change hands, and a connection without
  readers owes nothing (`BalancedIsClean`). Besides, readers ask over TLS and
  belong to the resolver (`ReadersHaveOne`, `PoolIsOwn`), the one the stream will
  wake waits there (`WaiterWaits`), and the connection an attempt is about to open
  was never used (`UnopenedAreUnused`, which needs `RetriesLeft` and `WarmupFirst`).
  With one slot the query that reads is the only one inside (`Alone`), so all that
  is owed is its own reply. `PoolStaysClean`: evicting at every error is enough for
  the pool. Queries that overlap do not get their own replies: that is the
  divergence `OwnReply` of section 5.
  `CountsAndHits` needs `CInv` besides: a query has a result only once it returned
  and only queries of the gather at hand are alive. Each step is then one that
  returns nothing (`QuietCounts`) or in which one query returns (`ReturnCounts`),
  and an answer that earned an entry of the cache is never taken back
  (`EarnedStays`); the measured gather begins with no measured query counted, so
  its hits are all it counts (`EndWarmupCounts`). `CountsStayRight`.
- `TlsEngineProofs`. A probe in a `Legal` state has sent nothing before its
  dialogue is over, and saw the offer of STARTTLS once that turn has passed; the
  steps of a probe preserve it (`ProbeStepIsLegal`), with the dialogues of the
  five protocols in `DialogueFacts`. Between the lock and the end a serialised
  target holds its host's lock (`Locks`), a result says no more than where its
  task is allows (`Outcome`), and only who handshakes has a probe (`Tidy`).
  `StepPreserves` says once what a step of a target may do to what is shared;
  each action is shown to keep to that. `HostsAreServedInTurn`, `HelloIsAgreed`,
  `OutcomesBelongTogether`. For fetches that meet, every step is shown to serve
  what the engine has (`Serves`, `Served`): `FetchesAreShared`. Nothing is assumed of peers or of
  fairness.
- `TlsVerdictProofs`. A result is dated: it was made by the rules, at an instant
  not after now (`DatedInv`). The schedule of caps falls (`LimitAt`), so a cap of
  a later day is never the larger one. `AlarmsComeInTime`, `RenewalsAreForetold`,
  `ExpiryIsOneFact`, `PolicyAndGradeAgree`, for any dates, endpoints and options.
  The last needs to know that an audit was made by the guidelines of the run and
  reads nothing that policy or grade write (`ScanInv`, `AuditReads`), and what two
  orders of two suites tell of an endpoint (`PreferenceFacts`).
  What passed the gate stays judged and passing until the next run (`GateInv`),
  and `PassSays` reads off what a passing threshold means for a target that has
  samples exactly if it was measured: `PassingIsEarned`.
  `WeakerIsNeverBetter` says of any endpoint what the run says of some forty. Two
  endpoints are compared by what they accept (`Lower`: whatever the stronger one
  accepts and, besides, older versions and suites that are no AEAD suites and of no
  more bits) and by the rest (`Spoiled`: group, compression, chain, leaf). Every way
  of `Weakened` is both (`WeakenedFalls`). From there the argument follows the code:
  the scan of a weaker endpoint shows older versions, lower suites, a smaller group
  and more flaws (`WeakerScan`, by `VersionsFall`, `SuitesFall`, `GroupFalls`,
  `FlawsStay`), its connection and its leaf are no better (`ConnectionFalls`,
  `CertificateFalls`), and each judgement is monotone: scores fall with the buckets
  (`BucketsRise`, `ProtocolFalls`, `ExchangeFalls`, `StrengthFalls`), ceilings stay
  (`CeilingsStay`), so the grade falls (`GradeFalls`), and the policy and each profile
  find what they found before (`LapsesStay`). In one case the score of the
  strength does rise: an endpoint of TLS 1.3 alone, to which an old version brings
  stronger suites that it listed. The old version caps the grade at B then, and
  the endpoint had B or better, but for ceilings that stay, because the suites of
  TLS 1.3 have 128 bits at least. `SeenInv` ties a result to the scan of the
  endpoint it has seen; it is inductive because who judges writes only the verdicts
  (`JudgesRead`).
  It rests on what the constants are assumed to be in `TlsVerdict`: an endpoint has
  the fields of a scan, one group or none and a key with a size (`cryptography`
  gives one for every type of key that `certificate.py` knows); bits are those of the
  table of `grading.py`, and TLS 1.3 has suites of AES and ChaCha20 only; what the
  local library offers it also negotiates when pinned; and a guideline that accepts
  RSA asks for more than 1024 bits and none accepts SHA-1, which is so of Mozilla's
  (another could prefer the weaker leaf).
  `TlsRevocation` with `TlsChain` is proved in the same module. `EvidenceInv` has
  three parts. `ChainInv`: as long as no path was found, nothing the peer sent has
  a path once an issuer was fetched or the walk is over, and what was found is a
  path. `CheckInv`: a channel (CRL or OCSP) is open, and has heard nothing
  definitive, or closed with the status of an answer it heard, whose details it
  keeps; whether it heard of a revocation is part of that. `CacheInv` with
  `DiskInv`: a file in the cache was served at a time that has been; until somebody
  else writes, what is on disk is part of what a process counted when it listed the
  directory, and of what it has yet to come to unless a file refused to go
  (`Tracks`); and if the files are over the budget, then the last eviction was cut
  short, or a process is about to list, or one that listed after every write is
  still evicting (`Accounted`). A step of a put keeps all three (`Written`,
  `Listed`, `FileUnlinked`, `EvictionEnds`): the process that listed last counts
  no less than there is (`FewerBytes`). The walk and the channels are proved outcome by
  outcome (`JudgedCRL`, `MissedCRL`, `AnsweredOCSP`, `MissedOCSP`). `ChainHonesty`,
  `RevocationHonesty`, `EvidenceWithinBounds`.

Only model-checked: everything under fairness (`Terminates`, `ShutsDownUnaided`,
`AllReturn`, `Ends`, `AllSettle`, `AllChecked`), since liveness and enabledness are
out of reach of the prover. Every safety property and every action property of
the passing runs is stated by a theorem.

## 7. Not modelled

- `_exclusive`, warm-up and connection baseline of the load test, monitoring
  loops (planned, section 3).
- WebSocket probe, transports and tracing of the HTTP engine: timing hooks of a
  library. Parsing of targets, resolvers, domains and options.
- Among the TLS checks: 0-RTT, JARM, client simulation, the probe for signature
  algorithms, topology and the audit of alternative names drive other TLS libraries
  or parse their output; they are steps of `TlsEngine` that may raise, and their
  contents are left out. Lints, pins and the verification of SCTs are calls into
  libraries.
- Two processes that write one file of the CRL cache at the same time: the model
  lets the later write win, the file system may keep a mixture (which does not
  parse or is not signed). The listing of the directory is one step: a file that is
  written meanwhile is listed by its writer after that.
- `_stop_stream` cancels a streamer that does not end within three buckets or the
  graceful stop (load_test.py:1083-1087). The streamer only sleeps and calls a
  synchronous `on_interval`, and here it ends in time.
- Commands that return before anything runs, with exit code 0 though thresholds
  were given: no targets, an unknown format, contradictory options (http
  cli.py:1724-1782, 2266-2269). `GreenIsEarned` is about runs that begin and files
  that are merged.
- The resolver of the system is trusted to answer: `_resolve` has no deadline of its own
  (handshake.py:988). `--no-enumerate-ciphers` (enumeration.py:238): the versions
  and the suites are enumerated together or not at all.
- Standard deviations, scores and the analysis of DNS results (floating point),
  and rounding at the edge of a histogram bucket.
- Exporters, messages and utilities: formatting and file output.

`PROJECT.json` lists every component with its status, and the hazards with the
properties that cover them.
