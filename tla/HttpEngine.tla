------------------------------ MODULE HttpEngine ------------------------------
(***************************************************************************)
(* HTTPBenchmarkEngine.request_single and run_benchmark                    *)
(* (http_bench/core.py).  Every request is a task of one event loop.  An   *)
(* attempt takes a slot of the semaphore, answers the host name from a     *)
(* cache with a time to live or resolves it under the lock of that host,   *)
(* sends the request over a pooled connection, follows redirects, and      *)
(* either returns a result or gives the slot back and retries after a      *)
(* backoff.                                                                *)
(*                                                                         *)
(* A step is what a task does between two suspension points; the progress  *)
(* lock is never held across one, so counting is part of the step that     *)
(* ends a request.  The pool of connections is httpx's: each hop of an     *)
(* attempt reuses a connection or opens one, as the pool pleases.  All     *)
(* targets of a host are of one origin, and of one pool.  Progress callbacks are assumed not to raise (those  *)
(* of the CLI catch everything).  How waiting tasks are ordered is left    *)
(* open.                                                                   *)
(***************************************************************************)
EXTENDS Integers, FiniteSets

CONSTANTS
  Hosts,
  Elsewhere,     \* origins that are no target's, where a redirect may lead
  Targets,
  Iterations,    \* the measured requests per target
  MaxRetries,    \* max_retries
  MaxRedirects,  \* the limit of httpx
  MaxTime,       \* bound on the clock
  Scenarios      \* the engines and their callers

ASSUME SetsAssumption == IsFiniteSet(Targets) /\ Targets # {} /\ Hosts # {}
ASSUME NumbersAssumption ==
  /\ Iterations \in Nat \ {0} /\ MaxRetries \in Nat
  /\ MaxRedirects \in Nat /\ MaxTime \in Nat

(* slots: max_concurrent.  ttl: dns_cache_ttl_s, 0 disables the cache.     *)
(* redirects: follow_redirects.                                            *)
Callers == {"benchmark", "warm benchmark", "load test"}
Arguments == [slots : Nat \ {0}, ttl : Nat, http2 : BOOLEAN, redirects : BOOLEAN,
              host : [Targets -> Hosts], caller : Callers]

ASSUME ScenariosAssumption == Scenarios \subseteq Arguments

VARIABLES
  args,         \* the engine's parameters, the targets, and who calls it
  phase,        \* of run_benchmark: the warm-up gather, the measured one, ...
  now,          \* time.monotonic()
  pc,           \* what each request is doing
  attempt,      \* the attempt each request is at
  exchange,     \* of a request that was sent: connection, name lookup, hops
  result,       \* what each request returned
  cachedAt,     \* _dns_cache: when each host was resolved, or Never
  open,         \* the connections in the pool
  seen,         \* _last_connection_id: the connections charged so far
  charged,      \* the connection whose setup time each result reports
  detours,      \* history: the connections that brought a redirect, uncharged
  query_counter, total_queries, failed_targets

taskVars == <<pc, attempt, exchange, result>>
cacheVars == <<now, cachedAt>>
chargeVars == <<seen, charged, detours>>
countVars == <<query_counter, total_queries, failed_targets>>
vars == <<args, phase, taskVars, cacheVars, open, chargeVars, countVars>>

(* Iteration 0 is the warm-up.                                             *)
Requests == Targets \X (0 .. Iterations)
Target(r) == r[1]
Warm == {r \in Requests : r[2] = 0}
Measured == Requests \ Warm

Host(r) == args.host[Target(r)]

Never == -1

(* A connection is known by the hop of the attempt that opened it, and by  *)
(* where it leads.                                                         *)
Sites == Hosts \cup Elsewhere
Connections == Requests \X (0 .. MaxRetries) \X (0 .. MaxRedirects) \X Sites
Opener(c) == c[1]
Site(c) == c[4]
NoConnection == <<>>

Sources == {"fresh", "cached", "failed"}
Exchanges == [conn : Connections, dns : Sources, hops : 0 .. MaxRedirects]
NoExchange == [conn |-> NoConnection, dns |-> "none", hops |-> 0]

(* timeout: also any other exception; refused: connect and TLS errors.     *)
Failures == {"timeout", "refused"}
Answers == {"response"} \cup Failures
Steps == {"new", "queued", "host lock", "resolving", "sending", "backoff",
          "returned"}

(* The requests that hold a slot of the semaphore, and the running tasks.  *)
Inside == {r \in Requests : pc[r] \in {"host lock", "resolving", "sending"}}
Live == Inside \cup {r \in Requests : pc[r] \in {"queued", "backoff"}}
Resolving(h) == {r \in Requests : pc[r] = "resolving" /\ Host(r) = h}

TypeOK ==
  /\ args \in Scenarios
  /\ phase \in {"warmup", "measuring", "done", "closed"}
  /\ now \in 0 .. MaxTime
  /\ pc \in [Requests -> Steps]
  /\ attempt \in [Requests -> 0 .. MaxRetries]
  /\ exchange \in [Requests -> Exchanges \cup {NoExchange}]
  /\ result \in [Requests -> {"none", "cancelled"} \cup Answers]
  /\ cachedAt \in [Hosts -> {Never} \cup Nat]
  /\ open \subseteq Connections /\ seen \subseteq Connections
  /\ charged \in [Requests -> Connections \cup {NoConnection}]
  /\ detours \subseteq Connections
  /\ query_counter \in Nat /\ total_queries \in Nat
  /\ failed_targets \in [Targets -> Nat]

(* gather() starts every request of the phase.                             *)
Init ==
  /\ args \in Scenarios
  /\ phase = IF args.caller = "warm benchmark" THEN "warmup" ELSE "measuring"
  /\ now = 0
  /\ pc = [r \in Requests |->
             IF \/ args.caller = "benchmark" /\ r \in Measured
                \/ args.caller = "warm benchmark" /\ r \in Warm
             THEN "queued" ELSE "new"]
  /\ attempt = [r \in Requests |-> 0]
  /\ exchange = [r \in Requests |-> NoExchange]
  /\ result = [r \in Requests |-> "none"]
  /\ cachedAt = [h \in Hosts |-> Never]
  /\ open = {} /\ seen = {} /\ detours = {}
  /\ charged = [r \in Requests |-> NoConnection]
  /\ query_counter = 0
  /\ total_queries = IF args.caller = "benchmark" THEN Cardinality(Measured) ELSE 0
  /\ failed_targets = [t \in Targets |-> 0]

-------------------------------------------------------------------------------
(* The slot, the cache of name resolutions, and the sending of the request. *)

Fresh(h) ==
  args.ttl > 0 /\ cachedAt[h] # Never /\ now - cachedAt[h] <= args.ttl

(* A connection of the pool to that site.  Over HTTP/1.1 it carries one    *)
(* request at a time.                                                      *)
Reusable(r, site) ==
  {c \in open : /\ Host(Opener(c)) = Host(r) /\ Site(c) = site
                /\ args.http2 \/ \A q \in Requests \ {r} : exchange[q].conn # c}

(* The request goes out over a connection of the pool or a new one.        *)
SendHop(r, hops, site, dns) ==
  \E c \in Reusable(r, site) \cup {<<r, attempt[r], hops, site>>} :
    /\ pc' = [pc EXCEPT ![r] = "sending"]
    /\ exchange' = [exchange EXCEPT ![r] = [conn |-> c, dns |-> dns, hops |-> hops]]
    /\ open' = open \cup {c}

(* dns is what its result will say about the name.                         *)
Send(r, dns) == SendHop(r, 0, Host(r), dns)

Await(r, step) ==
  /\ pc' = [pc EXCEPT ![r] = step]
  /\ UNCHANGED <<exchange, open>>

(* With the lock of the host held, the cache is read again: whoever held   *)
(* the lock before may have filled it.                                     *)
LockedRead(r) ==
  IF cachedAt[Host(r)] # Never THEN Send(r, "cached") ELSE Await(r, "resolving")

(* A slot is free: the attempt begins.                                     *)
Admit(r) ==
  /\ pc[r] = "queued" /\ Cardinality(Inside) < args.slots
  /\ IF Fresh(Host(r)) THEN Send(r, "cached")
     ELSE IF Resolving(Host(r)) = {} THEN LockedRead(r)
     ELSE Await(r, "host lock")
  /\ UNCHANGED <<args, phase, attempt, result, cacheVars, chargeVars, countVars>>

\* Mutant: the lock serialises the lookups, and the cache is not read again.
EnterLockAndResolve(r) ==
  /\ pc[r] = "host lock" /\ Resolving(Host(r)) = {}
  /\ Await(r, "resolving")
  /\ UNCHANGED <<args, phase, attempt, result, cacheVars, chargeVars, countVars>>

\* Mutant: a waiting request is only woken by a lookup that succeeded.
EnterLockIfCached(r) ==
  /\ pc[r] = "host lock" /\ cachedAt[Host(r)] # Never
  /\ Send(r, "cached")
  /\ UNCHANGED <<args, phase, attempt, result, cacheVars, chargeVars, countVars>>

EnterLock(r) ==
  /\ pc[r] = "host lock" /\ Resolving(Host(r)) = {}
  /\ LockedRead(r)
  /\ UNCHANGED <<args, phase, attempt, result, cacheVars, chargeVars, countVars>>

CachedAfter(h) == IF args.ttl > 0 THEN [cachedAt EXCEPT ![h] = now] ELSE cachedAt

(* The lookup ends.  One that failed is not cached, and the request is sent *)
(* all the same.                                                           *)
Resolved(r) ==
  /\ pc[r] = "resolving"
  /\ \/ cachedAt' = CachedAfter(Host(r)) /\ Send(r, "fresh")
     \/ UNCHANGED cachedAt /\ Send(r, "failed")
  /\ UNCHANGED <<args, phase, now, attempt, result, chargeVars, countVars>>

-------------------------------------------------------------------------------
(* The end of an attempt. *)

Leave(r, step) ==
  /\ pc' = [pc EXCEPT ![r] = step]
  /\ exchange' = [exchange EXCEPT ![r] = NoExchange]
  /\ UNCHANGED attempt

(* A result is returned, and _update_progress called.                      *)
Return(r, answer) ==
  /\ Leave(r, "returned")
  /\ result' = [result EXCEPT ![r] = answer]
  /\ query_counter' = query_counter + 1
  /\ UNCHANGED total_queries

\* Mutant: only the latest connection of an origin is remembered.
SeenLatest(c) == {d \in seen : Host(Opener(d)) # Host(Opener(c))} \cup {c}

SeenAfter(c) == seen \cup {c}

(* The first result over a connection reports the time its setup took.     *)
ChargedAfter(r, c) ==
  [charged EXCEPT ![r] = IF c \in seen THEN NoConnection ELSE c]

(* The last response was read: whatever its status, it is not retried.     *)
Respond(r) ==
  /\ pc[r] = "sending"
  /\ Return(r, "response")
  /\ charged' = ChargedAfter(r, exchange[r].conn)
  /\ seen' = SeenAfter(exchange[r].conn)
  /\ UNCHANGED <<args, phase, cacheVars, open, detours, failed_targets>>

DetoursAfter(r) == detours \cup ({exchange[r].conn} \ seen)

(* A redirect was read, and httpx sends the next hop, which may use the     *)
(* connection of this one.  Only the connection of the last response is    *)
(* ever looked at.                                                         *)
Redirect(r) ==
  /\ pc[r] = "sending" /\ args.redirects /\ exchange[r].hops < MaxRedirects
  /\ \E site \in Sites : SendHop(r, exchange[r].hops + 1, site, exchange[r].dns)
  /\ detours' = DetoursAfter(r)
  /\ UNCHANGED <<args, phase, attempt, result, cacheVars, seen, charged, countVars>>

(* The pool drops the connection of an exchange that failed, unless it may *)
(* carry others.                                                           *)
DropConnection(r) ==
  open' \in {open \ {exchange[r].conn}} \cup IF args.http2 THEN {open} ELSE {}

(* TLS and connect errors are final; the others use up the retries.        *)
GivesUp(r, failure) == failure = "refused" \/ attempt[r] = MaxRetries

FailuresAfter(r, failure) ==
  IF GivesUp(r, failure)
  THEN [failed_targets EXCEPT ![Target(r)] = @ + 1] ELSE failed_targets

EndAttempt(r, failure) ==
  /\ failed_targets' = FailuresAfter(r, failure)
  /\ IF GivesUp(r, failure)
     THEN Return(r, failure)
     ELSE Leave(r, "backoff") /\ UNCHANGED <<result, query_counter, total_queries>>

Fail(r, failure) ==
  /\ pc[r] = "sending"
  /\ DropConnection(r)
  /\ EndAttempt(r, failure)
  /\ UNCHANGED <<args, phase, cacheVars, chargeVars>>

(* One redirect too many was read: nothing is wrong with its connection.   *)
TooManyRedirects(r) ==
  /\ pc[r] = "sending" /\ args.redirects /\ exchange[r].hops = MaxRedirects
  /\ EndAttempt(r, "timeout")
  /\ detours' = DetoursAfter(r)
  /\ UNCHANGED <<args, phase, cacheVars, open, seen, charged>>

(* The backoff is slept without a slot.                                    *)
Retry(r) ==
  /\ pc[r] = "backoff"
  /\ pc' = [pc EXCEPT ![r] = "queued"]
  /\ attempt' = [attempt EXCEPT ![r] = @ + 1]
  /\ UNCHANGED <<args, phase, exchange, result, cacheVars, open, chargeVars,
                 countVars>>

-------------------------------------------------------------------------------
(* The callers. *)

(* A worker of a load test issues a request ...                            *)
Issue(r) ==
  /\ args.caller = "load test" /\ phase = "measuring"
  /\ r \in Measured /\ pc[r] = "new"
  /\ pc' = [pc EXCEPT ![r] = "queued"]
  /\ UNCHANGED <<args, phase, attempt, exchange, result, cacheVars, open,
                 chargeVars, countVars>>

(* ... and its drain may cancel it, wherever it is suspended.              *)
Cancel(r) ==
  /\ args.caller = "load test" /\ r \in Live
  /\ Leave(r, "returned")
  /\ result' = [result EXCEPT ![r] = "cancelled"]
  /\ IF pc[r] = "sending" THEN DropConnection(r) ELSE UNCHANGED open
  /\ UNCHANGED <<args, phase, cacheVars, chargeVars, countVars>>

CounterAtStart == 0

(* The warm-up gather returned: its results are dropped, and the measured  *)
(* requests start.                                                         *)
EndWarmup ==
  /\ phase = "warmup" /\ Live = {}
  /\ phase' = "measuring"
  /\ query_counter' = CounterAtStart /\ total_queries' = Cardinality(Measured)
  /\ pc' = [r \in Requests |-> IF r \in Measured THEN "queued" ELSE pc[r]]
  /\ UNCHANGED <<args, attempt, exchange, result, cacheVars, open, chargeVars,
                 failed_targets>>

EndRun ==
  /\ phase = "measuring" /\ Live = {}
  /\ phase' = "done"
  /\ UNCHANGED <<args, taskVars, cacheVars, open, chargeVars, countVars>>

(* close() empties the pool, the cache and the record of connections.      *)
Close ==
  /\ phase = "done"
  /\ phase' = "closed"
  /\ open' = {} /\ seen' = {} /\ cachedAt' = [h \in Hosts |-> Never]
  /\ UNCHANGED <<args, taskVars, now, charged, detours, countVars>>

(* Only entries of the cache grow old.                                     *)
Tick ==
  /\ args.ttl > 0 /\ now < MaxTime /\ phase \in {"warmup", "measuring"}
  /\ now' = now + 1
  /\ UNCHANGED <<args, phase, taskVars, cachedAt, open, chargeVars, countVars>>

-------------------------------------------------------------------------------
Request(r) ==
  \/ Admit(r) \/ EnterLock(r) \/ Resolved(r) \/ Respond(r) \/ Retry(r)
  \/ Redirect(r) \/ TooManyRedirects(r)
  \/ \E failure \in Failures : Fail(r, failure)

Run == EndWarmup \/ EndRun \/ Close

Next ==
  \/ \E r \in Requests : Request(r) \/ Issue(r) \/ Cancel(r)
  \/ Run \/ Tick

Spec == Init /\ [][Next]_vars

(* Lookups and requests end (every I/O has a timeout), and a task that can *)
(* go on is scheduled.                                                     *)
Fairness == WF_vars(Run) /\ \A r \in Requests : WF_vars(Request(r))

FairSpec == Spec /\ Fairness

-------------------------------------------------------------------------------
(* Properties. *)

(* Single flight: a lookup never starts while another one for its host is  *)
(* under way or while the cache holds an answer that has not expired, so   *)
(* requests that start together resolve once (1067-1071, 1435-1439).       *)
NoRedundantLookup ==
  [][\A r \in Requests :
       pc[r] # "resolving" /\ pc'[r] = "resolving"
         => ~Fresh(Host(r)) /\ Resolving(Host(r)) = {}]_vars

(* "<= 0 disables caching entirely (every request measures DNS)" (1003): no *)
(* request is then given the answer of another one.                        *)
UncachedWhenDisabled ==
  args.ttl = 0 => \A r \in Requests : exchange[r].dns # "cached"

(* The setup of a connection is charged to at most one result, however the *)
(* requests overlap and whatever attempts failed or were cancelled in      *)
(* between; and over HTTP/1.1 to the one that opened it (1631-1645), unless *)
(* what it brought its opener, or others after it, was a redirect: no      *)
(* result looks at the connections of redirects, and the next request that *)
(* gets its last response over one of them is charged.                     *)
SetupChargedOnce ==
  \A r \in Requests : charged[r] # NoConnection =>
    /\ \A q \in Requests \ {r} : charged[q] # charged[r]
    /\ ~args.http2 => Opener(charged[r]) = r \/ charged[r] \in detours

Returned(res) == {r \in Requests : result[r] \in res}

(* The progress counter is the number of requests of the phase that have   *)
(* ended, retries or not, and failed_targets the number of requests to each *)
(* target that ended without a response, warm-up included.                 *)
CountedOnce ==
  /\ query_counter =
       Cardinality(Returned(Answers)
                     \cap (IF phase = "warmup" THEN Warm ELSE Measured))
  /\ \A t \in Targets :
       failed_targets[t] = Cardinality({r \in Returned(Failures) : Target(r) = t})

(* The ledgers of the engine are right: setup, progress and failures are   *)
(* each charged once, and a disabled cache answers nobody.                 *)
ChargedAndCountedOnce ==
  TypeOK /\ UncachedWhenDisabled /\ SetupChargedOnce /\ CountedOnce

(* Every request of a benchmark returns a result, although requests wait   *)
(* for the lock of a host with a slot in their hands.                      *)
AllReturn ==
  (args.caller # "load test") ~>
    (phase = "closed" /\ \A r \in Measured : result[r] \in Answers)

-------------------------------------------------------------------------------
(* "honours dns_cache_ttl_s, so a long monitoring session re-resolves      *)
(* instead of pinning the first answer forever": no attempt is given an    *)
(* answer older than that (1418-1421).                                     *)
HonoursTTL ==
  [][\A r \in Requests :
       pc[r] \in {"queued", "host lock"} /\ pc'[r] = "sending"
         => Fresh(Host(r))]_vars

===============================================================================
