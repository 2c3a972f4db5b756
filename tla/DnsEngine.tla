------------------------------ MODULE DnsEngine -------------------------------
(***************************************************************************)
(* DNSQueryEngine (dns_benchmark/core.py): run_benchmark with its warm-up,  *)
(* and query_single, query_single_doh and query_single_dot.  Every query   *)
(* is a task of one event loop.  An attempt holds a slot of the semaphore; *)
(* one that failed gives the slot back and is retried after a backoff.     *)
(* DNS over TLS shares one connection per resolver between all queries:    *)
(* its stream keeps what arrived until somebody reads it, first the length *)
(* of a reply and then the reply, which is not compared with the question. *)
(* The stream knows one task to wake; once data came it knows none, though *)
(* the task it woke has yet to read, and whoever comes first reads.        *)
(*                                                                         *)
(* A step is what a task does between two suspension points; the two reads *)
(* of a reply are two steps, as wait_for gives each a task of its own      *)
(* before Python 3.12 (a later one may take them in one step).  The server *)
(* answers the queries of a connection in any order (RFC 7858).  A reply   *)
(* arrives whole, and what is read from the middle of one does not parse.  *)
(* A question stands for a domain and a record type; the HTTP clients of   *)
(* DNS over HTTPS are left out, since nothing here depends on them.        *)
(***************************************************************************)
EXTENDS Integers, FiniteSets, Sequences

CONSTANTS
  Resolvers,
  Questions,
  Probe,         \* the question of the fast warm-up
  MaxIterations,
  MaxRetries,
  Scenarios      \* the arguments of run_benchmark and of the engine

ASSUME QuestionsAssumption == IsFiniteSet(Resolvers) /\ IsFiniteSet(Questions)
ASSUME NumbersAssumption == MaxIterations \in Nat /\ MaxRetries \in Nat

Arguments ==
  [resolvers : SUBSET Resolvers, questions : SUBSET Questions,
   iterations : 1 .. MaxIterations, slots : Nat \ {0},
   retries : 0 .. MaxRetries,             \* max_retries
   protocol : {"plain", "doh", "dot"},
   cache : {"off", "kept", "used"},       \* enable_cache, and use_cache with it
   warmup : {"none", "full", "fast"}]

ASSUME ScenariosAssumption == Scenarios \subseteq Arguments

VARIABLES
  args,
  phase,        \* of run_benchmark: the warm-up gather, the measured one, ...
  pc,           \* what each query is doing
  attempt,      \* the attempt each query is at
  conn,         \* the connection each query reads, or waits to read
  result,       \* what each query returned
  cache,        \* the resolvers and questions that are cached
  pool,         \* _dot_connections
  open,         \* the connections that are open, pooled or not
  owed,         \* the queries whose replies have yet to arrive on each one
  buffer,       \* the replies that arrived and are not read, by query
  waiter,       \* the query that the stream will wake when data comes
  half,         \* the query that read the length of the reply at the head
  torn,         \* connections whose stream is off the bounds of its replies
  query_counter, total_queries, failed_resolvers

taskVars == <<pc, attempt, result>>
streamVars == <<buffer, waiter, half, torn>>
connVars == <<conn, pool, open, owed, streamVars>>
countVars == <<query_counter, total_queries, failed_resolvers>>
vars == <<args, phase, taskVars, cache, connVars, countVars>>

(* Iteration 0 is the warm-up.                                             *)
Queries == Resolvers \X (Questions \cup {Probe}) \X (0 .. MaxIterations)
Resolver(q) == q[1]
Question(q) == q[2]
Key(q) == <<Resolver(q), Question(q)>>

Asked ==
  CASE args.warmup = "none" -> {}
    [] args.warmup = "full" -> args.questions
    [] args.warmup = "fast" -> {Probe}

Warm == args.resolvers \X Asked \X {0}
Measured == args.resolvers \X args.questions \X (1 .. args.iterations)

(* A connection is known by the attempt that opened it.                    *)
Connections == Queries \X (0 .. MaxRetries)
NoConnection == <<>>
Nobody == <<>>

(* success: any answer, also an empty one and one that failed DNSSEC.      *)
(* no name: NXDOMAIN.  refused stands for any other exception.             *)
Failures ==
  CASE args.protocol = "plain" -> {"timeout", "servfail", "refused"}
    [] args.protocol = "doh" -> {"timeout", "servfail", "refused"}
    [] args.protocol = "dot" -> {"timeout", "tls error", "refused"}

Errors == {"timeout", "servfail", "tls error", "refused"}
Answers == {"success", "no name"}
Results ==
  [status : Answers \cup Errors, of : Queries \cup {Nobody}, hit : BOOLEAN]
NoResult == [status |-> "none", of |-> Nobody, hit |-> FALSE]

Readers(c) == {q \in Queries : conn[q] = c}

(* asking: about to read.  waiting: for data.  woken: data came, and it has *)
(* yet to run.  misread: what it read was no reply or no length of one.     *)
Reading == {"asking", "waiting", "woken", "misread"}
Inside == {q \in Queries : pc[q] \in {"connecting"} \cup Reading}
Live == Inside \cup {q \in Queries : pc[q] \in {"queued", "backoff"}}

TypeOK ==
  /\ args \in Scenarios
  /\ phase \in {"warmup", "measuring", "done", "closed"}
  /\ pc \in [Queries ->
       {"new", "queued", "connecting", "backoff", "returned"} \cup Reading]
  /\ attempt \in [Queries -> 0 .. args.retries]
  /\ conn \in [Queries -> Connections \cup {NoConnection}]
  /\ result \in [Queries -> Results \cup {NoResult}]
  /\ cache \subseteq Resolvers \X (Questions \cup {Probe})
  /\ pool \in [Resolvers -> Connections \cup {NoConnection}]
  /\ open \subseteq Connections
  /\ owed \in [Connections -> SUBSET Queries]
  /\ buffer \in [Connections -> Seq(Queries)]
  /\ waiter \in [Connections -> Queries \cup {Nobody}]
  /\ half \in [Connections -> Queries \cup {Nobody}]
  /\ torn \subseteq Connections
  /\ query_counter \in Nat /\ total_queries \in Nat
  /\ failed_resolvers \in [Resolvers -> Nat]

(* The first step of every query of a gather comes before any reply.  One  *)
(* that finds its question cached returns at once; warm-ups do not look.   *)
Hits(queries) ==
  IF args.cache = "used" /\ args.protocol = "plain"
  THEN {q \in queries : Key(q) \in cache} ELSE {}

Init ==
  /\ args \in Scenarios
  /\ phase = IF Warm = {} THEN "measuring" ELSE "warmup"
  /\ pc = [q \in Queries |->
             IF q \in (IF Warm = {} THEN Measured ELSE Warm) THEN "queued" ELSE "new"]
  /\ attempt = [q \in Queries |-> 0]
  /\ conn = [q \in Queries |-> NoConnection]
  /\ result = [q \in Queries |-> NoResult]
  /\ cache = {}
  /\ pool = [r \in Resolvers |-> NoConnection]
  /\ open = {} /\ owed = [c \in Connections |-> {}]
  /\ buffer = [c \in Connections |-> <<>>]
  /\ waiter = [c \in Connections |-> Nobody]
  /\ half = [c \in Connections |-> Nobody]
  /\ torn = {}
  /\ query_counter = 0
  /\ total_queries = IF Warm = {} THEN Cardinality(Measured) ELSE 0
  /\ failed_resolvers = [r \in Resolvers |-> 0]

-------------------------------------------------------------------------------
(* How an attempt ends. *)

Return(q, status, of) ==
  /\ pc' = [pc EXCEPT ![q] = "returned"]
  /\ result' = [result EXCEPT ![q] = [status |-> status, of |-> of, hit |-> FALSE]]
  /\ query_counter' = query_counter + 1
  /\ UNCHANGED <<args, phase, attempt, total_queries>>

Last(q) == attempt[q] = args.retries

(* Errors of TLS and, without TLS, of the server are final.                *)
Retried(failure) ==
  failure # IF args.protocol = "plain" THEN "servfail" ELSE "tls error"

\* Mutant: a failure is counted at every attempt.
FailuresAtEveryAttempt(q, final) == [failed_resolvers EXCEPT ![Resolver(q)] = @ + 1]

FailuresAfter(q, final) ==
  IF final THEN [failed_resolvers EXCEPT ![Resolver(q)] = @ + 1]
  ELSE failed_resolvers

Fail(q, failure) ==
  LET final == ~Retried(failure) \/ Last(q)
  IN /\ failed_resolvers' = FailuresAfter(q, final)
     /\ IF final
        THEN Return(q, failure, Nobody)
        ELSE /\ pc' = [pc EXCEPT ![q] = "backoff"]
             /\ UNCHANGED <<args, phase, attempt, result, query_counter, total_queries>>
     /\ UNCHANGED cache

\* Mutant: the connection of a query that timed out stays in the pool.
EvictedUnlessLate(q, failure) ==
  IF failure = "timeout" THEN pool
  ELSE [pool EXCEPT ![Resolver(q)] = NoConnection]

(* Whatever connection the pool now has for the resolver, it loses.  The   *)
(* connection itself is not closed here; if the peer closed it, those that *)
(* still read it get no more replies.                                      *)
Evicted(q, failure) == [pool EXCEPT ![Resolver(q)] = NoConnection]

FailDot(q, failure) ==
  /\ Fail(q, failure)
  /\ pool' = Evicted(q, failure)
  /\ conn' = [conn EXCEPT ![q] = NoConnection]

(* The query is written, and is about to read.                             *)
Ask(q, c) ==
  /\ owed' = [owed EXCEPT ![c] = @ \cup {q}]
  /\ pc' = [pc EXCEPT ![q] = "asking"]
  /\ conn' = [conn EXCEPT ![q] = c]
  /\ UNCHANGED <<args, phase, attempt, result, cache, streamVars, countVars>>

-------------------------------------------------------------------------------
(* The steps of a query. *)

Acquire(q) == pc[q] = "queued" /\ Cardinality(Inside) < args.slots

Admit(q) ==
  /\ args.protocol # "dot" /\ Acquire(q)
  /\ pc' = [pc EXCEPT ![q] = "asking"]
  /\ UNCHANGED <<args, phase, attempt, result, cache, connVars, countVars>>

(* _get_dot_connection finds a connection in the pool, or opens one.       *)
AdmitDot(q) ==
  /\ args.protocol = "dot" /\ Acquire(q)
  /\ IF pool[Resolver(q)] \in open
     THEN Ask(q, pool[Resolver(q)]) /\ UNCHANGED pool
     ELSE /\ pc' = [pc EXCEPT ![q] = "connecting"]
          /\ pool' = [pool EXCEPT ![Resolver(q)] = NoConnection]
          /\ UNCHANGED <<args, phase, attempt, conn, result, cache, owed,
                         streamVars, countVars>>
  /\ UNCHANGED open

(* Others may have connected meanwhile: the last one is in the pool.       *)
Connected(q) ==
  LET c == <<q, attempt[q]>>
  IN /\ pc[q] = "connecting"
     /\ open' = open \cup {c}
     /\ pool' = [pool EXCEPT ![Resolver(q)] = c]
     /\ Ask(q, c)

(* Only plain queries fill the cache, those of a warm-up too.              *)
CachedAfter(q, status) ==
  IF args.protocol = "plain" /\ args.cache # "off" /\ status = "success"
  THEN cache \cup {Key(q)} ELSE cache

Reply(q) ==
  /\ pc[q] = "asking" /\ args.protocol = "plain"
  /\ \E status \in Answers :
       Return(q, status, q) /\ cache' = CachedAfter(q, status)
  /\ UNCHANGED <<connVars, failed_resolvers>>

(* Over HTTPS an answer that there is no such name is a success too.       *)
ReplyDoh(q) ==
  /\ pc[q] = "asking" /\ args.protocol = "doh"
  /\ Return(q, "success", q)
  /\ UNCHANGED <<cache, connVars, failed_resolvers>>

(* What a connection meets that nobody reads, or ever will, is left out, as *)
(* is what follows on a stream that only yields garbage.                   *)
Used(c) == c \notin torn /\ (Readers(c) # {} \/ c \in {pool[r] : r \in Resolvers})

(* The reply to any query of the connection may be the next to arrive.  It *)
(* wakes the query that waits, and the stream forgets that query at once.  *)
Arrive(c) ==
  /\ c \in open /\ Used(c)
  /\ \E of \in owed[c] :
       /\ owed' = [owed EXCEPT ![c] = @ \ {of}]
       /\ buffer' = [buffer EXCEPT ![c] = Append(@, of)]
  /\ waiter' = [waiter EXCEPT ![c] = Nobody]
  /\ pc' = [q \in Queries |-> IF q = waiter[c] THEN "woken" ELSE pc[q]]
  /\ UNCHANGED <<args, phase, attempt, result, cache, conn, pool, open, half, torn,
                 countVars>>

CanRead(q) == args.protocol = "dot" /\ pc[q] \in {"asking", "woken"}
AtBounds(c) == c \notin torn /\ half[c] = Nobody

(* A query that was woken clears the waiter of the stream, be it its own or *)
(* that of a query that came to wait in between: that one will not be woken. *)
WaiterOf(q) == IF pc[q] = "woken" THEN Nobody ELSE waiter[conn[q]]
WaiterSeen(q) == waiter' = [waiter EXCEPT ![conn[q]] = WaiterOf(q)]

Wait(q) ==
  /\ CanRead(q) /\ AtBounds(conn[q]) /\ buffer[conn[q]] = <<>>
  /\ WaiterOf(q) = Nobody
  /\ waiter' = [waiter EXCEPT ![conn[q]] = q]
  /\ pc' = [pc EXCEPT ![q] = "waiting"]
  /\ UNCHANGED <<args, phase, attempt, result, cache, conn, pool, open, owed,
                 buffer, half, torn, countVars>>

(* A second task may not wait: its read is refused, after it wrote.        *)
Refuse(q) ==
  /\ CanRead(q) /\ AtBounds(conn[q]) /\ buffer[conn[q]] = <<>>
  /\ WaiterOf(q) # Nobody
  /\ FailDot(q, "refused")
  /\ UNCHANGED <<open, owed, streamVars>>

ReadLength(q) ==
  /\ CanRead(q) /\ AtBounds(conn[q]) /\ buffer[conn[q]] # <<>>
  /\ half' = [half EXCEPT ![conn[q]] = q]
  /\ WaiterSeen(q)
  /\ pc' = [pc EXCEPT ![q] = "asking"]
  /\ UNCHANGED <<args, phase, attempt, result, cache, conn, pool, open, owed,
                 buffer, torn, countVars>>

(* The reply to whoever it was for is the result.                          *)
ReadReply(q) ==
  /\ CanRead(q) /\ conn[q] \notin torn /\ half[conn[q]] = q
  /\ Return(q, "success", Head(buffer[conn[q]]))
  /\ buffer' = [buffer EXCEPT ![conn[q]] = Tail(@)]
  /\ half' = [half EXCEPT ![conn[q]] = Nobody]
  /\ conn' = [conn EXCEPT ![q] = NoConnection]
  /\ UNCHANGED <<cache, pool, open, owed, waiter, torn, failed_resolvers>>

(* What follows a length that another query read is read as a length.      *)
Misread(q) ==
  /\ CanRead(q) /\ (conn[q] \in torn \/ half[conn[q]] \notin {q, Nobody})
  /\ torn' = torn \cup {conn[q]}
  /\ WaiterSeen(q)
  /\ pc' = [pc EXCEPT ![q] = "misread"]
  /\ UNCHANGED <<args, phase, attempt, result, cache, conn, pool, open, owed,
                 buffer, half, countVars>>

\* Mutant: the timeout covers the connection, not the wait for a reply.
TimedOutInConnect(q) == pc[q] = "connecting"

TimedOut(q) == q \in Inside

(* The wait ends, and with it the wait of whoever the stream was to wake.  *)
LeaveStream(q) ==
  /\ waiter' = IF pc[q] \in {"waiting", "woken"}
               THEN [waiter EXCEPT ![conn[q]] = Nobody] ELSE waiter
  /\ UNCHANGED <<open, owed, buffer, half, torn>>

Break(q, failure) ==
  /\ failure \in Failures
  /\ IF failure = "timeout" THEN TimedOut(q) ELSE q \in Inside
  /\ IF args.protocol = "dot" THEN FailDot(q, failure) /\ LeaveStream(q)
     ELSE Fail(q, failure) /\ UNCHANGED connVars

Retry(q) ==
  /\ pc[q] = "backoff"
  /\ pc' = [pc EXCEPT ![q] = "queued"]
  /\ attempt' = [attempt EXCEPT ![q] = @ + 1]
  /\ UNCHANGED <<args, phase, result, cache, connVars, countVars>>

(* The peer closes a connection nobody reads.                              *)
PeerCloses(c) ==
  /\ c \in open /\ Used(c) /\ Readers(c) = {}
  /\ open' = open \ {c}
  /\ UNCHANGED <<args, phase, taskVars, cache, conn, pool, owed, streamVars, countVars>>

-------------------------------------------------------------------------------
(* run_benchmark and close. *)

CounterAtStart == 0

(* The warm-up gather returned: its results are dropped, and the measured  *)
(* queries start.                                                          *)
EndWarmup ==
  /\ phase = "warmup" /\ Live = {}
  /\ phase' = "measuring"
  /\ query_counter' = CounterAtStart + Cardinality(Hits(Measured))
  /\ total_queries' = Cardinality(Measured)
  /\ pc' = [q \in Queries |-> IF q \in Hits(Measured) THEN "returned"
                              ELSE IF q \in Measured THEN "queued" ELSE pc[q]]
  /\ result' = [q \in Queries |->
       IF q \in Hits(Measured) THEN [status |-> "success", of |-> q, hit |-> TRUE]
       ELSE result[q]]
  /\ UNCHANGED <<args, attempt, cache, connVars, failed_resolvers>>

EndRun ==
  /\ phase = "measuring" /\ Live = {}
  /\ phase' = "done"
  /\ UNCHANGED <<args, taskVars, cache, connVars, countVars>>

(* The connections of the pool are closed.                                 *)
Close ==
  /\ phase = "done"
  /\ phase' = "closed"
  /\ open' = open \ {pool[r] : r \in Resolvers}
  /\ pool' = [r \in Resolvers |-> NoConnection]
  /\ UNCHANGED <<args, taskVars, cache, conn, owed, streamVars, countVars>>

-------------------------------------------------------------------------------
Start(q) == Admit(q) \/ AdmitDot(q) \/ Retry(q)

Step(q) ==
  \/ Start(q) \/ Connected(q) \/ Reply(q) \/ ReplyDoh(q)
  \/ Wait(q) \/ Refuse(q) \/ ReadLength(q) \/ ReadReply(q) \/ Misread(q)
  \/ \E failure \in Errors : Break(q, failure)

Run == EndWarmup \/ EndRun \/ Close

Next ==
  \/ \E q \in Queries : Step(q)
  \/ \E c \in Connections : Arrive(c) \/ PeerCloses(c)
  \/ Run

Spec == Init /\ [][Next]_vars

(* The event loop schedules what can go on, and timers fire.  Nothing is   *)
(* assumed of the network: no connection may open and no reply ever come.  *)
Fairness ==
  /\ WF_vars(Run)
  /\ \A q \in Queries : WF_vars(Start(q)) /\ WF_vars(Break(q, "timeout"))

FairSpec == Spec /\ Fairness

-------------------------------------------------------------------------------
(* Properties. *)

Returned(statuses) == {q \in Queries : result[q].status \in statuses}

(* The progress counter is the number of queries of the phase that have    *)
(* returned, retried, cached or neither, and failed_resolvers the number   *)
(* of queries of each resolver that ended in an error, warm-up included    *)
(* (891-892, 901).                                                         *)
CountedOnce ==
  /\ query_counter =
       Cardinality(Returned(Answers \cup Errors)
                     \cap (IF phase = "warmup" THEN Warm ELSE Measured))
  /\ \A r \in Resolvers :
       failed_resolvers[r] = Cardinality({q \in Returned(Errors) : Resolver(q) = r})

(* A hit, and an entry of the cache before any hit, stands for an answer   *)
(* that a query of this engine got from that very resolver to that very    *)
(* question, with success: never for an error, for a name that was not     *)
(* found, or for another hit (251-265, 324-337).                           *)
HitsAreEarned ==
  \A k \in cache \cup {Key(q) : q \in {p \in Queries : result[p].hit}} :
    \E w \in Returned({"success"}) : Key(w) = k /\ ~result[w].hit

(* The counters and the cache are right together: each query counts once   *)
(* and what comes from the cache was once asked for.                       *)
CountsAndHits == TypeOK /\ CountedOnce /\ HitsAreEarned

(* "Connection is evicted from the pool on any error so the next query     *)
(* gets a fresh connection" (670-672): a connection in the pool that no    *)
(* query reads has no reply on its way, none unread and none half read.    *)
PoolIsClean ==
  \A r \in Resolvers : pool[r] # NoConnection /\ Readers(pool[r]) = {} =>
    /\ owed[pool[r]] = {} /\ buffer[pool[r]] = <<>> /\ AtBounds(pool[r])

(* Sharing the connections is "NOT thread-safe -- safe only because asyncio *)
(* is single-threaded" (110-114): the queries of one event loop each get    *)
(* the reply to their own question.                                        *)
OwnReply == \A q \in Queries : result[q].of \in {q, Nobody}

(* So queries that are sent one at a time each return their own reply,     *)
(* however many of those before them timed out, failed or were retried.    *)
NoLateReply == PoolIsClean /\ (args.slots = 1 => OwnReply)

(* run_benchmark returns a result for every query and the engine closes,   *)
(* on a network that may fall silent at any point.                         *)
AllReturn == <>(phase = "closed" /\ Measured \subseteq Returned(Answers \cup Errors))

===============================================================================
