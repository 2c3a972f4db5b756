--------------------------- MODULE HttpEngineProofs ---------------------------
(***************************************************************************)
(* That the engine's ledgers are right for every number of targets, hosts, *)
(* requests, retries and slots: the setup of a connection is charged once, *)
(* and requests and failures are counted once.                             *)
(*                                                                         *)
(* Over HTTP/1.1 the charge falls on the opener because a connection in    *)
(* the pool is in use by one request, was charged before or brought a      *)
(* redirect: an exchange that fails or is cancelled takes its connection   *)
(* out of the pool.                                                        *)
(***************************************************************************)
EXTENDS HttpEngine, FiniteSetTheorems, TLAPS

(* What each request has is what its step allows.                          *)
Tasks ==
  \A r \in Requests :
    /\ pc[r] = "sending" => exchange[r] \in Exchanges
    /\ pc[r] # "sending" => exchange[r] = NoExchange
    /\ pc[r] = "backoff" => attempt[r] # MaxRetries
    /\ pc[r] = "new" => attempt[r] = 0
    /\ pc[r] = "returned" <=> result[r] # "none"
    /\ charged[r] # NoConnection => pc[r] = "returned"

(* The measured requests start after the warm-up has ended, and the run    *)
(* ends when all have.                                                     *)
Phases ==
  /\ phase = "warmup" => \A r \in Measured : pc[r] = "new"
  /\ phase # "warmup" => \A r \in Warm : pc[r] \in {"new", "returned"}
  /\ phase \in {"done", "closed"} => \A r \in Requests : pc[r] \in {"new", "returned"}

(* Its opener has got as far as the hop that opened a connection.          *)
Opened(c) ==
  \/ c[2] < attempt[c[1]]
  \/ /\ c[2] = attempt[c[1]]
     /\ \/ pc[c[1]] \in {"backoff", "returned"}
        \/ pc[c[1]] = "sending" /\ c[3] <= exchange[c[1]].hops

(* What a result was charged with, or looked at and left uncharged.        *)
Known == seen \cup detours

Charges ==
  /\ \A c \in open \cup seen : Opened(c)
  /\ \A r \in Requests : pc[r] = "sending" => Opened(exchange[r].conn)
  /\ \A q, r \in Requests : charged[q] = charged[r] /\ charged[q] # NoConnection => q = r
  /\ phase # "closed" =>
       \A r \in Requests : charged[r] # NoConnection => charged[r] \in seen
  /\ ~ args.http2 =>
       /\ \A r \in Requests : charged[r] # NoConnection =>
            Opener(charged[r]) = r \/ charged[r] \in detours
       /\ \A r \in Requests :
            pc[r] = "sending" =>
              /\ exchange[r].conn \in Known \/ Opener(exchange[r].conn) = r
              /\ \A q \in Requests : exchange[q].conn = exchange[r].conn => q = r
       /\ \A c \in open \ Known : \E r \in Requests : exchange[r].conn = c

Uncached ==
  args.ttl = 0 =>
    /\ \A h \in Hosts : cachedAt[h] = Never
    /\ \A r \in Requests : exchange[r].dns # "cached"

IInv == TypeOK /\ Tasks /\ Phases /\ Charges /\ Uncached /\ CountedOnce
-------------------------------------------------------------------------------
LEMMA RequestFacts ==
  /\ IsFiniteSet(Requests)
  /\ Warm \subseteq Requests /\ Measured \subseteq Requests
  /\ Requests = Warm \cup Measured /\ Warm \cap Measured = {}
  /\ \A r \in Requests : Target(r) \in Targets
<1>1. IsFiniteSet(0 .. Iterations)
  BY FS_Interval, NumbersAssumption
<1>2. IsFiniteSet(Requests)
  BY <1>1, FS_Product, SetsAssumption DEF Requests
<1>3. \A r \in Requests : Target(r) \in Targets
  BY DEF Requests, Target
<1>4. QED
  BY <1>2, <1>3 DEF Warm, Measured

LEMMA ConnectionFacts ==
  /\ NoConnection \notin Connections
  /\ NoExchange.conn = NoConnection /\ NoExchange.dns # "cached"
  /\ NoExchange \notin Exchanges
  /\ \A c \in Connections : c[1] \in Requests /\ c[2] \in Nat /\ c[3] \in Nat
  /\ \A x \in Exchanges : x.conn \in Connections /\ x.hops \in Nat
<1>1. NoConnection \notin Connections
  BY DEF NoConnection, Connections
<1>2. NoExchange \notin Exchanges
  BY DEF NoExchange, Exchanges, Sources
<1>3. \A c \in Connections : c[1] \in Requests /\ c[2] \in Nat /\ c[3] \in Nat
  BY NumbersAssumption DEF Connections
<1>4. NoExchange.conn = NoConnection /\ NoExchange.dns # "cached"
  BY DEF NoExchange
<1>5. \A x \in Exchanges : x.conn \in Connections /\ x.hops \in Nat
  BY NumbersAssumption DEF Exchanges
<1>6. QED
  BY <1>1, <1>2, <1>3, <1>4, <1>5

LEMMA RetryFacts ==
  \A n \in 0 .. MaxRetries :
    n \in Nat /\ ~ (n < n) /\ (n # MaxRetries => n + 1 \in 0 .. MaxRetries)
BY NumbersAssumption

LEMMA HopFacts ==
  0 \in 0 .. MaxRedirects /\ \A h \in 0 .. MaxRedirects : h \in Nat /\ h <= h
BY NumbersAssumption

LEMMA ArgumentFacts ==
  ASSUME TypeOK
  PROVE  /\ args.ttl \in Nat /\ args.http2 \in BOOLEAN
         /\ \A r \in Requests : Host(r) \in Hosts
<1>1. args \in Arguments
  BY ScenariosAssumption DEF TypeOK
<1>2. QED
  BY <1>1, RequestFacts DEF Arguments, Host

(* A connection stays one that has been opened, however its opener moves   *)
(* on.                                                                     *)
LEMMA OpenedStays ==
  ASSUME TypeOK, Tasks, NEW r \in Requests, NEW s,
         pc' = [pc EXCEPT ![r] = s],
         \A q \in Requests : q # r => exchange'[q] = exchange[q],
         \/ /\ UNCHANGED attempt
            /\ pc[r] \in {"backoff", "returned"} => s \in {"backoff", "returned"}
            /\ pc[r] = "sending" =>
                 \/ s \in {"backoff", "returned"}
                 \/ /\ s = "sending" /\ exchange'[r].hops \in Nat
                    /\ exchange[r].hops <= exchange'[r].hops
         \/ attempt' = [attempt EXCEPT ![r] = @ + 1],
         NEW c \in Connections, Opened(c)
  PROVE  Opened(c)'
<1>1. c[1] \in Requests /\ c[2] \in Nat /\ c[3] \in Nat
  BY ConnectionFacts
<1>2. /\ attempt[c[1]] \in Nat /\ attempt \in [Requests -> 0 .. MaxRetries]
      /\ pc \in [Requests -> Steps]
  BY <1>1, NumbersAssumption DEF TypeOK
<1>3. CASE c[1] # r
  <2>1. /\ pc'[c[1]] = pc[c[1]] /\ exchange'[c[1]] = exchange[c[1]]
        /\ attempt'[c[1]] = attempt[c[1]]
    BY <1>1, <1>2, <1>3
  <2>2. QED
    BY <2>1 DEF Opened
<1>4. CASE c[1] = r /\ attempt' = [attempt EXCEPT ![r] = @ + 1]
  BY <1>1, <1>2, <1>4 DEF Opened
<1>5. CASE c[1] = r /\ ~ (attempt' = [attempt EXCEPT ![r] = @ + 1])
  <2>1. attempt' = attempt /\ pc'[r] = s
    BY <1>2, <1>5
  <2>2. CASE pc[r] = "sending"
    <3>1. exchange[r].hops \in Nat
      BY <2>2, ConnectionFacts DEF Tasks
    <3>2. CASE c[2] < attempt[r]
      BY <1>5, <2>1, <3>2 DEF Opened
    <3>3. CASE ~ (c[2] < attempt[r])
      <4>1. c[2] = attempt[r] /\ c[3] <= exchange[r].hops
        BY <1>5, <2>2, <3>3 DEF Opened
      <4>2. CASE s \in {"backoff", "returned"}
        BY <1>5, <2>1, <4>1, <4>2 DEF Opened
      <4>3. CASE s \notin {"backoff", "returned"}
        <5>1. /\ s = "sending" /\ exchange'[r].hops \in Nat
              /\ exchange[r].hops <= exchange'[r].hops
          BY <1>5, <2>2, <4>3
        <5>2. c[3] <= exchange'[r].hops
          BY <1>1, <3>1, <4>1, <5>1
        <5>3. QED
          BY <1>5, <2>1, <4>1, <5>1, <5>2 DEF Opened
      <4>4. QED
        BY <4>2, <4>3
    <3>4. QED
      BY <3>2, <3>3
  <2>3. CASE pc[r] # "sending"
    BY <1>5, <2>1, <2>3 DEF Opened
  <2>4. QED
    BY <2>2, <2>3
<1>6. QED
  BY <1>3, <1>4, <1>5

(* The counts, when no request returns.                                    *)
LEMMA CountsStay ==
  ASSUME CountedOnce, UNCHANGED <<args, phase, result, query_counter, failed_targets>>
  PROVE  CountedOnce'
BY DEF CountedOnce, Returned

(* A request goes on without a connection: it is issued, queues again,     *)
(* waits for the lock of its host or resolves.                             *)
LEMMA MovePreserves ==
  ASSUME IInv, NEW r \in Requests,
         NEW s \in {"queued", "host lock", "resolving"},
         pc[r] \in {"new", "queued", "host lock", "backoff"},
         pc[r] = "new" => phase = "measuring" /\ r \in Measured,
         pc' = [pc EXCEPT ![r] = s],
         IF pc[r] = "backoff" THEN attempt' = [attempt EXCEPT ![r] = @ + 1]
                              ELSE UNCHANGED attempt,
         UNCHANGED <<args, phase, now, exchange, result, cachedAt, open, seen,
                     charged, detours, countVars>>
  PROVE  IInv'
<1>0. TypeOK /\ Tasks /\ Phases /\ Charges /\ Uncached /\ CountedOnce
  BY DEF IInv
<1>1. /\ pc \in [Requests -> Steps] /\ attempt \in [Requests -> 0 .. MaxRetries]
      /\ MaxRetries \in Nat
  BY <1>0, NumbersAssumption DEF TypeOK
<1>2. /\ pc' \in [Requests -> Steps] /\ pc'[r] = s
      /\ \A q \in Requests : q # r => pc'[q] = pc[q] /\ attempt'[q] = attempt[q]
  BY <1>1 DEF Steps
<1>3. attempt' \in [Requests -> 0 .. MaxRetries]
  <2>1. CASE pc[r] = "backoff"
    <3>1. attempt[r] # MaxRetries
      BY <1>0, <2>1 DEF Tasks
    <3>2. attempt[r] + 1 \in 0 .. MaxRetries
      <4>1. attempt[r] \in 0 .. MaxRetries
        BY <1>1
      <4>2. QED
        BY <3>1, <4>1, RetryFacts
    <3>3. QED
      BY <1>1, <2>1, <3>2
  <2>2. CASE pc[r] # "backoff"
    BY <1>1, <2>2
  <2>3. QED
    BY <2>1, <2>2
<1>4. TypeOK'
  BY <1>0, <1>2, <1>3 DEF TypeOK, countVars
<1>5. Tasks'
  BY <1>0, <1>2 DEF Tasks
<1>6. Phases'
  <2>1. phase = "warmup" => r \notin Measured
    BY <1>0 DEF Phases
  <2>2. phase # "warmup" => r \in Measured
    BY <1>0, RequestFacts DEF Phases
  <2>3. phase \notin {"done", "closed"}
    BY <1>0 DEF Phases
  <2>4. QED
    BY <1>0, <1>2, <2>1, <2>2, <2>3, RequestFacts DEF Phases
<1>7. Charges'
  <2>1. ASSUME NEW c \in Connections, Opened(c)
        PROVE  Opened(c)'
    <3>1. \/ UNCHANGED attempt /\ pc[r] \notin {"sending", "backoff", "returned"}
          \/ attempt' = [attempt EXCEPT ![r] = @ + 1]
      OBVIOUS
    <3>2. QED
      BY <1>0, <2>1, <3>1, OpenedStays
  <2>2. \A c \in open \cup seen : Opened(c)'
    BY <1>0, <2>1 DEF TypeOK, Charges
  <2>3. \A q \in Requests : pc'[q] = "sending" <=> pc[q] = "sending"
    BY <1>2
  <2>4. \A q \in Requests : pc[q] = "sending" => Opened(exchange[q].conn)'
    BY <1>0, <2>1 DEF Tasks, Charges, Exchanges
  <2>5. QED
    BY <1>0, <2>2, <2>3, <2>4 DEF Charges, Known
<1>8. Uncached'
  BY <1>0 DEF Uncached
<1>9. CountedOnce'
  BY <1>0, CountsStay DEF countVars
<1>10. QED
  BY <1>4, <1>5, <1>6, <1>7, <1>8, <1>9 DEF IInv

(* A request goes out, first or to where it was redirected, over an idle   *)
(* connection of the pool, its own or a new one.                           *)
LEMMA SendHopPreserves ==
  ASSUME IInv, NEW r \in Requests, NEW dns \in Sources,
         NEW hops \in 0 .. MaxRedirects, NEW site \in Sites,
         SendHop(r, hops, site, dns),
         \/ pc[r] \in {"queued", "host lock", "resolving"} /\ UNCHANGED detours
         \/ /\ pc[r] = "sending" /\ exchange[r].hops < hops
            /\ detours' = DetoursAfter(r),
         args.ttl = 0 => dns # "cached" /\ cachedAt' = cachedAt,
         cachedAt' \in [Hosts -> {Never} \cup Nat],
         UNCHANGED <<args, phase, now, attempt, result, seen, charged, countVars>>
  PROVE  IInv'
<1>0. TypeOK /\ Tasks /\ Phases /\ Charges /\ Uncached /\ CountedOnce
  BY DEF IInv
<1>1. /\ pc \in [Requests -> Steps] /\ attempt \in [Requests -> 0 .. MaxRetries]
      /\ exchange \in [Requests -> Exchanges \cup {NoExchange}]
      /\ open \subseteq Connections /\ seen \subseteq Connections
      /\ detours \subseteq Connections /\ hops \in Nat
      /\ pc[r] # "sending" => exchange[r].conn \notin Connections
      /\ pc[r] = "sending" => exchange[r].conn \in Connections /\ exchange[r].hops \in Nat
  <2>1. /\ pc \in [Requests -> Steps] /\ attempt \in [Requests -> 0 .. MaxRetries]
        /\ exchange \in [Requests -> Exchanges \cup {NoExchange}]
        /\ open \subseteq Connections /\ seen \subseteq Connections
        /\ detours \subseteq Connections
    BY <1>0 DEF TypeOK
  <2>2. hops \in Nat
    BY HopFacts
  <2>3. pc[r] # "sending" => exchange[r].conn \notin Connections
    BY <1>0, ConnectionFacts DEF Tasks
  <2>4. pc[r] = "sending" => exchange[r].conn \in Connections /\ exchange[r].hops \in Nat
    BY <1>0, ConnectionFacts DEF Tasks
  <2>5. QED
    BY <2>1, <2>2, <2>3, <2>4
<1>1a. PICK new \in Connections :
         new = <<r, attempt[r], hops, site>> /\ new[1] = r /\ new[2] = attempt[r] /\ new[3] = hops
  <2>1. PICK k \in 0 .. MaxRetries : k = attempt[r]
    BY <1>1
  <2>2. PICK new \in Connections :
          new = <<r, k, hops, site>> /\ new[1] = r /\ new[2] = k /\ new[3] = hops
    <3>1. <<r, k, hops, site>> \in Connections
      BY DEF Connections
    <3>2. QED
      BY <3>1
  <2>3. QED
    BY <2>1, <2>2
<1>2. PICK c \in Reusable(r, site) \cup {new} :
        /\ pc' = [pc EXCEPT ![r] = "sending"]
        /\ exchange' = [exchange EXCEPT ![r] = [conn |-> c, dns |-> dns, hops |-> hops]]
        /\ open' = open \cup {c}
  BY <1>1a DEF SendHop
<1>3. c \in Connections
  <2>1. Reusable(r, site) \subseteq Connections
    BY <1>1 DEF Reusable
  <2>2. QED
    BY <2>1
<1>3a. /\ detours \subseteq detours' /\ detours' \subseteq Connections
       /\ pc[r] = "sending" => exchange[r].conn \in seen \cup detours'
  BY <1>1 DEF DetoursAfter
<1>4. /\ pc' \in [Requests -> Steps] /\ pc'[r] = "sending"
      /\ exchange'[r].conn = c /\ exchange'[r].dns = dns /\ exchange'[r].hops = hops
      /\ exchange'[r] \in Exchanges
      /\ \A q \in Requests : q # r => pc'[q] = pc[q] /\ exchange'[q] = exchange[q]
  BY <1>1, <1>2, <1>3 DEF Steps, Exchanges
<1>5. exchange' \in [Requests -> Exchanges \cup {NoExchange}]
  BY <1>1, <1>2, <1>4
<1>6. TypeOK'
  BY <1>0, <1>1, <1>2, <1>3, <1>4, <1>5, <1>3a DEF TypeOK, countVars
<1>7. Tasks'
  BY <1>0, <1>4 DEF Tasks
<1>8. Phases'
  <2>1. phase = "warmup" => r \notin Measured
    BY <1>0 DEF Phases
  <2>2. phase # "warmup" => r \notin Warm
    BY <1>0 DEF Phases
  <2>3. phase \notin {"done", "closed"}
    BY <1>0 DEF Phases
  <2>4. QED
    BY <1>0, <1>4, <2>1, <2>2, <2>3, RequestFacts DEF Phases
<1>9. ASSUME NEW d \in Connections, Opened(d)
      PROVE  Opened(d)'
  <2>1. pc[r] = "sending" => exchange[r].hops <= exchange'[r].hops /\ exchange'[r].hops \in Nat
    BY <1>1, <1>4
  <2>2. QED
    BY <1>0, <1>2, <1>4, <1>9, <2>1, OpenedStays
<1>10. Opened(c)'
  <2>1. CASE c \in open
    BY <1>0, <1>3, <1>9, <2>1 DEF Charges
  <2>2. CASE c = new
    <3>1. /\ c[1] = r /\ c[2] = attempt'[r] /\ pc'[r] = "sending"
          /\ c[3] = hops /\ exchange'[r].hops = hops /\ hops <= hops
      BY <1>4, <1>1a, <2>2, HopFacts
    <3>2. QED
      BY <3>1 DEF Opened
  <2>3. QED
    BY <1>2, <2>1, <2>2 DEF Reusable
<1>11. ASSUME ~ args.http2
       PROVE  /\ c \in seen \cup detours' \/ Opener(c) = r
              /\ \A q \in Requests \ {r} : exchange[q].conn # c
  <2>1. CASE c \in Reusable(r, site)
    <3>1. c \in open /\ \A q \in Requests \ {r} : exchange[q].conn # c
      BY <1>11, <2>1 DEF Reusable
    <3>2. CASE c \in Known
      BY <1>3a, <3>1, <3>2 DEF Known
    <3>3. CASE c \notin Known
      <4>1. PICK q \in Requests : exchange[q].conn = c
        BY <1>0, <1>11, <3>1, <3>3 DEF Charges
      <4>2. exchange[r].conn = c
        BY <3>1, <4>1
      <4>3. pc[r] = "sending"
        BY <1>1, <1>3, <4>2
      <4>4. QED
        BY <1>3a, <3>1, <4>2, <4>3
    <3>4. QED
      BY <3>2, <3>3
  <2>2. CASE c = new
    <3>1. c[1] = r /\ c[2] = attempt[r] /\ c[3] = hops
      BY <1>1a, <2>2
    <3>2. ~ Opened(c)
      <4>1. attempt[r] \in 0 .. MaxRetries
        BY <1>1
      <4>2. ~ (attempt[r] < attempt[r])
        BY <4>1, RetryFacts
      <4>3. pc[r] \notin {"backoff", "returned"}
        OBVIOUS
      <4>4. pc[r] = "sending" => ~ (hops <= exchange[r].hops)
        BY <1>1
      <4>5. QED
        BY <3>1, <4>2, <4>3, <4>4 DEF Opened
    <3>3. \A q \in Requests : pc[q] = "sending" => exchange[q].conn # c
      BY <1>0, <3>2 DEF Charges
    <3>4. \A q \in Requests : pc[q] # "sending" => exchange[q].conn # c
      <4>1. \A q \in Requests : pc[q] # "sending" => exchange[q] = NoExchange
        BY <1>0 DEF Tasks
      <4>2. NoExchange.conn # c
        BY <1>3, ConnectionFacts
      <4>3. QED
        BY <4>1, <4>2
    <3>5. QED
      BY <3>1, <3>3, <3>4 DEF Opener
  <2>3. QED
    BY <1>2, <2>1, <2>2
<1>12. Charges'
  <2>1. \A d \in open' \cup seen' : Opened(d)'
    BY <1>0, <1>1, <1>2, <1>9, <1>10 DEF Charges
  <2>2. (\A q \in Requests : pc[q] = "sending" => Opened(exchange[q].conn))'
    <3>1. ASSUME NEW q \in Requests, pc'[q] = "sending"
          PROVE  \E d \in Connections : d = exchange'[q].conn /\ Opened(d)'
      <4>1. CASE q = r
        BY <1>3, <1>4, <1>10, <4>1
      <4>2. CASE q # r
        <5>1. pc[q] = "sending" /\ exchange[q] \in Exchanges
          BY <1>0, <1>4, <3>1, <4>2 DEF Tasks
        <5>2. PICK d \in Connections : d = exchange[q].conn /\ Opened(d)
          BY <1>0, <5>1 DEF Charges, Exchanges
        <5>3. QED
          BY <1>4, <1>9, <4>2, <5>2
      <4>3. QED
        BY <4>1, <4>2
    <3>2. QED
      BY <3>1 DEF Opened
  <2>3. ASSUME ~ args.http2
        PROVE  /\ \A p \in Requests :
                    pc'[p] = "sending" =>
                      /\ exchange'[p].conn \in seen \cup detours' \/ Opener(exchange'[p].conn) = p
                      /\ \A q \in Requests :
                           exchange'[q].conn = exchange'[p].conn => q = p
               /\ \A d \in open' \ (seen \cup detours') : \E q \in Requests : exchange'[q].conn = d
    <3>1. ASSUME NEW p \in Requests, pc'[p] = "sending"
          PROVE  /\ exchange'[p].conn \in seen \cup detours' \/ Opener(exchange'[p].conn) = p
                 /\ \A q \in Requests : exchange'[q].conn = exchange'[p].conn => q = p
      <4>1. CASE p = r
        BY <1>4, <1>11, <2>3, <4>1
      <4>2. CASE p # r
        <5>1. /\ pc[p] = "sending" /\ exchange'[p].conn = exchange[p].conn
              /\ exchange[p].conn # c
          BY <1>4, <1>11, <2>3, <3>1, <4>2
        <5>2. /\ exchange[p].conn \in seen \cup detours' \/ Opener(exchange[p].conn) = p
              /\ \A q \in Requests : exchange[q].conn = exchange[p].conn => q = p
          BY <1>0, <1>3a, <2>3, <5>1 DEF Charges, Known
        <5>3. QED
          BY <1>4, <5>1, <5>2
      <4>3. QED
        BY <4>1, <4>2
    <3>2. ASSUME NEW d \in open' \ (seen \cup detours')
          PROVE  \E q \in Requests : exchange'[q].conn = d
      <4>1. CASE d = c
        BY <1>4, <4>1
      <4>2. CASE d # c
        <5>1. PICK q \in Requests : exchange[q].conn = d
          BY <1>0, <1>2, <1>3a, <2>3, <3>2, <4>2 DEF Charges, Known
        <5>2. q # r
          BY <1>1, <1>2, <1>3a, <3>2, <4>2, <5>1
        <5>3. QED
          BY <1>4, <5>1, <5>2
      <4>3. QED
        BY <4>1, <4>2
    <3>3. QED
      BY <3>1, <3>2
  <2>4. ~ args.http2 => \A q \in Requests : charged[q] # NoConnection =>
          Opener(charged[q]) = q \/ charged[q] \in detours'
    BY <1>0, <1>3a DEF Charges
  <2>5. QED
    BY <1>0, <2>1, <2>2, <2>3, <2>4 DEF Charges, Known
<1>13. Uncached'
  BY <1>0, <1>4 DEF Uncached
<1>14. CountedOnce'
  BY <1>0, CountsStay DEF countVars
<1>15. QED
  BY <1>6, <1>7, <1>8, <1>12, <1>13, <1>14 DEF IInv

LEMMA SendPreserves ==
  ASSUME IInv, NEW r \in Requests, NEW dns \in Sources,
         pc[r] \in {"queued", "host lock", "resolving"},
         Send(r, dns),
         args.ttl = 0 => dns # "cached" /\ cachedAt' = cachedAt,
         cachedAt' \in [Hosts -> {Never} \cup Nat],
         UNCHANGED <<args, phase, now, attempt, result, seen, charged, detours, countVars>>
  PROVE  IInv'
<1>1. PICK site \in Sites : site = Host(r)
  BY ArgumentFacts DEF IInv, Sites
<1>2. PICK hops \in 0 .. MaxRedirects : hops = 0
  <2>1. 0 \in 0 .. MaxRedirects
    BY HopFacts
  <2>2. QED
    BY <2>1
<1>3. SendHop(r, hops, site, dns)
  BY <1>1, <1>2 DEF Send
<1>4. QED
  BY <1>3, SendHopPreserves

(* httpx follows a redirect.                                               *)
LEMMA RedirectPreserves ==
  ASSUME IInv, NEW r \in Requests, Redirect(r)
  PROVE  IInv'
<1>1. TypeOK /\ Tasks /\ Uncached
  BY DEF IInv
<1>2. /\ pc[r] = "sending" /\ detours' = DetoursAfter(r)
      /\ exchange[r].hops < MaxRedirects
      /\ UNCHANGED <<args, phase, now, cachedAt, attempt, result, seen, charged, countVars>>
  BY DEF Redirect, cacheVars
<1>3. exchange[r] \in Exchanges /\ cachedAt \in [Hosts -> {Never} \cup Nat]
  BY <1>1, <1>2 DEF Tasks, TypeOK
<1>4. PICK dns \in Sources, hops \in 0 .. MaxRedirects :
        dns = exchange[r].dns /\ hops = exchange[r].hops + 1 /\ exchange[r].hops < hops
  BY <1>2, <1>3, NumbersAssumption DEF Exchanges
<1>5. PICK site \in Sites : SendHop(r, hops, site, dns)
  BY <1>4 DEF Redirect
<1>6. args.ttl = 0 => dns # "cached"
  BY <1>1, <1>4 DEF Uncached
<1>7. QED
  BY <1>2, <1>3, <1>4, <1>5, <1>6, SendHopPreserves

(* The end of an attempt, as far as it is alike for all: the request gives *)
(* its slot back, and returns with an answer or will retry.                *)
LEMMA LeaveFacts ==
  ASSUME IInv, NEW r \in Requests, NEW s \in {"returned", "backoff"},
         pc[r] \notin {"new", "returned"},
         s = "backoff" => attempt[r] # MaxRetries,
         Leave(r, s)
  PROVE  /\ pc' \in [Requests -> Steps] /\ pc'[r] = s
         /\ exchange' \in [Requests -> Exchanges \cup {NoExchange}]
         /\ exchange'[r] = NoExchange /\ attempt' = attempt
         /\ attempt' \in [Requests -> 0 .. MaxRetries]
         /\ \A q \in Requests : q # r => pc'[q] = pc[q] /\ exchange'[q] = exchange[q]
         /\ \A c \in Connections : Opened(c) => Opened(c)'
         /\ charged[r] = NoConnection /\ result[r] = "none"
         /\ UNCHANGED phase => Phases'
         /\ UNCHANGED <<args, cachedAt>> => Uncached'
         /\ phase = "warmup" => r \in Warm
         /\ phase # "warmup" => r \in Measured
<1>0. TypeOK /\ Tasks /\ Phases /\ Charges /\ Uncached /\ CountedOnce
  BY DEF IInv
<1>1. /\ pc \in [Requests -> Steps] /\ attempt \in [Requests -> 0 .. MaxRetries]
      /\ exchange \in [Requests -> Exchanges \cup {NoExchange}]
      /\ result[r] = "none" <=> pc[r] # "returned"
      /\ charged[r] # NoConnection => pc[r] = "returned"
  BY <1>0 DEF TypeOK, Tasks
<1>2. /\ pc' = [pc EXCEPT ![r] = s] /\ attempt' = attempt
      /\ exchange' = [exchange EXCEPT ![r] = NoExchange]
  BY DEF Leave
<1>3. /\ pc' \in [Requests -> Steps] /\ pc'[r] = s /\ exchange'[r] = NoExchange
      /\ exchange' \in [Requests -> Exchanges \cup {NoExchange}]
      /\ \A q \in Requests : q # r => pc'[q] = pc[q] /\ exchange'[q] = exchange[q]
  BY <1>1, <1>2 DEF Steps
<1>4. \A c \in Connections : Opened(c) => Opened(c)'
  <2>1. s \in {"backoff", "returned"}
    OBVIOUS
  <2>2. ASSUME NEW c \in Connections, Opened(c)
        PROVE  Opened(c)'
    BY <1>0, <1>2, <1>3, <2>1, <2>2, OpenedStays
  <2>3. QED
    BY <2>2
<1>5. /\ phase = "warmup" => r \in Warm
      /\ phase # "warmup" => r \in Measured
      /\ phase \notin {"done", "closed"}
  BY <1>0, RequestFacts DEF Phases
<1>6. UNCHANGED phase => Phases'
  BY <1>0, <1>3, <1>5, RequestFacts DEF Phases
<1>7. UNCHANGED <<args, cachedAt>> => Uncached'
  BY <1>0, <1>3, ConnectionFacts DEF Uncached
<1>8. QED
  BY <1>1, <1>2, <1>3, <1>4, <1>5, <1>6, <1>7

(* What returning does to the tasks.                                       *)
LEMMA LeaveTasks ==
  ASSUME IInv, NEW r \in Requests, NEW s \in {"returned", "backoff"},
         pc[r] \notin {"new", "returned"},
         s = "backoff" => attempt[r] # MaxRetries,
         Leave(r, s),
         NEW answer \in Answers \cup {"cancelled"},
         result' = IF s = "returned" THEN [result EXCEPT ![r] = answer] ELSE result,
         \A q \in Requests : q # r => charged'[q] = charged[q],
         s = "backoff" => charged'[r] = charged[r]
  PROVE  Tasks' /\ result' \in [Requests -> {"none", "cancelled"} \cup Answers]
<1>0. TypeOK /\ Tasks /\ Phases /\ Charges /\ Uncached /\ CountedOnce
  BY DEF IInv
<1>1. result \in [Requests -> {"none", "cancelled"} \cup Answers]
  BY <1>0 DEF TypeOK
<1>2. /\ result' \in [Requests -> {"none", "cancelled"} \cup Answers]
      /\ s = "returned" => result'[r] = answer
      /\ s = "backoff" => result'[r] = result[r]
      /\ \A q \in Requests : q # r => result'[q] = result[q]
      /\ answer # "none"
  BY <1>1 DEF Answers, Failures
<1>3. ASSUME NEW q \in Requests
      PROVE  /\ pc'[q] = "sending" => exchange'[q] \in Exchanges
             /\ pc'[q] # "sending" => exchange'[q] = NoExchange
             /\ pc'[q] = "backoff" => attempt'[q] # MaxRetries
             /\ pc'[q] = "new" => attempt'[q] = 0
             /\ pc'[q] = "returned" <=> result'[q] # "none"
             /\ charged'[q] # NoConnection => pc'[q] = "returned"
  <2>1. CASE q # r
    BY <1>0, <1>2, <2>1, LeaveFacts DEF Tasks
  <2>2. CASE q = r
    BY <1>2, <2>2, LeaveFacts
  <2>3. QED
    BY <2>1, <2>2
<1>4. QED
  BY <1>0, <1>2, <1>3 DEF Tasks

(* The charges, when an exchange fails or a request is cancelled.          *)
LEMMA DropCharges ==
  ASSUME IInv, NEW r \in Requests, NEW s \in {"returned", "backoff"},
         pc[r] \notin {"new", "returned"},
         s = "backoff" => attempt[r] # MaxRetries,
         Leave(r, s),
         UNCHANGED <<args, phase, seen, charged>>,
         open' \subseteq open, detours \subseteq detours',
         ~ args.http2 /\ pc[r] = "sending" =>
           exchange[r].conn \notin open' \ (seen \cup detours')
  PROVE  Charges'
<1>1. TypeOK /\ Tasks /\ Charges
  BY DEF IInv
<1>2. /\ pc'[r] = s /\ s # "sending" /\ exchange'[r] = NoExchange
      /\ \A q \in Requests : q # r => pc'[q] = pc[q] /\ exchange'[q] = exchange[q]
      /\ \A c \in Connections : Opened(c) => Opened(c)'
  BY LeaveFacts
<1>3. open \subseteq Connections /\ seen \subseteq Connections
  BY <1>1 DEF TypeOK
<1>4. \A c \in open' \cup seen' : Opened(c)'
  BY <1>1, <1>2, <1>3 DEF Charges
<1>5. (\A q \in Requests : pc[q] = "sending" => Opened(exchange[q].conn))'
  <2>1. ASSUME NEW q \in Requests, pc'[q] = "sending"
        PROVE  \E d \in Connections : d = exchange'[q].conn /\ Opened(d)'
    <3>1. q # r /\ pc[q] = "sending" /\ exchange'[q] = exchange[q]
      BY <1>2, <2>1
    <3>2. exchange[q] \in Exchanges /\ Opened(exchange[q].conn)
      BY <1>1, <3>1 DEF Tasks, Charges
    <3>3. QED
      BY <1>2, <3>1, <3>2 DEF Exchanges
  <2>2. QED
    BY <2>1 DEF Opened
<1>6. ASSUME ~ args.http2
      PROVE  /\ \A p \in Requests :
                  pc'[p] = "sending" =>
                    /\ exchange'[p].conn \in seen \cup detours' \/ Opener(exchange'[p].conn) = p
                    /\ \A q \in Requests :
                         exchange'[q].conn = exchange'[p].conn => q = p
             /\ \A d \in open' \ (seen \cup detours') : \E q \in Requests : exchange'[q].conn = d
  <2>1. ASSUME NEW p \in Requests, pc'[p] = "sending"
        PROVE  /\ exchange'[p].conn \in seen \cup detours' \/ Opener(exchange'[p].conn) = p
               /\ \A q \in Requests : exchange'[q].conn = exchange'[p].conn => q = p
    <3>1. p # r /\ pc[p] = "sending" /\ exchange'[p] = exchange[p]
      BY <1>2, <2>1
    <3>2. /\ exchange[p].conn \in seen \cup detours' \/ Opener(exchange[p].conn) = p
          /\ \A q \in Requests : exchange[q].conn = exchange[p].conn => q = p
      BY <1>1, <1>6, <3>1 DEF Charges, Known
    <3>3. exchange'[r].conn # exchange'[p].conn
      <4>1. exchange[p] \in Exchanges
        BY <1>1, <3>1 DEF Tasks
      <4>2. exchange[p].conn \in Connections
        BY <4>1 DEF Exchanges
      <4>3. QED
        BY <1>2, <3>1, <4>2, ConnectionFacts
    <3>4. QED
      BY <1>2, <3>1, <3>2, <3>3
  <2>2. ASSUME NEW d \in open' \ (seen \cup detours')
        PROVE  \E q \in Requests : exchange'[q].conn = d
    <3>1. PICK q \in Requests : exchange[q].conn = d
      BY <1>1, <1>6, <2>2 DEF Charges, Known
    <3>2. q # r
      <4>1. SUFFICES ASSUME q = r
                     PROVE  FALSE
        OBVIOUS
      <4>2. d \in Connections
        BY <1>3, <2>2
      <4>3. pc[r] = "sending"
        BY <1>1, <3>1, <4>1, <4>2, ConnectionFacts DEF Tasks
      <4>4. QED
        BY <1>6, <2>2, <3>1, <4>1, <4>3
    <3>3. QED
      BY <1>2, <3>1, <3>2
  <2>3. QED
    BY <2>1, <2>2
<1>7. ~ args.http2 => \A q \in Requests : charged[q] # NoConnection =>
        Opener(charged[q]) = q \/ charged[q] \in detours'
  BY <1>1 DEF Charges
<1>8. QED
  BY <1>1, <1>4, <1>5, <1>6, <1>7 DEF Charges, Known

(* The charges, when a response is read: the first one over its connection *)
(* is charged with its setup.                                              *)
LEMMA RespondCharges ==
  ASSUME IInv, NEW r \in Requests, Respond(r)
  PROVE  Charges' /\ charged' \in [Requests -> Connections \cup {NoConnection}]
<1>. DEFINE c == exchange[r].conn
<1>1. TypeOK /\ Tasks /\ Phases /\ Charges
  BY DEF IInv
<1>2. /\ pc[r] = "sending" /\ Leave(r, "returned")
      /\ charged' = [charged EXCEPT ![r] = IF c \in seen THEN NoConnection ELSE c]
      /\ seen' = seen \cup {c} /\ UNCHANGED <<args, phase, open, detours>>
  BY DEF Respond, Return, SeenAfter, ChargedAfter
<1>3. PICK d : d = c
  OBVIOUS
<1>. HIDE DEF c
<1>4. /\ d \in Connections /\ Opened(d) /\ exchange[r].conn = d
      /\ d # NoConnection /\ phase # "closed"
  <2>1. exchange[r] \in Exchanges /\ Opened(exchange[r].conn)
    BY <1>1, <1>2 DEF Tasks, Charges
  <2>2. phase # "closed"
    BY <1>1, <1>2 DEF Phases
  <2>3. QED
    BY <1>3, <2>1, <2>2, ConnectionFacts DEF c, Exchanges
<1>5. /\ pc'[r] = "returned" /\ exchange'[r] = NoExchange /\ charged[r] = NoConnection
      /\ \A q \in Requests : q # r => pc'[q] = pc[q] /\ exchange'[q] = exchange[q]
      /\ \A e \in Connections : Opened(e) => Opened(e)'
  BY <1>2, LeaveFacts
<1>6. charged \in [Requests -> Connections \cup {NoConnection}]
      /\ open \subseteq Connections /\ seen \subseteq Connections
  BY <1>1 DEF TypeOK
<1>7. /\ charged' \in [Requests -> Connections \cup {NoConnection}]
      /\ charged'[r] = IF d \in seen THEN NoConnection ELSE d
      /\ \A q \in Requests : q # r => charged'[q] = charged[q]
      /\ seen' = seen \cup {d}
  BY <1>2, <1>3, <1>4, <1>6
<1>8. \A e \in open' \cup seen' : Opened(e)'
  BY <1>1, <1>2, <1>4, <1>5, <1>6, <1>7 DEF Charges
<1>9. (\A q \in Requests : pc[q] = "sending" => Opened(exchange[q].conn))'
  <2>1. ASSUME NEW q \in Requests, pc'[q] = "sending"
        PROVE  \E e \in Connections : e = exchange'[q].conn /\ Opened(e)'
    <3>1. q # r /\ pc[q] = "sending" /\ exchange'[q] = exchange[q]
      BY <1>5, <2>1
    <3>2. exchange[q] \in Exchanges /\ Opened(exchange[q].conn)
      BY <1>1, <3>1 DEF Tasks, Charges
    <3>3. QED
      BY <1>5, <3>1, <3>2 DEF Exchanges
  <2>2. QED
    BY <2>1 DEF Opened
<1>10. \A q \in Requests : charged[q] # NoConnection => charged[q] \in seen
  BY <1>1, <1>4 DEF Charges
<1>11. \A p, q \in Requests :
         charged'[p] = charged'[q] /\ charged'[p] # NoConnection => p = q
  <2>1. \A p, q \in Requests :
          charged[p] = charged[q] /\ charged[p] # NoConnection => p = q
    BY <1>1 DEF Charges
  <2>2. \A q \in Requests : q # r /\ charged'[r] # NoConnection => charged'[q] # charged'[r]
    BY <1>4, <1>7, <1>10
  <2>3. QED
    BY <1>7, <2>1, <2>2
<1>12. \A q \in Requests : charged'[q] # NoConnection => charged'[q] \in seen'
  BY <1>7, <1>10
<1>13. ASSUME ~ args.http2
       PROVE  /\ \A q \in Requests : charged'[q] # NoConnection => Opener(charged'[q]) = q \/ charged'[q] \in detours
              /\ \A p \in Requests :
                   pc'[p] = "sending" =>
                     /\ exchange'[p].conn \in seen' \cup detours \/ Opener(exchange'[p].conn) = p
                     /\ \A q \in Requests :
                          exchange'[q].conn = exchange'[p].conn => q = p
              /\ \A e \in open' \ (seen' \cup detours) : \E q \in Requests : exchange'[q].conn = e
  <2>1. \A q \in Requests : charged'[q] # NoConnection => Opener(charged'[q]) = q \/ charged'[q] \in detours
    <3>1. \A q \in Requests : charged[q] # NoConnection => Opener(charged[q]) = q \/ charged[q] \in detours
      BY <1>1, <1>13 DEF Charges
    <3>2. d \in seen \cup detours \/ Opener(d) = r
      BY <1>1, <1>2, <1>4, <1>13 DEF Charges, Known
    <3>3. QED
      BY <1>7, <3>1, <3>2
  <2>2. ASSUME NEW p \in Requests, pc'[p] = "sending"
        PROVE  /\ exchange'[p].conn \in seen' \cup detours \/ Opener(exchange'[p].conn) = p
               /\ \A q \in Requests : exchange'[q].conn = exchange'[p].conn => q = p
    <3>1. p # r /\ pc[p] = "sending" /\ exchange'[p] = exchange[p]
      BY <1>5, <2>2
    <3>2. /\ exchange[p].conn \in seen \cup detours \/ Opener(exchange[p].conn) = p
          /\ \A q \in Requests : exchange[q].conn = exchange[p].conn => q = p
      BY <1>1, <1>13, <3>1 DEF Charges, Known
    <3>3. exchange'[r].conn # exchange'[p].conn
      <4>1. exchange[p] \in Exchanges
        BY <1>1, <3>1 DEF Tasks
      <4>2. exchange[p].conn \in Connections
        BY <4>1 DEF Exchanges
      <4>3. QED
        BY <1>5, <3>1, <4>2, ConnectionFacts
    <3>4. QED
      BY <1>5, <1>7, <3>1, <3>2, <3>3
  <2>3. ASSUME NEW e \in open' \ (seen' \cup detours)
        PROVE  \E q \in Requests : exchange'[q].conn = e
    <3>1. e \in open \ (seen \cup detours) /\ e # d
      BY <1>2, <1>7, <2>3
    <3>2. PICK q \in Requests : exchange[q].conn = e
      BY <1>1, <1>13, <3>1 DEF Charges, Known
    <3>3. q # r
      BY <1>4, <3>1, <3>2
    <3>4. QED
      BY <1>5, <3>2, <3>3
  <2>4. QED
    BY <2>1, <2>2, <2>3
<1>14. QED
  BY <1>2, <1>7, <1>8, <1>9, <1>11, <1>12, <1>13 DEF Charges, Known

(* The counts, when a request returns an answer, or none.                  *)
LEMMA ReturnCounts ==
  ASSUME IInv, NEW r \in Requests, pc[r] \notin {"new", "returned"},
         NEW answer \in Answers,
         result' = [result EXCEPT ![r] = answer],
         query_counter' = query_counter + 1,
         failed_targets' = IF answer \in Failures
                           THEN [failed_targets EXCEPT ![Target(r)] = @ + 1]
                           ELSE failed_targets,
         UNCHANGED phase
  PROVE  CountedOnce' /\ query_counter' \in Nat /\ failed_targets' \in [Targets -> Nat]
<1>. DEFINE P == IF phase = "warmup" THEN Warm ELSE Measured
            ended == Returned(Answers) \cap P
            F(t) == {q \in Returned(Failures) : Target(q) = t}
<1>1. TypeOK /\ Tasks /\ Phases /\ CountedOnce
  BY DEF IInv
<1>2. /\ result \in [Requests -> {"none", "cancelled"} \cup Answers]
      /\ failed_targets \in [Targets -> Nat] /\ query_counter \in Nat
      /\ Target(r) \in Targets
  BY <1>1, RequestFacts DEF TypeOK
<1>3. result[r] = "none" /\ r \in P
  BY <1>1, RequestFacts DEF Tasks, Phases
<1>4. "none" \notin Answers /\ Failures \subseteq Answers
  BY DEF Answers, Failures
<1>5. result'[r] = answer /\ \A q \in Requests : q # r => result'[q] = result[q]
  BY <1>2
<1>6. Returned(Answers)' = Returned(Answers) \cup {r} /\ r \notin Returned(Answers)
  BY <1>3, <1>4, <1>5 DEF Returned
<1>7. Returned(Failures)' = Returned(Failures) \cup (IF answer \in Failures THEN {r} ELSE {})
      /\ r \notin Returned(Failures)
  BY <1>3, <1>4, <1>5 DEF Returned
<1>8. query_counter = Cardinality(ended)
      /\ \A t \in Targets : failed_targets[t] = Cardinality(F(t))
  BY <1>1 DEF CountedOnce
<1>9. query_counter' = Cardinality(Returned(Answers)' \cap P)
  <2>1. Returned(Answers)' \cap P = ended \cup {r} /\ r \notin ended
    BY <1>3, <1>6
  <2>2. IsFiniteSet(ended)
    <3>1. ended \subseteq Requests
      BY DEF Returned
    <3>2. QED
      BY <3>1, FS_Subset, RequestFacts
  <2>. HIDE DEF ended
  <2>3. Cardinality(ended \cup {r}) = Cardinality(ended) + 1
    BY <2>1, <2>2, FS_AddElement
  <2>4. QED
    BY <1>8, <2>1, <2>3
<1>10. ASSUME NEW t \in Targets
       PROVE  failed_targets'[t] = Cardinality({q \in Returned(Failures)' : Target(q) = t})
  <2>1. IsFiniteSet(F(t)) /\ r \notin F(t)
    <3>1. F(t) \subseteq Requests
      BY DEF Returned
    <3>2. QED
      BY <1>7, <3>1, FS_Subset, RequestFacts
  <2>2. CASE answer \in Failures /\ Target(r) = t
    <3>1. {q \in Returned(Failures)' : Target(q) = t} = F(t) \cup {r}
      BY <1>7, <2>2
    <3>2. Cardinality(F(t) \cup {r}) = Cardinality(F(t)) + 1
      BY <2>1, FS_AddElement
    <3>3. failed_targets'[t] = failed_targets[t] + 1
      BY <1>2, <2>2
    <3>4. QED
      BY <1>8, <3>1, <3>2, <3>3
  <2>3. CASE ~ (answer \in Failures /\ Target(r) = t)
    <3>1. {q \in Returned(Failures)' : Target(q) = t} = F(t)
      BY <1>7, <2>3
    <3>2. failed_targets'[t] = failed_targets[t]
      BY <1>2, <2>3
    <3>3. QED
      BY <1>8, <3>1, <3>2
  <2>4. QED
    BY <2>2, <2>3
<1>11. CountedOnce'
  <2>1. (IF phase = "warmup" THEN Warm ELSE Measured)' = P
    BY DEF Warm, Measured
  <2>2. QED
    BY <1>9, <1>10, <2>1 DEF CountedOnce
<1>12. query_counter' \in Nat /\ failed_targets' \in [Targets -> Nat]
  BY <1>2
<1>13. QED
  BY <1>11, <1>12

LEMMA CancelCounts ==
  ASSUME IInv, NEW r \in Requests, pc[r] \notin {"new", "returned"},
         result' = [result EXCEPT ![r] = "cancelled"],
         UNCHANGED <<phase, query_counter, failed_targets>>
  PROVE  CountedOnce'
<1>1. TypeOK /\ Tasks /\ CountedOnce
  BY DEF IInv
<1>2. /\ result[r] = "none"
      /\ result'[r] = "cancelled" /\ \A q \in Requests : q # r => result'[q] = result[q]
  BY <1>1 DEF TypeOK, Tasks
<1>3. {"none", "cancelled"} \cap Answers = {} /\ Failures \subseteq Answers
  BY DEF Answers, Failures
<1>4. Returned(Answers)' = Returned(Answers) /\ Returned(Failures)' = Returned(Failures)
  BY <1>2, <1>3 DEF Returned
<1>5. QED
  BY <1>1, <1>4 DEF CountedOnce
-------------------------------------------------------------------------------
LEMMA InitEstablishes == Init => IInv
<1>. SUFFICES ASSUME Init
              PROVE  IInv
  OBVIOUS
<1>1. /\ args \in Scenarios /\ phase \in {"warmup", "measuring"}
      /\ phase = "warmup" <=> args.caller = "warm benchmark"
      /\ now = 0 /\ MaxTime \in Nat /\ MaxRetries \in Nat
      /\ attempt = [r \in Requests |-> 0]
      /\ exchange = [r \in Requests |-> NoExchange]
      /\ result = [r \in Requests |-> "none"]
      /\ cachedAt = [h \in Hosts |-> Never] /\ open = {} /\ seen = {} /\ detours = {}
      /\ charged = [r \in Requests |-> NoConnection]
      /\ query_counter = 0 /\ failed_targets = [t \in Targets |-> 0]
  BY NumbersAssumption DEF Init
<1>2. total_queries \in Nat
  BY RequestFacts, FS_Subset, FS_CardinalityType DEF Init
<1>3. /\ pc \in [Requests -> {"new", "queued"}]
      /\ \A r \in Requests :
           /\ r \in Measured /\ phase = "warmup" => pc[r] = "new"
           /\ r \in Warm /\ phase # "warmup" => pc[r] = "new"
  BY RequestFacts DEF Init
<1>4. TypeOK
  <2>1. now \in 0 .. MaxTime /\ 0 \in 0 .. MaxRetries
    <3>1. now = 0
      BY <1>1
    <3>2. MaxTime \in Nat /\ MaxRetries \in Nat
      BY NumbersAssumption
    <3>3. QED
      BY <3>1, <3>2
  <2>2. attempt \in [Requests -> 0 .. MaxRetries]
    BY <1>1, <2>1
  <2>3. exchange \in [Requests -> Exchanges \cup {NoExchange}]
    BY <1>1
  <2>4. result \in [Requests -> {"none", "cancelled"} \cup Answers]
    BY <1>1
  <2>5. cachedAt \in [Hosts -> {Never} \cup Nat]
    BY <1>1
  <2>6. charged \in [Requests -> Connections \cup {NoConnection}]
    BY <1>1
  <2>7. query_counter \in Nat /\ failed_targets \in [Targets -> Nat]
    BY <1>1
  <2>8. pc \in [Requests -> Steps]
    BY <1>3 DEF Steps
  <2>9. /\ args \in Scenarios /\ phase \in {"warmup", "measuring", "done", "closed"}
        /\ open \subseteq Connections /\ seen \subseteq Connections
        /\ detours \subseteq Connections
    BY <1>1
  <2>10. QED
    BY <1>2, <2>1, <2>2, <2>3, <2>4, <2>5, <2>6, <2>7, <2>8, <2>9 DEF TypeOK
<1>5. Tasks
  BY <1>1, <1>3 DEF Tasks
<1>6. Phases
  BY <1>1, <1>3, RequestFacts DEF Phases
<1>7. Charges
  BY <1>1, <1>3 DEF Charges, Known
<1>8. Uncached
  BY <1>1, ConnectionFacts DEF Uncached
<1>9. CountedOnce
  <2>1. Returned(Answers) = {} /\ Returned(Failures) = {}
    BY <1>1 DEF Returned, Answers, Failures
  <2>2. QED
    BY <1>1, <2>1, FS_EmptySet DEF CountedOnce
<1>10. QED
  BY <1>4, <1>5, <1>6, <1>7, <1>8, <1>9 DEF IInv

LEMMA LockedReadPreserves ==
  ASSUME IInv, NEW r \in Requests, pc[r] \in {"queued", "host lock"}, LockedRead(r),
         UNCHANGED <<args, phase, attempt, result, cacheVars, chargeVars, countVars>>
  PROVE  IInv'
<1>1. UNCHANGED <<args, phase, now, cachedAt, attempt, result, seen, charged, detours, countVars>>
  BY DEF cacheVars, chargeVars
<1>2. TypeOK /\ Uncached /\ cachedAt \in [Hosts -> {Never} \cup Nat]
  BY DEF IInv, TypeOK
<1>3. CASE cachedAt[Host(r)] # Never
  <2>1. Send(r, "cached") /\ "cached" \in Sources
    BY <1>3 DEF LockedRead, Sources
  <2>2. args.ttl # 0
    BY <1>2, <1>3, ArgumentFacts DEF Uncached
  <2>3. QED
    BY <1>1, <1>2, <2>1, <2>2, SendPreserves
<1>4. CASE cachedAt[Host(r)] = Never
  <2>1. Await(r, "resolving")
    BY <1>4 DEF LockedRead
  <2>2. QED
    BY <1>1, <2>1, MovePreserves DEF Await
<1>5. QED
  BY <1>3, <1>4

LEMMA AdmitPreserves ==
  ASSUME IInv, NEW r \in Requests, Admit(r)
  PROVE  IInv'
<1>1. /\ pc[r] = "queued"
      /\ UNCHANGED <<args, phase, attempt, result, cacheVars, chargeVars, countVars>>
  BY DEF Admit
<1>2. CASE Fresh(Host(r))
  <2>1. Send(r, "cached") /\ "cached" \in Sources
    BY <1>2 DEF Admit, Sources
  <2>0. TypeOK /\ cachedAt \in [Hosts -> {Never} \cup Nat]
    BY DEF IInv, TypeOK
  <2>4. args.ttl # 0
    BY <1>2, <2>0, ArgumentFacts DEF Fresh
  <2>2. UNCHANGED <<args, phase, now, cachedAt, attempt, result, seen, charged, detours, countVars>>
    BY <1>1 DEF cacheVars, chargeVars
  <2>3. QED
    BY <1>1, <2>0, <2>1, <2>2, <2>4, SendPreserves
<1>3. CASE ~ Fresh(Host(r)) /\ Resolving(Host(r)) = {}
  <2>1. LockedRead(r)
    BY <1>3 DEF Admit
  <2>2. QED
    BY <1>1, <2>1, LockedReadPreserves
<1>4. CASE ~ Fresh(Host(r)) /\ Resolving(Host(r)) # {}
  <2>1. Await(r, "host lock")
    BY <1>4 DEF Admit
  <2>2. QED
    BY <1>1, <2>1, MovePreserves DEF Await, cacheVars, chargeVars
<1>5. QED
  BY <1>2, <1>3, <1>4

LEMMA ResolvedPreserves ==
  ASSUME IInv, NEW r \in Requests, Resolved(r)
  PROVE  IInv'
<1>1. TypeOK /\ now \in Nat /\ cachedAt \in [Hosts -> {Never} \cup Nat]
  BY NumbersAssumption DEF IInv, TypeOK
<1>2. /\ pc[r] = "resolving"
      /\ UNCHANGED <<args, phase, now, attempt, result, seen, charged, detours, countVars>>
  BY DEF Resolved, chargeVars
<1>3. CASE cachedAt' = CachedAfter(Host(r)) /\ Send(r, "fresh")
  <2>1. cachedAt' \in [Hosts -> {Never} \cup Nat]
    BY <1>1, <1>3 DEF CachedAfter
  <2>2. args.ttl = 0 => cachedAt' = cachedAt
    BY <1>3 DEF CachedAfter
  <2>3. "fresh" \in Sources
    BY DEF Sources
  <2>4. QED
    BY <1>2, <1>3, <2>1, <2>2, <2>3, SendPreserves
<1>4. CASE UNCHANGED cachedAt /\ Send(r, "failed")
  <2>1. "failed" \in Sources
    BY DEF Sources
  <2>2. QED
    BY <1>1, <1>2, <1>4, <2>1, SendPreserves
<1>5. QED
  BY <1>3, <1>4 DEF Resolved

LEMMA RespondPreserves ==
  ASSUME IInv, NEW r \in Requests, Respond(r)
  PROVE  IInv'
<1>1. /\ pc[r] = "sending" /\ Leave(r, "returned")
      /\ result' = [result EXCEPT ![r] = "response"]
      /\ query_counter' = query_counter + 1
      /\ \A q \in Requests : q # r => charged'[q] = charged[q]
      /\ seen' = seen \cup {exchange[r].conn}
      /\ UNCHANGED <<args, phase, now, cachedAt, open, detours, total_queries,
                     failed_targets>>
  BY DEF Respond, Return, SeenAfter, ChargedAfter, cacheVars, IInv, TypeOK
<1>2. "response" \in Answers /\ "response" \notin Failures
  BY DEF Answers, Failures
<1>3. TypeOK /\ Tasks
  BY DEF IInv
<1>4. Charges' /\ charged' \in [Requests -> Connections \cup {NoConnection}]
  BY RespondCharges
<1>5. Tasks' /\ result' \in [Requests -> {"none", "cancelled"} \cup Answers]
  BY <1>1, <1>2, LeaveTasks
<1>6. CountedOnce' /\ query_counter' \in Nat
  BY <1>1, <1>2, ReturnCounts
<1>7. /\ pc' \in [Requests -> Steps] /\ attempt' \in [Requests -> 0 .. MaxRetries]
      /\ exchange' \in [Requests -> Exchanges \cup {NoExchange}]
      /\ Phases' /\ Uncached'
  BY <1>1, LeaveFacts
<1>8. seen' \subseteq Connections
  <2>1. exchange[r] \in Exchanges /\ seen \subseteq Connections
    BY <1>1, <1>3 DEF Tasks, TypeOK
  <2>2. QED
    BY <1>1, <2>1 DEF Exchanges
<1>9. TypeOK'
  BY <1>1, <1>3, <1>4, <1>5, <1>6, <1>7, <1>8 DEF TypeOK
<1>10. QED
  BY <1>4, <1>5, <1>6, <1>7, <1>9 DEF IInv

LEMMA DropFacts ==
  ASSUME NEW r, DropConnection(r)
  PROVE  open' \subseteq open /\ (~ args.http2 => exchange[r].conn \notin open')
BY DEF DropConnection

(* An attempt ends without a response.                                     *)
LEMMA EndAttemptPreserves ==
  ASSUME IInv, NEW r \in Requests, NEW failure \in Failures,
         pc[r] = "sending", EndAttempt(r, failure),
         UNCHANGED <<args, phase, now, cachedAt, seen, charged>>,
         open' \subseteq open,
         detours \subseteq detours', detours' \subseteq Connections,
         ~ args.http2 => exchange[r].conn \notin open' \ (seen \cup detours')
  PROVE  IInv'
<1>2. failure \in Answers
  BY DEF Answers
<1>3. TypeOK
  BY DEF IInv
<1>4. CASE GivesUp(r, failure)
  <2>1. /\ Leave(r, "returned") /\ result' = [result EXCEPT ![r] = failure]
        /\ query_counter' = query_counter + 1 /\ UNCHANGED total_queries
        /\ failed_targets' = [failed_targets EXCEPT ![Target(r)] = @ + 1]
    BY <1>4 DEF EndAttempt, Return, FailuresAfter
  <2>2. Tasks' /\ result' \in [Requests -> {"none", "cancelled"} \cup Answers]
    BY <1>2, <2>1, LeaveTasks
  <2>3. CountedOnce' /\ query_counter' \in Nat /\ failed_targets' \in [Targets -> Nat]
    BY <1>2, <2>1, ReturnCounts
  <2>4. /\ pc' \in [Requests -> Steps] /\ attempt' \in [Requests -> 0 .. MaxRetries]
        /\ exchange' \in [Requests -> Exchanges \cup {NoExchange}]
        /\ Phases' /\ Uncached'
    BY <2>1, LeaveFacts
  <2>5. Charges'
    BY <2>1, DropCharges
  <2>6. TypeOK'
    BY <1>3, <2>1, <2>2, <2>3, <2>4 DEF TypeOK
  <2>7. QED
    BY <2>2, <2>3, <2>4, <2>5, <2>6 DEF IInv
<1>5. CASE ~ GivesUp(r, failure)
  <2>1. /\ Leave(r, "backoff") /\ UNCHANGED <<result, query_counter, total_queries>>
        /\ UNCHANGED failed_targets /\ attempt[r] # MaxRetries
    BY <1>5 DEF EndAttempt, FailuresAfter, GivesUp
  <2>2. Tasks' /\ result' \in [Requests -> {"none", "cancelled"} \cup Answers]
    BY <1>2, <2>1, LeaveTasks
  <2>3. CountedOnce'
    BY <2>1, CountsStay DEF IInv
  <2>4. /\ pc' \in [Requests -> Steps] /\ attempt' \in [Requests -> 0 .. MaxRetries]
        /\ exchange' \in [Requests -> Exchanges \cup {NoExchange}]
        /\ Phases' /\ Uncached'
    BY <2>1, LeaveFacts
  <2>5. Charges'
    BY <2>1, DropCharges
  <2>6. TypeOK'
    BY <1>3, <2>1, <2>2, <2>4 DEF TypeOK
  <2>7. QED
    BY <2>2, <2>3, <2>4, <2>5, <2>6 DEF IInv
<1>6. QED
  BY <1>4, <1>5

LEMMA FailPreserves ==
  ASSUME IInv, NEW r \in Requests, NEW failure \in Failures, Fail(r, failure)
  PROVE  IInv'
<1>1. /\ pc[r] = "sending" /\ EndAttempt(r, failure)
      /\ UNCHANGED <<args, phase, now, cachedAt, seen, charged, detours>>
      /\ open' \subseteq open /\ (~ args.http2 => exchange[r].conn \notin open')
  BY DropFacts DEF Fail, cacheVars, chargeVars
<1>2. detours \subseteq Connections
  BY DEF IInv, TypeOK
<1>3. QED
  BY <1>1, <1>2, EndAttemptPreserves

LEMMA TooManyPreserves ==
  ASSUME IInv, NEW r \in Requests, TooManyRedirects(r)
  PROVE  IInv'
<1>1. /\ pc[r] = "sending" /\ EndAttempt(r, "timeout") /\ detours' = DetoursAfter(r)
      /\ UNCHANGED <<args, phase, now, cachedAt, open, seen, charged>>
  BY DEF TooManyRedirects, cacheVars
<1>2. PICK failure \in Failures : failure = "timeout"
  BY DEF Failures
<1>3. exchange[r].conn \in Connections /\ detours \subseteq Connections
  BY <1>1, ConnectionFacts DEF IInv, TypeOK, Tasks
<1>4. /\ detours \subseteq detours' /\ detours' \subseteq Connections
      /\ exchange[r].conn \in seen \cup detours'
  BY <1>1, <1>3 DEF DetoursAfter
<1>5. QED
  BY <1>1, <1>2, <1>4, EndAttemptPreserves

LEMMA CancelPreserves ==
  ASSUME IInv, NEW r \in Requests, Cancel(r)
  PROVE  IInv'
<1>1. /\ pc[r] \notin {"new", "returned"} /\ Leave(r, "returned")
      /\ result' = [result EXCEPT ![r] = "cancelled"]
      /\ UNCHANGED <<args, phase, now, cachedAt, seen, charged, detours, query_counter,
                     total_queries, failed_targets>>
  BY DEF Cancel, Live, Inside, cacheVars, chargeVars, countVars
<1>2. /\ open' \subseteq open
      /\ ~ args.http2 /\ pc[r] = "sending" => exchange[r].conn \notin open'
  BY DropFacts DEF Cancel
<1>3. TypeOK
  BY DEF IInv
<1>4. Tasks' /\ result' \in [Requests -> {"none", "cancelled"} \cup Answers]
  BY <1>1, LeaveTasks
<1>5. CountedOnce'
  BY <1>1, CancelCounts
<1>6. /\ pc' \in [Requests -> Steps] /\ attempt' \in [Requests -> 0 .. MaxRetries]
      /\ exchange' \in [Requests -> Exchanges \cup {NoExchange}]
      /\ Phases' /\ Uncached'
  BY <1>1, LeaveFacts
<1>7. Charges'
  BY <1>1, <1>2, DropCharges
<1>8. TypeOK'
  BY <1>1, <1>2, <1>3, <1>4, <1>6 DEF TypeOK
<1>9. QED
  BY <1>4, <1>5, <1>6, <1>7, <1>8 DEF IInv


LEMMA EnterLockPreserves ==
  ASSUME IInv, NEW r \in Requests, EnterLock(r)
  PROVE  IInv'
BY LockedReadPreserves DEF EnterLock

LEMMA RetryPreserves ==
  ASSUME IInv, NEW r \in Requests, Retry(r)
  PROVE  IInv'
<1>1. /\ pc[r] = "backoff" /\ pc' = [pc EXCEPT ![r] = "queued"]
      /\ attempt' = [attempt EXCEPT ![r] = @ + 1]
      /\ UNCHANGED <<args, phase, now, exchange, result, cachedAt, open, seen,
                     charged, detours, countVars>>
  BY DEF Retry, cacheVars, chargeVars
<1>2. QED
  BY <1>1, MovePreserves

LEMMA IssuePreserves ==
  ASSUME IInv, NEW r \in Requests, Issue(r)
  PROVE  IInv'
<1>1. /\ pc[r] = "new" /\ phase = "measuring" /\ r \in Measured
      /\ pc' = [pc EXCEPT ![r] = "queued"]
      /\ UNCHANGED <<args, phase, now, attempt, exchange, result, cachedAt, open,
                     seen, charged, detours, countVars>>
  BY DEF Issue, cacheVars, chargeVars
<1>2. QED
  BY <1>1, MovePreserves

(* Nothing runs: every request is new or has returned, and no exchange is  *)
(* under way.                                                              *)
LEMMA QuietFacts ==
  ASSUME TypeOK, Tasks, Live = {}
  PROVE  \A r \in Requests : pc[r] \in {"new", "returned"} /\ exchange[r] = NoExchange
BY DEF TypeOK, Tasks, Live, Inside, Steps

LEMMA EndWarmupPreserves ==
  ASSUME IInv, EndWarmup
  PROVE  IInv'
<1>1. TypeOK /\ Tasks /\ Phases /\ Charges /\ Uncached /\ CountedOnce
  BY DEF IInv
<1>2. /\ phase = "warmup" /\ phase' = "measuring" /\ Live = {}
      /\ query_counter' = 0 /\ total_queries' = Cardinality(Measured)
      /\ pc' = [r \in Requests |-> IF r \in Measured THEN "queued" ELSE pc[r]]
      /\ UNCHANGED <<args, now, attempt, exchange, result, cachedAt, open, seen,
                     charged, detours, failed_targets>>
  BY DEF EndWarmup, CounterAtStart, cacheVars, chargeVars
<1>3. \A r \in Requests : pc[r] \in {"new", "returned"} /\ exchange[r] = NoExchange
  BY <1>1, <1>2, QuietFacts
<1>4. \A r \in Measured : pc[r] = "new" /\ pc'[r] = "queued" /\ result[r] = "none"
  BY <1>1, <1>2, RequestFacts DEF Phases, Tasks
<1>5. \A r \in Warm : pc'[r] = pc[r] /\ pc[r] \in {"new", "returned"}
  BY <1>2, <1>3, RequestFacts
<1>6. pc' \in [Requests -> Steps]
  BY <1>2, <1>3 DEF Steps
<1>7. total_queries' \in Nat /\ query_counter' \in Nat
  BY <1>2, RequestFacts, FS_Subset, FS_CardinalityType
<1>8. TypeOK'
  BY <1>1, <1>2, <1>6, <1>7 DEF TypeOK
<1>9. Tasks'
  <2>1. ASSUME NEW r \in Requests
        PROVE  /\ pc'[r] = "sending" => exchange[r] \in Exchanges
               /\ pc'[r] # "sending" => exchange[r] = NoExchange
               /\ pc'[r] = "backoff" => attempt[r] # MaxRetries
               /\ pc'[r] = "new" => attempt[r] = 0
               /\ pc'[r] = "returned" <=> result[r] # "none"
               /\ charged[r] # NoConnection => pc'[r] = "returned"
    <3>1. CASE r \in Measured
      BY <1>1, <1>3, <1>4, <3>1 DEF Tasks
    <3>2. CASE r \in Warm
      BY <1>1, <1>3, <1>5, <3>2, RequestFacts DEF Tasks
    <3>3. QED
      BY <3>1, <3>2, RequestFacts
  <2>2. QED
    BY <1>2, <2>1 DEF Tasks
<1>10. Phases'
  BY <1>2, <1>5 DEF Phases, Warm, Measured, Requests
<1>11. Charges'
  <2>1. ASSUME NEW c \in Connections, Opened(c)
        PROVE  Opened(c)'
    <3>1. c[1] \in Requests
      BY ConnectionFacts
    <3>2. pc[c[1]] = "returned" => pc'[c[1]] = "returned"
      BY <1>4, <1>5, <3>1, RequestFacts
    <3>3. QED
      BY <1>2, <1>3, <2>1, <3>1, <3>2 DEF Opened
  <2>2. \A c \in open \cup seen : Opened(c)'
    BY <1>1, <2>1 DEF TypeOK, Charges
  <2>3. \A r \in Requests : pc'[r] # "sending" /\ pc[r] # "sending"
    BY <1>3, <1>4, <1>5, RequestFacts
  <2>4. phase # "closed" /\ phase' # "closed"
    BY <1>2
  <2>5. QED
    BY <1>1, <1>2, <2>2, <2>3, <2>4 DEF Charges, Known
<1>12. Uncached'
  BY <1>1, <1>2 DEF Uncached
<1>13. CountedOnce'
  <2>1. Returned(Answers) \cap Measured = {}
    BY <1>4 DEF Returned, Answers, Failures
  <2>2. Returned(Answers)' = Returned(Answers) /\ Returned(Failures)' = Returned(Failures)
    BY <1>2 DEF Returned
  <2>3. Cardinality(Returned(Answers)' \cap Measured) = 0
    BY <2>1, <2>2, FS_EmptySet
  <2>4. query_counter' = Cardinality(Returned(Answers)' \cap (IF phase' = "warmup" THEN Warm ELSE Measured))
    BY <1>2, <2>3
  <2>5. QED
    BY <1>1, <1>2, <2>2, <2>4 DEF CountedOnce, Warm, Measured
<1>14. QED
  BY <1>8, <1>9, <1>10, <1>11, <1>12, <1>13 DEF IInv

LEMMA EndRunPreserves ==
  ASSUME IInv, EndRun
  PROVE  IInv'
<1>1. TypeOK /\ Tasks /\ Phases /\ Charges /\ Uncached /\ CountedOnce
  BY DEF IInv
<1>2. /\ phase = "measuring" /\ phase' = "done" /\ Live = {}
      /\ UNCHANGED <<args, now, pc, attempt, exchange, result, cachedAt, open, seen,
                     charged, detours, query_counter, total_queries, failed_targets>>
  BY DEF EndRun, taskVars, cacheVars, chargeVars, countVars
<1>3. TypeOK'
  BY <1>1, <1>2 DEF TypeOK
<1>4. Tasks' /\ Uncached' /\ CountedOnce'
  BY <1>1, <1>2 DEF Tasks, Uncached, CountedOnce, Returned, Warm, Measured
<1>5. Phases'
  <2>1. \A r \in Requests : pc[r] \in {"new", "returned"}
    BY <1>1, <1>2, QuietFacts
  <2>2. QED
    BY <1>2, <2>1, RequestFacts DEF Phases
<1>6. Charges'
  BY <1>1, <1>2 DEF Charges, Known, Opened
<1>7. QED
  BY <1>3, <1>4, <1>5, <1>6 DEF IInv

LEMMA ClosePreserves ==
  ASSUME IInv, Close
  PROVE  IInv'
<1>1. TypeOK /\ Tasks /\ Phases /\ Charges /\ Uncached /\ CountedOnce
  BY DEF IInv
<1>2. /\ phase = "done" /\ phase' = "closed"
      /\ open' = {} /\ seen' = {} /\ cachedAt' = [h \in Hosts |-> Never]
      /\ UNCHANGED <<args, now, pc, attempt, exchange, result, charged, detours,
                     query_counter, total_queries, failed_targets>>
  BY DEF Close, taskVars, countVars
<1>3. \A r \in Requests : pc[r] # "sending"
  BY <1>1, <1>2 DEF Phases
<1>4. TypeOK'
  BY <1>1, <1>2 DEF TypeOK
<1>5. Tasks' /\ CountedOnce'
  BY <1>1, <1>2 DEF Tasks, CountedOnce, Returned
<1>6. Phases' /\ Uncached'
  BY <1>1, <1>2 DEF Phases, Uncached
<1>7. Charges'
  BY <1>1, <1>2, <1>3 DEF Charges, Known
<1>8. QED
  BY <1>4, <1>5, <1>6, <1>7 DEF IInv

LEMMA TickPreserves ==
  ASSUME IInv, Tick
  PROVE  IInv'
<1>1. TypeOK /\ Tasks /\ Phases /\ Charges /\ Uncached /\ CountedOnce
  BY DEF IInv
<1>2. /\ now' \in 0 .. MaxTime
      /\ UNCHANGED <<args, phase, pc, attempt, exchange, result, cachedAt, open, seen,
                     charged, detours, query_counter, total_queries, failed_targets>>
  BY <1>1, NumbersAssumption DEF Tick, TypeOK, taskVars, chargeVars, countVars
<1>3. TypeOK'
  BY <1>1, <1>2 DEF TypeOK
<1>4. Tasks' /\ Phases' /\ Uncached' /\ CountedOnce'
  BY <1>1, <1>2 DEF Tasks, Phases, Uncached, CountedOnce, Returned, Warm, Measured
<1>5. Charges'
  BY <1>1, <1>2 DEF Charges, Known, Opened
<1>6. QED
  BY <1>3, <1>4, <1>5 DEF IInv

LEMMA StutterPreserves ==
  ASSUME IInv, UNCHANGED vars
  PROVE  IInv'
<1>1. TypeOK /\ Tasks /\ Phases /\ Charges /\ Uncached /\ CountedOnce
  BY DEF IInv
<1>2. UNCHANGED <<args, phase, now, pc, attempt, exchange, result, cachedAt, open, seen,
                  charged, detours, query_counter, total_queries, failed_targets>>
  BY DEF vars, taskVars, cacheVars, chargeVars, countVars
<1>3. TypeOK'
  BY <1>1, <1>2 DEF TypeOK
<1>4. Tasks' /\ Phases' /\ Uncached' /\ CountedOnce'
  BY <1>1, <1>2 DEF Tasks, Phases, Uncached, CountedOnce, Returned, Warm, Measured
<1>5. Charges'
  BY <1>1, <1>2 DEF Charges, Known, Opened
<1>6. QED
  BY <1>3, <1>4, <1>5 DEF IInv

(* The invariant holds throughout, however the requests interleave.        *)
THEOREM Invariance == Spec => []IInv
<1>1. Init => IInv
  BY InitEstablishes
<1>2. IInv /\ [Next]_vars => IInv'
  <2>. SUFFICES ASSUME IInv, [Next]_vars
                PROVE  IInv'
    OBVIOUS
  <2>1. ASSUME NEW r \in Requests, Request(r)
        PROVE  IInv'
    BY <2>1, AdmitPreserves, EnterLockPreserves, ResolvedPreserves, RespondPreserves,
       RetryPreserves, FailPreserves, RedirectPreserves, TooManyPreserves DEF Request
  <2>2. ASSUME NEW r \in Requests, Issue(r) \/ Cancel(r)
        PROVE  IInv'
    BY <2>2, IssuePreserves, CancelPreserves
  <2>3. CASE Run
    BY <2>3, EndWarmupPreserves, EndRunPreserves, ClosePreserves DEF Run
  <2>4. CASE Tick
    BY <2>4, TickPreserves
  <2>5. CASE UNCHANGED vars
    BY <2>5, StutterPreserves
  <2>6. QED
    BY <2>1, <2>2, <2>3, <2>4, <2>5 DEF Next
<1>3. QED
  BY <1>1, <1>2, PTL DEF Spec

(* Setup, progress and failures are each charged once, and a disabled      *)
(* cache answers nobody (http_bench/core.py, request_single).              *)
THEOREM LedgersStayRight == Spec => []ChargedAndCountedOnce
<1>1. IInv => ChargedAndCountedOnce
  <2>. SUFFICES ASSUME IInv
                PROVE  ChargedAndCountedOnce
    OBVIOUS
  <2>1. TypeOK /\ Charges /\ Uncached /\ CountedOnce
    BY DEF IInv
  <2>2. UncachedWhenDisabled
    BY <2>1 DEF Uncached, UncachedWhenDisabled
  <2>3. SetupChargedOnce
    BY <2>1 DEF Charges, Known, SetupChargedOnce
  <2>4. QED
    BY <2>1, <2>2, <2>3 DEF ChargedAndCountedOnce
<1>2. QED
  BY <1>1, Invariance, PTL

(* A lookup that starts finds nothing fresh in the cache and no other one  *)
(* under way for its host (_resolve_cached).                               *)
THEOREM LookupsAreSingleFlight == Spec => NoRedundantLookup
<1>. DEFINE A == \A r \in Requests : pc[r] # "resolving" /\ pc'[r] = "resolving"
                   => ~ Fresh(Host(r)) /\ Resolving(Host(r)) = {}
<1>1. ASSUME IInv, [Next]_vars
      PROVE  A
  <2>. SUFFICES ASSUME NEW r \in Requests, pc[r] # "resolving", pc'[r] = "resolving"
                PROVE  ~ Fresh(Host(r)) /\ Resolving(Host(r)) = {}
    OBVIOUS
  <2>1. pc \in [Requests -> Steps]
    BY <1>1 DEF IInv, TypeOK
  <2>2. ASSUME NEW q \in Requests, NEW s, s # "resolving", pc' = [pc EXCEPT ![q] = s]
        PROVE  FALSE
    BY <2>1, <2>2
  <2>3. ASSUME NEW q \in Requests, LockedRead(q)
        PROVE  q = r /\ ~ Fresh(Host(q))
    <3>1. CASE cachedAt[Host(q)] # Never
      BY <2>2, <2>3, <3>1 DEF LockedRead, Send, SendHop
    <3>2. CASE cachedAt[Host(q)] = Never
      <4>1. pc' = [pc EXCEPT ![q] = "resolving"]
        BY <2>3, <3>2 DEF LockedRead, Await
      <4>2. q = r
        BY <2>1, <4>1
      <4>3. QED
        BY <3>2, <4>2 DEF Fresh
    <3>3. QED
      BY <3>1, <3>2
  <2>4. ASSUME NEW q \in Requests, Admit(q)
        PROVE  ~ Fresh(Host(r)) /\ Resolving(Host(r)) = {}
    <3>1. CASE Fresh(Host(q))
      BY <2>2, <2>4, <3>1 DEF Admit, Send, SendHop
    <3>2. CASE ~ Fresh(Host(q)) /\ Resolving(Host(q)) = {}
      BY <2>3, <2>4, <3>2 DEF Admit
    <3>3. CASE ~ Fresh(Host(q)) /\ Resolving(Host(q)) # {}
      BY <2>2, <2>4, <3>3 DEF Admit, Await
    <3>4. QED
      BY <3>1, <3>2, <3>3
  <2>5. ASSUME NEW q \in Requests, EnterLock(q)
        PROVE  ~ Fresh(Host(r)) /\ Resolving(Host(r)) = {}
    BY <2>3, <2>5 DEF EnterLock
  <2>6. ASSUME NEW q \in Requests, \/ Resolved(q) \/ Respond(q) \/ Retry(q)
                                   \/ \E failure \in Failures : Fail(q, failure)
                                   \/ Issue(q) \/ Cancel(q)
                                   \/ Redirect(q) \/ TooManyRedirects(q)
        PROVE  FALSE
    BY <2>2, <2>6 DEF Resolved, Send, SendHop, Respond, Return, Leave, Retry, Fail,
       EndAttempt, Issue, Cancel, Redirect, TooManyRedirects
  <2>7. CASE Run \/ Tick \/ UNCHANGED vars
    BY <2>1, <2>7 DEF Run, EndWarmup, EndRun, Close, Tick, vars, taskVars
  <2>8. QED
    BY <1>1, <2>4, <2>5, <2>6, <2>7 DEF Next, Request
<1>2. QED
  BY <1>1, Invariance, PTL DEF Spec, NoRedundantLookup

===============================================================================
