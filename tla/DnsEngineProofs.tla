---------------------------- MODULE DnsEngineProofs ----------------------------
(***************************************************************************)
(* Proofs about DnsEngine, for every set of resolvers and questions and    *)
(* any arguments: what the pool of DNS over TLS keeps clean, and what the  *)
(* counters and the cache hits stand for.                                  *)
(***************************************************************************)
EXTENDS DnsEngine, FiniteSetTheorems, TLAPS

Steps == {"new", "queued", "connecting", "backoff", "returned"} \cup Reading
MaybeConnection == Connections \cup {NoConnection}
MaybeQuery == Queries \cup {Nobody}

StreamTyped ==
  /\ owed \in [Connections -> SUBSET Queries]
  /\ buffer \in [Connections -> Seq(Queries)]
  /\ waiter \in [Connections -> MaybeQuery]
  /\ half \in [Connections -> MaybeQuery]
  /\ torn \subseteq Connections

Typed ==
  /\ args \in Scenarios
  /\ pc \in [Queries -> Steps]
  /\ attempt \in [Queries -> 0 .. args.retries]
  /\ conn \in [Queries -> MaybeConnection]
  /\ pool \in [Resolvers -> MaybeConnection]
  /\ open \subseteq Connections
  /\ StreamTyped

(* Who reads has a connection, of its own resolver, if it asks over TLS.   *)
ReadersHaveOne ==
  \A q \in Queries :
    /\ conn[q] # NoConnection <=> pc[q] \in Reading /\ args.protocol = "dot"
    /\ conn[q] # NoConnection => Resolver(conn[q][1]) = Resolver(q)
    /\ pc[q] = "connecting" => args.protocol = "dot"

PoolIsOwn ==
  \A r \in Resolvers : pool[r] # NoConnection => Resolver(pool[r][1]) = r

(* A failed attempt that is followed by another one was not the last.      *)
RetriesLeft == \A q \in Queries : pc[q] = "backoff" => attempt[q] # args.retries

(* The connections that no attempt has opened so far.                      *)
BeforeOpening == {"new", "queued", "connecting"}
Unopened(c) ==
  \/ c[2] > attempt[c[1]]
  \/ c[2] = attempt[c[1]] /\ pc[c[1]] \in BeforeOpening

Blank(c) == owed[c] = {} /\ buffer[c] = <<>> /\ half[c] = Nobody /\ c \notin torn

Unused(c) ==
  /\ Blank(c)
  /\ \A q \in Queries : conn[q] # c
  /\ \A r \in Resolvers : pool[r] # c

UnopenedAreUnused == \A c \in Connections : Unopened(c) => Unused(c)

(* The measured queries do not exist while the warm-up is gathered.        *)
WarmupFirst == phase = "warmup" => \A q \in Queries : q[3] # 0 => pc[q] = "new"

(* A reply of which the length was read is still there.                    *)
HalfIsThere == \A c \in Connections : half[c] # Nobody => buffer[c] # <<>>

(* The stream wakes a query that waits on it.                              *)
WaiterWaits ==
  \A c \in Connections : waiter[c] # Nobody =>
    conn[waiter[c]] = c /\ pc[waiter[c]] = "waiting"

(* Of a pooled connection there are as many replies to come, or to read, as *)
(* there are readers, unless one of them has misread and will evict it.    *)
Balanced(c) ==
  /\ \A q \in owed[c] : conn[q] = c \/ pc[q] = "returned"
  /\ c \in torn => \E q \in Readers(c) : pc[q] = "misread"
  /\ c \notin torn =>
       /\ half[c] # Nobody => half[c] \in Readers(c)
       /\ Cardinality(owed[c]) + Len(buffer[c]) = Cardinality(Readers(c))

PoolIsBalanced ==
  \A r \in Resolvers : pool[r] # NoConnection => Balanced(pool[r])

IInv ==
  /\ Typed /\ ReadersHaveOne /\ PoolIsOwn /\ RetriesLeft
  /\ UnopenedAreUnused /\ WarmupFirst /\ HalfIsThere
  /\ WaiterWaits /\ PoolIsBalanced

-------------------------------------------------------------------------------
LEMMA ConnectionFacts ==
  /\ NoConnection \notin Connections
  /\ \A c \in Connections : c[1] \in Queries /\ c[2] \in 0 .. MaxRetries
                             /\ c = <<c[1], c[2]>>
BY DEF Connections, NoConnection

LEMMA NobodyFacts == Nobody \notin Queries
BY DEF Queries, Nobody

LEMMA RetriesFacts ==
  ASSUME Typed
  PROVE  /\ args.retries \in 0 .. MaxRetries
         /\ \A q \in Queries : attempt[q] \in Nat /\ attempt[q] \in 0 .. MaxRetries
         /\ MaxRetries \in Nat
<1>1. args.retries \in 0 .. MaxRetries
  BY ScenariosAssumption DEF Typed, Arguments
<1>2. QED
  BY <1>1, NumbersAssumption DEF Typed

LEMMA QueriesFinite == IsFiniteSet(Queries)
<1>. DEFINE Q == Questions \cup {Probe}
            S == (Resolvers \X Q) \X (0 .. MaxIterations)
            f == [s \in S |-> <<s[1][1], s[1][2], s[2]>>]
<1>1. IsFiniteSet(Q)
  BY QuestionsAssumption, FS_AddElement
<1>2. IsFiniteSet(Resolvers \X Q)
  BY <1>1, QuestionsAssumption, FS_Product
<1>3. IsFiniteSet(0 .. MaxIterations)
  BY NumbersAssumption, FS_Interval
<1>4. IsFiniteSet(S)
  BY <1>2, <1>3, FS_Product
<1>5. f \in Surjection(S, Queries)
  <2>1. f \in [S -> Queries]
    BY DEF Queries
  <2>2. ASSUME NEW q \in Queries
        PROVE  \E s \in S : f[s] = q
    <3>1. PICK r \in Resolvers, d \in Q, i \in 0 .. MaxIterations : q = <<r, d, i>>
      BY DEF Queries
    <3>2. <<<<r, d>>, i>> \in S /\ f[<<<<r, d>>, i>>] = q
      BY <3>1
    <3>3. QED
      BY <3>2
  <2>3. QED
    BY <2>1, <2>2 DEF Surjection
<1>6. QED
  BY <1>4, <1>5, FS_Surjection

LEMMA SubsetsAreCounted ==
  ASSUME NEW S \in SUBSET Queries
  PROVE  IsFiniteSet(S) /\ Cardinality(S) \in Nat
BY QueriesFinite, FS_Subset, FS_CardinalityType

(* A connection none of whose readers or replies change stays balanced.    *)
LEMMA SameBalance ==
  ASSUME NEW c \in Connections, Balanced(c), owed'[c] = owed[c],
         buffer'[c] = buffer[c], half'[c] = half[c], c \in torn' <=> c \in torn,
         owed[c] \in SUBSET Queries,
         \A p \in Queries : conn'[p] = c <=> conn[p] = c,
         \A p \in Queries : conn[p] = c /\ pc[p] = "misread" => pc'[p] = "misread",
         \A p \in Queries : pc[p] = "returned" => pc'[p] = "returned"
  PROVE  Balanced(c)'
<1>1. Readers(c)' = Readers(c)
  BY DEF Readers
<1>2. QED
  BY <1>1 DEF Balanced, Readers

(* A step of one query that touches no connection.                         *)
LEMMA QuietPreserves ==
  ASSUME IInv, NEW q \in Queries, NEW s \in Steps \ {"new", "connecting"},
         s \in Reading => args.protocol # "dot",
         pc[q] \notin {"new", "returned"}, pc' = [pc EXCEPT ![q] = s],
         conn[q] = NoConnection, UNCHANGED <<args, phase, connVars>>,
         \/ /\ UNCHANGED attempt
            /\ s \in BeforeOpening => pc[q] \in BeforeOpening
            /\ s = "backoff" => attempt[q] # args.retries
         \/ /\ pc[q] = "backoff" /\ s = "queued"
            /\ attempt' = [attempt EXCEPT ![q] = @ + 1]
  PROVE  IInv'
<1>. USE DEF IInv, connVars, streamVars
<1>r. /\ args.retries \in Nat
      /\ \A p \in Queries : attempt[p] \in Nat /\ attempt[p] \in 0 .. args.retries
  BY RetriesFacts, NumbersAssumption DEF Typed
<1>1. Typed'
  <2>1. attempt' \in [Queries -> 0 .. args.retries]
    BY <1>r DEF Typed, RetriesLeft
  <2>2. pc' \in [Queries -> Steps]
    BY DEF Typed
  <2>3. QED
    BY <2>1, <2>2 DEF Typed, StreamTyped
<1>2. ReadersHaveOne'
  BY DEF ReadersHaveOne, Typed
<1>3. PoolIsOwn' /\ HalfIsThere'
  BY DEF PoolIsOwn, HalfIsThere
<1>4. RetriesLeft'
  BY DEF RetriesLeft, Typed
<1>5. UnopenedAreUnused'
  <2>1. SUFFICES ASSUME NEW c \in Connections, Unopened(c)'
                 PROVE  Unopened(c)
    BY DEF UnopenedAreUnused, Unused, Blank
  <2>2. c[1] \in Queries /\ c[2] \in Nat
    BY ConnectionFacts, NumbersAssumption
  <2>3. CASE c[1] # q
    BY <2>1, <2>2, <2>3, <1>r DEF Unopened, Typed
  <2>4. CASE c[1] = q
    BY <2>1, <2>2, <2>4, <1>r DEF Unopened, Typed, BeforeOpening
  <2>5. QED
    BY <2>3, <2>4
<1>6. WarmupFirst'
  BY DEF WarmupFirst, Typed
<1>7. PoolIsBalanced'
  <2>1. SUFFICES ASSUME NEW r \in Resolvers, pool[r] # NoConnection
                 PROVE  Balanced(pool[r])'
    BY DEF PoolIsBalanced
  <2>2. PICK c \in Connections : c = pool[r]
    BY <2>1 DEF Typed, MaybeConnection
  <2>3. /\ c # NoConnection /\ Balanced(c) /\ owed[c] \in SUBSET Queries
        /\ \A p \in Queries : conn[p] = c => p # q
    BY <2>1, <2>2 DEF PoolIsBalanced, Typed, StreamTyped
  <2>4. \A p \in Queries : p # q => pc'[p] = pc[p]
    BY DEF Typed
  <2>5. Balanced(c)'
    BY <2>3, <2>4, SameBalance
  <2>6. QED
    BY <2>2, <2>5
<1>8. WaiterWaits'
  BY ConnectionFacts, NobodyFacts DEF WaiterWaits, Typed, StreamTyped, MaybeQuery
<1>9. QED
  BY <1>1, <1>2, <1>3, <1>4, <1>5, <1>6, <1>7, <1>8

(* How a failed attempt ends.                                              *)
LEMMA FailMoves ==
  ASSUME Typed, NEW q \in Queries, NEW failure, Fail(q, failure)
  PROVE  /\ UNCHANGED <<args, phase, attempt>>
         /\ \E s \in {"returned", "backoff"} :
              /\ pc' = [pc EXCEPT ![q] = s]
              /\ s = "backoff" => attempt[q] # args.retries
BY DEF Fail, Return, Last

(* Of the connections, a failure only frees the one of the query and the   *)
(* place in the pool, whatever else its stream knew of it.                 *)
LEMMA EvictionPreserves ==
  ASSUME IInv, NEW q \in Queries, NEW failure, FailDot(q, failure),
         pc[q] \notin {"new", "returned"}, waiter' \in [Connections -> MaybeQuery],
         \A d \in Connections :
           waiter'[d] # Nobody => waiter'[d] = waiter[d] /\ waiter[d] # q,
         UNCHANGED <<open, owed, buffer, half, torn>>
  PROVE  IInv'
<1>. USE DEF IInv
<1>d. /\ Fail(q, failure)
      /\ pool' = [pool EXCEPT ![Resolver(q)] = NoConnection]
      /\ conn' = [conn EXCEPT ![q] = NoConnection]
  BY DEF FailDot, Evicted
<1>q. Resolver(q) \in Resolvers
  BY DEF Queries, Resolver
<1>m. /\ UNCHANGED <<args, phase, attempt>>
      /\ \E s \in {"returned", "backoff"} :
           /\ pc' = [pc EXCEPT ![q] = s]
           /\ s = "backoff" => attempt[q] # args.retries
  BY <1>d, FailMoves
<1>n. /\ pc'[q] \in {"returned", "backoff"} /\ pc' \in [Queries -> Steps]
      /\ \A p \in Queries : p # q => pc'[p] = pc[p]
      /\ pc'[q] = "backoff" => attempt[q] # args.retries
  BY <1>m DEF Typed, Steps
<1>c. /\ conn'[q] = NoConnection /\ \A p \in Queries : p # q => conn'[p] = conn[p]
      /\ conn' \in [Queries -> MaybeConnection]
      /\ pool' \in [Resolvers -> MaybeConnection]
  BY <1>d DEF Typed, MaybeConnection
<1>1. Typed'
  BY <1>m, <1>n, <1>c DEF Typed, StreamTyped
<1>2. ReadersHaveOne'
  BY <1>m, <1>n, <1>c DEF ReadersHaveOne, Reading
<1>3. PoolIsOwn' /\ HalfIsThere'
  BY <1>d DEF PoolIsOwn, HalfIsThere, Typed
<1>4. RetriesLeft'
  BY <1>m, <1>n DEF RetriesLeft
<1>5. UnopenedAreUnused'
  <2>1. SUFFICES ASSUME NEW d \in Connections, Unopened(d)'
                 PROVE  Unused(d)'
    BY DEF UnopenedAreUnused
  <2>2. Unopened(d)
    BY <1>m, <1>n, <2>1, ConnectionFacts DEF Unopened, BeforeOpening
  <2>3. d # NoConnection /\ Unused(d)
    BY <2>2, ConnectionFacts DEF UnopenedAreUnused
  <2>4. QED
    BY <1>d, <1>c, <2>3 DEF Unused, Blank, Typed
<1>6. WarmupFirst'
  BY <1>m, <1>n DEF WarmupFirst
<1>7. PoolIsBalanced'
  <2>1. SUFFICES ASSUME NEW r \in Resolvers, pool'[r] # NoConnection
                 PROVE  Balanced(pool[r])'
    BY DEF PoolIsBalanced
  <2>2. r # Resolver(q) /\ pool'[r] = pool[r]
    BY <1>d, <1>q, <2>1 DEF Typed
  <2>3. PICK c \in Connections : c = pool[r]
    BY <2>1, <2>2 DEF Typed, MaybeConnection
  <2>4. Resolver(c[1]) = r /\ Balanced(c) /\ owed[c] \in SUBSET Queries
    BY <2>1, <2>2, <2>3 DEF PoolIsOwn, PoolIsBalanced, Typed, StreamTyped
  <2>5. conn[q] # c /\ c # NoConnection
    BY <2>2, <2>3, <2>4, ConnectionFacts DEF ReadersHaveOne
  <2>6. Balanced(c)'
    BY <1>n, <1>c, <2>4, <2>5, SameBalance
  <2>7. QED
    BY <2>2, <2>3, <2>6
<1>8. WaiterWaits'
  BY <1>n, <1>c DEF WaiterWaits, Typed, StreamTyped, MaybeQuery
<1>9. QED
  BY <1>1, <1>2, <1>3, <1>4, <1>5, <1>6, <1>7, <1>8

(* A query goes to read a connection of its resolver that is in the pool,  *)
(* or that nobody used and now is.                                         *)
LEMMA AskPreserves ==
  ASSUME IInv, NEW q \in Queries, NEW c \in Connections, Ask(q, c),
         pc[q] \in {"queued", "connecting"}, args.protocol = "dot",
         pool' = [pool EXCEPT ![Resolver(q)] = c],
         pool[Resolver(q)] = c \/ Unused(c),
         Resolver(c[1]) = Resolver(q), ~Unopened(c)', open' \subseteq Connections
  PROVE  IInv'
<1>. USE DEF IInv
<1>a. /\ owed' = [owed EXCEPT ![c] = @ \cup {q}]
      /\ pc' = [pc EXCEPT ![q] = "asking"] /\ conn' = [conn EXCEPT ![q] = c]
      /\ UNCHANGED <<args, phase, attempt, buffer, waiter, half, torn>>
  BY DEF Ask, streamVars
<1>q. Resolver(q) \in Resolvers /\ c # NoConnection
  BY ConnectionFacts DEF Queries, Resolver
<1>n. /\ pc'[q] = "asking" /\ pc' \in [Queries -> Steps]
      /\ conn'[q] = c /\ conn' \in [Queries -> MaybeConnection]
      /\ \A p \in Queries : p # q => pc'[p] = pc[p] /\ conn'[p] = conn[p]
  BY <1>a DEF Typed, Steps, Reading, MaybeConnection
<1>w. /\ owed'[c] = owed[c] \cup {q} /\ owed' \in [Connections -> SUBSET Queries]
      /\ \A d \in Connections : d # c => owed'[d] = owed[d]
  BY <1>a DEF Typed, StreamTyped
<1>f. conn[q] = NoConnection
  BY DEF ReadersHaveOne, Reading
<1>1. Typed'
  <2>1. pool' \in [Resolvers -> MaybeConnection]
    BY DEF Typed, MaybeConnection
  <2>2. QED
    BY <1>a, <1>n, <1>w, <2>1 DEF Typed, StreamTyped
<1>2. ReadersHaveOne'
  BY <1>a, <1>q, <1>n DEF ReadersHaveOne, Reading
<1>3. PoolIsOwn' /\ HalfIsThere'
  BY <1>a DEF PoolIsOwn, HalfIsThere, Typed
<1>4. RetriesLeft'
  BY <1>a, <1>n DEF RetriesLeft
<1>5. UnopenedAreUnused'
  <2>1. SUFFICES ASSUME NEW d \in Connections, Unopened(d)'
                 PROVE  Unused(d)'
    BY DEF UnopenedAreUnused
  <2>2. Unopened(d) /\ d # c
    BY <1>a, <1>n, <2>1, ConnectionFacts DEF Unopened, BeforeOpening
  <2>3. Unused(d)
    BY <2>2 DEF UnopenedAreUnused
  <2>4. QED
    BY <1>a, <1>n, <1>w, <2>2, <2>3 DEF Unused, Blank, Typed
<1>6. WarmupFirst'
  BY <1>a, <1>n DEF WarmupFirst
<1>7. Balanced(c)'
  <2>1. Balanced(c)
    <3>1. CASE pool[Resolver(q)] = c
      BY <1>q, <3>1 DEF PoolIsBalanced
    <3>2. CASE Unused(c)
      <4>1. Readers(c) = {} /\ Blank(c)
        BY <3>2 DEF Unused, Readers
      <4>2. QED
        BY <4>1, FS_EmptySet DEF Balanced, Blank
    <3>3. QED
      BY <3>1, <3>2
  <2>2. Readers(c)' = Readers(c) \cup {q} /\ q \notin Readers(c)
    BY <1>q, <1>n, <1>f DEF Readers
  <2>3. q \notin owed[c]
    BY <2>1, <1>q, <1>f DEF Balanced
  <2>4. /\ owed[c] \in SUBSET Queries /\ Readers(c) \in SUBSET Queries
        /\ Len(buffer[c]) \in Nat
    BY DEF Typed, StreamTyped, Readers
  <2>5. /\ Cardinality(owed'[c]) = Cardinality(owed[c]) + 1
        /\ Cardinality(Readers(c)') = Cardinality(Readers(c)) + 1
    BY <1>w, <2>2, <2>3, <2>4, SubsetsAreCounted, FS_AddElement
  <2>6. \A p \in owed'[c] : conn'[p] = c \/ pc'[p] = "returned"
    BY <1>n, <1>w, <2>1, <2>4 DEF Balanced
  <2>7. c \in torn' => \E p \in Readers(c)' : pc'[p] = "misread"
    BY <1>a, <1>n, <2>1, <2>2, <2>4 DEF Balanced
  <2>8. c \notin torn' =>
          /\ half'[c] # Nobody => half'[c] \in Readers(c)'
          /\ Cardinality(owed'[c]) + Len(buffer'[c]) = Cardinality(Readers(c)')
    BY <1>a, <2>1, <2>2, <2>4, <2>5, SubsetsAreCounted DEF Balanced
  <2>9. QED
    BY <2>6, <2>7, <2>8 DEF Balanced
<1>8. PoolIsBalanced'
  <2>1. SUFFICES ASSUME NEW r \in Resolvers, pool'[r] # NoConnection
                 PROVE  Balanced(pool[r])'
    BY DEF PoolIsBalanced
  <2>2. CASE r = Resolver(q)
    BY <1>7, <2>2 DEF Typed
  <2>3. CASE r # Resolver(q)
    <3>1. pool'[r] = pool[r]
      BY <2>3 DEF Typed
    <3>2. PICK d \in Connections : d = pool[r]
      BY <2>1, <3>1 DEF Typed, MaybeConnection
    <3>3. Resolver(d[1]) = r /\ Balanced(d) /\ owed[d] \in SUBSET Queries
      BY <2>1, <3>1, <3>2 DEF PoolIsOwn, PoolIsBalanced, Typed, StreamTyped
    <3>4. d # c /\ conn[q] # d /\ owed'[d] = owed[d]
      BY <1>f, <1>w, <2>3, <3>3, ConnectionFacts
    <3>5. Balanced(d)'
      BY <1>a, <1>n, <3>3, <3>4, SameBalance
    <3>6. QED
      BY <3>1, <3>2, <3>5
  <2>4. QED
    BY <2>2, <2>3
<1>9. WaiterWaits'
  BY <1>a, <1>n DEF WaiterWaits, Typed, StreamTyped, MaybeQuery
<1>10. QED
  BY <1>1, <1>2, <1>3, <1>4, <1>5, <1>6, <1>8, <1>9

(* A step of the stream of one connection, and of those that read it.      *)
LEMMA StreamPreserves ==
  ASSUME IInv, NEW c \in Connections, ~Unopened(c),
         UNCHANGED <<args, phase, attempt, conn, pool, open>>, StreamTyped',
         pc' \in [Queries -> Steps],
         \A p \in Queries : \/ pc'[p] = pc[p]
                            \/ conn[p] = c /\ pc[p] \in Reading /\ pc'[p] \in Reading,
         \A d \in Connections \ {c} :
           /\ owed'[d] = owed[d] /\ buffer'[d] = buffer[d] /\ half'[d] = half[d]
           /\ d \in torn' <=> d \in torn,
         half'[c] # Nobody => buffer'[c] # <<>>,
         \A d \in Connections : waiter'[d] # Nobody =>
           conn[waiter'[d]] = d /\ pc'[waiter'[d]] = "waiting",
         Balanced(c) => Balanced(c)'
  PROVE  IInv'
<1>. USE DEF IInv
<1>1. Typed'
  BY DEF Typed
<1>2. ReadersHaveOne'
  BY DEF ReadersHaveOne, Reading
<1>3. PoolIsOwn' /\ HalfIsThere' /\ WaiterWaits'
  BY DEF PoolIsOwn, HalfIsThere, WaiterWaits
<1>4. RetriesLeft' /\ WarmupFirst'
  BY DEF RetriesLeft, WarmupFirst, Reading
<1>5. UnopenedAreUnused'
  <2>1. SUFFICES ASSUME NEW d \in Connections, Unopened(d)'
                 PROVE  Unused(d)'
    BY DEF UnopenedAreUnused
  <2>2. \A x \in Connections : Unopened(x)' <=> Unopened(x)
    BY ConnectionFacts DEF Unopened, BeforeOpening, Reading
  <2>3. Unused(d) /\ d # c
    BY <2>1, <2>2 DEF UnopenedAreUnused
  <2>4. QED
    BY <2>3 DEF Unused, Blank
<1>6. PoolIsBalanced'
  <2>1. SUFFICES ASSUME NEW r \in Resolvers, pool[r] # NoConnection
                 PROVE  Balanced(pool[r])'
    BY DEF PoolIsBalanced
  <2>2. PICK d \in Connections : d = pool[r]
    BY <2>1 DEF Typed, MaybeConnection
  <2>3. Balanced(d) /\ owed[d] \in SUBSET Queries
    BY <2>1, <2>2 DEF PoolIsBalanced, Typed, StreamTyped
  <2>4. CASE d = c
    BY <2>2, <2>3, <2>4
  <2>5. CASE d # c
    <3>1. /\ \A p \in Queries : conn[p] = d /\ pc[p] = "misread" => pc'[p] = "misread"
          /\ \A p \in Queries : pc[p] = "returned" => pc'[p] = "returned"
      BY <2>5 DEF Reading
    <3>2. Balanced(d)'
      BY <2>3, <2>5, <3>1, SameBalance
    <3>3. QED
      BY <2>2, <3>2
  <2>6. QED
    BY <2>4, <2>5
<1>7. QED
  BY <1>1, <1>2, <1>3, <1>4, <1>5, <1>6

-------------------------------------------------------------------------------
LEMMA InitEstablishes ==
  ASSUME Init
  PROVE  IInv
<1>1. args \in Arguments /\ args.retries \in Nat
  BY ScenariosAssumption, NumbersAssumption DEF Init, Arguments
<1>2. Typed
  <2>1. 0 \in 0 .. args.retries
    BY <1>1
  <2>2. attempt \in [Queries -> 0 .. args.retries]
    BY <2>1 DEF Init
  <2>3. pc \in [Queries -> Steps]
    BY DEF Init, Steps
  <2>4. <<>> \in Seq(Queries)
    OBVIOUS
  <2>5. StreamTyped
    BY <2>4 DEF Init, StreamTyped, MaybeQuery
  <2>6. QED
    BY <2>2, <2>3, <2>5 DEF Init, Typed, MaybeConnection
<1>3. ReadersHaveOne
  BY DEF Init, ReadersHaveOne, Reading
<1>4. PoolIsOwn /\ PoolIsBalanced /\ HalfIsThere /\ WaiterWaits
  BY DEF Init, PoolIsOwn, PoolIsBalanced, HalfIsThere, WaiterWaits
<1>5. RetriesLeft
  BY DEF Init, RetriesLeft
<1>6. UnopenedAreUnused
  BY ConnectionFacts DEF Init, UnopenedAreUnused, Unused, Blank
<1>7. WarmupFirst
  BY DEF Init, WarmupFirst, Warm
<1>8. QED
  BY <1>2, <1>3, <1>4, <1>5, <1>6, <1>7 DEF IInv

-------------------------------------------------------------------------------
LEMMA AdmitPreserves ==
  ASSUME IInv, NEW q \in Queries, Admit(q)
  PROVE  IInv'
<1>1. pc[q] = "queued" /\ conn[q] = NoConnection /\ args.protocol # "dot"
  BY DEF Admit, Acquire, IInv, ReadersHaveOne
<1>2. /\ UNCHANGED <<args, phase, attempt, connVars>>
      /\ pc' = [pc EXCEPT ![q] = "asking"]
  BY DEF Admit
<1>3. "asking" \in Steps \ {"new", "connecting"} /\ "asking" \notin BeforeOpening
  BY DEF Steps, Reading, BeforeOpening
<1>4. QED
  BY <1>1, <1>2, <1>3, QuietPreserves

LEMMA RetryPreserves ==
  ASSUME IInv, NEW q \in Queries, Retry(q)
  PROVE  IInv'
<1>1. pc[q] = "backoff" /\ conn[q] = NoConnection
  BY DEF Retry, IInv, ReadersHaveOne, Reading
<1>2. /\ UNCHANGED <<args, phase, connVars>>
      /\ pc' = [pc EXCEPT ![q] = "queued"]
      /\ attempt' = [attempt EXCEPT ![q] = @ + 1]
  BY DEF Retry
<1>3. "queued" \in Steps \ {"new", "connecting"} /\ "queued" \notin Reading
  BY DEF Steps, Reading
<1>4. QED
  BY <1>1, <1>2, <1>3, QuietPreserves

LEMMA ReplyPreserves ==
  ASSUME IInv, NEW q \in Queries, Reply(q) \/ ReplyDoh(q)
  PROVE  IInv'
<1>1. pc[q] = "asking" /\ conn[q] = NoConnection
  BY DEF Reply, ReplyDoh, IInv, ReadersHaveOne
<1>2. /\ UNCHANGED <<args, phase, attempt, connVars>>
      /\ pc' = [pc EXCEPT ![q] = "returned"]
  BY DEF Reply, ReplyDoh, Return
<1>3. /\ "returned" \in Steps \ {"new", "connecting"}
      /\ "returned" \notin BeforeOpening /\ "returned" \notin Reading
  BY DEF Steps, Reading, BeforeOpening
<1>4. QED
  BY <1>1, <1>2, <1>3, QuietPreserves

LEMMA BreakPreserves ==
  ASSUME IInv, NEW q \in Queries, NEW failure, Break(q, failure)
  PROVE  IInv'
<1>1. pc[q] \in {"connecting"} \cup Reading
  BY DEF Break, TimedOut, Inside
<1>s. pc[q] \notin {"new", "returned"}
  BY <1>1 DEF Reading
<1>2. CASE args.protocol = "dot"
  <2>1. FailDot(q, failure) /\ LeaveStream(q)
    BY <1>2 DEF Break
  <2>2. UNCHANGED <<open, owed, buffer, half, torn>>
    BY <2>1 DEF LeaveStream
  <2>3. waiter' \in [Connections -> MaybeQuery]
    BY <2>1 DEF LeaveStream, IInv, Typed, StreamTyped, MaybeQuery
  <2>4. ASSUME NEW d \in Connections, waiter'[d] # Nobody
        PROVE  waiter'[d] = waiter[d] /\ waiter[d] # q
    <3>1. waiter'[d] = waiter[d]
      BY <2>1, <2>4 DEF LeaveStream, IInv, Typed, StreamTyped
    <3>2. waiter[d] # Nobody /\ conn[waiter[d]] = d /\ pc[waiter[d]] = "waiting"
      BY <2>4, <3>1 DEF IInv, WaiterWaits
    <3>3. ASSUME waiter[d] = q
          PROVE  FALSE
      <4>1. waiter' = [waiter EXCEPT ![d] = Nobody]
        BY <2>1, <3>2, <3>3 DEF LeaveStream
      <4>2. QED
        BY <2>4, <4>1 DEF IInv, Typed, StreamTyped
    <3>4. QED
      BY <3>1, <3>3
  <2>5. QED
    BY <1>s, <2>1, <2>2, <2>3, <2>4, EvictionPreserves
<1>3. CASE args.protocol # "dot"
  <2>1. Fail(q, failure) /\ UNCHANGED connVars
    BY <1>3 DEF Break
  <2>2. conn[q] = NoConnection
    BY <1>3 DEF IInv, ReadersHaveOne
  <2>3. PICK s \in {"returned", "backoff"} :
          /\ pc' = [pc EXCEPT ![q] = s]
          /\ s = "backoff" => attempt[q] # args.retries
    BY <2>1, FailMoves DEF IInv
  <2>4. UNCHANGED <<args, phase, attempt>>
    BY <2>1, FailMoves DEF IInv
  <2>5. s \in Steps \ {"new", "connecting"} /\ s \notin BeforeOpening
    BY DEF Steps, BeforeOpening
  <2>6. QED
    BY <1>3, <1>s, <2>1, <2>2, <2>3, <2>4, <2>5, QuietPreserves
<1>4. QED
  BY <1>2, <1>3

-------------------------------------------------------------------------------
LEMMA AdmitDotPreserves ==
  ASSUME IInv, NEW q \in Queries, AdmitDot(q)
  PROVE  IInv'
<1>. DEFINE R == Resolver(q)
            c == pool[R]
<1>1. /\ pc[q] = "queued" /\ args.protocol = "dot" /\ open' = open
      /\ R \in Resolvers /\ Typed
  BY DEF AdmitDot, Acquire, Queries, Resolver, IInv
<1>4. CASE c \in open
  <2>1. c \in Connections /\ c # NoConnection
    BY <1>1, <1>4, ConnectionFacts DEF Typed
  <2>2. Resolver(c[1]) = R /\ ~Unopened(c)
    BY <1>1, <2>1 DEF IInv, PoolIsOwn, UnopenedAreUnused, Unused
  <2>3. Ask(q, c) /\ pool' = pool
    BY <1>4 DEF AdmitDot
  <2>4. pool' = [pool EXCEPT ![R] = c]
    BY <1>1, <2>3 DEF Typed
  <2>5. ~Unopened(c)'
    BY <1>1, <2>1, <2>2, <2>3, ConnectionFacts DEF Ask, Unopened, Typed, BeforeOpening
  <2>6. open' \subseteq Connections
    BY <1>1 DEF Typed
  <2>7. QED
    BY <1>1, <2>1, <2>2, <2>3, <2>4, <2>5, <2>6, AskPreserves
<1>5. CASE c \notin open
  <2>1. /\ pc' = [pc EXCEPT ![q] = "connecting"]
        /\ pool' = [pool EXCEPT ![R] = NoConnection]
        /\ UNCHANGED <<args, phase, attempt, conn, owed, buffer, waiter, half, torn>>
    BY <1>5 DEF AdmitDot, streamVars
  <2>2. Typed'
    BY <1>1, <2>1 DEF Typed, StreamTyped, Steps, MaybeConnection
  <2>3. ReadersHaveOne'
    BY <1>1, <2>1 DEF IInv, ReadersHaveOne, Typed, Reading
  <2>4. PoolIsOwn' /\ HalfIsThere'
    BY <1>1, <2>1 DEF IInv, HalfIsThere, PoolIsOwn, Typed
  <2>5. RetriesLeft' /\ WarmupFirst'
    BY <1>1, <2>1 DEF IInv, RetriesLeft, WarmupFirst, Typed
  <2>6. UnopenedAreUnused'
    <3>1. SUFFICES ASSUME NEW d \in Connections, Unopened(d)'
                   PROVE  Unused(d)'
      BY DEF UnopenedAreUnused
    <3>2. Unopened(d)
      BY <1>1, <2>1, <3>1, ConnectionFacts DEF Unopened, Typed, BeforeOpening
    <3>3. d # NoConnection /\ Unused(d)
      BY <3>2, ConnectionFacts DEF IInv, UnopenedAreUnused
    <3>4. QED
      BY <1>1, <2>1, <3>3 DEF Unused, Blank, Typed
  <2>7. WaiterWaits'
    BY <1>1, <2>1 DEF IInv, WaiterWaits, Typed, StreamTyped, MaybeQuery
  <2>8. PoolIsBalanced'
    <3>1. SUFFICES ASSUME NEW r \in Resolvers, pool'[r] # NoConnection
                   PROVE  Balanced(pool[r])' /\ pool'[r] = pool[r]
      BY DEF PoolIsBalanced
    <3>2. pool'[r] = pool[r]
      BY <1>1, <2>1, <3>1 DEF Typed
    <3>3. PICK d \in Connections : d = pool[r]
      BY <1>1, <3>1, <3>2 DEF Typed, MaybeConnection
    <3>4. Balanced(d) /\ owed[d] \in SUBSET Queries
      BY <3>1, <3>2, <3>3 DEF IInv, PoolIsBalanced, Typed, StreamTyped
    <3>5. \A p \in Queries : p # q => pc'[p] = pc[p]
      BY <1>1, <2>1 DEF Typed
    <3>6. Balanced(d)'
      BY <1>1, <2>1, <3>4, <3>5, SameBalance
    <3>7. QED
      BY <3>2, <3>3, <3>6
  <2>9. QED
    BY <2>2, <2>3, <2>4, <2>5, <2>6, <2>7, <2>8 DEF IInv
<1>6. QED
  BY <1>4, <1>5

(* A connection is new when it is opened: nothing was ever asked on it.    *)
LEMMA ConnectedPreserves ==
  ASSUME IInv, NEW q \in Queries, Connected(q)
  PROVE  IInv'
<1>1. /\ pc[q] = "connecting" /\ args.protocol = "dot"
      /\ Typed /\ attempt[q] \in 0 .. MaxRetries
  BY RetriesFacts DEF Connected, IInv, ReadersHaveOne
<1>c. PICK c \in Connections : c = <<q, attempt[q]>>
  BY <1>1 DEF Connections
<1>2. Unopened(c)
  BY <1>1, <1>c DEF Unopened, BeforeOpening
<1>3. Unused(c)
  BY <1>2 DEF IInv, UnopenedAreUnused
<1>4. /\ pool' = [pool EXCEPT ![Resolver(q)] = c] /\ Ask(q, c)
      /\ open' = open \cup {c}
  BY <1>c DEF Connected
<1>5. Resolver(c[1]) = Resolver(q)
  BY <1>c
<1>6. ~Unopened(c)'
  BY <1>1, <1>c, <1>4, NumbersAssumption DEF Ask, Unopened, Typed, BeforeOpening
<1>7. open' \subseteq Connections
  BY <1>1, <1>4 DEF Typed
<1>8. QED
  BY <1>1, <1>3, <1>4, <1>5, <1>6, <1>7, AskPreserves

-------------------------------------------------------------------------------
(* The steps on a stream. *)

LEMMA ReaderFacts ==
  ASSUME IInv, NEW q \in Queries, CanRead(q)
  PROVE  /\ conn[q] \in Connections /\ ~Unopened(conn[q])
         /\ q \in Readers(conn[q]) /\ pc[q] \in Reading
<1>1. pc[q] \in Reading /\ args.protocol = "dot"
  BY DEF CanRead, Reading
<1>2. conn[q] \in Connections
  BY <1>1 DEF IInv, ReadersHaveOne, Typed, MaybeConnection
<1>3. QED
  BY <1>1, <1>2 DEF IInv, UnopenedAreUnused, Unused, Readers

LEMMA ArrivePreserves ==
  ASSUME IInv, NEW c \in Connections, Arrive(c)
  PROVE  IInv'
<1>t. Typed /\ StreamTyped /\ WaiterWaits
  BY DEF IInv, Typed
<1>1. PICK of \in owed[c] :
        /\ owed' = [owed EXCEPT ![c] = @ \ {of}]
        /\ buffer' = [buffer EXCEPT ![c] = Append(@, of)]
        /\ waiter' = [waiter EXCEPT ![c] = Nobody]
        /\ pc' = [q \in Queries |-> IF q = waiter[c] THEN "woken" ELSE pc[q]]
        /\ UNCHANGED <<args, phase, attempt, conn, pool, open, half, torn>>
  BY DEF Arrive
<1>2. of \in Queries /\ owed[c] \in SUBSET Queries /\ buffer[c] \in Seq(Queries)
  BY <1>t DEF StreamTyped
<1>3. ~Unopened(c)
  BY <1>1 DEF IInv, UnopenedAreUnused, Unused, Blank
<1>a. /\ Len(Append(buffer[c], of)) = Len(buffer[c]) + 1 /\ Len(buffer[c]) \in Nat
      /\ Append(buffer[c], of) # <<>>
  BY <1>2
<1>4. /\ owed'[c] = owed[c] \ {of} /\ buffer'[c] = Append(buffer[c], of)
      /\ Len(buffer'[c]) = Len(buffer[c]) + 1 /\ Len(buffer[c]) \in Nat
      /\ buffer'[c] # <<>>
  BY <1>t, <1>1, <1>a DEF StreamTyped
<1>5. StreamTyped'
  <2>1. buffer' \in [Connections -> Seq(Queries)]
    BY <1>t, <1>1, <1>2 DEF StreamTyped
  <2>2. QED
    BY <1>t, <1>1, <2>1 DEF StreamTyped, MaybeQuery
<1>6. /\ pc' \in [Queries -> Steps]
      /\ \A p \in Queries : \/ pc'[p] = pc[p]
                            \/ conn[p] = c /\ pc[p] \in Reading /\ pc'[p] \in Reading
  BY <1>t, <1>1, NobodyFacts DEF Typed, WaiterWaits, Steps, Reading
<1>7. ASSUME NEW d \in Connections, waiter'[d] # Nobody
      PROVE  conn[waiter'[d]] = d /\ pc'[waiter'[d]] = "waiting"
  <2>1. d # c /\ waiter'[d] = waiter[d]
    BY <1>t, <1>1, <1>7 DEF StreamTyped
  <2>2. conn[waiter[d]] = d /\ pc[waiter[d]] = "waiting" /\ waiter[d] \in Queries
    BY <1>t, <1>7, <2>1 DEF WaiterWaits, StreamTyped, MaybeQuery
  <2>3. waiter[d] # waiter[c]
    BY <1>t, <2>1, <2>2, NobodyFacts DEF WaiterWaits
  <2>4. QED
    BY <1>1, <2>1, <2>2, <2>3
<1>8. ASSUME Balanced(c)
      PROVE  Balanced(c)'
  <2>1. Cardinality(owed'[c]) = Cardinality(owed[c]) - 1
    BY <1>1, <1>2, <1>4, SubsetsAreCounted, FS_RemoveElement
  <2>2. Readers(c)' = Readers(c) /\ Cardinality(owed[c]) \in Nat
    BY <1>1, <1>2, SubsetsAreCounted DEF Readers
  <2>3. \A p \in owed'[c] : conn'[p] = c \/ pc'[p] = "returned"
    BY <1>1, <1>2, <1>4, <1>6, <1>8 DEF Balanced, Reading
  <2>4. c \in torn' => \E p \in Readers(c)' : pc'[p] = "misread"
    <3>1. \A p \in Queries : pc[p] = "misread" => p # waiter[c]
      BY <1>t, NobodyFacts DEF WaiterWaits
    <3>2. QED
      BY <1>1, <1>8, <2>2, <3>1 DEF Balanced, Readers
  <2>5. c \notin torn' =>
          /\ half'[c] # Nobody => half'[c] \in Readers(c)'
          /\ Cardinality(owed'[c]) + Len(buffer'[c]) = Cardinality(Readers(c)')
    BY <1>1, <1>4, <1>8, <2>1, <2>2 DEF Balanced
  <2>6. QED
    BY <2>3, <2>4, <2>5 DEF Balanced
<1>9. \A d \in Connections \ {c} :
        /\ owed'[d] = owed[d] /\ buffer'[d] = buffer[d] /\ half'[d] = half[d]
        /\ d \in torn' <=> d \in torn
  BY <1>t, <1>1 DEF StreamTyped
<1>10. QED
  BY <1>1, <1>3, <1>4, <1>5, <1>6, <1>7, <1>8, <1>9, StreamPreserves

(* A reader goes on reading: whoever waits on the stream still does.       *)
LEMMA ReaderPreserves ==
  ASSUME IInv, NEW q \in Queries, CanRead(q), NEW s \in Reading,
         pc' = [pc EXCEPT ![q] = s],
         \/ waiter' = [waiter EXCEPT ![conn[q]] = WaiterOf(q)]
         \/ s = "waiting" /\ waiter' = [waiter EXCEPT ![conn[q]] = q],
         UNCHANGED <<args, phase, attempt, conn, pool, open, owed, buffer>>,
         \/ UNCHANGED <<half, torn>>
         \/ /\ half' = [half EXCEPT ![conn[q]] = q] /\ torn' = torn
            /\ buffer[conn[q]] # <<>>
         \/ s = "misread" /\ torn' = torn \cup {conn[q]} /\ half' = half
  PROVE  IInv'
<1>t. Typed /\ StreamTyped /\ WaiterWaits /\ HalfIsThere
  BY DEF IInv, Typed
<1>r. PICK c \in Connections :
        c = conn[q] /\ ~Unopened(c) /\ q \in Readers(c) /\ pc[q] \in Reading
  BY ReaderFacts
<1>n. /\ pc' \in [Queries -> Steps] /\ pc'[q] = s
      /\ \A p \in Queries : p # q => pc'[p] = pc[p]
  BY <1>t DEF Typed, Steps
<1>1. WaiterOf(q) \in {waiter[c], Nobody} /\ WaiterOf(q) # q
  BY <1>t, <1>r, NobodyFacts DEF WaiterOf, CanRead, WaiterWaits, StreamTyped
<1>2. StreamTyped'
  <2>1. half' \in [Connections -> MaybeQuery] /\ torn' \subseteq Connections
    BY <1>t, <1>r DEF StreamTyped, MaybeQuery
  <2>2. waiter' \in [Connections -> MaybeQuery]
    BY <1>t, <1>r, <1>1 DEF StreamTyped, MaybeQuery
  <2>3. QED
    BY <1>t, <2>1, <2>2 DEF StreamTyped
<1>3. ASSUME NEW d \in Connections, waiter'[d] # Nobody
      PROVE  conn[waiter'[d]] = d /\ pc'[waiter'[d]] = "waiting"
  <2>1. CASE waiter'[d] = q
    <3>1. d = c
      BY <1>t, <1>r, <1>1, <2>1, <1>3 DEF StreamTyped, WaiterWaits
    <3>2. s = "waiting"
      BY <1>t, <1>r, <1>1, <2>1, <3>1 DEF StreamTyped
    <3>3. QED
      BY <1>n, <1>r, <2>1, <3>1, <3>2
  <2>2. CASE waiter'[d] # q
    <3>1. waiter'[d] = waiter[d] /\ waiter[d] \in Queries
      BY <1>t, <1>r, <1>1, <1>3, <2>2 DEF StreamTyped, MaybeQuery
    <3>2. QED
      BY <1>t, <1>n, <1>3, <2>2, <3>1 DEF WaiterWaits
  <2>3. QED
    BY <2>1, <2>2
<1>4. \A d \in Connections \ {c} :
        /\ owed'[d] = owed[d] /\ buffer'[d] = buffer[d] /\ half'[d] = half[d]
        /\ d \in torn' <=> d \in torn
  BY <1>t, <1>r DEF StreamTyped
<1>5. half'[c] # Nobody => buffer'[c] # <<>>
  BY <1>t, <1>r DEF HalfIsThere, StreamTyped
<1>6. ASSUME Balanced(c)
      PROVE  Balanced(c)'
  <2>1. Readers(c)' = Readers(c)
    BY DEF Readers
  <2>2. owed[c] \in SUBSET Queries
    BY <1>t, <1>r DEF StreamTyped
  <2>3. \A p \in owed'[c] : conn'[p] = c \/ pc'[p] = "returned"
    BY <1>n, <1>r, <1>6, <2>2 DEF Balanced, Readers
  <2>4. c \in torn' => \E p \in Readers(c)' : pc'[p] = "misread"
    <3>1. CASE c \in torn
      <4>1. PICK p \in Readers(c) : pc[p] = "misread"
        BY <1>6, <3>1 DEF Balanced
      <4>2. p # q /\ p \in Queries
        BY <4>1 DEF CanRead, Readers
      <4>3. QED
        BY <1>n, <2>1, <4>1, <4>2
    <3>2. CASE c \notin torn
      BY <1>n, <1>r, <2>1, <3>2
    <3>3. QED
      BY <3>1, <3>2
  <2>5. c \notin torn' =>
          /\ half'[c] # Nobody => half'[c] \in Readers(c)'
          /\ Cardinality(owed'[c]) + Len(buffer'[c]) = Cardinality(Readers(c)')
    BY <1>t, <1>r, <1>6, <2>1 DEF Balanced, StreamTyped
  <2>6. QED
    BY <2>3, <2>4, <2>5 DEF Balanced
<1>7. \A p \in Queries : \/ pc'[p] = pc[p]
                         \/ conn[p] = c /\ pc[p] \in Reading /\ pc'[p] \in Reading
  BY <1>n, <1>r
<1>8. QED
  BY <1>n, <1>r, <1>2, <1>3, <1>4, <1>5, <1>6, <1>7, StreamPreserves

LEMMA ReadPreserves ==
  ASSUME IInv, NEW q \in Queries, Wait(q) \/ ReadLength(q) \/ Misread(q)
  PROVE  IInv'
<1>1. CASE Wait(q)
  <2>1. "waiting" \in Reading
    BY DEF Reading
  <2>2. QED
    BY <1>1, <2>1, ReaderPreserves DEF Wait
<1>2. CASE ReadLength(q)
  <2>s. PICK s \in Reading : s = "asking"
    BY DEF Reading
  <2>1. /\ CanRead(q) /\ pc' = [pc EXCEPT ![q] = s]
        /\ waiter' = [waiter EXCEPT ![conn[q]] = WaiterOf(q)]
        /\ UNCHANGED <<args, phase, attempt, conn, pool, open, owed, buffer>>
        /\ half' = [half EXCEPT ![conn[q]] = q] /\ torn' = torn
        /\ buffer[conn[q]] # <<>>
    BY <1>2, <2>s DEF ReadLength, WaiterSeen
  <2>2. QED
    BY <2>s, <2>1, ReaderPreserves
<1>3. CASE Misread(q)
  <2>s. PICK s \in Reading : s = "misread"
    BY DEF Reading
  <2>1. /\ CanRead(q) /\ pc' = [pc EXCEPT ![q] = s]
        /\ waiter' = [waiter EXCEPT ![conn[q]] = WaiterOf(q)]
        /\ UNCHANGED <<args, phase, attempt, conn, pool, open, owed, buffer>>
        /\ torn' = torn \cup {conn[q]} /\ half' = half
    BY <1>3, <2>s DEF Misread, WaiterSeen
  <2>2. QED
    BY <2>s, <2>1, ReaderPreserves
<1>4. QED
  BY <1>1, <1>2, <1>3

LEMMA RefusePreserves ==
  ASSUME IInv, NEW q \in Queries, Refuse(q)
  PROVE  IInv'
<1>1. CanRead(q) /\ WaiterOf(q) # Nobody /\ FailDot(q, "refused")
      /\ UNCHANGED <<open, owed, buffer, waiter, half, torn>>
  BY DEF Refuse, streamVars
<1>2. pc[q] = "asking"
  BY <1>1 DEF CanRead, WaiterOf
<1>3. \A d \in Connections : waiter[d] # q
  BY <1>2, NobodyFacts DEF IInv, WaiterWaits
<1>4. waiter' \in [Connections -> MaybeQuery]
  BY <1>1 DEF IInv, Typed, StreamTyped
<1>5. QED
  BY <1>1, <1>2, <1>3, <1>4, EvictionPreserves

(* A reply is read: the query returns and leaves its connection.           *)
LEMMA ReadReplyPreserves ==
  ASSUME IInv, NEW q \in Queries, ReadReply(q)
  PROVE  IInv'
<1>t. Typed /\ StreamTyped /\ WaiterWaits
  BY DEF IInv, Typed
<1>r. PICK c \in Connections :
        c = conn[q] /\ ~Unopened(c) /\ q \in Readers(c) /\ CanRead(q)
  BY ReaderFacts DEF ReadReply
<1>1. /\ pc' = [pc EXCEPT ![q] = "returned"]
      /\ buffer' = [buffer EXCEPT ![c] = Tail(@)]
      /\ half' = [half EXCEPT ![c] = Nobody]
      /\ conn' = [conn EXCEPT ![q] = NoConnection]
      /\ UNCHANGED <<args, phase, attempt, pool, open, owed, waiter, torn>>
  BY <1>r DEF ReadReply, Return
<1>2. /\ c \notin torn /\ buffer[c] # <<>> /\ buffer[c] \in Seq(Queries)
      /\ pc[q] \in {"asking", "woken"}
  BY <1>t, <1>r, NobodyFacts DEF ReadReply, CanRead, IInv, HalfIsThere, StreamTyped
<1>n. /\ pc' \in [Queries -> Steps] /\ pc'[q] = "returned"
      /\ conn' \in [Queries -> MaybeConnection] /\ conn'[q] = NoConnection
      /\ \A p \in Queries : p # q => pc'[p] = pc[p] /\ conn'[p] = conn[p]
  BY <1>t, <1>1 DEF Typed, Steps, MaybeConnection
<1>b. /\ Tail(buffer[c]) \in Seq(Queries)
      /\ Len(Tail(buffer[c])) = Len(buffer[c]) - 1 /\ Len(buffer[c]) \in Nat
  BY <1>2
<1>w. /\ buffer'[c] = Tail(buffer[c]) /\ buffer' \in [Connections -> Seq(Queries)]
      /\ half'[c] = Nobody /\ half' \in [Connections -> MaybeQuery]
      /\ \A d \in Connections \ {c} : buffer'[d] = buffer[d] /\ half'[d] = half[d]
  BY <1>t, <1>1, <1>r, <1>b DEF StreamTyped, MaybeQuery
<1>3. Typed'
  BY <1>t, <1>1, <1>n, <1>w DEF Typed, StreamTyped
<1>4. ReadersHaveOne'
  BY <1>1, <1>n DEF IInv, ReadersHaveOne, Reading
<1>5. PoolIsOwn' /\ HalfIsThere'
  BY <1>1, <1>w DEF IInv, HalfIsThere, PoolIsOwn
<1>6. RetriesLeft' /\ WarmupFirst'
  BY <1>1, <1>2, <1>n DEF IInv, RetriesLeft, WarmupFirst
<1>7. UnopenedAreUnused'
  <2>1. SUFFICES ASSUME NEW d \in Connections, Unopened(d)'
                 PROVE  Unused(d)'
    BY DEF UnopenedAreUnused
  <2>2. Unopened(d) /\ d # c
    BY <1>1, <1>2, <1>n, <1>r, <2>1, ConnectionFacts DEF Unopened, BeforeOpening
  <2>3. d # NoConnection /\ Unused(d)
    BY <2>2, ConnectionFacts DEF IInv, UnopenedAreUnused
  <2>4. QED
    BY <1>1, <1>n, <1>w, <2>2, <2>3 DEF Unused, Blank
<1>8. WaiterWaits'
  BY <1>t, <1>1, <1>2, <1>n DEF WaiterWaits, StreamTyped, MaybeQuery
<1>9. Balanced(c) => Balanced(c)'
  <2>1. SUFFICES ASSUME Balanced(c)
                 PROVE  Balanced(c)'
    OBVIOUS
  <2>2. Readers(c)' = Readers(c) \ {q}
    <3>1. c # NoConnection /\ Readers(c)' = {p \in Queries : conn'[p] = c}
      BY <1>r, ConnectionFacts DEF Readers
    <3>2. QED
      BY <1>n, <1>r, <3>1 DEF Readers
  <2>3. Cardinality(Readers(c)') = Cardinality(Readers(c)) - 1
    BY <1>r, <2>2, SubsetsAreCounted, FS_RemoveElement DEF Readers
  <2>4. /\ Cardinality(Readers(c)) \in Nat /\ Cardinality(owed[c]) \in Nat
        /\ owed[c] \in SUBSET Queries
    BY <1>t, <1>r, SubsetsAreCounted DEF Readers, StreamTyped
  <2>5. \A p \in owed'[c] : conn'[p] = c \/ pc'[p] = "returned"
    BY <1>1, <1>n, <2>1, <2>4 DEF Balanced
  <2>6. Cardinality(owed'[c]) + Len(buffer'[c]) = Cardinality(Readers(c)')
    BY <1>1, <1>2, <1>b, <1>w, <2>1, <2>3, <2>4 DEF Balanced
  <2>7. QED
    BY <1>1, <1>2, <1>w, <2>5, <2>6 DEF Balanced
<1>10. PoolIsBalanced'
  <2>1. SUFFICES ASSUME NEW r \in Resolvers, pool[r] # NoConnection
                 PROVE  Balanced(pool[r])'
    BY <1>1 DEF PoolIsBalanced
  <2>2. PICK d \in Connections : d = pool[r]
    BY <1>t, <2>1 DEF Typed, MaybeConnection
  <2>3. Balanced(d) /\ owed[d] \in SUBSET Queries
    BY <1>t, <2>1, <2>2 DEF IInv, PoolIsBalanced, StreamTyped
  <2>4. CASE d = c
    <3>1. Balanced(d)'
      BY <1>9, <2>3, <2>4
    <3>2. QED
      BY <1>1, <2>2, <3>1
  <2>5. CASE d # c
    <3>1. /\ owed'[d] = owed[d] /\ buffer'[d] = buffer[d] /\ half'[d] = half[d]
          /\ d \in torn' <=> d \in torn
      BY <1>1, <1>w, <2>5
    <3>2. \A p \in Queries : conn'[p] = d <=> conn[p] = d
      BY <1>n, <1>r, <2>5, ConnectionFacts
    <3>3. /\ \A p \in Queries : conn[p] = d /\ pc[p] = "misread" => pc'[p] = "misread"
          /\ \A p \in Queries : pc[p] = "returned" => pc'[p] = "returned"
      BY <1>n, <1>r, <2>5
    <3>4. Balanced(d)'
      BY <2>3, <3>1, <3>2, <3>3, SameBalance
    <3>5. QED
      BY <1>1, <2>2, <3>4
  <2>6. QED
    BY <2>4, <2>5
<1>11. QED
  BY <1>3, <1>4, <1>5, <1>6, <1>7, <1>8, <1>10 DEF IInv

-------------------------------------------------------------------------------
(* The steps of no reader, of the pool and of run_benchmark.               *)
LEMMA RestPreserves ==
  ASSUME IInv, UNCHANGED <<args, pc, attempt, conn, owed, streamVars>>,
         phase' = "warmup" => phase = "warmup", open' \subseteq open,
         pool' = pool \/ pool' = [r \in Resolvers |-> NoConnection]
  PROVE  IInv'
<1>. USE DEF IInv, streamVars
<1>1. Typed'
  BY DEF Typed, StreamTyped, MaybeConnection
<1>2. ReadersHaveOne' /\ RetriesLeft' /\ WarmupFirst' /\ HalfIsThere' /\ WaiterWaits'
  BY DEF ReadersHaveOne, RetriesLeft, WarmupFirst, HalfIsThere, WaiterWaits
<1>3. PoolIsOwn'
  BY DEF PoolIsOwn
<1>4. UnopenedAreUnused'
  BY ConnectionFacts DEF UnopenedAreUnused, Unopened, Unused, Blank
<1>5. PoolIsBalanced'
  <2>1. SUFFICES ASSUME NEW r \in Resolvers, pool'[r] # NoConnection
                 PROVE  Balanced(pool[r])' /\ pool'[r] = pool[r]
    BY DEF PoolIsBalanced
  <2>2. pool'[r] = pool[r]
    BY <2>1
  <2>3. PICK d \in Connections : d = pool[r]
    BY <2>1, <2>2 DEF Typed, MaybeConnection
  <2>4. Balanced(d) /\ owed[d] \in SUBSET Queries
    BY <2>1, <2>2, <2>3 DEF PoolIsBalanced, Typed, StreamTyped
  <2>5. Balanced(d)'
    BY <2>4, SameBalance
  <2>6. QED
    BY <2>2, <2>3, <2>5
<1>6. QED
  BY <1>1, <1>2, <1>3, <1>4, <1>5

(* When the warm-up returned no query is alive, and none reads.            *)
LEMMA EndWarmupPreserves ==
  ASSUME IInv, EndWarmup
  PROVE  IInv'
<1>. USE DEF connVars, streamVars
<1>1. /\ UNCHANGED <<args, attempt, conn, pool, open, owed, buffer, waiter, half, torn>>
      /\ phase' # "warmup" /\ Typed
      /\ \A q \in Queries : q[3] # 0 => pc[q] = "new"
  BY DEF EndWarmup, IInv, WarmupFirst
<1>a. Typed /\ Live = {} /\ ReadersHaveOne
  BY DEF EndWarmup, IInv
<1>2. \A q \in Queries : pc[q] \in {"new", "returned"} /\ conn[q] = NoConnection
  BY <1>a DEF Live, Inside, ReadersHaveOne, Typed, Steps, Reading
<1>3. \A q \in Measured : q \in Queries => q[3] # 0
  BY ScenariosAssumption DEF Measured, IInv, Typed, Arguments
<1>4. Hits(Measured) \subseteq Measured
  BY DEF Hits
<1>5. /\ pc' \in [Queries -> Steps]
      /\ \A q \in Queries : pc'[q] \in {"new", "queued", "returned"}
      /\ \A q \in Queries : pc'[q] \in {"new", "queued"} => pc[q] = "new"
      /\ \A q \in Queries : pc[q] = "returned" => pc'[q] = "returned"
  BY <1>1, <1>2, <1>3, <1>4 DEF EndWarmup, Steps
<1>6. Typed'
  BY <1>1, <1>5 DEF Typed, StreamTyped
<1>7. ReadersHaveOne' /\ PoolIsOwn' /\ HalfIsThere'
  BY <1>1, <1>2, <1>5 DEF IInv, ReadersHaveOne, PoolIsOwn, HalfIsThere, Reading
<1>8. RetriesLeft' /\ WarmupFirst'
  BY <1>1, <1>5 DEF RetriesLeft, WarmupFirst
<1>9. WaiterWaits'
  BY <1>1, <1>2, ConnectionFacts
     DEF IInv, WaiterWaits, Typed, StreamTyped, MaybeQuery
<1>10. UnopenedAreUnused'
  <2>1. SUFFICES ASSUME NEW d \in Connections, Unopened(d)'
                 PROVE  Unopened(d)
    BY <1>1 DEF IInv, UnopenedAreUnused, Unused, Blank
  <2>2. QED
    BY <1>1, <1>5, <2>1, ConnectionFacts DEF Unopened, BeforeOpening
<1>11. PoolIsBalanced'
  <2>1. SUFFICES ASSUME NEW r \in Resolvers, pool[r] # NoConnection
                 PROVE  Balanced(pool[r])'
    BY <1>1 DEF PoolIsBalanced
  <2>2. PICK d \in Connections : d = pool[r]
    BY <1>1, <2>1 DEF Typed, MaybeConnection
  <2>3. Balanced(d) /\ owed[d] \in SUBSET Queries
    BY <1>1, <2>1, <2>2 DEF IInv, PoolIsBalanced, Typed, StreamTyped
  <2>4. \A p \in Queries : conn[p] # d
    BY <1>2, ConnectionFacts
  <2>5. Balanced(d)'
    BY <1>1, <1>5, <2>3, <2>4, SameBalance
  <2>6. QED
    BY <1>1, <2>2, <2>5
<1>12. QED
  BY <1>6, <1>7, <1>8, <1>9, <1>10, <1>11 DEF IInv

-------------------------------------------------------------------------------
LEMMA StepPreserves ==
  ASSUME IInv, NEW q \in Queries, Step(q)
  PROVE  IInv'
<1>1. CASE Admit(q)
  BY <1>1, AdmitPreserves
<1>2. CASE AdmitDot(q)
  BY <1>2, AdmitDotPreserves
<1>3. CASE Retry(q)
  BY <1>3, RetryPreserves
<1>4. CASE Connected(q)
  BY <1>4, ConnectedPreserves
<1>5. CASE Reply(q) \/ ReplyDoh(q)
  BY <1>5, ReplyPreserves
<1>6. CASE Wait(q) \/ ReadLength(q) \/ Misread(q)
  BY <1>6, ReadPreserves
<1>7. CASE Refuse(q)
  BY <1>7, RefusePreserves
<1>8. CASE ReadReply(q)
  BY <1>8, ReadReplyPreserves
<1>9. CASE \E failure \in Errors : Break(q, failure)
  BY <1>9, BreakPreserves
<1>10. QED
  BY <1>1, <1>2, <1>3, <1>4, <1>5, <1>6, <1>7, <1>8, <1>9 DEF Step, Start

LEMMA NextPreserves ==
  ASSUME IInv, [Next]_vars
  PROVE  IInv'
<1>1. CASE \E q \in Queries : Step(q)
  BY <1>1, StepPreserves
<1>2. CASE \E c \in Connections : Arrive(c)
  BY <1>2, ArrivePreserves
<1>3. CASE \E c \in Connections : PeerCloses(c)
  BY <1>3, RestPreserves DEF PeerCloses, taskVars
<1>4. CASE EndWarmup
  BY <1>4, EndWarmupPreserves
<1>5. CASE EndRun \/ Close
  BY <1>5, RestPreserves DEF EndRun, Close, taskVars, connVars
<1>6. CASE UNCHANGED vars
  BY <1>6, RestPreserves DEF vars, taskVars, connVars
<1>7. QED
  BY <1>1, <1>2, <1>3, <1>4, <1>5, <1>6 DEF Next, Run

(* Every state of the engine is typed, its connections are read by queries *)
(* of their own resolver, each attempt opens one nobody used before, and   *)
(* the pooled ones are balanced.                                           *)
THEOREM Invariance == Spec => []IInv
<1>1. Init => IInv
  BY InitEstablishes
<1>2. IInv /\ [Next]_vars => IInv'
  BY NextPreserves
<1>3. QED
  BY <1>1, <1>2, PTL DEF Spec

-------------------------------------------------------------------------------
(* A connection that no query reads is as good as new if it is pooled.     *)
LEMMA BalancedIsClean ==
  ASSUME IInv, NEW r \in Resolvers, pool[r] # NoConnection, Readers(pool[r]) = {}
  PROVE  Blank(pool[r]) /\ pool[r] \in Connections
<1>1. PICK c \in Connections : c = pool[r]
  BY DEF IInv, Typed, MaybeConnection
<1>2. Balanced(c) /\ Readers(c) = {}
  BY <1>1 DEF IInv, PoolIsBalanced
<1>3. /\ c \notin torn /\ half[c] = Nobody
      /\ Cardinality(owed[c]) + Len(buffer[c]) = 0
  BY <1>2, FS_EmptySet DEF Balanced
<1>4. owed[c] \in SUBSET Queries /\ buffer[c] \in Seq(Queries)
  BY DEF IInv, Typed, StreamTyped
<1>5. /\ IsFiniteSet(owed[c]) /\ Cardinality(owed[c]) \in Nat
      /\ Len(buffer[c]) \in Nat
  BY <1>4, SubsetsAreCounted
<1>6. Cardinality(owed[c]) = 0 /\ Len(buffer[c]) = 0
  BY <1>3, <1>5
<1>7. owed[c] = {}
  BY <1>5, <1>6, FS_EmptySet
<1>8. buffer[c] = <<>>
  BY <1>4, <1>6
<1>9. QED
  BY <1>1, <1>3, <1>7, <1>8 DEF Blank

(* With one slot one query is inside at a time, and whatever its           *)
(* connection owes or has is its own.                                      *)
Own(q, c) == owed[c] \subseteq {q} /\ buffer[c] \in Seq({q})

Alone ==
  /\ \A p, q \in Inside : p = q
  /\ \A q \in Queries : conn[q] # NoConnection => Own(q, conn[q])
  /\ OwnReply

Sequential == DOMAIN result = Queries /\ (args.slots = 1 => Alone)

(* A step in which no query gets inside.                                   *)
LEMMA AloneStays ==
  ASSUME IInv, Sequential, args' = args, Inside' \subseteq Inside,
         DOMAIN result' = Queries,
         \A q \in Queries : conn'[q] \in {conn[q], NoConnection},
         \A q \in Queries, c \in Connections : Own(q, c) => Own(q, c)',
         Alone => \A q \in Queries : result'[q].of \in {result[q].of, q, Nobody}
  PROVE  Sequential'
<1>1. SUFFICES ASSUME Alone
               PROVE  Alone'
  BY DEF Sequential
<1>2. \A p, q \in Inside' : p = q
  BY <1>1 DEF Alone
<1>3. OwnReply'
  BY <1>1 DEF Alone, OwnReply
<1>4. ASSUME NEW q \in Queries, conn'[q] # NoConnection
      PROVE  Own(q, conn[q])' /\ conn'[q] = conn[q]
  <2>1. conn'[q] = conn[q]
    BY <1>4
  <2>2. PICK c \in Connections : c = conn[q]
    BY <1>4, <2>1 DEF IInv, Typed, MaybeConnection
  <2>3. Own(q, c)'
    BY <1>1, <1>4, <2>1, <2>2 DEF Alone
  <2>4. QED
    BY <2>1, <2>2, <2>3
<1>5. QED
  BY <1>2, <1>3, <1>4 DEF Alone

(* A step in which a query gets inside, or goes on there to a connection.  *)
LEMMA AloneEnters ==
  ASSUME IInv, Sequential, NEW q \in Queries, args' = args, result' = result,
         args.slots = 1 => Inside \subseteq {q}, Inside' \subseteq Inside \cup {q},
         \A p \in Queries : p # q => conn'[p] = conn[p],
         args.slots = 1 /\ conn'[q] # NoConnection => Own(q, conn[q])'
  PROVE  Sequential'
<1>1. SUFFICES ASSUME args.slots = 1, Alone
               PROVE  Alone'
  BY DEF Sequential
<1>2. \A p, s \in Inside' : p = s
  BY <1>1
<1>3. OwnReply'
  BY <1>1 DEF Alone, OwnReply
<1>4. ASSUME NEW p \in Queries, p # q
      PROVE  conn'[p] = NoConnection
  <2>1. p \notin Inside
    BY <1>1, <1>4
  <2>2. QED
    BY <1>4, <2>1 DEF IInv, ReadersHaveOne, Inside
<1>5. QED
  BY <1>1, <1>2, <1>3, <1>4 DEF Alone

LEMMA OwnAfter ==
  ASSUME NEW q, NEW c \in Connections, StreamTyped,
         UNCHANGED <<owed, buffer>>, Own(q, c)
  PROVE  Own(q, c)'
BY DEF Own

LEMMA AdmitAlone ==
  ASSUME IInv, Sequential, NEW q \in Queries, Admit(q) \/ AdmitDot(q)
  PROVE  Sequential'
<1>t. Typed /\ pc[q] = "queued" /\ Cardinality(Inside) < args.slots
  BY DEF IInv, Admit, AdmitDot, Acquire
<1>1. args.slots = 1 => Inside = {}
  <2>1. Inside \in SUBSET Queries
    BY DEF Inside
  <2>2. IsFiniteSet(Inside) /\ Cardinality(Inside) \in Nat
    BY <2>1, SubsetsAreCounted
  <2>3. SUFFICES ASSUME args.slots = 1
                 PROVE  Cardinality(Inside) = 0
    BY <2>2, FS_EmptySet
  <2>4. QED
    BY <1>t, <2>2, <2>3
<1>2. /\ args' = args /\ result' = result
      /\ \A p \in Queries : p # q => conn'[p] = conn[p] /\ pc'[p] = pc[p]
  BY <1>t DEF Admit, AdmitDot, Ask, connVars, Typed
<1>3. Inside' \subseteq Inside \cup {q}
  BY <1>2 DEF Inside
<1>4. ASSUME args.slots = 1, conn'[q] # NoConnection
      PROVE  Own(q, conn[q])'
  <2>1. conn[q] = NoConnection /\ conn' # conn
    BY <1>t, <1>4 DEF IInv, ReadersHaveOne, Reading
  <2>2. /\ AdmitDot(q) /\ pool[Resolver(q)] \in open
        /\ Ask(q, pool[Resolver(q)])
    BY <2>1 DEF Admit, AdmitDot, connVars
  <2>3. Resolver(q) \in Resolvers
    BY DEF Queries, Resolver
  <2>4. PICK c \in Connections : c = pool[Resolver(q)]
    BY <1>t, <2>2 DEF Typed
  <2>5. Readers(c) = {}
    <3>1. \A p \in Queries : conn[p] = NoConnection
      BY <1>1, <1>4 DEF IInv, ReadersHaveOne, Inside
    <3>2. QED
      BY <3>1, ConnectionFacts DEF Readers
  <2>6. Blank(c)
    BY <2>3, <2>4, <2>5, BalancedIsClean, ConnectionFacts
  <2>7. owed'[c] = {q} /\ buffer'[c] = <<>> /\ conn'[q] = c
    BY <1>t, <2>2, <2>4, <2>6 DEF Ask, streamVars, Blank, Typed, StreamTyped
  <2>8. Own(q, c)'
    BY <2>7 DEF Own
  <2>9. QED
    BY <2>7, <2>8 DEF Own
<1>5. args.slots = 1 => Inside \subseteq {q}
  BY <1>1
<1>6. QED
  BY <1>2, <1>3, <1>4, <1>5, AloneEnters

LEMMA ConnectedAlone ==
  ASSUME IInv, Sequential, NEW q \in Queries, Connected(q)
  PROVE  Sequential'
<1>t. Typed /\ pc[q] = "connecting" /\ q \in Inside
  BY DEF IInv, Connected, Inside
<1>c. PICK c \in Connections : c = <<q, attempt[q]>>
  BY <1>t, RetriesFacts DEF Connections
<1>1. Blank(c)
  BY <1>t, <1>c DEF IInv, UnopenedAreUnused, Unopened, Unused, BeforeOpening
<1>2. /\ args' = args /\ result' = result /\ conn'[q] = c
      /\ owed'[c] = {q} /\ buffer'[c] = <<>>
      /\ \A p \in Queries : p # q => conn'[p] = conn[p] /\ pc'[p] = pc[p]
  BY <1>t, <1>c, <1>1 DEF Connected, Ask, streamVars, Blank, Typed, StreamTyped
<1>3. Own(q, c)' /\ Own(q, conn[q])'
  BY <1>2 DEF Own
<1>4. Inside' \subseteq Inside \cup {q}
  BY <1>2 DEF Inside
<1>5. args.slots = 1 => Inside \subseteq {q}
  BY <1>t DEF Sequential, Alone
<1>6. QED
  BY <1>2, <1>3, <1>4, <1>5, AloneEnters

(* A failure and a plain reply return what is the query's own, if anything. *)
LEMMA LeaveAlone ==
  ASSUME IInv, Sequential, NEW q \in Queries, args' = args,
         NEW s, s \notin {"connecting"} \cup Reading \/ q \in Inside,
         pc' = [pc EXCEPT ![q] = s], UNCHANGED <<owed, buffer>>,
         conn' = conn \/ conn' = [conn EXCEPT ![q] = NoConnection],
         result' = result
           \/ \E x : result' = [result EXCEPT ![q] = x] /\ x.of \in {q, Nobody}
  PROVE  Sequential'
<1>t. Typed /\ DOMAIN result = Queries
  BY DEF IInv, Sequential
<1>1. Inside' \subseteq Inside
  BY <1>t DEF Inside, Typed
<1>2. /\ DOMAIN result' = Queries
      /\ \A p \in Queries : result'[p].of \in {result[p].of, p, Nobody}
  BY <1>t
<1>3. \A p \in Queries : conn'[p] \in {conn[p], NoConnection}
  BY <1>t DEF Typed
<1>4. \A p \in Queries, c \in Connections : Own(p, c) => Own(p, c)'
  BY DEF Own
<1>5. QED
  BY <1>1, <1>2, <1>3, <1>4, AloneStays

LEMMA FailResult ==
  ASSUME NEW q \in Queries, NEW failure, Fail(q, failure)
  PROVE  /\ args' = args
         /\ \E s \in {"backoff", "returned"} : pc' = [pc EXCEPT ![q] = s]
         /\ result' = result
              \/ \E x : result' = [result EXCEPT ![q] = x] /\ x.of \in {q, Nobody}
<1>1. [status |-> failure, of |-> Nobody, hit |-> FALSE].of = Nobody
  OBVIOUS
<1>2. QED
  BY <1>1 DEF Fail, Return

LEMMA ReplyAlone ==
  ASSUME IInv, Sequential, NEW q \in Queries,
         \/ Retry(q) \/ Reply(q) \/ ReplyDoh(q) \/ Refuse(q) \/ Wait(q)
         \/ ReadLength(q) \/ Misread(q)
         \/ \E failure \in Errors : Break(q, failure)
  PROVE  Sequential'
<1>n. {"queued", "returned", "backoff"} \cap ({"connecting"} \cup Reading) = {}
  BY DEF Reading
<1>1. CASE Retry(q)
  BY <1>n, <1>1, LeaveAlone DEF Retry, connVars, streamVars
<1>2. CASE Reply(q) \/ ReplyDoh(q)
  <2>1. PICK status : Return(q, status, q)
    BY <1>2 DEF Reply, ReplyDoh
  <2>2. [status |-> status, of |-> q, hit |-> FALSE].of = q
    OBVIOUS
  <2>3. UNCHANGED <<args, conn, owed, buffer>> /\ pc' = [pc EXCEPT ![q] = "returned"]
    BY <1>2, <2>1 DEF Reply, ReplyDoh, Return, connVars, streamVars
  <2>4. \E x : result' = [result EXCEPT ![q] = x] /\ x.of \in {q, Nobody}
    BY <2>1, <2>2 DEF Return
  <2>5. QED
    BY <1>n, <2>3, <2>4, LeaveAlone
<1>3. CASE Refuse(q) \/ \E failure \in Errors : Break(q, failure)
  <2>1. PICK failure : /\ Fail(q, failure)
                       /\ conn' = conn \/ conn' = [conn EXCEPT ![q] = NoConnection]
                       /\ UNCHANGED <<owed, buffer>>
    BY <1>3 DEF Refuse, Break, FailDot, LeaveStream, connVars, streamVars
  <2>2. PICK s \in {"backoff", "returned"} : pc' = [pc EXCEPT ![q] = s]
    BY <2>1, FailResult
  <2>3. s \notin {"connecting"} \cup Reading
    BY <1>n
  <2>4. args' = args
    BY <2>1, FailResult
  <2>5. result' = result
          \/ \E x : result' = [result EXCEPT ![q] = x] /\ x.of \in {q, Nobody}
    BY <2>1, FailResult
  <2>6. QED
    BY <2>1, <2>2, <2>3, <2>4, <2>5, LeaveAlone
<1>4. CASE Wait(q) \/ ReadLength(q) \/ Misread(q)
  <2>1. q \in Inside
    BY <1>4 DEF Wait, ReadLength, Misread, CanRead, Inside, Reading
  <2>2. /\ UNCHANGED <<args, result, conn, owed, buffer>>
        /\ \E s \in Reading : pc' = [pc EXCEPT ![q] = s]
    BY <1>4 DEF Wait, ReadLength, Misread, Reading
  <2>3. QED
    BY <2>1, <2>2, LeaveAlone
<1>5. QED
  BY <1>1, <1>2, <1>3, <1>4

LEMMA ReadReplyAlone ==
  ASSUME IInv, Sequential, NEW q \in Queries, ReadReply(q)
  PROVE  Sequential'
<1>t. Typed /\ StreamTyped /\ DOMAIN result = Queries
  BY DEF IInv, Typed, Sequential
<1>c. PICK c \in Connections : c = conn[q] /\ CanRead(q)
  BY ReaderFacts DEF ReadReply
<1>1. buffer[c] # <<>> /\ buffer[c] \in Seq(Queries)
  BY <1>t, <1>c, NobodyFacts DEF ReadReply, IInv, HalfIsThere, StreamTyped
<1>. DEFINE x == [status |-> "success", of |-> Head(buffer[c]), hit |-> FALSE]
<1>2. /\ args' = args /\ owed' = owed
      /\ buffer' = [buffer EXCEPT ![c] = Tail(@)]
      /\ pc' = [pc EXCEPT ![q] = "returned"]
      /\ conn' = [conn EXCEPT ![q] = NoConnection]
      /\ result' = [result EXCEPT ![q] = x]
  BY <1>c DEF ReadReply, Return
<1>3. Inside' \subseteq Inside
  BY <1>t, <1>2 DEF Inside, Typed, Reading
<1>4. DOMAIN result' = Queries
  BY <1>t, <1>2
<1>5. \A p \in Queries : conn'[p] \in {conn[p], NoConnection}
  BY <1>t, <1>2 DEF Typed
<1>6. ASSUME NEW p \in Queries, NEW d \in Connections, Own(p, d)
      PROVE  Own(p, d)'
  <2>1. CASE d # c
    BY <1>t, <1>2, <1>6, <2>1 DEF Own, StreamTyped
  <2>2. CASE d = c
    <3>1. buffer'[c] = Tail(buffer[c])
      BY <1>t, <1>2 DEF StreamTyped
    <3>2. Tail(buffer[c]) \in Seq({p})
      BY <1>1, <1>6, <2>2 DEF Own
    <3>3. QED
      BY <1>2, <1>6, <2>2, <3>1, <3>2 DEF Own
  <2>3. QED
    BY <2>1, <2>2
<1>7. ASSUME Alone
      PROVE  \A p \in Queries : result'[p].of \in {result[p].of, p, Nobody}
  <2>1. Own(q, c)
    BY <1>c, <1>7, ConnectionFacts DEF Alone
  <2>2. Head(buffer[c]) = q
    BY <1>1, <2>1 DEF Own
  <2>3. x.of = q
    BY <2>2
  <2>4. QED
    BY <1>t, <1>2, <2>3
<1>8. QED
  BY <1>2, <1>3, <1>4, <1>5, <1>6, <1>7, AloneStays

LEMMA ArriveAlone ==
  ASSUME IInv, Sequential, NEW c \in Connections, Arrive(c)
  PROVE  Sequential'
<1>t. Typed /\ StreamTyped /\ WaiterWaits /\ DOMAIN result = Queries
  BY DEF IInv, Typed, Sequential
<1>1. PICK of \in owed[c] :
        /\ owed' = [owed EXCEPT ![c] = @ \ {of}]
        /\ buffer' = [buffer EXCEPT ![c] = Append(@, of)]
        /\ pc' = [q \in Queries |-> IF q = waiter[c] THEN "woken" ELSE pc[q]]
        /\ UNCHANGED <<args, result, conn>>
  BY DEF Arrive
<1>2. Inside' \subseteq Inside
  BY <1>t, <1>1, NobodyFacts DEF Inside, WaiterWaits, Reading
<1>3. ASSUME NEW p \in Queries, NEW d \in Connections, Own(p, d)
      PROVE  Own(p, d)'
  <2>1. CASE d # c
    BY <1>t, <1>1, <1>3, <2>1 DEF Own, StreamTyped
  <2>2. CASE d = c
    <3>1. of = p
      BY <1>1, <1>3, <2>2 DEF Own
    <3>2. owed'[c] = owed[c] \ {of} /\ buffer'[c] = Append(buffer[c], of)
      BY <1>t, <1>1 DEF StreamTyped
    <3>3. Append(buffer[c], of) \in Seq({p})
      BY <1>3, <2>2, <3>1 DEF Own
    <3>4. QED
      BY <1>3, <2>2, <3>2, <3>3 DEF Own
  <2>3. QED
    BY <2>1, <2>2
<1>4. QED
  BY <1>t, <1>1, <1>2, <1>3, AloneStays

LEMMA EndWarmupAlone ==
  ASSUME IInv, Sequential, EndWarmup
  PROVE  Sequential'
<1>1. Live = {} /\ UNCHANGED <<args, conn, owed, buffer>>
  BY DEF EndWarmup, connVars, streamVars
<1>2. Inside = {} /\ Inside' = {}
  BY <1>1 DEF EndWarmup, Live, Inside, Reading
<1>3. /\ DOMAIN result' = Queries
      /\ \A q \in Queries : result'[q].of \in {result[q].of, q, Nobody}
  BY DEF EndWarmup
<1>4. \A q \in Queries, c \in Connections : Own(q, c) => Own(q, c)'
  BY <1>1 DEF Own
<1>5. QED
  BY <1>1, <1>2, <1>3, <1>4, AloneStays

LEMMA RestAlone ==
  ASSUME IInv, Sequential, UNCHANGED <<args, pc, result, conn, owed, buffer>>
  PROVE  Sequential'
<1>1. Inside' = Inside /\ DOMAIN result' = Queries
  BY DEF Inside, Sequential
<1>2. \A q \in Queries, c \in Connections : Own(q, c) => Own(q, c)'
  BY DEF Own
<1>3. QED
  BY <1>1, <1>2, AloneStays

LEMMA NextAlone ==
  ASSUME IInv, Sequential, [Next]_vars
  PROVE  Sequential'
<1>. USE DEF taskVars, connVars, streamVars
<1>1. CASE \E q \in Queries : Step(q)
  <2>1. PICK q \in Queries : Step(q)
    BY <1>1
  <2>2. CASE Admit(q) \/ AdmitDot(q)
    BY <2>2, AdmitAlone
  <2>3. CASE Connected(q)
    BY <2>3, ConnectedAlone
  <2>4. CASE ReadReply(q)
    BY <2>4, ReadReplyAlone
  <2>5. QED
    BY <2>1, <2>2, <2>3, <2>4, ReplyAlone DEF Step, Start
<1>2. CASE \E c \in Connections : Arrive(c)
  BY <1>2, ArriveAlone
<1>3. CASE EndWarmup
  BY <1>3, EndWarmupAlone
<1>4. CASE \/ EndRun \/ Close \/ UNCHANGED vars
           \/ \E c \in Connections : PeerCloses(c)
  BY <1>4, RestAlone DEF EndRun, Close, PeerCloses, vars
<1>5. QED
  BY <1>1, <1>2, <1>3, <1>4 DEF Next, Run

(* Whatever the queries, failures, retries, late replies and overlapping   *)
(* reads, a pooled connection of DNS over TLS that nobody reads has        *)
(* nothing on its way: the eviction at every error (670-672 of core.py) is *)
(* enough for that, and with one slot for each query to return its own     *)
(* reply.                                                                  *)
THEOREM PoolStaysClean == Spec => []NoLateReply
<1>1. Init => Sequential
  <2>1. SUFFICES ASSUME Init
                 PROVE  Sequential
    OBVIOUS
  <2>2. Inside = {}
    BY <2>1 DEF Init, Inside, Reading
  <2>3. DOMAIN result = Queries /\ \A q \in Queries : result[q].of = Nobody
    BY <2>1 DEF Init, NoResult
  <2>4. \A q \in Queries : conn[q] = NoConnection
    BY <2>1 DEF Init
  <2>5. QED
    BY <2>2, <2>3, <2>4 DEF Sequential, Alone, OwnReply
<1>2. IInv /\ Sequential /\ [Next]_vars => Sequential'
  BY NextAlone
<1>3. IInv => PoolIsClean
  BY BalancedIsClean DEF PoolIsClean, AtBounds, Blank
<1>4. IInv /\ Sequential => NoLateReply
  BY <1>3 DEF Sequential, Alone, NoLateReply
<1>5. QED
  BY <1>1, <1>2, <1>4, Invariance, PTL DEF Spec

-------------------------------------------------------------------------------
(* The counters and the cache. *)

Alive == {"queued", "connecting", "backoff"} \cup Reading
Current == IF phase = "warmup" THEN Warm ELSE Measured
Done == Returned(Answers \cup Errors)
FailedAt(r) == {q \in Returned(Errors) : Resolver(q) = r}
Earned(k) == \E w \in Returned({"success"}) : Key(w) = k /\ ~result[w].hit

CountsTyped ==
  /\ phase \in {"warmup", "measuring", "done", "closed"}
  /\ result \in [Queries -> Results \cup {NoResult}]
  /\ cache \subseteq Resolvers \X (Questions \cup {Probe})
  /\ total_queries \in Nat
  /\ failed_resolvers \in [Resolvers -> Nat]

(* A query has a result from its return on.                                *)
ResultsAreFinal == \A q \in Queries : pc[q] # "returned" => result[q] = NoResult

(* Only queries of the gather at hand are alive.                           *)
AliveIsCurrent == \A q \in Queries : pc[q] \in Alive => q \in Current

CInv ==
  CountsTyped /\ ResultsAreFinal /\ AliveIsCurrent /\ CountedOnce /\ HitsAreEarned

LEMMA QueryFacts ==
  ASSUME NEW q \in Queries
  PROVE  /\ Resolver(q) \in Resolvers /\ Question(q) \in Questions \cup {Probe}
         /\ q[3] \in 0 .. MaxIterations
         /\ q = <<Resolver(q), Question(q), q[3]>>
         /\ Key(q) \in Resolvers \X (Questions \cup {Probe})
BY NumbersAssumption DEF Queries, Resolver, Question, Key

LEMMA GatherFacts ==
  ASSUME Typed
  PROVE  Measured \subseteq Queries /\ \A q \in Measured : q[3] # 0
<1>1. /\ args.resolvers \subseteq Resolvers /\ args.questions \subseteq Questions
      /\ args.iterations \in 1 .. MaxIterations
  BY ScenariosAssumption DEF Typed, Arguments
<1>2. QED
  BY <1>1, NumbersAssumption DEF Measured, Queries

LEMMA StatusFacts ==
  /\ \A x \in Results : x.status \in Answers \cup Errors
  /\ NoResult.status \notin Answers \cup Errors /\ ~NoResult.hit
  /\ "success" \in Answers /\ Answers \cap Errors = {}
BY DEF Results, NoResult, Answers, Errors

(* What was earned stays so while results are only added.                  *)
LEMMA EarnedStays ==
  ASSUME NEW k, Earned(k), \A q \in Queries : result'[q] = result[q] \/ result[q] = NoResult
  PROVE  Earned(k)'
<1>1. PICK w \in Returned({"success"}) : Key(w) = k /\ ~result[w].hit
  BY DEF Earned
<1>2. w \in Queries /\ result'[w] = result[w]
  BY <1>1 DEF Returned, NoResult
<1>3. QED
  BY <1>1, <1>2 DEF Earned, Returned

LEMMA CountsInit ==
  ASSUME Init
  PROVE  CInv
<1>t. Typed
  BY InitEstablishes DEF IInv
<1>1. \A q \in Queries : result[q] = NoResult
  BY DEF Init
<1>2. Measured \subseteq Queries
  BY <1>t, GatherFacts
<1>3. CountsTyped
  BY <1>2, SubsetsAreCounted DEF Init, CountsTyped
<1>4. ResultsAreFinal /\ HitsAreEarned
  BY <1>1, StatusFacts DEF Init, ResultsAreFinal, HitsAreEarned
<1>5. AliveIsCurrent
  BY DEF Init, AliveIsCurrent, Alive, Current, Reading
<1>6. CountedOnce
  <2>1. Done = {} /\ Returned(Errors) = {}
    BY <1>1, StatusFacts DEF Done, Returned
  <2>2. query_counter = 0 /\ \A r \in Resolvers : failed_resolvers[r] = 0
    BY DEF Init
  <2>3. QED
    BY <2>1, <2>2, FS_EmptySet DEF CountedOnce, Done
<1>7. QED
  BY <1>3, <1>4, <1>5, <1>6 DEF CInv

-------------------------------------------------------------------------------
(* A step that returns nothing.                                            *)
LEMMA QuietCounts ==
  ASSUME CInv, NEW q \in Queries, NEW s \in Alive, pc[q] \in Alive,
         pc \in [Queries -> Steps], pc' = [pc EXCEPT ![q] = s],
         UNCHANGED <<args, phase, result, cache, countVars>>
  PROVE  CInv'
<1>. USE DEF CInv
<1>1. CountsTyped' /\ CountedOnce' /\ HitsAreEarned'
  BY DEF CountsTyped, CountedOnce, HitsAreEarned, countVars, Returned,
         Warm, Measured, Asked
<1>2. ResultsAreFinal'
  BY DEF ResultsAreFinal, Alive, Reading
<1>3. AliveIsCurrent'
  BY DEF AliveIsCurrent, Current, Warm, Measured, Asked
<1>4. QED
  BY <1>1, <1>2, <1>3

(* A step in which a query returns: it counts as one query, and as one     *)
(* failure of its resolver if it ended in an error.                        *)
LEMMA ReturnCounts ==
  ASSUME CInv, Typed, NEW q \in Queries, pc[q] \in Alive,
         NEW x \in Results, ~x.hit,
         pc' = [pc EXCEPT ![q] = "returned"],
         result' = [result EXCEPT ![q] = x],
         query_counter' = query_counter + 1,
         failed_resolvers' = FailuresAfter(q, x.status \in Errors),
         cache' \in {cache} \cup
                    (IF x.status = "success" THEN {cache \cup {Key(q)}} ELSE {}),
         UNCHANGED <<args, phase, total_queries>>
  PROVE  CInv'
<1>. USE DEF CInv
<1>q. /\ Resolver(q) \in Resolvers /\ Key(q) \in Resolvers \X (Questions \cup {Probe})
  BY QueryFacts
<1>n. result[q] = NoResult /\ q \in Current
  BY DEF ResultsAreFinal, AliveIsCurrent, Alive, Reading
<1>1. CountsTyped'
  <2>1. result' \in [Queries -> Results \cup {NoResult}]
    BY DEF CountsTyped
  <2>2. cache' \subseteq Resolvers \X (Questions \cup {Probe})
    BY <1>q DEF CountsTyped
  <2>3. failed_resolvers' \in [Resolvers -> Nat]
    BY <1>q DEF CountsTyped, FailuresAfter
  <2>4. QED
    BY <2>1, <2>2, <2>3 DEF CountsTyped
<1>2. ResultsAreFinal'
  BY DEF ResultsAreFinal, CountsTyped, Typed
<1>3. AliveIsCurrent'
  BY DEF AliveIsCurrent, Current, Warm, Measured, Asked, Alive, Typed
<1>r. \A p \in Queries : p # q => result'[p] = result[p]
  BY DEF CountsTyped
<1>x. result'[q] = x
  BY DEF CountsTyped
<1>4. HitsAreEarned'
  <2>1. ASSUME NEW k, Earned(k)
        PROVE  Earned(k)'
    BY <1>n, <1>r, <2>1, EarnedStays
  <2>2. Key(q) \in cache' \ cache => Earned(Key(q))'
    BY <1>x DEF Earned, Returned
  <2>3. SUFFICES ASSUME NEW k \in cache' \cup {Key(p) : p \in {s \in Queries : result'[s].hit}}
                 PROVE  Earned(k)'
    BY DEF HitsAreEarned, Earned
  <2>4. CASE k \in cache
    BY <2>1, <2>4 DEF HitsAreEarned, Earned
  <2>5. CASE k \in cache' \ cache
    BY <2>2, <2>5
  <2>6. CASE k \in {Key(p) : p \in {s \in Queries : result'[s].hit}}
    <3>1. PICK p \in Queries : k = Key(p) /\ result'[p].hit
      BY <2>6
    <3>2. result[p].hit
      BY <1>r, <1>x, <3>1
    <3>3. QED
      BY <2>1, <3>1, <3>2 DEF HitsAreEarned, Earned
  <2>7. QED
    BY <2>3, <2>4, <2>5, <2>6
<1>5. CountedOnce'
  <2>1. Current' = Current
    BY DEF Current, Warm, Measured, Asked
  <2>2. query_counter' = Cardinality((Done \cap Current)')
    <3>1. Done' = Done \cup {q} /\ q \notin Done
      BY <1>n, <1>r, <1>x, StatusFacts DEF Done, Returned
    <3>2. (Done \cap Current)' = (Done \cap Current) \cup {q}
      BY <1>n, <2>1, <3>1
    <3>3. Done \cap Current \in SUBSET Queries
      BY DEF Done, Returned
    <3>4. query_counter = Cardinality(Done \cap Current)
      BY DEF CountedOnce, Done, Current
    <3>5. QED
      BY <3>1, <3>2, <3>3, <3>4, SubsetsAreCounted, FS_AddElement
  <2>3. ASSUME NEW r \in Resolvers
        PROVE  failed_resolvers'[r] = Cardinality(FailedAt(r)')
    <3>1. failed_resolvers[r] = Cardinality(FailedAt(r)) /\ FailedAt(r) \in SUBSET Queries
      BY DEF CountedOnce, FailedAt, Returned
    <3>2. q \notin FailedAt(r)
      BY <1>n, StatusFacts DEF FailedAt, Returned
    <3>3. CASE x.status \in Errors /\ r = Resolver(q)
      <4>1. FailedAt(r)' = FailedAt(r) \cup {q}
        BY <1>r, <1>x, <3>3 DEF FailedAt, Returned
      <4>2. failed_resolvers'[r] = failed_resolvers[r] + 1
        BY <3>3 DEF FailuresAfter, CountsTyped
      <4>3. QED
        BY <3>1, <3>2, <4>1, <4>2, SubsetsAreCounted, FS_AddElement
    <3>4. CASE ~(x.status \in Errors /\ r = Resolver(q))
      <4>1. FailedAt(r)' = FailedAt(r)
        BY <1>r, <1>x, <3>2, <3>4 DEF FailedAt, Returned
      <4>2. failed_resolvers'[r] = failed_resolvers[r]
        BY <3>4 DEF FailuresAfter, CountsTyped
      <4>3. QED
        BY <3>1, <4>1, <4>2
    <3>5. QED
      BY <3>3, <3>4
  <2>4. QED
    BY <2>2, <2>3 DEF CountedOnce, Done, Current, FailedAt
<1>6. QED
  BY <1>1, <1>2, <1>3, <1>4, <1>5

(* An attempt that failed ends the query or is followed by another one.    *)
LEMMA FailCounts ==
  ASSUME CInv, Typed, NEW q \in Queries, pc[q] \in Alive,
         NEW failure \in Errors, Fail(q, failure)
  PROVE  CInv'
<1>. DEFINE final == ~Retried(failure) \/ Last(q)
            x == [status |-> failure, of |-> Nobody, hit |-> FALSE]
<1>1. CASE final
  <2>1. /\ failed_resolvers' = FailuresAfter(q, TRUE)
        /\ Return(q, failure, Nobody) /\ cache' = cache
    BY <1>1 DEF Fail, FailuresAfter
  <2>2. /\ pc' = [pc EXCEPT ![q] = "returned"]
        /\ result' = [result EXCEPT ![q] = x]
        /\ query_counter' = query_counter + 1
        /\ UNCHANGED <<args, phase, total_queries>>
    BY <2>1 DEF Return
  <2>3. x \in Results /\ ~x.hit /\ x.status \in Errors
    BY DEF Results
  <2>4. failed_resolvers' = FailuresAfter(q, x.status \in Errors)
    BY <2>1, <2>3 DEF FailuresAfter
  <2>5. QED
    BY <2>1, <2>2, <2>3, <2>4, ReturnCounts
<1>2. CASE ~final
  <2>1. /\ pc' = [pc EXCEPT ![q] = "backoff"]
        /\ UNCHANGED <<args, phase, result, cache, countVars>>
    BY <1>2 DEF Fail, FailuresAfter, countVars
  <2>2. "backoff" \in Alive /\ pc \in [Queries -> Steps]
    BY DEF Alive, Typed
  <2>3. QED
    BY <2>1, <2>2, QuietCounts
<1>3. QED
  BY <1>1, <1>2

LEMMA AskCounts ==
  ASSUME CInv, Typed, NEW q \in Queries, pc[q] \in Alive, NEW c, Ask(q, c)
  PROVE  CInv'
<1>1. /\ pc' = [pc EXCEPT ![q] = "asking"]
      /\ UNCHANGED <<args, phase, result, cache, countVars>>
  BY DEF Ask
<1>2. "asking" \in Alive /\ pc \in [Queries -> Steps]
  BY DEF Alive, Reading, Typed
<1>3. QED
  BY <1>1, <1>2, QuietCounts

LEMMA StepCounts ==
  ASSUME CInv, IInv, NEW q \in Queries, Step(q)
  PROVE  CInv'
<1>t. Typed /\ pc \in [Queries -> Steps]
  BY DEF IInv, Typed
<1>1. CASE Admit(q)
  <2>1. pc[q] \in Alive /\ "asking" \in Alive
    BY <1>1 DEF Admit, Acquire, Alive, Reading
  <2>2. /\ pc' = [pc EXCEPT ![q] = "asking"]
        /\ UNCHANGED <<args, phase, result, cache, countVars>>
    BY <1>1 DEF Admit
  <2>3. QED
    BY <1>t, <2>1, <2>2, QuietCounts
<1>2. CASE AdmitDot(q)
  <2>1. pc[q] \in Alive /\ "connecting" \in Alive
    BY <1>2 DEF AdmitDot, Acquire, Alive
  <2>2. CASE pool[Resolver(q)] \in open
    BY <1>2, <1>t, <2>1, <2>2, AskCounts DEF AdmitDot
  <2>3. CASE pool[Resolver(q)] \notin open
    <3>1. /\ pc' = [pc EXCEPT ![q] = "connecting"]
          /\ UNCHANGED <<args, phase, result, cache, countVars>>
      BY <1>2, <2>3 DEF AdmitDot
    <3>2. QED
      BY <1>t, <2>1, <3>1, QuietCounts
  <2>4. QED
    BY <2>2, <2>3
<1>3. CASE Retry(q)
  <2>1. pc[q] \in Alive /\ "queued" \in Alive
    BY <1>3 DEF Retry, Alive
  <2>2. /\ pc' = [pc EXCEPT ![q] = "queued"]
        /\ UNCHANGED <<args, phase, result, cache, countVars>>
    BY <1>3 DEF Retry
  <2>3. QED
    BY <1>t, <2>1, <2>2, QuietCounts
<1>4. CASE Connected(q)
  <2>1. pc[q] \in Alive /\ Ask(q, <<q, attempt[q]>>)
    BY <1>4 DEF Connected, Alive
  <2>2. QED
    BY <1>t, <2>1, AskCounts
<1>5. CASE Reply(q) \/ ReplyDoh(q)
  <2>1. PICK status \in Answers :
          Return(q, status, q) /\ cache' \in {cache, CachedAfter(q, status)}
    BY <1>5 DEF Reply, ReplyDoh, Answers
  <2>. DEFINE x == [status |-> status, of |-> q, hit |-> FALSE]
  <2>2. pc[q] \in Alive /\ failed_resolvers' = failed_resolvers
    BY <1>5 DEF Reply, ReplyDoh, Alive, Reading
  <2>3. x \in Results /\ ~x.hit /\ x.status \notin Errors
    BY StatusFacts DEF Results
  <2>4. /\ pc' = [pc EXCEPT ![q] = "returned"]
        /\ result' = [result EXCEPT ![q] = x]
        /\ query_counter' = query_counter + 1
        /\ UNCHANGED <<args, phase, total_queries>>
    BY <2>1 DEF Return
  <2>5. cache' \in {cache} \cup
          (IF x.status = "success" THEN {cache \cup {Key(q)}} ELSE {})
    BY <2>1 DEF CachedAfter
  <2>6. failed_resolvers' = FailuresAfter(q, x.status \in Errors)
    BY <2>2, <2>3 DEF FailuresAfter
  <2>7. QED
    BY <1>t, <2>2, <2>3, <2>4, <2>5, <2>6, ReturnCounts
<1>6. CASE ReadReply(q)
  <2>1. PICK of : of = Head(buffer[conn[q]]) /\ Return(q, "success", of)
    BY <1>6 DEF ReadReply
  <2>. DEFINE x == [status |-> "success", of |-> of, hit |-> FALSE]
  <2>2. /\ pc[q] \in Alive
        /\ UNCHANGED <<failed_resolvers, cache>>
    BY <1>6 DEF ReadReply, CanRead, Alive, Reading
  \* What is half read is there, and it is the reply to a query.
  <2>3. of \in Queries
    <3>1. PICK c \in Connections : c = conn[q]
      BY <1>6, ReaderFacts DEF ReadReply
    <3>2. buffer[c] # <<>>
      BY <1>6, <3>1, NobodyFacts DEF ReadReply, IInv, HalfIsThere
    <3>3. buffer[c] \in Seq(Queries)
      BY <1>t DEF Typed, StreamTyped
    <3>4. QED
      BY <2>1, <3>1, <3>2, <3>3
  <2>4. x \in Results /\ ~x.hit /\ x.status \notin Errors
    BY <2>3, StatusFacts DEF Results
  <2>5. /\ pc' = [pc EXCEPT ![q] = "returned"]
        /\ result' = [result EXCEPT ![q] = x]
        /\ query_counter' = query_counter + 1
        /\ UNCHANGED <<args, phase, total_queries>>
    BY <2>1 DEF Return
  <2>6. failed_resolvers' = FailuresAfter(q, x.status \in Errors)
    BY <2>2, <2>4 DEF FailuresAfter
  <2>7. QED
    BY <1>t, <2>2, <2>4, <2>5, <2>6, ReturnCounts
<1>7. CASE \E failure \in Errors : Break(q, failure)
  <2>1. PICK failure \in Errors : Break(q, failure)
    BY <1>7
  <2>2. pc[q] \in Alive
    BY <2>1 DEF Break, TimedOut, Inside, Alive
  <2>3. Fail(q, failure)
    BY <2>1 DEF Break, FailDot
  <2>4. QED
    BY <1>t, <2>2, <2>3, FailCounts
<1>8. CASE Wait(q) \/ ReadLength(q) \/ Misread(q)
  <2>1. pc[q] \in Alive
    BY <1>8 DEF Wait, ReadLength, Misread, CanRead, Alive, Reading
  <2>2. PICK s \in Alive : pc' = [pc EXCEPT ![q] = s]
    BY <1>8 DEF Wait, ReadLength, Misread, Alive, Reading
  <2>3. UNCHANGED <<args, phase, result, cache, countVars>>
    BY <1>8 DEF Wait, ReadLength, Misread
  <2>4. QED
    BY <1>t, <2>1, <2>2, <2>3, QuietCounts
<1>9. CASE Refuse(q)
  <2>1. pc[q] \in Alive /\ "refused" \in Errors /\ Fail(q, "refused")
    BY <1>9 DEF Refuse, FailDot, CanRead, Alive, Reading, Errors
  <2>2. QED
    BY <1>t, <2>1, FailCounts
<1>10. QED
  BY <1>1, <1>2, <1>3, <1>4, <1>5, <1>6, <1>7, <1>8, <1>9 DEF Step, Start

-------------------------------------------------------------------------------
(* The hits of the measured gather are of answers the warm-up got.         *)
LEMMA EndWarmupCounts ==
  ASSUME CInv, IInv, EndWarmup
  PROVE  CInv'
<1>. DEFINE H == Hits(Measured)
            hit(q) == [status |-> "success", of |-> q, hit |-> TRUE]
<1>t. Typed /\ phase = "warmup" /\ phase' = "measuring"
  BY DEF IInv, EndWarmup
<1>g. /\ Measured \subseteq Queries /\ \A q \in Measured : q[3] # 0
      /\ H \subseteq Measured /\ \A q \in H : Key(q) \in cache
  BY <1>t, GatherFacts DEF Hits
<1>m. UNCHANGED <<args, cache, failed_resolvers>> /\ Measured' = Measured
  BY DEF EndWarmup, Measured
<1>n. \A q \in Measured : pc[q] = "new" /\ result[q] = NoResult
  BY <1>t, <1>g DEF IInv, WarmupFirst, CInv, ResultsAreFinal
<1>r. \A q \in Queries : result'[q] = IF q \in H THEN hit(q) ELSE result[q]
  BY DEF EndWarmup
<1>h. \A q \in H : q \in Queries /\ result'[q].status = "success" /\ result[q] = NoResult
  <2>1. SUFFICES ASSUME NEW q \in H
                 PROVE  q \in Queries /\ result'[q].status = "success" /\ result[q] = NoResult
    OBVIOUS
  <2>2. q \in Measured /\ q \in Queries
    BY <1>g
  <2>3. result'[q] = hit(q) /\ result[q] = NoResult
    BY <1>n, <1>r, <2>2
  <2>4. hit(q).status = "success"
    OBVIOUS
  <2>5. QED
    BY <2>2, <2>3, <2>4
<1>p. \A q \in Queries :
        pc'[q] = IF q \in H THEN "returned" ELSE IF q \in Measured THEN "queued" ELSE pc[q]
  BY DEF EndWarmup
<1>1. CountsTyped'
  <2>1. \A q \in Queries : hit(q) \in Results
    BY StatusFacts DEF Results
  <2>2. result' \in [Queries -> Results \cup {NoResult}]
    BY <2>1 DEF EndWarmup, CInv, CountsTyped
  <2>3. total_queries' \in Nat
    BY <1>g, SubsetsAreCounted DEF EndWarmup
  <2>4. QED
    BY <1>t, <1>m, <2>2, <2>3 DEF CInv, CountsTyped
<1>2. ResultsAreFinal'
  BY <1>n, <1>r, <1>p DEF CInv, ResultsAreFinal
<1>3. AliveIsCurrent'
  <2>1. \A q \in Queries : pc[q] \notin Alive
    BY DEF EndWarmup, Live, Inside, Alive
  <2>2. QED
    BY <1>t, <1>m, <1>p, <2>1 DEF AliveIsCurrent, Current, Alive, Reading
<1>5. CountedOnce'
  <2>1. (Done \cap Current)' = H
    <3>1. Current' = Measured
      BY <1>t, <1>m DEF Current
    <3>2. Done' = {q \in Queries : result'[q].status \in Answers \cup Errors}
      BY DEF Done, Returned
    <3>3. \A q \in H : result'[q].status \in Answers \cup Errors
      BY <1>h, StatusFacts
    <3>4. \A q \in Measured \ H : result'[q].status \notin Answers \cup Errors
      BY <1>g, <1>n, <1>r, StatusFacts
    <3>5. QED
      BY <1>g, <3>1, <3>2, <3>3, <3>4
  <2>2. query_counter' = Cardinality(H)
    <3>1. Cardinality(H) \in Nat
      BY <1>g, SubsetsAreCounted
    <3>2. QED
      BY <3>1 DEF EndWarmup, CounterAtStart
  <2>3. ASSUME NEW r \in Resolvers
        PROVE  FailedAt(r)' = FailedAt(r)
    <3>1. ASSUME NEW q \in H
          PROVE  result'[q].status \notin Errors /\ result[q].status \notin Errors
      BY <1>h, <3>1, StatusFacts
    <3>2. \A q \in Queries : result'[q].status \in Errors <=> result[q].status \in Errors
      BY <1>r, <3>1
    <3>3. QED
      BY <3>2 DEF FailedAt, Returned
  <2>4. QED
    BY <1>m, <2>1, <2>2, <2>3 DEF CInv, CountedOnce, Done, Current, FailedAt
<1>6. HitsAreEarned'
  <2>1. ASSUME NEW k \in cache
        PROVE  Earned(k)'
    <3>1. Earned(k)
      BY DEF CInv, HitsAreEarned, Earned
    <3>2. \A q \in Queries : result'[q] = result[q] \/ result[q] = NoResult
      BY <1>h, <1>r
    <3>3. QED
      BY <3>1, <3>2, EarnedStays
  <2>2. SUFFICES ASSUME NEW k \in cache' \cup {Key(p) : p \in {s \in Queries : result'[s].hit}}
                 PROVE  k \in cache \/ Earned(k)'
    BY <2>1 DEF HitsAreEarned, Earned
  <2>3. CASE k \in cache'
    BY <1>m, <2>3
  <2>4. CASE k \in {Key(p) : p \in {s \in Queries : result'[s].hit}}
    <3>1. PICK p \in Queries : k = Key(p) /\ result'[p].hit
      BY <2>4
    <3>2. CASE p \in H
      BY <1>g, <3>1, <3>2
    <3>3. CASE p \notin H
      <4>1. result[p].hit
        BY <1>r, <3>1, <3>3
      <4>2. Earned(k)
        BY <3>1, <4>1 DEF CInv, HitsAreEarned, Earned
      <4>3. \A q \in Queries : result'[q] = result[q] \/ result[q] = NoResult
        BY <1>h, <1>r
      <4>4. QED
        BY <4>2, <4>3, EarnedStays
    <3>4. QED
      BY <3>2, <3>3
  <2>5. QED
    BY <2>2, <2>3, <2>4
<1>7. QED
  BY <1>1, <1>2, <1>3, <1>5, <1>6 DEF CInv

(* Nothing is counted or cached outside the queries.                       *)
LEMMA RestCounts ==
  ASSUME CInv, UNCHANGED <<args, result, cache, countVars>>,
         \A q \in Queries : /\ pc'[q] # "returned" => pc[q] # "returned"
                            /\ pc'[q] \in Alive => pc[q] \in Alive,
         \/ UNCHANGED phase
         \/ /\ phase \in {"measuring", "done"}
            /\ phase' \in {"measuring", "done", "closed"}
  PROVE  CInv'
<1>1. UNCHANGED <<args, result, cache, query_counter, total_queries, failed_resolvers>>
  BY DEF countVars
<1>2. (phase = "warmup") = (phase' = "warmup")
  OBVIOUS
<1>3. Current' = Current
  BY <1>1, <1>2 DEF Current, Warm, Measured, Asked
<1>4. CountsTyped' /\ ResultsAreFinal' /\ AliveIsCurrent' /\ HitsAreEarned'
  BY <1>1, <1>2, <1>3
     DEF CInv, CountsTyped, ResultsAreFinal, AliveIsCurrent, HitsAreEarned, Returned
<1>5. CountedOnce'
  BY <1>1, <1>3 DEF CInv, CountedOnce, Current, Returned
<1>6. QED
  BY <1>4, <1>5 DEF CInv

LEMMA NextCounts ==
  ASSUME CInv, IInv, [Next]_vars
  PROVE  CInv'
<1>. USE DEF taskVars
<1>1. CASE \E q \in Queries : Step(q)
  BY <1>1, StepCounts
<1>2. CASE \E c \in Connections : Arrive(c)
  <2>1. PICK c \in Connections : Arrive(c)
    BY <1>2
  <2>2. UNCHANGED <<args, phase, result, cache, countVars>>
    BY <2>1 DEF Arrive
  <2>3. \A q \in Queries : pc'[q] = pc[q] \/ pc[q] = "waiting"
    BY <2>1, NobodyFacts DEF Arrive, IInv, WaiterWaits
  <2>4. \A q \in Queries : /\ pc'[q] # "returned" => pc[q] # "returned"
                           /\ pc'[q] \in Alive => pc[q] \in Alive
    BY <2>3 DEF Alive, Reading
  <2>5. QED
    BY <2>2, <2>4, RestCounts
<1>3. CASE EndWarmup
  BY <1>3, EndWarmupCounts
<1>4. CASE EndRun
  BY <1>4, RestCounts DEF EndRun
<1>5. CASE Close
  BY <1>5, RestCounts DEF Close
<1>6. CASE UNCHANGED vars \/ \E c \in Connections : PeerCloses(c)
  BY <1>6, RestCounts DEF vars, PeerCloses
<1>7. QED
  BY <1>1, <1>2, <1>3, <1>4, <1>5, <1>6 DEF Next, Run

(* However many resolvers, questions, iterations and retries, every query  *)
(* that returned is counted once in the progress of its phase and, if it   *)
(* failed, once for its resolver (891-892, 901 of core.py), and what comes *)
(* from the cache is an answer that a query got from that resolver to that *)
(* question, with success (251-265, 324-337).                              *)
THEOREM CountsStayRight == Spec => []CountsAndHits
<1>1. Init => CInv
  BY CountsInit
<1>2. CInv /\ IInv /\ [Next]_vars => CInv'
  BY NextCounts
<1>3. CInv /\ IInv => CountsAndHits
  <2>1. CInv /\ IInv => query_counter \in Nat
    <3>1. (Done \cap Current) \in SUBSET Queries
      BY DEF Done, Returned
    <3>2. QED
      BY <3>1, SubsetsAreCounted DEF CInv, CountedOnce, Done, Current
  <2>2. CInv /\ IInv => TypeOK
    BY <2>1 DEF CInv, CountsTyped, IInv, Typed, StreamTyped, TypeOK, Steps,
                MaybeConnection, MaybeQuery
  <2>3. QED
    BY <2>2 DEF CInv, CountsAndHits
<1>4. QED
  BY <1>1, <1>2, <1>3, Invariance, PTL DEF Spec

===============================================================================
